------------------------------ MODULE NotifyShm ------------------------------
(***************************************************************************)
(* Data-change notifications through shared memory (MemStore: publisher in *)
(* server/mms_notify_shm_server.cpp, consumer in                           *)
(* client/mms_notify_shm_client.cpp, queue in common/mms_notify_shm.cpp).  *)
(* A subscription is a session with a queue of its own: producers of the   *)
(* server reserve positions by compare-and-swap, fill the slots and        *)
(* publish each by its sequence number; one worker of the client reads     *)
(* them in order.  Without busy polling the worker sleeps on a semaphore   *)
(* eventfd.  One shard is modelled: producers that share it are the case   *)
(* of interest.                                                            *)
(***************************************************************************)
EXTENDS Integers, Sequences, FiniteSets, FiniteSetTheorems, TLAPS

CONSTANTS
  Producer, Depth, BatchNum, MaxEvent, MaxSession,
  Modes,      \* the values of busyPolling
  MaxCrash, MaxStop, MaxSendFail

VARIABLES
  busyPolling,
  queue,      \* per session: state, enqueuePos, dequeuePos, slots, tokens of the eventfd
  mActiveSession,
  producer,   \* per producer thread: its place, batch and cached values
  accept,     \* the accept thread: "idle", or the session it has to send
  client,     \* the client: its session, its worker, mStopping, mRunning
  owner,      \* per session, the client process it was made for (a number)
  process,    \* the number of the client process; raised by a restart
  next,       \* the next event
  placed,     \* per session, the events in the order of their positions
  delivered,  \* per session, the events given to the callback
  left

vars == <<busyPolling, queue, mActiveSession, producer, accept, client, owner, process, next, placed, delivered, left>>

Session == 1 .. MaxSession
Slot == 0 .. Depth - 1
Word == 65536   \* stands for 2^64

Idle == [at |-> "idle", session |-> 0, items |-> <<>>, pos |-> 0, cached |-> 0, index |-> 0]
NoClient == [session |-> 0, at |-> "none", stopping |-> FALSE, event |-> 0]

(* NotifyShmQueue::Initialize *)
NewQueue == [state |-> "ACTIVE", enq |-> 0, deq |-> 0, tokens |-> 0,
             slot |-> [i \in Slot |-> [sequence |-> i, event |-> 0]]]

Init ==
  /\ busyPolling \in Modes
  /\ queue = [s \in {} |-> NewQueue]
  /\ mActiveSession = 0
  /\ producer = [p \in Producer |-> Idle]
  /\ accept = 0
  /\ client = NoClient
  /\ owner = <<>>
  /\ process = 1
  /\ next = 1
  /\ placed = [s \in Session |-> <<>>]
  /\ delivered = [s \in Session |-> <<>>]
  /\ left = [crash |-> MaxCrash, stop |-> MaxStop, send |-> MaxSendFail]

Close(q, s) == [q EXCEPT ![s].state = "CLOSED"]
IsValid(s) == queue[s].state = "ACTIVE"
Goes(p, r) == producer' = [producer EXCEPT ![p] = r]

-----------------------------------------------------------------------------
(* AcceptLoop and HandleClient: a connecting client gets a session that is *)
(* made active, and the former one closed, before it is sent.              *)
HandleClient ==
  /\ client = NoClient /\ accept = 0
  /\ Len(owner) < MaxSession
  /\ LET s == Len(owner) + 1
         q == [t \in DOMAIN queue \cup {s} |-> IF t = s THEN NewQueue ELSE queue[t]] IN
     /\ queue' = IF mActiveSession = 0 THEN q ELSE Close(q, mActiveSession)
     /\ mActiveSession' = s
     /\ accept' = s
     /\ owner' = Append(owner, process)
  /\ client' = [client EXCEPT !.at = "connect"]
  /\ UNCHANGED <<busyPolling, producer, process, next, placed, delivered, left>>

(* SendSubscription arrives, and the client maps the queue and starts its  *)
(* worker; or it fails (the client may be dead) and CloseSubscription      *)
(* takes back what is active.                                              *)
SendSubscription ==
  /\ accept # 0
  /\ accept' = 0
  /\ \/ /\ client.at = "connect"
        /\ client' = [NoClient EXCEPT !.session = accept, !.at = "wait"]
        /\ UNCHANGED <<queue, mActiveSession, left>>
     \/ /\ client.at # "connect" \/ left.send > 0
        /\ left' = IF client.at # "connect" THEN left ELSE [left EXCEPT !.send = @ - 1]
        /\ queue' = IF mActiveSession = 0 THEN queue ELSE Close(queue, mActiveSession)
        /\ mActiveSession' = 0
        /\ client' = IF client.at = "connect" THEN NoClient ELSE client
  /\ UNCHANGED <<busyPolling, producer, owner, process, next, placed, delivered>>

-----------------------------------------------------------------------------
Done(r) == [r EXCEPT !.at = "idle", !.items = <<>>, !.index = 0]

(* PublishBatch; without a subscription nothing is to be done.  The        *)
(* positions a thread has seen last in this queue are kept with the        *)
(* thread.                                                                 *)
PublishBatch(p, n) ==
  /\ producer[p].at = "idle" /\ mActiveSession # 0
  /\ next + n <= MaxEvent + 1
  /\ next' = next + n
  /\ LET r == IF producer[p].session = mActiveSession THEN producer[p]
               ELSE [Idle EXCEPT !.session = mActiveSession, !.cached = queue[mActiveSession].deq] IN
     Goes(p, [r EXCEPT !.at = "load", !.items = [i \in 1 .. n |-> next + i - 1]])
  /\ UNCHANGED <<busyPolling, queue, mActiveSession, accept, client, owner, process, placed, delivered, left>>

(* ReserveSlots, the top of its loop.  The load is relaxed: it may return  *)
(* the value seen before.  A closed queue ends the call, and the session   *)
(* is dropped if it is still the active one.                               *)
LoadPos(p) ==
  /\ producer[p].at = "load"
  /\ LET s == producer[p].session IN
     IF IsValid(s)
       THEN /\ \E pos \in {queue[s].enq, producer[p].pos} : Goes(p, [producer[p] EXCEPT !.at = "check", !.pos = pos])
            /\ UNCHANGED mActiveSession
       ELSE /\ Goes(p, Done(producer[p]))
            /\ mActiveSession' = IF mActiveSession = s THEN 0 ELSE mActiveSession
  /\ UNCHANGED <<busyPolling, queue, accept, client, owner, process, next, placed, delivered, left>>

Exceeds(pos, deq, n) == (pos - deq + n) % Word > Depth

(* The check against the cached position, and against the real one when    *)
(* that fails.                                                             *)
CheckRoom(p) ==
  /\ producer[p].at = "check"
  /\ LET r == producer[p]
         n == Len(r.items)
         reload == r.cached > r.pos \/ Exceeds(r.pos, r.cached, n)
         deq == IF reload THEN queue[r.session].deq ELSE r.cached IN
     Goes(p, [r EXCEPT !.cached = deq,
              !.at = IF reload /\ Exceeds(r.pos, deq, n) THEN "full" ELSE "cas"])
  /\ UNCHANGED <<busyPolling, queue, mActiveSession, accept, client, owner, process, next, placed, delivered, left>>

(* EnqueueBatch on a full queue: it spins, and from time to time looks     *)
(* whether the client is alive.                                            *)
QueueFull(p) ==
  /\ producer[p].at = "full"
  /\ LET s == producer[p].session IN
     \/ UNCHANGED queue
     \/ owner[s] # process /\ queue' = Close(queue, s)
  /\ Goes(p, [producer[p] EXCEPT !.at = "load"])
  /\ UNCHANGED <<busyPolling, mActiveSession, accept, client, owner, process, next, placed, delivered, left>>

(* The compare-and-swap of enqueuePos. *)
ReserveSlots(p) ==
  /\ producer[p].at = "cas"
  /\ LET r == producer[p]
         s == r.session IN
     IF queue[s].enq = r.pos
       THEN /\ queue' = [queue EXCEPT ![s].enq = r.pos + Len(r.items)]
            /\ placed' = [placed EXCEPT ![s] = @ \o r.items]
            /\ Goes(p, [r EXCEPT !.at = "publish", !.index = 1])
       ELSE /\ Goes(p, [r EXCEPT !.at = "load", !.pos = queue[s].enq])
            /\ UNCHANGED <<queue, placed>>
  /\ UNCHANGED <<busyPolling, mActiveSession, accept, client, owner, process, next, delivered, left>>

(* PublishSlots, one slot: the event, then its sequence number. *)
PublishSlots(p) ==
  /\ producer[p].at = "publish"
  /\ LET r == producer[p]
         pos == r.pos + r.index - 1 IN
     /\ queue' = [queue EXCEPT ![r.session].slot[pos % Depth] = [sequence |-> pos + 1, event |-> r.items[r.index]]]
     /\ Goes(p, IF r.index < Len(r.items) THEN [r EXCEPT !.index = @ + 1]
                ELSE IF busyPolling THEN Done(r) ELSE [r EXCEPT !.at = "signal"])
  /\ UNCHANGED <<busyPolling, mActiveSession, accept, client, owner, process, next, placed, delivered, left>>

(* The eventfd gets as many tokens as events were published. *)
Signal(p) ==
  /\ producer[p].at = "signal"
  /\ queue' = [queue EXCEPT ![producer[p].session].tokens = @ + Len(producer[p].items)]
  /\ Goes(p, Done(producer[p]))
  /\ UNCHANGED <<busyPolling, mActiveSession, accept, client, owner, process, next, placed, delivered, left>>

-----------------------------------------------------------------------------
(* WorkerMain.  It leaves when it is told to stop. *)
WorkerStops ==
  /\ client.at = "wait" /\ client.stopping
  /\ client' = [client EXCEPT !.at = "gone"]
  /\ UNCHANGED <<busyPolling, queue, mActiveSession, producer, accept, owner, process, next, placed, delivered, left>>

(* WaitEvent *)
WaitEvent ==
  /\ client.at = "wait" /\ ~client.stopping
  /\ IF busyPolling THEN UNCHANGED queue
     ELSE queue[client.session].tokens > 0 /\ queue' = [queue EXCEPT ![client.session].tokens = @ - 1]
  /\ client' = [client EXCEPT !.at = "dequeue"]
  /\ UNCHANGED <<busyPolling, mActiveSession, producer, accept, owner, process, next, placed, delivered, left>>

(* DequeueSingleConsumer: closed, nothing published at the position, or an *)
(* event.                                                                  *)
Dequeue ==
  /\ client.at = "dequeue"
  /\ LET q == queue[client.session] IN
     client' = [client EXCEPT !.at =
       IF q.state # "ACTIVE" THEN "gone"
       ELSE IF q.slot[q.deq % Depth].sequence # q.deq + 1 THEN "wait" ELSE "copy"]
  /\ UNCHANGED <<busyPolling, queue, mActiveSession, producer, accept, owner, process, next, placed, delivered, left>>

CopyEvent ==
  /\ client.at = "copy"
  /\ LET q == queue[client.session] IN
     client' = [client EXCEPT !.at = "release", !.event = q.slot[q.deq % Depth].event]
  /\ UNCHANGED <<busyPolling, queue, mActiveSession, producer, accept, owner, process, next, placed, delivered, left>>

(* ReleaseSlot, the new dequeuePos, then the callback. *)
ReleaseSlot ==
  /\ client.at = "release"
  /\ LET s == client.session
         q == queue[s] IN
     /\ queue' = [queue EXCEPT ![s].slot[q.deq % Depth].sequence = q.deq + Depth, ![s].deq = @ + 1]
     /\ delivered' = [delivered EXCEPT ![s] = Append(@, client.event)]
  /\ client' = [client EXCEPT !.at = "wait", !.event = 0]
  /\ UNCHANGED <<busyPolling, mActiveSession, producer, accept, owner, process, next, placed, left>>

-----------------------------------------------------------------------------
(* MmsNotifyShmConsumer::Stop: close the queue, wake the worker, ... *)
Stop ==
  /\ left.stop > 0 /\ client.session # 0 /\ ~client.stopping
  /\ left' = [left EXCEPT !.stop = @ - 1]
  /\ client' = [client EXCEPT !.stopping = TRUE]
  /\ LET q == Close(queue, client.session) IN
     queue' = IF busyPolling THEN q ELSE [q EXCEPT ![client.session].tokens = @ + 1]
  /\ UNCHANGED <<busyPolling, mActiveSession, producer, accept, owner, process, next, placed, delivered>>

(* ... join it, unmap. *)
Joined ==
  /\ client.stopping /\ client.at = "gone"
  /\ client' = NoClient
  /\ UNCHANGED <<busyPolling, queue, mActiveSession, producer, accept, owner, process, next, placed, delivered, left>>

(* The client process dies, and another one takes its place. *)
Crash ==
  /\ left.crash > 0 /\ client # NoClient
  /\ left' = [left EXCEPT !.crash = @ - 1]
  /\ client' = NoClient
  /\ process' = process + 1
  /\ UNCHANGED <<busyPolling, queue, mActiveSession, producer, accept, owner, next, placed, delivered>>

Next ==
  \/ HandleClient \/ SendSubscription
  \/ \E p \in Producer :
       \/ \E n \in 1 .. BatchNum : PublishBatch(p, n)
       \/ LoadPos(p) \/ CheckRoom(p) \/ QueueFull(p) \/ ReserveSlots(p) \/ PublishSlots(p) \/ Signal(p)
  \/ WorkerStops \/ WaitEvent \/ Dequeue \/ CopyEvent \/ ReleaseSlot
  \/ Stop \/ Joined \/ Crash

Spec == Init /\ [][Next]_vars

-----------------------------------------------------------------------------
(* What the callback gets is, event by event, what was placed at the       *)
(* positions of the session's queue: no event is skipped, repeated, or     *)
(* overwritten before the worker has copied it, with producers that share  *)
(* the queue, stale positions and batches (ReserveSlots, PublishSlots,     *)
(* DequeueSingleConsumer).                                                 *)
NotifyIntact ==
  \A s \in Session :
    /\ Len(delivered[s]) <= Len(placed[s])
    /\ \A k \in 1 .. Len(delivered[s]) : delivered[s][k] = placed[s][k]

(* "0 means no notification, otherwise the change is notified"             *)
(* (memstore_api_reference.md, isNotify): once all producers are done and  *)
(* the worker sleeps, every event of its open queue has been delivered.    *)
AllNotified ==
  /\ \A p \in Producer : producer[p].at = "idle"
  /\ client.at = "wait" /\ ~client.stopping /\ IsValid(client.session)
  /\ ~busyPolling /\ queue[client.session].tokens = 0
  => delivered[client.session] = placed[client.session]

-----------------------------------------------------------------------------
(* The queue is sound for any number of producers, sessions and events, any *)
(* depth and batch, as long as positions do not wrap.                       *)

(* What is assumed of the constants: fewer events than positions.          *)
NotifyConstants ==
  /\ Depth \in Nat \ {0} /\ BatchNum \in Nat /\ MaxSession \in Nat
  /\ MaxEvent \in Nat /\ MaxEvent + BatchNum < Word
  /\ Modes \subseteq BOOLEAN

Made == 1 .. Len(owner)
Slots == [Slot -> [sequence : Nat, event : Nat]]
Queues == [state : {"ACTIVE", "CLOSED"}, enq : Nat, deq : Nat, tokens : Nat, slot : Slots]
Places == {"idle", "load", "check", "full", "cas", "publish", "signal"}
Producers == [at : Places, session : Nat, items : Seq(Nat), pos : Nat, cached : Nat, index : Nat]
Clients == [session : Nat, at : {"none", "connect", "wait", "dequeue", "copy", "release", "gone"},
            stopping : BOOLEAN, event : Nat]

NotifyTypes ==
  /\ busyPolling \in BOOLEAN /\ owner \in Seq(Nat) /\ process \in Nat /\ Made \subseteq Session
  /\ queue \in [Made -> Queues]
  /\ mActiveSession \in Made \cup {0} /\ accept \in Made \cup {0}
  /\ producer \in [Producer -> Producers]
  /\ \A p \in Producer : producer[p].session \in Made \cup {0}
  /\ \A p \in Producer : producer[p].at # "idle" => producer[p].session # 0
  /\ client \in Clients /\ client.session \in Made \cup {0}
  /\ client.at \notin {"none", "connect"} => client.session # 0
  /\ next \in Nat /\ 1 <= next /\ next <= MaxEvent + 1
  /\ placed \in [Session -> Seq(Nat)] /\ delivered \in [Session -> Seq(Nat)]

(* The positions of a queue: what was placed, and what was delivered of it. *)
Positions ==
  /\ \A s \in Made :
       /\ Len(placed[s]) = queue[s].enq /\ Len(delivered[s]) = queue[s].deq
       /\ queue[s].deq <= queue[s].enq /\ queue[s].enq <= queue[s].deq + Depth
       /\ \A k \in 1 .. queue[s].deq : delivered[s][k] = placed[s][k]
  /\ \A s \in Session \ Made : placed[s] = <<>> /\ delivered[s] = <<>>

(* Position i of session s is reserved by producer p and not yet published. *)
Owes(r, s, i) ==
  /\ r.at = "publish" /\ r.session = s
  /\ r.pos + r.index <= i + 1 /\ i < r.pos + Len(r.items)
Pending(p, s, i) == Owes(producer[p], s, i)

(* A slot belongs to the one position of the window that falls on it.  It  *)
(* says whether that position is published, and then has its event.        *)
SlotsTell ==
  \A s \in Made : \A i \in queue[s].deq .. queue[s].deq + Depth - 1 :
    IF i < queue[s].enq /\ \A p \in Producer : ~Pending(p, s, i)
    THEN queue[s].slot[i % Depth] = [sequence |-> i + 1, event |-> placed[s][i + 1]]
    ELSE queue[s].slot[i % Depth].sequence = i

(* A producer that publishes has reserved the positions it has left.       *)
Reserved ==
  \A p \in Producer : producer[p].at = "publish" =>
    LET r == producer[p] IN
    /\ r.index \in 1 .. Len(r.items)
    /\ queue[r.session].deq + 1 <= r.pos + r.index /\ r.pos + Len(r.items) <= queue[r.session].enq
    /\ \A k \in r.index .. Len(r.items) : placed[r.session][r.pos + k] = r.items[k]
ReservedOnce ==
  \A p, q \in Producer : \A s \in Made : \A i \in Nat : Pending(p, s, i) /\ Pending(q, s, i) => p = q

(* A cached dequeue position is an old one; a producer that has found room *)
(* has room if nobody else reserves.                                       *)
Cached ==
  \A p \in Producer :
    /\ producer[p].session # 0 => producer[p].cached <= queue[producer[p].session].deq
    /\ producer[p].at = "cas" => ~Exceeds(producer[p].pos, producer[p].cached, Len(producer[p].items))

(* The worker copies a slot that is published.                             *)
Copying ==
  LET q == queue[client.session] IN
  /\ client.at \in {"copy", "release"} => q.slot[q.deq % Depth].sequence = q.deq + 1
  /\ client.at = "release" => client.event = placed[client.session][q.deq + 1]

(* No event is placed twice, so no queue has more positions than events.   *)
Holds(p) == producer[p].at \in {"load", "check", "full", "cas"}
Once(m, nx, pl) ==
  /\ \A s \in m : \A k \in 1 .. Len(pl[s]) : pl[s][k] \in 1 .. nx - 1
  /\ \A s \in m : \A k, l \in 1 .. Len(pl[s]) : pl[s][k] = pl[s][l] => k = l
Fresh(v, m, nx, pl) ==
  /\ Len(v) \in 1 .. BatchNum
  /\ \A k \in 1 .. Len(v) : v[k] \in 1 .. nx - 1
  /\ \A k, l \in 1 .. Len(v) : v[k] = v[l] => k = l
  /\ \A s \in m : \A k \in 1 .. Len(v) : \A l \in 1 .. Len(pl[s]) : v[k] # pl[s][l]
Apart(v, w) == \A k \in 1 .. Len(v) : \A l \in 1 .. Len(w) : v[k] # w[l]
EventsOnce ==
  /\ Once(Made, next, placed)
  /\ \A p \in Producer : Holds(p) => Fresh(producer[p].items, Made, next, placed)
  /\ \A p, q \in Producer : Holds(p) /\ Holds(q) /\ p # q => Apart(producer[p].items, producer[q].items)

NotifyInv ==
  /\ NotifyTypes /\ Positions /\ SlotsTell /\ Reserved /\ ReservedOnce
  /\ Cached /\ Copying /\ EventsOnce

-----------------------------------------------------------------------------
(* A position, its slot and its round.                                    *)
LEMMA ModDiv ==
  ASSUME NEW d \in Nat \ {0}, NEW a \in Nat
  PROVE  (a % d) \in 0 .. d - 1 /\ (a \div d) \in Int /\ (a % d) = a - (d * (a \div d))
BY SMT, ZenonT(30)

(* Two positions of one window fall on different slots.                    *)
LEMMA ModApart ==
  ASSUME NEW d \in Nat \ {0}, NEW a \in Nat, NEW b \in Nat, a < b, b < a + d
  PROVE  (a % d) # (b % d)
<1>1. PICK x \in Int : (a % d) = a - (d * x)
  BY ModDiv, ZenonT(30)
<1>2. PICK y \in Int : (b % d) = b - (d * y)
  BY ModDiv, ZenonT(30)
<1>3. ASSUME (a % d) = (b % d) PROVE FALSE
  <2>1. b - a = (d * y) - (d * x) /\ d * x \in Int /\ d * y \in Int
    BY <1>1, <1>2, <1>3
  <2>2. CASE y <= x
    <3>1. d * y <= d * x
      BY <2>2
    <3> QED
      BY <2>1, <3>1
  <2>3. CASE y >= x + 1
    <3>1. d * y >= (d * x) + d
      BY <2>3
    <3> QED
      BY <2>1, <3>1
  <2> QED
    BY <2>2, <2>3
<1> QED
  BY <1>3

(* A position and the one a window later fall on the same slot.            *)
LEMMA ModNext ==
  ASSUME NEW d \in Nat \ {0}, NEW a \in Nat
  PROVE  ((a + d) % d) = (a % d)
<1>1. PICK x \in Int : (a % d) = a - (d * x) /\ (a % d) \in 0 .. d - 1
  BY ModDiv, ZenonT(30)
<1> PICK c \in Nat : c = a + d
  OBVIOUS
<1>2. PICK y \in Int : (c % d) = c - (d * y) /\ (c % d) \in 0 .. d - 1
  BY ModDiv, ZenonT(30)
<1>3. d * x \in Int /\ d * y \in Int
  OBVIOUS
<1>4. ~(y <= x)
  <2> SUFFICES ASSUME y <= x PROVE FALSE
    OBVIOUS
  <2>1. d * y <= d * x
    OBVIOUS
  <2> QED
    BY <1>1, <1>2, <1>3, <2>1
<1>5. ~(y >= x + 2)
  <2> SUFFICES ASSUME y >= x + 2 PROVE FALSE
    OBVIOUS
  <2>1. d * y >= (d * x) + d + d
    OBVIOUS
  <2> QED
    BY <1>1, <1>2, <1>3, <2>1
<1>6. y = x + 1
  BY <1>4, <1>5
<1>7. d * y = (d * x) + d
  BY <1>6
<1> QED
  BY <1>1, <1>2, <1>3, <1>7

LEMMA ModSmall ==
  ASSUME NEW d \in Nat \ {0}, NEW a \in Nat, a < d
  PROVE  (a % d) = a
<1>1. PICK x \in Int : (a % d) = a - (d * x) /\ (a % d) \in 0 .. d - 1
  BY ModDiv, ZenonT(30)
<1>2. ~(x >= 1)
  <2> SUFFICES ASSUME x >= 1 PROVE FALSE
    OBVIOUS
  <2>1. d * x >= d /\ d * x \in Int
    OBVIOUS
  <2> QED
    BY <1>1, <2>1
<1>3. ~(x <= 0 - 1)
  <2> SUFFICES ASSUME x <= 0 - 1 PROVE FALSE
    OBVIOUS
  <2>1. d * x <= 0 - d /\ d * x \in Int
    OBVIOUS
  <2> QED
    BY <1>1, <2>1
<1>4. x = 0
  BY <1>2, <1>3
<1> QED
  BY <1>1, <1>4

(* What is in a window is a position.                                      *)
LEMMA InWindow ==
  ASSUME NEW d \in Nat, NEW m \in Nat, NEW i \in d .. d + m - 1
  PROVE  i \in Nat
OBVIOUS

LEMMA ModSlot ==
  ASSUME NotifyConstants, NEW a \in Nat
  PROVE  a % Depth \in Slot
BY DEF NotifyConstants, Slot

(* Initially there is no session.                                          *)
LEMMA NotifyFirst ==
  ASSUME NotifyConstants, Init
  PROVE  NotifyInv
<1>1. Len(owner) = 0 /\ Made = {}
  BY DEF Init, Made
<1>2. \A p \in Producer : producer[p] = Idle
  BY DEF Init
<1>3. NotifyTypes
  <2>1. Idle \in Producers
    BY DEF Idle, Producers, Places
  <2>2. NoClient \in Clients
    BY DEF NoClient, Clients
  <2>3. queue \in [Made -> Queues]
    BY <1>1 DEF Init
  <2>4. producer \in [Producer -> Producers]
    BY <2>1 DEF Init
  <2>5. placed \in [Session -> Seq(Nat)] /\ delivered \in [Session -> Seq(Nat)]
    BY DEF Init
  <2>6. owner \in Seq(Nat) /\ busyPolling \in BOOLEAN
    BY DEF Init, NotifyConstants
  <2> QED
    BY <1>1, <1>2, <2>2, <2>3, <2>4, <2>5, <2>6 DEF Init, NotifyTypes, NotifyConstants, Idle, NoClient
<1>4. Positions
  BY <1>1 DEF Init, Positions
<1>5. SlotsTell /\ ReservedOnce
  BY <1>1 DEF SlotsTell, ReservedOnce
<1>6. Reserved
  BY <1>2 DEF Reserved, Idle
<1>7. Cached
  BY <1>2 DEF Cached, Idle
<1>8. Copying
  BY DEF Init, Copying, NoClient
<1>9. EventsOnce
  BY <1>1, <1>2 DEF EventsOnce, Once, Fresh, Apart, Holds, Idle
<1> QED
  BY <1>3, <1>4, <1>5, <1>6, <1>7, <1>8, <1>9 DEF NotifyInv

(* No queue has had more events than there are.                            *)
LEMMA FewPositions ==
  ASSUME NotifyConstants, NotifyInv, NEW s \in Made
  PROVE  queue[s].enq <= MaxEvent
<1>1. s \in Session /\ placed[s] \in Seq(Nat) /\ queue[s].enq \in Nat /\ queue[s].enq = Len(placed[s])
  BY DEF NotifyInv, NotifyTypes, Positions, Queues
<1>2. MaxEvent \in Nat /\ next \in Nat /\ next <= MaxEvent + 1
  BY DEF NotifyConstants, NotifyInv, NotifyTypes
<1>3. SUFFICES ASSUME queue[s].enq > MaxEvent PROVE FALSE
  BY <1>1, <1>2
<1> DEFINE n == Len(placed[s])
<1>4. n \in Nat /\ n > MaxEvent
  BY <1>1, <1>3
<1>5. placed[s] \in [1 .. n -> 1 .. MaxEvent]
  <2>1. placed[s] \in [1 .. n -> Nat]
    BY <1>1
  <2>2. \A k \in 1 .. n : placed[s][k] \in 1 .. MaxEvent
    BY <1>2 DEF NotifyInv, EventsOnce, Once, Fresh, Apart
  <2> QED
    BY <2>1, <2>2
<1>6. IsFiniteSet(1 .. n) /\ Cardinality(1 .. n) = n
  BY <1>4, FS_Interval
<1>7. IsFiniteSet(1 .. MaxEvent) /\ Cardinality(1 .. MaxEvent) = MaxEvent
  BY <1>2, FS_Interval
<1> HIDE DEF n
<1>8. \E k, l \in 1 .. n : k # l /\ placed[s][k] = placed[s][l]
  <2>1. PICK f \in [1 .. n -> 1 .. MaxEvent] : f = placed[s]
    BY <1>5
  <2>2. Cardinality(1 .. MaxEvent) < Cardinality(1 .. n)
    BY <1>2, <1>4, <1>6, <1>7
  <2>3. \E k, l \in 1 .. n : k # l /\ f[k] = f[l]
    BY <1>6, <1>7, <2>2, FS_PigeonHole, ZenonT(30)
  <2> QED
    BY <2>1, <2>3
<1> QED
  BY <1>8 DEF NotifyInv, EventsOnce, Once, Fresh, Apart, n

-----------------------------------------------------------------------------
(* A step that leaves positions, slots and publishing producers alone.     *)
QuietQueues ==
  /\ owner' = owner /\ placed' = placed /\ delivered' = delivered
  /\ \A s \in Made : queue'[s].enq = queue[s].enq /\ queue'[s].deq = queue[s].deq /\ queue'[s].slot = queue[s].slot
QuietProducers ==
  \A p \in Producer : producer[p].at = "publish" \/ producer'[p].at = "publish" => producer'[p] = producer[p]

LEMMA QuietRing ==
  ASSUME NotifyInv, QuietQueues, QuietProducers
  PROVE  Positions' /\ SlotsTell' /\ Reserved' /\ ReservedOnce'
<1>1. Made' = Made
  BY DEF QuietQueues, Made
<1>2. \A p \in Producer : \A s, i : Pending(p, s, i)' = Pending(p, s, i)
  BY DEF QuietProducers, Pending, Owes
<1>3. Positions'
  BY <1>1 DEF NotifyInv, Positions, QuietQueues, Session
<1>4. SlotsTell'
  <2> SUFFICES ASSUME NEW s \in Made, NEW i \in queue[s].deq .. queue[s].deq + Depth - 1
               PROVE  IF i < queue[s].enq /\ \A p \in Producer : ~Pending(p, s, i)
                      THEN queue[s].slot[i % Depth] = [sequence |-> i + 1, event |-> placed[s][i + 1]]
                      ELSE queue[s].slot[i % Depth].sequence = i
    BY <1>1, <1>2, SMTT(30) DEF QuietQueues, SlotsTell
  <2> QED
    BY DEF NotifyInv, SlotsTell
<1>5. Reserved'
  <2> SUFFICES ASSUME NEW p \in Producer, producer'[p].at = "publish"
               PROVE  LET r == producer'[p] IN
                      /\ r.index \in 1 .. Len(r.items)
                      /\ queue'[r.session].deq + 1 <= r.pos + r.index /\ r.pos + Len(r.items) <= queue'[r.session].enq
                      /\ \A k \in r.index .. Len(r.items) : placed'[r.session][r.pos + k] = r.items[k]
    BY DEF Reserved
  <2>1. producer'[p] = producer[p] /\ producer[p].at = "publish"
    BY DEF QuietProducers
  <2>2. producer[p].session \in Made
    BY <2>1 DEF NotifyInv, NotifyTypes
  <2> QED
    BY <2>1, <2>2, ZenonT(30) DEF NotifyInv, Reserved, QuietQueues
<1>6. ReservedOnce'
  BY <1>1, <1>2 DEF NotifyInv, ReservedOnce
<1> QED
  BY <1>3, <1>4, <1>5, <1>6

(* A step of the client or of the accept thread that moves no position.    *)
LEMMA ClientQuiet ==
  ASSUME NotifyInv, QuietQueues, producer' = producer, next' = next
  PROVE  Positions' /\ SlotsTell' /\ Reserved' /\ ReservedOnce' /\ Cached' /\ EventsOnce'
<1>1. Made' = Made
  BY DEF QuietQueues, Made
<1>2. QuietProducers
  BY DEF QuietProducers
<1>3. Positions' /\ SlotsTell' /\ Reserved' /\ ReservedOnce'
  BY <1>2, QuietRing
<1>4. Cached'
  <2> SUFFICES ASSUME NEW p \in Producer
               PROVE  /\ producer[p].session # 0 => producer[p].cached <= queue'[producer[p].session].deq
                      /\ producer[p].at = "cas" => ~Exceeds(producer[p].pos, producer[p].cached, Len(producer[p].items))
    BY DEF Cached, Exceeds
  <2>1. producer[p].session # 0 => producer[p].session \in Made
    BY DEF NotifyInv, NotifyTypes
  <2> QED
    BY <2>1 DEF NotifyInv, Cached, QuietQueues
<1>5. EventsOnce'
  BY <1>1, SMTT(30) DEF NotifyInv, EventsOnce, Once, Fresh, Apart, Holds, QuietQueues
<1> QED
  BY <1>3, <1>4, <1>5

(* Nothing is placed and nobody takes a new batch.                         *)
LEMMA NothingPlaced ==
  ASSUME EventsOnce, placed' = placed, next' = next, Made' = Made,
         \A q \in Producer : Holds(q)' => Holds(q) /\ producer'[q].items = producer[q].items
  PROVE  EventsOnce'
<1>1. /\ Once(Made', next', placed')
      /\ \A q \in Producer : Holds(q)' => Fresh(producer'[q].items, Made', next', placed')
      /\ \A q, u \in Producer : Holds(q)' /\ Holds(u)' /\ q # u => Apart(producer'[q].items, producer'[u].items)
  BY DEF EventsOnce
<1> QED
  BY <1>1, ZenonT(30) DEF EventsOnce

(* A step of producer p that moves no position and gives it no new events. *)
LEMMA ProducerQuiet ==
  ASSUME NotifyInv, QuietQueues, client' = client, next' = next, NEW p \in Producer, NEW r \in Producers,
         producer' = [producer EXCEPT ![p] = r], producer[p].at # "publish", r.at # "publish",
         r.session = producer[p].session, r.cached <= queue[r.session].deq,
         r.at = "cas" => ~Exceeds(r.pos, r.cached, Len(r.items)),
         r.at \in {"load", "check", "full", "cas"} => Holds(p) /\ r.items = producer[p].items
  PROVE  Positions' /\ SlotsTell' /\ Reserved' /\ ReservedOnce' /\ Cached' /\ Copying' /\ EventsOnce'
<1>1. Made' = Made
  BY DEF QuietQueues, Made
<1>2. producer'[p] = r /\ \A q \in Producer \ {p} : producer'[q] = producer[q]
  BY DEF NotifyInv, NotifyTypes
<1>3. QuietProducers
  BY <1>2, ZenonT(30) DEF QuietProducers
<1>4. Positions' /\ SlotsTell' /\ Reserved' /\ ReservedOnce'
  BY <1>3, QuietRing
<1>5. Cached'
  <2> SUFFICES ASSUME NEW q \in Producer
               PROVE  /\ producer'[q].session # 0 => producer'[q].cached <= queue'[producer'[q].session].deq
                      /\ producer'[q].at = "cas" => ~Exceeds(producer'[q].pos, producer'[q].cached, Len(producer'[q].items))
    BY ZenonT(30) DEF Cached, Exceeds
  <2>1. producer[q].session # 0 => producer[q].session \in Made
    BY ZenonT(30) DEF NotifyInv, NotifyTypes
  <2>2. producer'[q].session = producer[q].session
    BY <1>2, ZenonT(30)
  <2> QED
    BY <1>2, <2>1, <2>2, SMTT(30) DEF NotifyInv, Cached, QuietQueues
<1>6. Copying'
  <2>1. client.at \in {"copy", "release"} => client.session \in Made
    BY DEF NotifyInv, NotifyTypes
  <2> QED
    BY <2>1, ZenonT(30) DEF NotifyInv, Copying, QuietQueues
<1>7. EventsOnce'
  <2>1. \A q \in Producer : Holds(q)' => Holds(q) /\ producer'[q].items = producer[q].items
    BY <1>2, ZenonT(30) DEF Holds
  <2>2. placed' = placed /\ next' = next /\ EventsOnce
    BY DEF NotifyInv, QuietQueues
  <2> QED
    BY <1>1, <2>1, <2>2, NothingPlaced, ZenonT(30)
<1> QED
  BY <1>4, <1>5, <1>6, <1>7

-----------------------------------------------------------------------------
(* Closing a queue, or changing its tokens, touches nothing else.          *)
LEMMA Closed ==
  ASSUME NEW q \in [Made -> Queues], NEW s \in Made
  PROVE  /\ Close(q, s) \in [Made -> Queues]
         /\ \A t \in Made : /\ Close(q, s)[t].enq = q[t].enq /\ Close(q, s)[t].deq = q[t].deq
                            /\ Close(q, s)[t].slot = q[t].slot /\ Close(q, s)[t].tokens = q[t].tokens
<1>1. PICK c : c = [q[s] EXCEPT !.state = "CLOSED"]
  BY ZenonT(30)
<1>2. q[s] \in Queues
  OBVIOUS
<1>3. c \in Queues /\ c.enq = q[s].enq /\ c.deq = q[s].deq /\ c.slot = q[s].slot /\ c.tokens = q[s].tokens
  BY <1>1, <1>2 DEF Queues
<1>4. Close(q, s) = [q EXCEPT ![s] = c]
  BY <1>1 DEF Close
<1> QED
  BY <1>3, <1>4

LEMMA Tokens ==
  ASSUME NEW q \in [Made -> Queues], NEW s \in Made, NEW v \in Nat, NEW q2, q2 = [q EXCEPT ![s].tokens = v]
  PROVE  /\ q2 \in [Made -> Queues]
         /\ \A t \in Made : q2[t].enq = q[t].enq /\ q2[t].deq = q[t].deq /\ q2[t].slot = q[t].slot
<1>1. PICK c : c = [q[s] EXCEPT !.tokens = v]
  OBVIOUS
<1>2. q[s] \in Queues
  OBVIOUS
<1>3. c \in Queues /\ c.enq = q[s].enq /\ c.deq = q[s].deq /\ c.slot = q[s].slot
  BY <1>1, <1>2 DEF Queues
<1>4. q2 = [q EXCEPT ![s] = c]
  BY <1>1
<1> QED
  BY <1>3, <1>4

(* The worker and the client process. *)
LEMMA WorkerStep ==
  ASSUME NotifyConstants, NotifyInv, WorkerStops \/ WaitEvent \/ Dequeue \/ CopyEvent \/ Stop \/ Joined \/ Crash
  PROVE  NotifyInv'
<1>1. NotifyTypes
  BY DEF NotifyInv
<1>2. /\ client \in Clients /\ queue \in [Made -> Queues] /\ process \in Nat /\ client.session \in Made \cup {0}
      /\ client.at \notin {"none", "connect"} => client.session # 0
  BY <1>1 DEF NotifyTypes
<1>0. 0 \notin Made
  BY DEF Made
<1>3. UNCHANGED <<busyPolling, mActiveSession, producer, accept, owner, next, placed, delivered>> /\ Made' = Made
  BY ZenonT(30) DEF WorkerStops, WaitEvent, Dequeue, CopyEvent, Stop, Joined, Crash, Made
<1>4. process' \in Nat
  BY <1>2, SMTT(30) DEF WorkerStops, WaitEvent, Dequeue, CopyEvent, Stop, Joined, Crash
<1>5. /\ queue' \in [Made -> Queues]
      /\ \A s \in Made : queue'[s].enq = queue[s].enq /\ queue'[s].deq = queue[s].deq /\ queue'[s].slot = queue[s].slot
  <2>1. CASE UNCHANGED queue
    BY <1>2, <2>1
  <2>2. CASE WaitEvent
    <3>1. client.session \in Made
      BY <1>2, <2>2 DEF WaitEvent
    <3>2. CASE busyPolling
      BY <1>2, <2>2, <3>2 DEF WaitEvent
    <3>3. CASE ~busyPolling
      <4>1. queue[client.session].tokens \in Nat /\ queue[client.session].tokens > 0
        BY <1>2, <2>2, <3>1, <3>3 DEF WaitEvent, Queues
      <4>2. PICK v \in Nat : v = queue[client.session].tokens - 1
        BY <4>1
      <4>3. queue' = [queue EXCEPT ![client.session].tokens = v]
        BY <2>2, <3>3, <4>2 DEF WaitEvent
      <4> QED
        BY <1>2, <3>1, <4>3, Tokens
    <3> QED
      BY <3>2, <3>3
  <2>3. CASE Stop
    <3>1. client.session \in Made
      BY <1>2, <2>3 DEF Stop
    <3>2. PICK q : q = Close(queue, client.session)
      OBVIOUS
    <3>3. /\ q \in [Made -> Queues]
          /\ \A t \in Made : q[t].enq = queue[t].enq /\ q[t].deq = queue[t].deq /\ q[t].slot = queue[t].slot
      BY <1>2, <3>1, <3>2, Closed
    <3>4. CASE busyPolling
      BY <2>3, <3>2, <3>3, <3>4 DEF Stop
    <3>5. CASE ~busyPolling
      <4>1. PICK v \in Nat : v = q[client.session].tokens + 1
        BY <3>1, <3>3 DEF Queues
      <4>2. queue' = [q EXCEPT ![client.session].tokens = v]
        BY <2>3, <3>2, <3>5, <4>1 DEF Stop
      <4>3. /\ queue' \in [Made -> Queues]
            /\ \A t \in Made : queue'[t].enq = q[t].enq /\ queue'[t].deq = q[t].deq /\ queue'[t].slot = q[t].slot
        BY <3>1, <3>3, <4>2, Tokens, SMTT(30)
      <4> QED
        BY <3>3, <4>3
    <3> QED
      BY <3>4, <3>5
  <2> QED
    BY <2>1, <2>2, <2>3, ZenonT(30) DEF WorkerStops, Dequeue, CopyEvent, Joined, Crash
<1>6. QuietQueues
  BY <1>3, <1>5 DEF QuietQueues
<1>7. Positions' /\ SlotsTell' /\ Reserved' /\ ReservedOnce' /\ Cached' /\ EventsOnce'
  BY <1>3, <1>6, ClientQuiet
<1>8. /\ client' \in Clients /\ client'.session \in Made \cup {0}
      /\ client'.at \notin {"none", "connect"} => client'.session # 0
      /\ Copying'
  <2>1. CASE Joined \/ Crash
    <3>1. client' = NoClient
      BY <2>1 DEF Joined, Crash
    <3> QED
      BY <3>1 DEF NoClient, Clients, Copying
  <2>2. CASE WorkerStops
    <3>1. client' = [client EXCEPT !.at = "gone"] /\ client.at = "wait"
      BY <2>2 DEF WorkerStops
    <3> QED
      BY <1>2, <3>1 DEF Clients, Copying
  <2>3. CASE WaitEvent
    <3>1. client' = [client EXCEPT !.at = "dequeue"] /\ client.at = "wait"
      BY <2>3 DEF WaitEvent
    <3> QED
      BY <1>2, <3>1 DEF Clients, Copying
  <2>4. CASE Dequeue
    <3> DEFINE s == client.session
    <3>1. client.at = "dequeue" /\ s \in Made /\ queue' = queue
      BY <1>2, <2>4, ZenonT(30) DEF Dequeue
    <3>2. PICK a \in {"gone", "wait", "copy"} :
            client' = [client EXCEPT !.at = a] /\ (a = "copy" => queue[s].slot[queue[s].deq % Depth].sequence = queue[s].deq + 1)
      BY <2>4, ZenonT(30) DEF Dequeue
    <3>3. client' \in Clients /\ client'.session = s /\ client'.at = a
      BY <1>2, <3>2, ZenonT(30) DEF Clients
    <3> QED
      BY <1>0, <3>1, <3>2, <3>3, ZenonT(30) DEF Copying
  <2>5. CASE CopyEvent
    <3> DEFINE s == client.session
               e == queue[s].slot[queue[s].deq % Depth]
    <3>1. client.at = "copy" /\ s \in Made /\ queue' = queue /\ placed' = placed
      BY <1>2, <2>5, ZenonT(30) DEF CopyEvent
    <3>2. client' = [client EXCEPT !.at = "release", !.event = e.event]
      BY <2>5 DEF CopyEvent
    <3>3. queue[s].deq \in Nat /\ queue[s].enq \in Nat /\ Depth \in Nat \ {0} /\ queue[s].slot \in Slots
      BY <1>2, <3>1 DEF Queues, NotifyConstants
    <3>4. e.sequence = queue[s].deq + 1
      BY <3>1, ZenonT(30) DEF NotifyInv, Copying
    <3>5. queue[s].deq \in queue[s].deq .. queue[s].deq + Depth - 1
      BY <3>3
    <3>6. e.event = placed[s][queue[s].deq + 1]
      <4>1. \/ e = [sequence |-> queue[s].deq + 1, event |-> placed[s][queue[s].deq + 1]]
            \/ e.sequence = queue[s].deq
        BY <3>1, <3>5, ZenonT(30) DEF NotifyInv, SlotsTell
      <4> QED
        BY <3>3, <3>4, <4>1, SMTT(30)
    <3>7. e.event \in Nat
      <4>1. queue[s].deq % Depth \in Slot
        BY <3>3, ModSlot
      <4> QED
        BY <3>3, <4>1, ZenonT(30) DEF Slots
    <3> HIDE DEF e
    <3>8. client' \in Clients /\ client'.session = s /\ client'.at = "release" /\ client'.event = e.event
      BY <1>2, <3>2, <3>7, ZenonT(30) DEF Clients
    <3> QED
      BY <1>0, <3>1, <3>4, <3>6, <3>8, ZenonT(30) DEF Copying, e
  <2>6. CASE Stop
    <3>1. client' = [client EXCEPT !.stopping = TRUE]
      BY <2>6 DEF Stop
    <3>2. client' \in Clients /\ client'.session = client.session /\ client'.at = client.at /\ client'.event = client.event
      BY <1>2, <3>1, ZenonT(30) DEF Clients
    <3>3. client.session \in Made
      BY <1>2, <2>6 DEF Stop
    <3>4. Copying'
      BY <1>3, <1>5, <3>2, <3>3, ZenonT(30) DEF NotifyInv, Copying
    <3> QED
      BY <1>2, <3>2, <3>4
  <2> QED
    BY <2>1, <2>2, <2>3, <2>4, <2>5, <2>6
<1>9. NotifyTypes'
  BY <1>1, <1>3, <1>4, <1>5, <1>8, ZenonT(30) DEF NotifyTypes, Session
<1> QED
  BY <1>7, <1>8, <1>9 DEF NotifyInv

(* SendSubscription *)
LEMMA SendStep ==
  ASSUME NotifyConstants, NotifyInv, SendSubscription
  PROVE  NotifyInv'
<1>1. NotifyTypes
  BY DEF NotifyInv
<1>2. /\ client \in Clients /\ queue \in [Made -> Queues] /\ client.session \in Made \cup {0}
      /\ mActiveSession \in Made \cup {0} /\ accept \in Made \cup {0}
      /\ client.at \notin {"none", "connect"} => client.session # 0
  BY <1>1, ZenonT(30) DEF NotifyTypes
<1>3. UNCHANGED <<busyPolling, producer, owner, process, next, placed, delivered>> /\ Made' = Made /\ accept' = 0
  BY DEF SendSubscription, Made
<1>4. /\ queue' \in [Made -> Queues]
      /\ \A s \in Made : queue'[s].enq = queue[s].enq /\ queue'[s].deq = queue[s].deq /\ queue'[s].slot = queue[s].slot
  <2>1. CASE UNCHANGED queue
    BY <1>2, <2>1
  <2>2. CASE mActiveSession # 0 /\ queue' = Close(queue, mActiveSession)
    BY <1>2, <2>2, Closed
  <2> QED
    BY <2>1, <2>2 DEF SendSubscription
<1>5. QuietQueues
  BY <1>3, <1>4 DEF QuietQueues
<1>6. Positions' /\ SlotsTell' /\ Reserved' /\ ReservedOnce' /\ Cached' /\ EventsOnce'
  BY <1>3, <1>5, ClientQuiet
<1>7. mActiveSession' \in Made \cup {0}
  BY <1>2 DEF SendSubscription
<1>8. /\ client' \in Clients /\ client'.session \in Made \cup {0}
      /\ client'.at \notin {"none", "connect"} => client'.session # 0
      /\ Copying'
  <2>1. CASE client' = [NoClient EXCEPT !.session = accept, !.at = "wait"]
    <3>1. accept \in Nat /\ accept # 0
      BY <1>2 DEF SendSubscription, Made
    <3>2. client'.session = accept /\ client'.at = "wait" /\ client' \in Clients
      BY <2>1, <3>1, ZenonT(30) DEF NoClient, Clients
    <3> QED
      BY <1>2, <3>1, <3>2 DEF Copying
  <2>2. CASE client' = NoClient
    BY <2>2, ZenonT(30) DEF NoClient, Clients, Copying
  <2>3. CASE client' = client
    <3>1. client.at \in {"copy", "release"} => client.session \in Made
      BY <1>2
    <3>2. Copying'
      BY <1>3, <1>4, <2>3, <3>1, ZenonT(30) DEF NotifyInv, Copying
    <3> QED
      BY <1>2, <2>3, <3>2
  <2> QED
    BY <2>1, <2>2, <2>3 DEF SendSubscription
<1>9. NotifyTypes'
  BY <1>1, <1>3, <1>4, <1>7, <1>8, ZenonT(30) DEF NotifyTypes, Session
<1> QED
  BY <1>6, <1>8, <1>9 DEF NotifyInv

(* HandleClient *)
LEMMA HandleStep ==
  ASSUME NotifyConstants, NotifyInv, HandleClient
  PROVE  NotifyInv'
<1> DEFINE s == Len(owner) + 1
<1>1. NotifyTypes
  BY DEF NotifyInv
<1>2. /\ owner \in Seq(Nat) /\ Len(owner) \in Nat /\ MaxSession \in Nat /\ Len(owner) < MaxSession /\ process \in Nat
      /\ owner' = Append(owner, process) /\ Depth \in Nat \ {0}
  BY <1>1 DEF NotifyTypes, NotifyConstants, HandleClient
<1>3. /\ owner' \in Seq(Nat) /\ Made' = Made \cup {s} /\ s \notin Made /\ s \in Session /\ Made \subseteq Session
      /\ Made' = 1 .. s
  <2>1. owner' \in Seq(Nat) /\ Len(owner') = s
    BY <1>2
  <2>2. Made' = 1 .. s
    BY <2>1 DEF Made
  <2>3. Made \subseteq Session
    BY <1>1 DEF NotifyTypes
  <2>4. s \in Session /\ s \notin Made
    BY <1>2 DEF Session, Made
  <2>5. 1 .. s = (1 .. Len(owner)) \cup {s}
    BY <1>2
  <2> QED
    BY <2>1, <2>2, <2>3, <2>4, <2>5 DEF Made
<1>4. /\ UNCHANGED <<busyPolling, producer, process, next, placed, delivered>>
      /\ mActiveSession' = s /\ accept' = s
  BY DEF HandleClient
<1>5. /\ queue' \in [Made' -> Queues]
      /\ \A t \in Made : queue'[t].enq = queue[t].enq /\ queue'[t].deq = queue[t].deq /\ queue'[t].slot = queue[t].slot
      /\ queue'[s].enq = 0 /\ queue'[s].deq = 0 /\ queue'[s].slot = NewQueue.slot
  <2>1. PICK q : q = [t \in DOMAIN queue \cup {s} |-> IF t = s THEN NewQueue ELSE queue[t]]
    BY ZenonT(30)
  <2>2. queue \in [Made -> Queues] /\ DOMAIN queue = Made
    BY <1>1 DEF NotifyTypes
  <2>3. NewQueue \in Queues /\ NewQueue.enq = 0 /\ NewQueue.deq = 0
    <3>1. [i \in Slot |-> [sequence |-> i, event |-> 0]] \in Slots
      BY <1>2 DEF Slots, Slot
    <3> QED
      BY <3>1 DEF NewQueue, Queues
  <2> HIDE DEF NewQueue, s
  <2>4. /\ q \in [Made' -> Queues] /\ q[s] = NewQueue
        /\ \A t \in Made : q[t] = queue[t]
    BY <1>3, <2>1, <2>2, <2>3
  <2>5. CASE mActiveSession = 0
    <3>1. queue' = q
      BY <2>1, <2>5 DEF HandleClient, s
    <3> QED
      BY <2>3, <2>4, <3>1
  <2>6. CASE mActiveSession # 0
    <3>1. queue' = Close(q, mActiveSession)
      BY <2>1, <2>6 DEF HandleClient, s
    <3>2. mActiveSession \in Made /\ mActiveSession # s
      BY <1>1, <1>3, <2>6 DEF NotifyTypes
    <3>3. PICK c : c = [q[mActiveSession] EXCEPT !.state = "CLOSED"]
      BY ZenonT(30)
    <3>4. q[mActiveSession] \in Queues
      BY <1>3, <2>4, <3>2
    <3>5. c \in Queues /\ c.enq = q[mActiveSession].enq /\ c.deq = q[mActiveSession].deq /\ c.slot = q[mActiveSession].slot
      BY <3>3, <3>4 DEF Queues
    <3>6. queue' = [q EXCEPT ![mActiveSession] = c]
      BY <3>1, <3>3 DEF Close
    <3>7. queue' \in [Made' -> Queues] /\ queue'[mActiveSession] = c /\ \A t \in Made' \ {mActiveSession} : queue'[t] = q[t]
      BY <1>3, <2>4, <3>2, <3>5, <3>6
    <3> QED
      BY <1>3, <2>3, <2>4, <3>2, <3>5, <3>7, ZenonT(30)
  <2> QED
    BY <2>5, <2>6, ZenonT(30)
<1>6. placed[s] = <<>> /\ delivered[s] = <<>>
  BY <1>3, ZenonT(30) DEF NotifyInv, Positions
<1> HIDE DEF s
<1>7. \A p \in Producer : producer[p].session # s /\ (producer[p].session # 0 => producer[p].session \in Made)
  BY <1>1, <1>2, <1>3, SMTT(30) DEF NotifyTypes, s
<1>8. \A p \in Producer : \A t, i : Pending(p, t, i)' = Pending(p, t, i)
  BY <1>4 DEF Pending
<1>9. Positions'
  <2>1. \A t \in Made : /\ Len(placed'[t]) = queue'[t].enq /\ Len(delivered'[t]) = queue'[t].deq
                        /\ queue'[t].deq <= queue'[t].enq /\ queue'[t].enq <= queue'[t].deq + Depth
                        /\ \A k \in 1 .. queue'[t].deq : delivered'[t][k] = placed'[t][k]
    BY <1>4, <1>5, ZenonT(30) DEF NotifyInv, Positions
  <2>2. /\ Len(placed'[s]) = queue'[s].enq /\ Len(delivered'[s]) = queue'[s].deq
        /\ queue'[s].deq <= queue'[s].enq /\ queue'[s].enq <= queue'[s].deq + Depth
        /\ \A k \in 1 .. queue'[s].deq : delivered'[s][k] = placed'[s][k]
    BY <1>2, <1>4, <1>5, <1>6, SMTT(30)
  <2>3. \A t \in Session \ Made' : placed'[t] = <<>> /\ delivered'[t] = <<>>
    BY <1>3, <1>4 DEF NotifyInv, Positions
  <2>4. Session' = Session
    BY DEF Session
  <2> QED
    BY <1>3, <2>1, <2>2, <2>3, <2>4, ZenonT(30) DEF Positions
<1>10. SlotsTell'
  <2>1. ASSUME NEW t \in Made, NEW i \in queue'[t].deq .. queue'[t].deq + Depth - 1
        PROVE  IF i < queue'[t].enq /\ \A p \in Producer : ~Pending(p, t, i)'
               THEN queue'[t].slot[i % Depth] = [sequence |-> i + 1, event |-> placed'[t][i + 1]]
               ELSE queue'[t].slot[i % Depth].sequence = i
    BY <1>4, <1>5, <1>8, SMTT(30) DEF NotifyInv, SlotsTell
  <2>2. ASSUME NEW i \in queue'[s].deq .. queue'[s].deq + Depth - 1
        PROVE  ~(i < queue'[s].enq) /\ queue'[s].slot[i % Depth].sequence = i
    <3>1. i \in 0 .. Depth - 1 /\ i \in Nat /\ i < Depth
      BY <1>2, <1>5, SMTT(30)
    <3>2. i % Depth = i
      BY <1>2, <3>1, ModSmall, ZenonT(30)
    <3>3. queue'[s].slot[i] = [sequence |-> i, event |-> 0]
      BY <1>5, <3>1, ZenonT(30) DEF NewQueue, Slot
    <3> QED
      BY <1>5, <3>1, <3>2, <3>3, SMTT(30)
  <2> QED
    BY <1>3, <2>1, <2>2, ZenonT(30) DEF SlotsTell
<1>11. Reserved'
  <2> SUFFICES ASSUME NEW p \in Producer, producer[p].at = "publish"
               PROVE  LET r == producer[p] IN
                      /\ r.index \in 1 .. Len(r.items)
                      /\ queue'[r.session].deq + 1 <= r.pos + r.index /\ r.pos + Len(r.items) <= queue'[r.session].enq
                      /\ \A k \in r.index .. Len(r.items) : placed[r.session][r.pos + k] = r.items[k]
    BY <1>4, ZenonT(30) DEF Reserved
  <2>1. producer[p].session \in Made
    BY <1>1 DEF NotifyTypes
  <2> QED
    BY <1>5, <2>1, ZenonT(30) DEF NotifyInv, Reserved
<1>12. ReservedOnce'
  <2>1. \A p \in Producer : \A i : ~Pending(p, s, i)
    BY <1>7, ZenonT(30) DEF Pending, Owes
  <2> QED
    BY <1>3, <1>8, <2>1 DEF NotifyInv, ReservedOnce
<1>13. Cached'
  <2> SUFFICES ASSUME NEW p \in Producer
               PROVE  /\ producer[p].session # 0 => producer[p].cached <= queue'[producer[p].session].deq
                      /\ producer[p].at = "cas" => ~Exceeds(producer[p].pos, producer[p].cached, Len(producer[p].items))
    BY <1>4, ZenonT(30) DEF Cached, Exceeds
  <2> QED
    BY <1>5, <1>7, ZenonT(30) DEF NotifyInv, Cached
<1>14. client' \in Clients /\ client'.session = 0 /\ client'.at = "connect"
  BY ZenonT(30) DEF HandleClient, NoClient, Clients
<1>15. Copying'
  BY <1>14 DEF Copying
<1>16. EventsOnce'
  <2>1. EventsOnce /\ Len(placed[s]) = 0
    BY <1>6 DEF NotifyInv
  <2>2. \A k : k \notin 1 .. Len(placed[s])
    BY <2>1
  <2>3. placed' = placed /\ next' = next /\ producer' = producer /\ \A p \in Producer : Holds(p)' = Holds(p)
    BY <1>4 DEF Holds
  <2>4. \A t \in Made' : /\ \A k \in 1 .. Len(placed[t]) : placed[t][k] \in 1 .. next - 1
                         /\ \A k, l \in 1 .. Len(placed[t]) : placed[t][k] = placed[t][l] => k = l
    BY <1>3, <2>1, <2>2, ZenonT(30) DEF EventsOnce, Once, Fresh, Apart
  <2>5. ASSUME NEW q \in Producer, Holds(q)
        PROVE  /\ Len(producer[q].items) \in 1 .. BatchNum
               /\ \A k \in 1 .. Len(producer[q].items) : producer[q].items[k] \in 1 .. next - 1
               /\ \A k, l \in 1 .. Len(producer[q].items) : producer[q].items[k] = producer[q].items[l] => k = l
               /\ \A t \in Made' : \A k \in 1 .. Len(producer[q].items) : \A l \in 1 .. Len(placed[t]) :
                    producer[q].items[k] # placed[t][l]
    BY <1>3, <2>1, <2>2, <2>5, ZenonT(30) DEF EventsOnce, Once, Fresh, Apart
  <2>6. ASSUME NEW q \in Producer, NEW u \in Producer, Holds(q), Holds(u), q # u
        PROVE  \A k \in 1 .. Len(producer[q].items) : \A l \in 1 .. Len(producer[u].items) :
                 producer[q].items[k] # producer[u].items[l]
    BY <2>1, <2>6, ZenonT(60) DEF EventsOnce, Once, Fresh, Apart
  <2> QED
    <3>1. /\ Once(Made', next, placed)
          /\ \A q \in Producer : Holds(q) => Fresh(producer[q].items, Made', next, placed)
          /\ \A q, u \in Producer : Holds(q) /\ Holds(u) /\ q # u => Apart(producer[q].items, producer[u].items)
      BY <2>4, <2>5, <2>6, ZenonT(30) DEF Once, Fresh, Apart
    <3> QED
      BY <2>3, <3>1 DEF EventsOnce
<1>17. NotifyTypes'
  <2>1. \A p \in Producer : /\ producer'[p].session \in Made' \cup {0}
                            /\ producer'[p].at # "idle" => producer'[p].session # 0
    BY <1>1, <1>3, <1>4, ZenonT(30) DEF NotifyTypes
  <2>2. /\ mActiveSession' \in Made' \cup {0} /\ accept' \in Made' \cup {0} /\ Made' \subseteq Session'
        /\ client'.session \in Made' \cup {0} /\ client'.at \in {"none", "connect"} /\ Session' = Session
    BY <1>3, <1>4, <1>14 DEF Session
  <2> QED
    BY <1>1, <1>3, <1>4, <1>5, <1>14, <2>1, <2>2, ZenonT(30) DEF NotifyTypes
<1> QED
  BY <1>9, <1>10, <1>11, <1>12, <1>13, <1>15, <1>16, <1>17 DEF NotifyInv

-----------------------------------------------------------------------------
(* What a step of producer p has to keep of the types.                     *)
LEMMA ProducerTypes ==
  ASSUME NotifyInv, NEW p \in Producer, NEW r \in Producers, producer' = [producer EXCEPT ![p] = r],
         r.session \in Made \cup {0}, r.at # "idle" => r.session # 0,
         UNCHANGED <<busyPolling, accept, client, owner, process, delivered>>, queue' \in [Made -> Queues],
         mActiveSession' \in Made \cup {0}, next' \in Nat, 1 <= next', next' <= MaxEvent + 1,
         placed' \in [Session -> Seq(Nat)]
  PROVE  NotifyTypes'
<1>1. NotifyTypes /\ Made' = Made /\ Session' = Session
  BY DEF NotifyInv, Made, Session
<1>2. producer \in [Producer -> Producers]
  BY <1>1, ZenonT(30) DEF NotifyTypes
<1>3. /\ producer' \in [Producer -> Producers]
      /\ producer'[p] = r /\ \A q \in Producer \ {p} : producer'[q] = producer[q]
  BY <1>2, ZenonT(30)
<1>4. \A q \in Producer : /\ producer'[q].session \in Made \cup {0}
                          /\ producer'[q].at # "idle" => producer'[q].session # 0
  BY <1>1, <1>3, ZenonT(30) DEF NotifyTypes
<1> QED
  BY <1>1, <1>3, <1>4, ZenonT(30) DEF NotifyTypes

(* The steps of a producer before its reservation, and after the last slot. *)
LEMMA ProducerStep ==
  ASSUME NotifyConstants, NotifyInv, NEW p \in Producer,
         LoadPos(p) \/ CheckRoom(p) \/ QueueFull(p) \/ Signal(p) \/ (ReserveSlots(p) /\ UNCHANGED queue)
  PROVE  NotifyInv'
<1> DEFINE o == producer[p]
           s == producer[p].session
<1>1. NotifyTypes /\ Cached
  BY DEF NotifyInv
<1>2. /\ o \in Producers /\ o.at # "idle" /\ o.at # "publish"
  BY <1>1, ZenonT(30) DEF NotifyTypes, LoadPos, CheckRoom, QueueFull, Signal, ReserveSlots
<1>3. s \in Made /\ queue \in [Made -> Queues] /\ queue[s] \in Queues
  BY <1>1, <1>2, ZenonT(30) DEF NotifyTypes
<1>4. queue[s].enq \in Nat /\ queue[s].deq \in Nat /\ o.cached <= queue[s].deq /\ s # 0 /\ s \in Nat
  BY <1>1, <1>2, <1>3, ZenonT(30) DEF NotifyTypes, Cached, Queues, Producers
<1>5. /\ UNCHANGED <<busyPolling, accept, client, owner, process, next, delivered>> /\ Made' = Made
      /\ mActiveSession' \in Made \cup {0} /\ mActiveSession \in Made \cup {0}
  BY <1>1, ZenonT(30) DEF NotifyTypes, LoadPos, CheckRoom, QueueFull, Signal, ReserveSlots, Made
<1>6. /\ queue' \in [Made -> Queues]
      /\ \A t \in Made : queue'[t].enq = queue[t].enq /\ queue'[t].deq = queue[t].deq /\ queue'[t].slot = queue[t].slot
  <2>1. CASE UNCHANGED queue
    BY <1>3, <2>1
  <2>2. CASE queue' = Close(queue, s)
    BY <1>3, <2>2, Closed, ZenonT(30)
  <2>3. CASE Signal(p)
    <3>1. Len(o.items) \in Nat /\ queue[s].tokens \in Nat
      BY <1>2, <1>3, SMTT(30) DEF Producers, Queues
    <3>2. PICK v \in Nat : v = queue[s].tokens + Len(o.items)
      BY <3>1, SMTT(30)
    <3>3. queue' = [queue EXCEPT ![s].tokens = v]
      BY <2>3, <3>2 DEF Signal
    <3> QED
      BY <1>3, <3>3, Tokens, SMTT(30)
  <2> QED
    BY <2>1, <2>2, <2>3, ZenonT(30) DEF LoadPos, CheckRoom, QueueFull
<1>0. ASSUME ReserveSlots(p), UNCHANGED queue PROVE queue[s].enq # o.pos
  <2> SUFFICES ASSUME queue[s].enq = o.pos PROVE FALSE
    BY ZenonT(30)
  <2>1. o.at = "cas" /\ queue' = [queue EXCEPT ![s].enq = o.pos + Len(o.items)]
    BY <1>0, ZenonT(30) DEF ReserveSlots
  <2>2. Len(o.items) \in 1 .. BatchNum
    BY <2>1, ZenonT(30) DEF NotifyInv, EventsOnce, Once, Fresh, Apart, Holds
  <2>3. queue'[s].enq = o.pos + Len(o.items)
    BY <1>3, <2>1 DEF Queues
  <2>4. o.pos \in Nat /\ Len(o.items) \in Nat /\ queue'[s].enq = queue[s].enq
    BY <1>0, <1>2, SMTT(30) DEF Producers
  <2> QED
    BY <2>2, <2>3, <2>4, SMTT(30)
<1>7. placed' = placed
  <2>1. CASE ReserveSlots(p) /\ UNCHANGED queue
    BY <1>0, <2>1, ZenonT(30) DEF ReserveSlots
  <2> QED
    BY <2>1, ZenonT(30) DEF LoadPos, CheckRoom, QueueFull, Signal
<1>8. QuietQueues
  BY <1>5, <1>6, <1>7 DEF QuietQueues
<1>9. PICK r \in Producers :
        /\ producer' = [producer EXCEPT ![p] = r] /\ r.at # "publish" /\ r.session = s /\ r.cached <= queue[s].deq
        /\ r.at = "cas" => ~Exceeds(r.pos, r.cached, Len(r.items))
        /\ r.at \in {"load", "check", "full", "cas"} => Holds(p) /\ r.items = o.items
  <2>1. CASE producer' = [producer EXCEPT ![p] = Done(o)]
    <3>1. PICK r : r = [o EXCEPT !.at = "idle", !.items = <<>>, !.index = 0]
      OBVIOUS
    <3>2. <<>> \in Seq(Nat) /\ 0 \in Nat /\ "idle" \in Places
      BY DEF Places
    <3>3. r \in Producers /\ r.at = "idle" /\ r.session = s /\ r.cached = o.cached
      BY <1>2, <3>1, <3>2, ZenonT(30) DEF Producers
    <3>4. producer' = [producer EXCEPT ![p] = r]
      BY <2>1, <3>1 DEF Done
    <3> QED
      BY <1>4, <3>3, <3>4, ZenonT(30)
  <2>2. CASE LoadPos(p) /\ IsValid(s)
    <3>1. PICK pos \in Nat : producer' = [producer EXCEPT ![p] = [o EXCEPT !.at = "check", !.pos = pos]]
      BY <1>2, <1>4, <2>2, ZenonT(30) DEF LoadPos, Goes, Producers
    <3>2. PICK r : r = [o EXCEPT !.at = "check", !.pos = pos]
      OBVIOUS
    <3>3. r \in Producers /\ r.at = "check" /\ r.session = s /\ r.cached = o.cached /\ r.items = o.items
      BY <1>2, <3>2, ZenonT(30) DEF Producers, Places
    <3>4. Holds(p)
      BY <2>2 DEF LoadPos, Holds
    <3> QED
      BY <1>4, <3>1, <3>2, <3>3, <3>4, ZenonT(30)
  <2>3. CASE CheckRoom(p)
    <3> DEFINE reload == o.cached > o.pos \/ Exceeds(o.pos, o.cached, Len(o.items))
    <3>1. PICK deq : deq = IF reload THEN queue[s].deq ELSE o.cached
      BY ZenonT(30)
    <3>2. deq \in Nat /\ deq <= queue[s].deq
      BY <1>2, <1>4, <3>1, SMTT(30) DEF Producers
    <3>3. PICK a \in {"full", "cas"} : a = IF reload /\ Exceeds(o.pos, deq, Len(o.items)) THEN "full" ELSE "cas"
      OBVIOUS
    <3>4. PICK r : r = [o EXCEPT !.cached = deq, !.at = a]
      OBVIOUS
    <3>5. producer' = [producer EXCEPT ![p] = r]
      BY <2>3, <3>1, <3>3, <3>4 DEF CheckRoom, Goes
    <3>6. a = "cas" => ~Exceeds(o.pos, deq, Len(o.items))
      BY <3>1, <3>3, ZenonT(30)
    <3> HIDE DEF reload
    <3>7. r \in Producers /\ r.at = a /\ r.session = s /\ r.cached = deq /\ r.items = o.items /\ r.pos = o.pos
      BY <1>2, <3>2, <3>4, ZenonT(30) DEF Producers, Places
    <3>8. Holds(p)
      BY <2>3 DEF CheckRoom, Holds
    <3> QED
      BY <3>2, <3>5, <3>6, <3>7, <3>8, ZenonT(30)
  <2>4. CASE QueueFull(p)
    <3>1. PICK r : r = [o EXCEPT !.at = "load"]
      BY ZenonT(30)
    <3>2. r \in Producers /\ r.at = "load" /\ r.session = s /\ r.cached = o.cached /\ r.items = o.items
      BY <1>2, <3>1, ZenonT(30) DEF Producers, Places
    <3>3. Holds(p) /\ producer' = [producer EXCEPT ![p] = r]
      BY <2>4, <3>1 DEF QueueFull, Holds, Goes
    <3> QED
      BY <1>4, <3>2, <3>3, ZenonT(30)
  <2>5. CASE ReserveSlots(p) /\ queue[s].enq # o.pos
    <3>1. PICK r : r = [o EXCEPT !.at = "load", !.pos = queue[s].enq]
      OBVIOUS
    <3>2. r \in Producers /\ r.at = "load" /\ r.session = s /\ r.cached = o.cached /\ r.items = o.items
      BY <1>2, <1>4, <3>1, ZenonT(30) DEF Producers, Places
    <3>3. Holds(p) /\ producer' = [producer EXCEPT ![p] = r]
      BY <2>5, <3>1, ZenonT(30) DEF ReserveSlots, Holds, Goes
    <3> QED
      BY <1>4, <3>2, <3>3, ZenonT(30)
  <2>6. (LoadPos(p) /\ ~IsValid(s)) \/ Signal(p) => producer' = [producer EXCEPT ![p] = Done(o)]
    BY ZenonT(30) DEF LoadPos, Signal, Goes
  <2> QED
    BY <1>0, <2>1, <2>2, <2>3, <2>4, <2>5, <2>6, ZenonT(30)
<1>10. Positions' /\ SlotsTell' /\ Reserved' /\ ReservedOnce' /\ Cached' /\ Copying' /\ EventsOnce'
  BY <1>2, <1>5, <1>8, <1>9, ProducerQuiet, ZenonT(30)
<1>11. NotifyTypes'
  <2>1. next' \in Nat /\ 1 <= next' /\ next' <= MaxEvent + 1 /\ placed' \in [Session -> Seq(Nat)]
    BY <1>1, <1>5, <1>7 DEF NotifyTypes
  <2> QED
    BY <1>3, <1>4, <1>5, <1>6, <1>9, <2>1, ProducerTypes, ZenonT(30)
<1> QED
  BY <1>10, <1>11 DEF NotifyInv

(* PublishBatch: the events are new. *)
LEMMA BatchStep ==
  ASSUME NotifyConstants, NotifyInv, NEW p \in Producer, NEW n \in 1 .. BatchNum, PublishBatch(p, n)
  PROVE  NotifyInv'
<1> DEFINE m == mActiveSession
<1>1. NotifyTypes /\ Cached /\ EventsOnce
  BY DEF NotifyInv
<1>2. /\ producer \in [Producer -> Producers] /\ producer[p] \in Producers /\ producer[p].at = "idle"
      /\ m \in Made /\ m \in Nat /\ m # 0 /\ next \in Nat /\ 1 <= next /\ MaxEvent \in Nat /\ BatchNum \in Nat /\ n \in Nat
  <2>1. producer \in [Producer -> Producers] /\ m \in Made \cup {0} /\ m # 0 /\ producer[p].at = "idle"
    BY <1>1 DEF NotifyTypes, PublishBatch
  <2>2. m \in Made /\ m \in Nat
    BY <2>1 DEF Made
  <2>3. next \in Nat /\ 1 <= next
    BY <1>1 DEF NotifyTypes
  <2> QED
    BY <2>1, <2>2, <2>3 DEF NotifyConstants
<1>3. /\ UNCHANGED <<busyPolling, queue, mActiveSession, accept, client, owner, process, placed, delivered>>
      /\ next' = next + n /\ next' <= MaxEvent + 1 /\ Made' = Made
  BY <1>2 DEF PublishBatch, Made
<1>4. queue \in [Made -> Queues] /\ queue[m] \in Queues /\ queue[m].deq \in Nat
  BY <1>1, <1>2, ZenonT(30) DEF NotifyTypes, Queues
<1>5. PICK its : its = [i \in 1 .. n |-> next + i - 1]
  BY ZenonT(30)
<1>6. its \in Seq(Nat) /\ Len(its) = n /\ \A i \in 1 .. n : its[i] = next + i - 1
  BY <1>2, <1>5
<1>7. PICK r \in Producers :
        /\ producer' = [producer EXCEPT ![p] = r]
        /\ r.at = "load" /\ r.session = m /\ r.items = its /\ r.cached <= queue[m].deq
  <2>1. PICK r0 : r0 = IF producer[p].session = m THEN producer[p]
                       ELSE [Idle EXCEPT !.session = m, !.cached = queue[m].deq]
    OBVIOUS
  <2>2. r0 \in Producers /\ r0.session = m /\ r0.cached <= queue[m].deq
    <3>1. CASE producer[p].session = m
      BY <1>1, <1>2, <2>1, <3>1 DEF Cached
    <3>2. CASE producer[p].session # m
      <4>1. <<>> \in Seq(Nat) /\ 0 \in Nat /\ "idle" \in Places
        BY DEF Places
      <4>2. PICK c \in Nat : c = queue[m].deq
        BY <1>4
      <4>3. r0 = [at |-> "idle", session |-> m, items |-> <<>>, pos |-> 0, cached |-> c, index |-> 0]
        BY <2>1, <3>2, <4>2, ZenonT(30) DEF Idle
      <4>4. r0 \in Producers
        BY <1>2, <4>1, <4>2, <4>3, ZenonT(30) DEF Producers
      <4> QED
        BY <4>2, <4>3, <4>4, SMTT(30)
    <3> QED
      BY <3>1, <3>2, ZenonT(30)
  <2>3. PICK r : r = [r0 EXCEPT !.at = "load", !.items = its]
    OBVIOUS
  <2>4. r \in Producers /\ r.at = "load" /\ r.session = m /\ r.items = its /\ r.cached = r0.cached
    BY <1>6, <2>2, <2>3, ZenonT(30) DEF Producers, Places
  <2>5. producer' = [producer EXCEPT ![p] = r]
    BY <1>5, <2>1, <2>3 DEF PublishBatch, Goes
  <2> QED
    BY <2>2, <2>4, <2>5, ZenonT(30)
<1>8. producer'[p] = r /\ \A q \in Producer \ {p} : producer'[q] = producer[q]
  BY <1>2, <1>7
<1>9. Positions' /\ SlotsTell' /\ Reserved' /\ ReservedOnce'
  <2>1. QuietQueues
    BY <1>3 DEF QuietQueues
  <2>2. QuietProducers
    BY <1>2, <1>7, <1>8, ZenonT(30) DEF QuietProducers
  <2> QED
    BY <2>1, <2>2, QuietRing
<1>10. Cached'
  <2> SUFFICES ASSUME NEW q \in Producer
               PROVE  /\ producer'[q].session # 0 => producer'[q].cached <= queue[producer'[q].session].deq
                      /\ producer'[q].at = "cas" => ~Exceeds(producer'[q].pos, producer'[q].cached, Len(producer'[q].items))
    BY <1>3, ZenonT(30) DEF Cached, Exceeds
  <2> QED
    BY <1>1, <1>7, <1>8, ZenonT(30) DEF Cached
<1>11. Copying'
  BY <1>3, ZenonT(30) DEF NotifyInv, Copying
<1>12. EventsOnce'
  <2>1. \A q \in Producer : q # p /\ Holds(q)' => Holds(q) /\ producer'[q].items = producer[q].items
    BY <1>8 DEF Holds
  <2>2. producer'[p].items = its
    BY <1>7, <1>8
  <2>3. \A e : e \in 1 .. next - 1 => e \in 1 .. next' - 1
    BY <1>2, <1>3
  <2>4. \A i \in 1 .. n : its[i] \in 1 .. next' - 1 /\ its[i] \notin 1 .. next - 1
    BY <1>2, <1>3, <1>6, SMTT(30)
  <2>5. \A i, j \in 1 .. n : its[i] = its[j] => i = j
    BY <1>2, <1>6
  <2>6. \A t \in Made : \A k \in 1 .. Len(placed[t]) : placed[t][k] \in 1 .. next - 1
    BY <1>1, ZenonT(30) DEF EventsOnce, Once, Fresh, Apart
  <2>7. \A q \in Producer : Holds(q) => \A k \in 1 .. Len(producer[q].items) : producer[q].items[k] \in 1 .. next - 1
    BY <1>1, ZenonT(30) DEF EventsOnce, Once, Fresh, Apart
  <2>8. \A t \in Made : /\ \A k \in 1 .. Len(placed[t]) : placed[t][k] \in 1 .. next' - 1
                        /\ \A k, l \in 1 .. Len(placed[t]) : placed[t][k] = placed[t][l] => k = l
    BY <1>1, <2>3, <2>6, ZenonT(30) DEF EventsOnce, Once, Fresh, Apart
  <2>9. ASSUME NEW q \in Producer, Holds(q)'
        PROVE  /\ Len(producer'[q].items) \in 1 .. BatchNum
               /\ \A k \in 1 .. Len(producer'[q].items) : producer'[q].items[k] \in 1 .. next' - 1
               /\ \A k, l \in 1 .. Len(producer'[q].items) : producer'[q].items[k] = producer'[q].items[l] => k = l
               /\ \A t \in Made : \A k \in 1 .. Len(producer'[q].items) : \A l \in 1 .. Len(placed[t]) :
                    producer'[q].items[k] # placed[t][l]
    <3>1. CASE q = p
      BY <1>6, <2>2, <2>4, <2>5, <2>6, <3>1, ZenonT(30)
    <3>2. CASE q # p
      <4>1. Holds(q) /\ producer'[q].items = producer[q].items
        BY <2>1, <2>9, <3>2, ZenonT(30)
      <4>2. /\ Len(producer[q].items) \in 1 .. BatchNum
            /\ \A k \in 1 .. Len(producer[q].items) : producer[q].items[k] \in 1 .. next - 1
            /\ \A k, l \in 1 .. Len(producer[q].items) : producer[q].items[k] = producer[q].items[l] => k = l
            /\ \A t \in Made : \A k \in 1 .. Len(producer[q].items) : \A l \in 1 .. Len(placed[t]) :
                 producer[q].items[k] # placed[t][l]
        BY <1>1, <4>1, ZenonT(30) DEF EventsOnce, Once, Fresh, Apart
      <4> QED
        BY <2>3, <4>1, <4>2, ZenonT(30)
    <3> QED
      BY <3>1, <3>2, ZenonT(30)
  <2>10. ASSUME NEW q \in Producer, NEW u \in Producer, Holds(q)', Holds(u)', q # u
         PROVE  \A k \in 1 .. Len(producer'[q].items) : \A l \in 1 .. Len(producer'[u].items) :
                  producer'[q].items[k] # producer'[u].items[l]
    <3>1. CASE q = p
      <4>1. Holds(u) /\ producer'[u].items = producer[u].items /\ producer'[q].items = its
        BY <2>1, <2>2, <2>10, <3>1
      <4>2. \A l \in 1 .. Len(producer[u].items) : producer[u].items[l] \in 1 .. next - 1
        BY <2>7, <4>1
      <4> QED
        BY <1>6, <2>4, <4>1, <4>2, ZenonT(30)
    <3>2. CASE u = p
      <4>1. Holds(q) /\ producer'[q].items = producer[q].items /\ producer'[u].items = its
        BY <2>1, <2>2, <2>10, <3>2, ZenonT(30)
      <4>2. \A l \in 1 .. Len(producer[q].items) : producer[q].items[l] \in 1 .. next - 1
        BY <2>7, <4>1, ZenonT(30)
      <4> QED
        BY <1>6, <2>4, <4>1, <4>2, ZenonT(30)
    <3>3. CASE q # p /\ u # p
      <4>1. /\ Holds(q) /\ producer'[q].items = producer[q].items
            /\ Holds(u) /\ producer'[u].items = producer[u].items
        BY <2>1, <2>10, <3>3, ZenonT(30)
      <4> QED
        <5>1. Apart(producer'[q].items, producer'[u].items)
          BY <1>1, <2>10, <4>1 DEF EventsOnce
        <5> QED
          BY <5>1, ZenonT(30) DEF Apart
    <3> QED
      BY <3>1, <3>2, <3>3
  <2> QED
    <3>1. /\ Once(Made, next', placed)
          /\ \A q \in Producer : Holds(q)' => Fresh(producer'[q].items, Made, next', placed)
          /\ \A q, u \in Producer : Holds(q)' /\ Holds(u)' /\ q # u => Apart(producer'[q].items, producer'[u].items)
      BY <2>8, <2>9, <2>10, ZenonT(30) DEF Once, Fresh, Apart
    <3> QED
      BY <1>3, <3>1 DEF EventsOnce
<1>13. NotifyTypes'
  <2>1. next' \in Nat /\ 1 <= next' /\ next' <= MaxEvent + 1 /\ placed' \in [Session -> Seq(Nat)]
    BY <1>1, <1>2, <1>3 DEF NotifyTypes
  <2> QED
    BY <1>2, <1>3, <1>4, <1>7, <2>1, ProducerTypes, ZenonT(30)
<1> QED
  BY <1>9, <1>10, <1>11, <1>12, <1>13 DEF NotifyInv

(* The compare-and-swap succeeds: the position is not stale, so the room   *)
(* found with a stale dequeue position is there.                           *)
LEMMA ReserveStep ==
  ASSUME NotifyConstants, NotifyInv, NEW p \in Producer, ReserveSlots(p), queue[producer[p].session].enq = producer[p].pos
  PROVE  NotifyInv'
<1>1. NotifyTypes /\ Positions /\ SlotsTell /\ Reserved /\ ReservedOnce /\ Cached /\ Copying /\ EventsOnce
  BY DEF NotifyInv
<1>2. PICK o \in Producers : o = producer[p]
  BY <1>1, ZenonT(30) DEF NotifyTypes
<1>3. PICK s \in Made : s = o.session /\ s # 0
  BY <1>1, <1>2, ZenonT(30) DEF NotifyTypes, ReserveSlots
<1>4. PICK b \in Nat, its \in Seq(Nat), n \in Nat, d \in Nat :
        b = o.pos /\ its = o.items /\ n = Len(its) /\ d = queue[s].deq
  <2>1. o.pos \in Nat /\ o.items \in Seq(Nat)
    BY ZenonT(30) DEF Producers
  <2>2. Len(o.items) \in Nat
    BY <2>1
  <2>3. queue[s] \in Queues
    BY <1>1, ZenonT(30) DEF NotifyTypes
  <2>4. queue[s].deq \in Nat
    BY <2>3, ZenonT(30) DEF Queues
  <2> QED
    BY <2>1, <2>2, <2>4, ZenonT(30)
<1>5. /\ o.at = "cas" /\ queue[s].enq = b /\ s \in Session /\ producer \in [Producer -> Producers]
      /\ queue \in [Made -> Queues] /\ queue[s] \in Queues /\ Depth \in Nat \ {0} /\ BatchNum \in Nat /\ MaxEvent \in Nat
  BY <1>1, <1>2, <1>3, <1>4, ZenonT(30) DEF NotifyTypes, ReserveSlots, NotifyConstants
<1>20. n \in 1 .. BatchNum /\ 1 <= n
  <2>1. Holds(p)
    BY <1>2, <1>5, ZenonT(30) DEF Holds
  <2>2. Len(producer[p].items) \in 1 .. BatchNum
    BY <1>1, <2>1, ZenonT(30) DEF EventsOnce, Once, Fresh, Apart
  <2>3. n \in 1 .. BatchNum
    BY <1>2, <1>4, <2>2, ZenonT(30)
  <2> QED
    BY <2>3
<1>21. d <= b
  BY <1>1, <1>4, <1>5, ZenonT(30) DEF Positions
<1>22. b + n <= d + Depth
  <2>1. b <= MaxEvent /\ MaxEvent + BatchNum < 65536
    BY <1>5, FewPositions DEF NotifyConstants, Word
  <2>2. PICK c \in Nat : c = o.cached
    BY ZenonT(30) DEF Producers
  <2>3. c <= d
    BY <1>1, <1>2, <1>3, <1>4, <2>2, ZenonT(30) DEF Cached
  <2>4. PICK x \in Int : x = b - c + n
    OBVIOUS
  <2>5. 0 <= x /\ x < 65536
    BY <1>5, <1>20, <1>21, <2>1, <2>3, <2>4
  <2>6. x % 65536 = x
    BY <2>5, SMTT(30)
  <2>7. ~((b - c + n) % 65536 > Depth)
    BY <1>1, <1>2, <1>4, <1>5, <2>2, SMTT(30) DEF Cached, Exceeds, Word
  <2>8. x <= Depth
    BY <1>5, <2>4, <2>6, <2>7, SMTT(30)
  <2> QED
    BY <1>5, <2>3, <2>4, <2>8
<1>6. /\ UNCHANGED <<busyPolling, mActiveSession, accept, client, owner, process, next, delivered>>
      /\ Made' = Made /\ Session' = Session
  BY ZenonT(30) DEF ReserveSlots, Made, Session
<1>7. /\ queue' \in [Made -> Queues] /\ queue'[s].enq = b + n /\ queue'[s].deq = d
      /\ queue'[s].slot = queue[s].slot /\ \A t \in Made \ {s} : queue'[t] = queue[t]
  <2>1. PICK e \in Nat : e = b + n
    BY <1>4, <1>5
  <2>2. PICK c : c = [queue[s] EXCEPT !.enq = e]
    BY ZenonT(30)
  <2>3. c \in Queues /\ c.enq = e /\ c.deq = d /\ c.slot = queue[s].slot
    BY <1>2, <1>3, <1>4, <1>5, <2>1, <2>2, ZenonT(30) DEF Queues
  <2>4. queue' = [queue EXCEPT ![s] = c]
    BY <1>2, <1>3, <1>4, <1>5, <2>1, <2>2, ZenonT(30) DEF ReserveSlots
  <2> QED
    BY <1>2, <1>3, <1>4, <1>5, <2>1, <2>3, <2>4, ZenonT(30)
<1>8. /\ placed' \in [Session -> Seq(Nat)] /\ \A t \in Session \ {s} : placed'[t] = placed[t]
      /\ placed[s] \in Seq(Nat) /\ Len(placed[s]) = b /\ Len(placed'[s]) = b + n
      /\ \A k \in 1 .. b : placed'[s][k] = placed[s][k]
      /\ \A k \in 1 .. n : placed'[s][b + k] = its[k]
  <2>1. placed \in [Session -> Seq(Nat)] /\ placed[s] \in Seq(Nat) /\ Len(placed[s]) = b
    BY <1>1, <1>2, <1>3, <1>4, <1>5, ZenonT(30) DEF NotifyTypes, Positions
  <2>2. placed' = [placed EXCEPT ![s] = placed[s] \o its]
    BY <1>2, <1>3, <1>4, <1>5, ZenonT(30) DEF ReserveSlots
  <2>3. placed'[s] = placed[s] \o its
    BY <1>2, <1>3, <1>4, <1>5, <2>1, <2>2, ZenonT(30)
  <2>4. PICK a \in Seq(Nat) : a = placed[s]
    BY <1>4, <1>5, <2>1
  <2>5. /\ a \o its \in Seq(Nat) /\ Len(a \o its) = Len(a) + Len(its) /\ Len(a) \in Nat
        /\ \A k \in 1 .. Len(a) : (a \o its)[k] = a[k]
        /\ \A k \in 1 .. Len(its) : (a \o its)[Len(a) + k] = its[k]
    BY SMTT(30)
  <2>6. placed' \in [Session -> Seq(Nat)] /\ \A t \in Session \ {s} : placed'[t] = placed[t]
    BY <1>2, <1>3, <1>4, <1>5, <2>1, <2>2, <2>4, <2>5, ZenonT(30)
  <2> QED
    BY <1>4, <2>1, <2>3, <2>4, <2>5, <2>6, ZenonT(30)
<1>9. PICK r \in Producers :
        /\ producer' = [producer EXCEPT ![p] = r] /\ r.at = "publish" /\ r.index = 1
        /\ r.session = s /\ r.items = its /\ r.pos = b /\ r.cached = o.cached
  <2>1. PICK r : r = [o EXCEPT !.at = "publish", !.index = 1]
    OBVIOUS
  <2>2. r \in Producers /\ r.at = "publish" /\ r.index = 1 /\ r.session = s /\ r.items = its /\ r.pos = b /\ r.cached = o.cached
    BY <1>2, <1>3, <1>4, <1>5, <2>1, ZenonT(30) DEF Producers, Places
  <2>3. producer' = [producer EXCEPT ![p] = r]
    BY <1>2, <1>3, <1>4, <1>5, <2>1, ZenonT(30) DEF ReserveSlots, Goes
  <2> QED
    BY <2>2, <2>3, ZenonT(30)
<1>10. producer'[p] = r /\ \A q \in Producer \ {p} : producer'[q] = producer[q]
  BY <1>2, <1>3, <1>4, <1>5, <1>9, ZenonT(30)
<1>11. /\ \A t, i : ~Owes(producer[p], t, i)
       /\ \A t, i : Owes(producer'[p], t, i) <=> t = s /\ b + 1 <= i + 1 /\ i < b + n
  BY <1>2, <1>4, <1>5, <1>9, <1>10, ZenonT(30) DEF Owes
<1>23. \A t \in Made : queue'[t].deq = queue[t].deq /\ queue'[t].slot = queue[t].slot
  BY <1>4, <1>7, ZenonT(30)
<1>12. Positions'
  <2>1. ASSUME NEW t \in Made
        PROVE  /\ Len(placed'[t]) = queue'[t].enq /\ Len(delivered[t]) = queue'[t].deq
               /\ queue'[t].deq <= queue'[t].enq /\ queue'[t].enq <= queue'[t].deq + Depth
               /\ \A k \in 1 .. queue'[t].deq : delivered[t][k] = placed'[t][k]
    <3>1. /\ Len(placed[t]) = queue[t].enq /\ Len(delivered[t]) = queue[t].deq
          /\ queue[t].deq <= queue[t].enq /\ queue[t].enq <= queue[t].deq + Depth
          /\ \A k \in 1 .. queue[t].deq : delivered[t][k] = placed[t][k]
      BY <1>1, ZenonT(30) DEF Positions
    <3>2. CASE t = s
      <4>1. queue'[t].deq = d /\ queue'[t].enq = b + n /\ Len(placed'[t]) = b + n /\ Len(delivered[t]) = d
        BY <1>4, <1>7, <1>8, <3>1, <3>2, ZenonT(30)
      <4>2. \A k \in 1 .. d : k \in 1 .. b /\ delivered[t][k] = placed[t][k]
        BY <1>4, <1>21, <3>1, <3>2, SMTT(30)
      <4>3. \A k \in 1 .. d : delivered[t][k] = placed'[t][k]
        BY <1>8, <3>2, <4>2, ZenonT(30)
      <4>4. d <= b + n
        BY <1>21, SMTT(30)
      <4> QED
        BY <1>22, <4>1, <4>3, <4>4, ZenonT(30)
    <3>3. CASE t # s
      <4>1. t \in Session
        BY <1>1, ZenonT(30) DEF NotifyTypes
      <4> QED
        BY <1>7, <1>8, <3>1, <3>3, <4>1, ZenonT(30)
    <3> QED
      BY <3>2, <3>3, ZenonT(30)
  <2>2. ASSUME NEW t \in Session \ Made PROVE placed'[t] = <<>> /\ delivered[t] = <<>>
    <3>1. placed[t] = <<>> /\ delivered[t] = <<>> /\ t # s
      BY <1>1, ZenonT(30) DEF Positions
    <3>2. placed'[t] = placed[t]
      BY <1>8, <3>1, ZenonT(30)
    <3> QED
      BY <3>1, <3>2, ZenonT(30)
  <2> QED
    BY <1>6, <2>1, <2>2, ZenonT(30) DEF Positions
<1>13. SlotsTell'
  <2> SUFFICES ASSUME NEW t \in Made, NEW i \in queue'[t].deq .. queue'[t].deq + Depth - 1
               PROVE  IF i < queue'[t].enq /\ \A q \in Producer : ~Owes(producer'[q], t, i)
                      THEN queue'[t].slot[i % Depth] = [sequence |-> i + 1, event |-> placed'[t][i + 1]]
                      ELSE queue'[t].slot[i % Depth].sequence = i
    BY <1>6, ZenonT(30) DEF SlotsTell, Pending
  <2>1. i \in queue[t].deq .. queue[t].deq + Depth - 1
    BY <1>23, ZenonT(30)
  <2>2. IF i < queue[t].enq /\ \A q \in Producer : ~Owes(producer[q], t, i)
        THEN queue[t].slot[i % Depth] = [sequence |-> i + 1, event |-> placed[t][i + 1]]
        ELSE queue[t].slot[i % Depth].sequence = i
    BY <1>1, <2>1, ZenonT(30) DEF SlotsTell, Pending
  <2>3. CASE t # s
    <3>1. (\A q \in Producer : ~Owes(producer'[q], t, i)) <=> (\A q \in Producer : ~Owes(producer[q], t, i))
      <4>1. ~Owes(producer'[p], t, i) /\ ~Owes(producer[p], t, i)
        BY <1>11, <2>3, SMTT(30)
      <4> QED
        BY <1>10, <4>1, ZenonT(30)
    <3>2. t \in Session
      BY <1>1, ZenonT(30) DEF NotifyTypes
    <3> QED
      BY <1>7, <1>8, <2>2, <2>3, <3>1, <3>2, ZenonT(30)
  <2>4. CASE t = s
    <3>1. i \in Nat
      <4>1. i \in d .. d + Depth - 1
        BY <1>4, <2>1, <2>4, ZenonT(30)
      <4>2. Depth \in Nat
        BY <1>5, ZenonT(30)
      <4> QED
        BY <4>1, <4>2, InWindow, ZenonT(30)
    <3>2. CASE i < b
      <4>1. (\A q \in Producer : ~Owes(producer'[q], t, i)) <=> (\A q \in Producer : ~Owes(producer[q], t, i))
        <5>1. ~(b + 1 <= i + 1)
          BY <3>1, <3>2, SMTT(30)
        <5>2. ~Owes(producer'[p], t, i) /\ ~Owes(producer[p], t, i)
          BY <1>11, <5>1, ZenonT(30)
        <5> QED
          BY <1>10, <5>2, ZenonT(30)
      <4>2. i < queue[t].enq /\ i < queue'[t].enq /\ placed'[s][i + 1] = placed[s][i + 1]
        <5>1. i + 1 \in 1 .. b /\ i < b + n
          BY <3>1, <3>2, SMTT(30)
        <5> QED
          BY <1>5, <1>7, <1>8, <2>4, <3>2, <5>1, ZenonT(30)
      <4> QED
        BY <1>7, <2>2, <2>4, <4>1, <4>2, ZenonT(30)
    <3>3. CASE ~(i < b)
      <4>1. ~(i < queue[t].enq)
        BY <1>4, <1>5, <2>4, <3>1, <3>3, ZenonT(30)
      <4>2. queue'[t].slot[i % Depth].sequence = i
        BY <1>7, <2>2, <2>4, <4>1, ZenonT(30)
      <4>3. i < b + n => Owes(producer'[p], t, i)
        BY <1>4, <1>5, <1>11, <2>4, <3>1, <3>3, SMTT(30)
      <4>4. ~(i < queue'[t].enq /\ \A q \in Producer : ~Owes(producer'[q], t, i))
        BY <1>7, <2>4, <4>3, ZenonT(30)
      <4> QED
        BY <4>2, <4>4, ZenonT(30)
    <3> QED
      BY <3>2, <3>3, ZenonT(30)
  <2> QED
    BY <2>3, <2>4, ZenonT(30)
<1>14. Reserved'
  <2> SUFFICES ASSUME NEW q \in Producer, producer'[q].at = "publish"
               PROVE  LET u == producer'[q] IN
                      /\ u.index \in 1 .. Len(u.items)
                      /\ queue'[u.session].deq + 1 <= u.pos + u.index /\ u.pos + Len(u.items) <= queue'[u.session].enq
                      /\ \A k \in u.index .. Len(u.items) : placed'[u.session][u.pos + k] = u.items[k]
    BY ZenonT(30) DEF Reserved
  <2>1. CASE q = p
    <3>1. producer'[q] = r /\ r.index = 1 /\ Len(r.items) = n
      BY <1>4, <1>9, <1>10, <2>1, ZenonT(30)
    <3> QED
      <4>1. 1 \in 1 .. n /\ d + 1 <= b + 1
        BY <1>20, <1>21, SMTT(30)
      <4>2. \A k \in 1 .. n : placed'[s][b + k] = its[k]
        BY <1>8, ZenonT(30)
      <4>3. queue'[s].deq = d /\ queue'[s].enq = b + n
        BY <1>7, ZenonT(30)
      <4> QED
        <5>1. r.index \in 1 .. Len(r.items)
          BY <3>1, <4>1, ZenonT(30)
        <5>2. queue'[r.session].deq + 1 <= r.pos + r.index /\ r.pos + Len(r.items) <= queue'[r.session].enq
          BY <1>9, <3>1, <4>1, <4>3, SMTT(30)
        <5>3. \A k \in r.index .. Len(r.items) : placed'[r.session][r.pos + k] = r.items[k]
          BY <1>9, <3>1, <4>2, ZenonT(30)
        <5> QED
          BY <3>1, <5>1, <5>2, <5>3, ZenonT(30)
  <2>2. CASE q # p
    <3>1. PICK u \in Producers : u = producer[q] /\ u = producer'[q] /\ u.at = "publish"
      BY <1>5, <1>10, <2>2, ZenonT(30)
    <3>2. PICK v \in Made : v = u.session /\ v \in Session
      BY <1>1, <3>1, ZenonT(30) DEF NotifyTypes
    <3>3. PICK m \in Nat, f \in Nat, c \in Nat : m = Len(u.items) /\ f = u.pos /\ c = u.index
      <4>1. u.items \in Seq(Nat) /\ u.pos \in Nat /\ u.index \in Nat
        BY ZenonT(30) DEF Producers
      <4>2. Len(u.items) \in Nat
        BY <4>1, SMTT(30)
      <4> QED
        BY <4>1, <4>2, ZenonT(30)
    <3>4. /\ c \in 1 .. m /\ queue[v].deq + 1 <= f + c /\ f + m <= queue[v].enq
          /\ \A k \in c .. m : placed[v][f + k] = u.items[k]
      BY <1>1, <3>1, <3>2, <3>3, ZenonT(30) DEF Reserved
    <3>5. /\ queue'[v].deq + 1 <= f + c /\ f + m <= queue'[v].enq
          /\ \A k \in c .. m : placed'[v][f + k] = u.items[k]
      <4>1. CASE v # s
        BY <1>7, <1>8, <3>2, <3>4, <4>1, ZenonT(30)
      <4>2. CASE v = s
        <5>1. f + m <= b /\ queue'[v].deq = queue[v].deq /\ queue'[v].enq = b + n
          BY <1>5, <1>7, <1>23, <3>4, <4>2, ZenonT(30)
        <5>2. ASSUME NEW k \in c .. m PROVE placed'[v][f + k] = u.items[k]
          <6>1. PICK j \in 1 .. b : j = f + k
            BY <3>4, <5>1, SMTT(30)
          <6>2. placed'[s][j] = placed[s][j]
            BY <1>8, ZenonT(30)
          <6> QED
            BY <3>4, <4>2, <6>1, <6>2, ZenonT(30)
        <5>3. queue'[v].deq + 1 <= f + c
          BY <3>4, <5>1, ZenonT(30)
        <5>4. f + m <= b + n
          BY <1>20, <5>1, SMTT(30)
        <5>5. f + m <= queue'[v].enq
          BY <5>1, <5>4, ZenonT(30)
        <5> QED
          BY <5>2, <5>3, <5>5, ZenonT(30)
      <4> QED
        BY <4>1, <4>2, ZenonT(30)
    <3> QED
      BY <3>1, <3>2, <3>3, <3>4, <3>5, ZenonT(30)
  <2> QED
    BY <2>1, <2>2, ZenonT(30)
<1>15. ReservedOnce'
  <2>1. ASSUME NEW q \in Producer \ {p}, NEW i \in Nat, Owes(producer'[q], s, i), Owes(producer'[p], s, i) PROVE FALSE
    <3>1. producer[q].at = "publish" /\ producer[q].session = s /\ i < producer[q].pos + Len(producer[q].items)
      BY <1>10, <2>1, ZenonT(30) DEF Owes
    <3>2. producer[q].pos + Len(producer[q].items) <= b /\ producer[q].pos \in Nat /\ Len(producer[q].items) \in Nat
      <4>1. producer[q] \in Producers
        BY <1>5, ZenonT(30)
      <4>2. producer[q].pos + Len(producer[q].items) <= queue[s].enq
        BY <1>1, <3>1, ZenonT(30) DEF Reserved
      <4> QED
        BY <1>5, <4>1, <4>2, SMTT(30) DEF Producers
    <3>3. b + 1 <= i + 1
      BY <1>11, <2>1, ZenonT(30)
    <3> QED
      BY <1>4, <1>5, <3>1, <3>2, <3>3, SMTT(30)
  <2>2. ASSUME NEW q \in Producer, NEW u \in Producer, NEW t \in Made, NEW i \in Nat, Owes(producer'[q], t, i), Owes(producer'[u], t, i)
        PROVE  q = u
    <3>1. CASE q = p \/ u = p
      BY <1>11, <2>1, <2>2, <3>1, ZenonT(30)
    <3>2. CASE q # p /\ u # p
      BY <1>1, <1>10, <2>2, <3>2, ZenonT(30) DEF ReservedOnce, Pending
    <3> QED
      BY <3>1, <3>2, ZenonT(30)
  <2> QED
    BY <1>6, <2>2, ZenonT(30) DEF ReservedOnce, Pending
<1>16. Cached'
  <2> SUFFICES ASSUME NEW q \in Producer
               PROVE  /\ producer'[q].session # 0 => producer'[q].cached <= queue'[producer'[q].session].deq
                      /\ producer'[q].at = "cas" => ~Exceeds(producer'[q].pos, producer'[q].cached, Len(producer'[q].items))
    BY ZenonT(30) DEF Cached, Exceeds
  <2>1. producer[q].session # 0 => producer[q].session \in Made
    BY <1>1, ZenonT(30) DEF NotifyTypes
  <2>2. \A t \in Made : queue'[t].deq = queue[t].deq
    BY <1>23, ZenonT(30)
  <2>3. CASE q = p
    BY <1>1, <1>2, <1>3, <1>4, <1>5, <1>9, <1>10, <2>2, <2>3, ZenonT(30) DEF Cached
  <2>4. CASE q # p
    BY <1>1, <1>10, <2>1, <2>2, <2>4, ZenonT(30) DEF Cached
  <2> QED
    BY <2>3, <2>4, ZenonT(30)
<1>17. Copying'
  <2> DEFINE c == client.session
  <2>1. CASE client.at \notin {"copy", "release"}
    BY <1>6, <2>1, ZenonT(30) DEF Copying
  <2>2. CASE client.at \in {"copy", "release"}
    <3>1. c \in Made /\ queue'[c].deq = queue[c].deq /\ queue'[c].slot = queue[c].slot /\ queue[c].deq \in Nat /\ queue[c].enq \in Nat
      BY <1>1, <1>2, <1>3, <1>4, <1>5, <1>7, <2>2, ZenonT(30) DEF NotifyTypes, Queues
    <3>2. queue[c].slot[queue[c].deq % Depth].sequence = queue[c].deq + 1
      BY <1>1, <2>2, ZenonT(30) DEF Copying
    <3>3. queue[c].deq < queue[c].enq
      <4>1. queue[c].deq \in queue[c].deq .. queue[c].deq + Depth - 1
        BY <1>4, <1>5, <3>1, SMTT(30)
      <4>2. \/ queue[c].deq < queue[c].enq
            \/ queue[c].slot[queue[c].deq % Depth].sequence = queue[c].deq
        BY <1>1, <3>1, <4>1, ZenonT(30) DEF SlotsTell, Pending
      <4> QED
        BY <3>1, <3>2, <4>2, SMTT(30)
    <3>4. placed'[c][queue[c].deq + 1] = placed[c][queue[c].deq + 1]
      <4>1. CASE c = s
        <5>1. PICK j \in 1 .. b : j = queue[c].deq + 1
          BY <1>5, <3>1, <3>3, <4>1, SMTT(30)
        <5>2. placed'[s][j] = placed[s][j]
          BY <1>8, ZenonT(30)
        <5> QED
          BY <4>1, <5>1, <5>2, ZenonT(30)
      <4>2. CASE c # s
        <5>1. c \in Session
          BY <1>1, <3>1, ZenonT(30) DEF NotifyTypes
        <5> QED
          BY <1>8, <4>2, <5>1, ZenonT(30)
      <4> QED
        BY <4>1, <4>2, ZenonT(30)
    <3>5. client.at = "release" => client.event = placed[c][queue[c].deq + 1]
      BY <1>1, ZenonT(30) DEF Copying
    <3> QED
      BY <1>6, <3>1, <3>2, <3>4, <3>5, ZenonT(30) DEF Copying
  <2> QED
    BY <2>1, <2>2, ZenonT(30)
<1>18. EventsOnce'
  <2>1. \A q \in Producer : Holds(q)' => q # p /\ Holds(q) /\ producer'[q] = producer[q]
    BY <1>9, <1>10, ZenonT(30) DEF Holds
  <2>2. Holds(p) /\ \A k, l \in 1 .. n : its[k] = its[l] => k = l
    <3>1. Holds(p)
      BY <1>2, <1>5, ZenonT(30) DEF Holds
    <3>2. \A k, l \in 1 .. Len(producer[p].items) : producer[p].items[k] = producer[p].items[l] => k = l
      BY <1>1, <3>1, ZenonT(30) DEF EventsOnce, Once, Fresh, Apart
    <3>3. producer[p].items = its /\ Len(producer[p].items) = n
      BY <1>2, <1>4, ZenonT(30)
    <3> QED
      BY <3>1, <3>2, <3>3, ZenonT(30)
  <2>3. \A k \in 1 .. n : its[k] \in 1 .. next - 1 /\ \A l \in 1 .. b : its[k] # placed[s][l]
    <3>1. /\ \A k \in 1 .. Len(producer[p].items) : producer[p].items[k] \in 1 .. next - 1
          /\ \A k \in 1 .. Len(producer[p].items) : \A l \in 1 .. Len(placed[s]) : producer[p].items[k] # placed[s][l]
      BY <1>1, <2>2, ZenonT(30) DEF EventsOnce, Once, Fresh, Apart
    <3>2. producer[p].items = its /\ Len(producer[p].items) = n /\ Len(placed[s]) = b
      BY <1>2, <1>4, <1>8, ZenonT(30)
    <3> QED
      BY <3>1, <3>2, ZenonT(30)
  <2>4. ASSUME NEW k \in 1 .. b + n
        PROVE  \/ k \in 1 .. b /\ placed'[s][k] = placed[s][k]
               \/ \E j \in 1 .. n : k = b + j /\ placed'[s][k] = its[j]
    <3>1. CASE k <= b
      <4>1. k \in 1 .. b
        BY <3>1, SMTT(30)
      <4> QED
        BY <1>8, <4>1, ZenonT(30)
    <3>2. CASE k > b
      <4>1. PICK j \in 1 .. n : k = b + j
        <5>1. k - b \in 1 .. n /\ k = b + (k - b)
          BY <3>2, SMTT(30)
        <5> QED
          BY <5>1, ZenonT(30)
      <4>2. placed'[s][b + j] = its[j]
        BY <1>8, ZenonT(30)
      <4> QED
        BY <4>1, <4>2, ZenonT(30)
    <3> QED
      BY <3>1, <3>2, SMTT(30)
  <2>5. ASSUME NEW t \in Made
        PROVE  /\ \A k \in 1 .. Len(placed'[t]) : placed'[t][k] \in 1 .. next - 1
               /\ \A k, l \in 1 .. Len(placed'[t]) : placed'[t][k] = placed'[t][l] => k = l
    <3>1. /\ \A k \in 1 .. Len(placed[t]) : placed[t][k] \in 1 .. next - 1
          /\ \A k, l \in 1 .. Len(placed[t]) : placed[t][k] = placed[t][l] => k = l
      BY <1>1, ZenonT(30) DEF EventsOnce, Once, Fresh, Apart
    <3>2. CASE t # s
      <4>1. t \in Session
        BY <1>1 DEF NotifyTypes
      <4> QED
        BY <1>8, <3>1, <3>2, <4>1, ZenonT(30)
    <3>3. CASE t = s
      <4>1. Len(placed'[t]) = b + n /\ Len(placed[t]) = b
        BY <1>8, <3>3, ZenonT(30)
      <4>2. \A k \in 1 .. b + n : placed'[s][k] \in 1 .. next - 1
        BY <2>3, <2>4, <3>1, <3>3, <4>1, ZenonT(30)
      <4>3. ASSUME NEW k \in 1 .. b + n, NEW l \in 1 .. b + n, placed'[s][k] = placed'[s][l] PROVE k = l
        <5>1. CASE k \in 1 .. b /\ placed'[s][k] = placed[s][k]
          <6>1. ~\E j \in 1 .. n : placed'[s][l] = its[j]
            BY <2>3, <4>3, <5>1, ZenonT(30)
          <6>2. l \in 1 .. b /\ placed'[s][l] = placed[s][l]
            BY <2>4, <6>1, ZenonT(30)
          <6> QED
            BY <3>1, <3>3, <4>1, <4>3, <5>1, <6>2, ZenonT(30)
        <5>2. ASSUME NEW i \in 1 .. n, k = b + i, placed'[s][k] = its[i] PROVE k = l
          <6>1. ~(l \in 1 .. b /\ placed'[s][l] = placed[s][l])
            BY <2>3, <4>3, <5>2, ZenonT(30)
          <6>2. PICK j \in 1 .. n : l = b + j /\ placed'[s][l] = its[j]
            BY <2>4, <6>1, ZenonT(30)
          <6>3. i = j
            BY <2>2, <4>3, <5>2, <6>2, ZenonT(30)
          <6> QED
            BY <5>2, <6>2, <6>3, ZenonT(30)
        <5> QED
          BY <2>4, <5>1, <5>2, ZenonT(30)
      <4> QED
        BY <3>3, <4>1, <4>2, <4>3, ZenonT(30)
    <3> QED
      BY <3>2, <3>3, ZenonT(30)
  <2>6. ASSUME NEW q \in Producer, Holds(q)'
        PROVE  /\ Len(producer'[q].items) \in 1 .. BatchNum
               /\ \A k \in 1 .. Len(producer'[q].items) : producer'[q].items[k] \in 1 .. next - 1
               /\ \A k, l \in 1 .. Len(producer'[q].items) : producer'[q].items[k] = producer'[q].items[l] => k = l
               /\ \A t \in Made : \A k \in 1 .. Len(producer'[q].items) : \A l \in 1 .. Len(placed'[t]) :
                    producer'[q].items[k] # placed'[t][l]
    <3>1. q # p /\ Holds(q) /\ producer'[q] = producer[q]
      BY <2>1, <2>6, ZenonT(30)
    <3>2. /\ Len(producer[q].items) \in 1 .. BatchNum
          /\ \A k \in 1 .. Len(producer[q].items) : producer[q].items[k] \in 1 .. next - 1
          /\ \A k, l \in 1 .. Len(producer[q].items) : producer[q].items[k] = producer[q].items[l] => k = l
          /\ \A t \in Made : \A k \in 1 .. Len(producer[q].items) : \A l \in 1 .. Len(placed[t]) :
                    producer[q].items[k] # placed[t][l]
      BY <1>1, <3>1, ZenonT(30) DEF EventsOnce, Once, Fresh, Apart
    <3>3. \A k \in 1 .. Len(producer[q].items) : \A l \in 1 .. n : producer[q].items[k] # its[l]
      <4>1. \A k \in 1 .. Len(producer[q].items) : \A l \in 1 .. Len(producer[p].items) : producer[q].items[k] # producer[p].items[l]
        BY <1>1, <2>2, <3>1, ZenonT(30) DEF EventsOnce, Once, Fresh, Apart
      <4>2. producer[p].items = its /\ Len(producer[p].items) = n
        BY <1>2, <1>4, ZenonT(30)
      <4> QED
        BY <4>1, <4>2, ZenonT(30)
    <3>4. ASSUME NEW t \in Made, NEW k \in 1 .. Len(producer[q].items), NEW l \in 1 .. Len(placed'[t])
          PROVE  producer[q].items[k] # placed'[t][l]
      <4>1. CASE t # s
        <5>1. t \in Session
          BY <1>1, ZenonT(30) DEF NotifyTypes
        <5> QED
          <6>1. placed'[t] = placed[t]
            BY <1>8, <4>1, <5>1, ZenonT(30)
          <6> QED
            BY <3>2, <3>4, <6>1, SMTT(60)
      <4>2. CASE t = s
        <5>1. l \in 1 .. b + n /\ Len(placed[s]) = b
          BY <1>8, <4>2, ZenonT(30)
        <5> QED
          <6>1. CASE l \in 1 .. b /\ placed'[s][l] = placed[s][l]
            <7>1. l \in 1 .. Len(placed[s])
              BY <5>1, <6>1, ZenonT(30)
            <7>2. producer[q].items[k] # placed[s][l]
              BY <3>2, <7>1, ZenonT(30)
            <7> QED
              BY <4>2, <6>1, <7>2, ZenonT(30)
          <6>2. CASE \E j \in 1 .. n : l = b + j /\ placed'[s][l] = its[j]
            BY <3>3, <4>2, <6>2, ZenonT(30)
          <6> QED
            BY <2>4, <5>1, <6>1, <6>2, ZenonT(30)
      <4> QED
        BY <4>1, <4>2, ZenonT(30)
    <3>5. producer'[q].items = producer[q].items
      BY <3>1, ZenonT(30)
    <3>6. \A t \in Made : \A k \in 1 .. Len(producer[q].items) : \A l \in 1 .. Len(placed'[t]) :
            producer[q].items[k] # placed'[t][l]
      BY <3>4, ZenonT(30)
    <3>7. Fresh(producer[q].items, Made, next, placed')
      BY <3>2, <3>6, ZenonT(30) DEF Fresh
    <3>8. Fresh(producer'[q].items, Made, next, placed')
      BY <3>5, <3>7
    <3> QED
      BY <3>8, ZenonT(30) DEF Fresh
  <2>7. ASSUME NEW q \in Producer, NEW u \in Producer, Holds(q)', Holds(u)', q # u
        PROVE  \A k \in 1 .. Len(producer'[q].items) : \A l \in 1 .. Len(producer'[u].items) :
                 producer'[q].items[k] # producer'[u].items[l]
    <3>1. Holds(q) /\ Holds(u) /\ producer'[q] = producer[q] /\ producer'[u] = producer[u]
      BY <2>1, <2>7, ZenonT(30)
    <3>2. \A k \in 1 .. Len(producer[q].items) : \A l \in 1 .. Len(producer[u].items) :
            producer[q].items[k] # producer[u].items[l]
      BY <1>1, <2>7, <3>1, ZenonT(30) DEF EventsOnce, Once, Fresh, Apart
    <3> QED
      BY <3>1, <3>2, ZenonT(30)
  <2> QED
    BY <1>6, <2>5, <2>6, <2>7, ZenonT(30) DEF EventsOnce, Once, Fresh, Apart
<1>19. NotifyTypes'
  <2>1. /\ next' \in Nat /\ 1 <= next' /\ next' <= MaxEvent + 1 /\ mActiveSession' \in Made \cup {0}
        /\ r.session \in Made \cup {0} /\ r.session # 0
    BY <1>1, <1>2, <1>3, <1>4, <1>5, <1>6, <1>9, ZenonT(30) DEF NotifyTypes
  <2> QED
    BY <1>6, <1>7, <1>8, <1>9, <2>1, ProducerTypes, ZenonT(30)
<1> QED
  BY <1>12, <1>13, <1>14, <1>15, <1>16, <1>17, <1>18, <1>19, ZenonT(30) DEF NotifyInv

(* PublishSlots: the slot of the first position left is filled.  The other *)
(* positions of the window are on other slots.                             *)
LEMMA PublishStep ==
  ASSUME NotifyConstants, NotifyInv, NEW p \in Producer, PublishSlots(p)
  PROVE  NotifyInv'
<1>1. NotifyTypes /\ Positions /\ SlotsTell /\ Reserved /\ ReservedOnce /\ Cached /\ Copying /\ EventsOnce
  BY DEF NotifyInv
<1>2. PICK o \in Producers : o = producer[p] /\ o.at = "publish"
  BY <1>1 DEF NotifyTypes, PublishSlots
<1>3. PICK s \in Made : s = o.session /\ s # 0
  BY <1>1, <1>2, ZenonT(30) DEF NotifyTypes
<1>4. PICK b \in Nat, its \in Seq(Nat), n \in Nat, d \in Nat, x \in Nat :
        b = o.pos /\ its = o.items /\ n = Len(its) /\ d = queue[s].deq /\ x = o.index
  <2>1. o.pos \in Nat /\ o.items \in Seq(Nat) /\ o.index \in Nat
    BY DEF Producers
  <2>2. Len(o.items) \in Nat
    BY <2>1
  <2>3. queue[s] \in Queues
    BY <1>1, ZenonT(30) DEF NotifyTypes
  <2>4. queue[s].deq \in Nat
    BY <2>3, ZenonT(30) DEF Queues
  <2> QED
    BY <2>1, <2>2, <2>4, ZenonT(30)
<1>5. /\ producer \in [Producer -> Producers] /\ queue \in [Made -> Queues] /\ queue[s] \in Queues
      /\ Depth \in Nat \ {0} /\ s \in Session /\ queue[s].enq \in Nat /\ queue[s].slot \in Slots
  BY <1>1, <1>3, ZenonT(30) DEF NotifyTypes, NotifyConstants, Queues
<1>6. /\ x \in 1 .. n /\ d + 1 <= b + x /\ b + n <= queue[s].enq
      /\ \A k \in x .. n : placed[s][b + k] = its[k]
  BY <1>1, <1>2, <1>3, <1>4, ZenonT(30) DEF Reserved
<1>7. queue[s].enq <= d + Depth
  BY <1>1, <1>4, ZenonT(30) DEF Positions
<1>8. PICK pos \in Nat : pos = b + x - 1
  BY <1>6, SMTT(30)
<1>9. d <= pos /\ pos < queue[s].enq /\ pos < b + n /\ pos + 1 = b + x /\ its[x] = placed[s][pos + 1] /\ its[x] \in Nat
  <2>1. d <= pos /\ pos < queue[s].enq /\ pos < b + n /\ pos + 1 = b + x
    BY <1>5, <1>6, <1>8, SMTT(30)
  <2>2. x \in x .. n /\ x \in 1 .. Len(its)
    BY <1>4, <1>6, SMTT(30)
  <2>3. placed[s][b + x] = its[x] /\ its[x] \in Nat
    BY <1>6, <2>2, SMTT(30)
  <2> QED
    BY <2>1, <2>3, ZenonT(30)
<1>10. /\ UNCHANGED <<busyPolling, mActiveSession, accept, client, owner, process, next, placed, delivered>>
       /\ Made' = Made /\ Session' = Session
  BY DEF PublishSlots, Made, Session
<1>11. PICK w \in [sequence : Nat, event : Nat] : w = [sequence |-> pos + 1, event |-> its[x]]
  <2>1. PICK a \in Nat, e \in Nat : a = pos + 1 /\ e = its[x]
    BY <1>9, SMTT(30)
  <2>2. [sequence |-> a, event |-> e] \in [sequence : Nat, event : Nat]
    OBVIOUS
  <2> QED
    BY <2>1, <2>2, ZenonT(30)
<1>12. pos % Depth \in Slot
  BY <1>5, ModSlot, ZenonT(30)
<1>13. /\ queue' \in [Made -> Queues] /\ \A t \in Made \ {s} : queue'[t] = queue[t]
       /\ queue'[s].enq = queue[s].enq /\ queue'[s].deq = d
       /\ queue'[s].slot = [queue[s].slot EXCEPT ![pos % Depth] = w]
  <2>1. PICK sl : sl = [queue[s].slot EXCEPT ![pos % Depth] = w]
    BY ZenonT(30)
  <2>2. sl \in Slots
    BY <1>5, <1>12, <2>1, ZenonT(30) DEF Slots
  <2>3. PICK c : c = [queue[s] EXCEPT !.slot = sl]
    BY ZenonT(30)
  <2>4. c \in Queues /\ c.enq = queue[s].enq /\ c.deq = d /\ c.slot = sl
    BY <1>4, <1>5, <2>2, <2>3, ZenonT(30) DEF Queues
  <2>5. queue' = [queue EXCEPT ![s] = c]
    BY <1>2, <1>3, <1>4, <1>8, <1>11, <2>1, <2>3, ZenonT(30) DEF PublishSlots
  <2> QED
    BY <1>5, <2>1, <2>4, <2>5, ZenonT(30)
<1>14. PICK r \in Producers :
         /\ producer' = [producer EXCEPT ![p] = r] /\ r.session = s /\ r.cached = o.cached
         /\ r.at \in {"publish", "idle", "signal"}
         /\ r.at = "publish" => x < n /\ r.index = x + 1 /\ r.pos = b /\ r.items = its
         /\ x < n => r.at = "publish"
  <2>1. CASE x < n
    <3>0. PICK y \in Nat : y = x + 1
      OBVIOUS
    <3>1. PICK r : r = [o EXCEPT !.index = y]
      BY ZenonT(30)
    <3>2. r \in Producers /\ r.at = "publish" /\ r.index = x + 1 /\ r.session = s /\ r.items = its /\ r.pos = b /\ r.cached = o.cached
      BY <1>2, <1>3, <1>4, <3>0, <3>1, ZenonT(30) DEF Producers
    <3>3. producer' = [producer EXCEPT ![p] = r]
      BY <1>2, <1>4, <2>1, <3>0, <3>1, ZenonT(30) DEF PublishSlots, Goes
    <3> QED
      BY <2>1, <3>2, <3>3, ZenonT(30)
  <2>2. CASE ~(x < n) /\ busyPolling
    <3>1. PICK r : r = [o EXCEPT !.at = "idle", !.items = <<>>, !.index = 0]
      OBVIOUS
    <3>2. <<>> \in Seq(Nat) /\ 0 \in Nat /\ "idle" \in Places
      BY DEF Places
    <3>3. r \in Producers /\ r.at = "idle" /\ r.session = s /\ r.cached = o.cached
      BY <1>3, <3>1, <3>2, ZenonT(30) DEF Producers
    <3>4. producer' = [producer EXCEPT ![p] = r]
      BY <1>2, <1>4, <2>2, <3>1, ZenonT(30) DEF PublishSlots, Goes, Done
    <3> QED
      BY <2>2, <3>3, <3>4, ZenonT(30)
  <2>3. CASE ~(x < n) /\ ~busyPolling
    <3>1. PICK r : r = [o EXCEPT !.at = "signal"]
      BY ZenonT(30)
    <3>2. r \in Producers /\ r.at = "signal" /\ r.session = s /\ r.cached = o.cached
      BY <1>3, <3>1, ZenonT(30) DEF Producers, Places
    <3>3. producer' = [producer EXCEPT ![p] = r]
      BY <1>2, <1>4, <2>3, <3>1, ZenonT(30) DEF PublishSlots, Goes
    <3> QED
      BY <2>3, <3>2, <3>3, ZenonT(30)
  <2> QED
    BY <2>1, <2>2, <2>3, ZenonT(30)
<1>15. producer'[p] = r /\ \A q \in Producer \ {p} : producer'[q] = producer[q]
  BY <1>5, <1>14, ZenonT(30)
<1>16. ASSUME NEW t, NEW i \in Nat
       PROVE  Owes(producer'[p], t, i) <=> Owes(producer[p], t, i) /\ i # pos
  <2>1. Owes(producer[p], t, i) <=> t = s /\ b + x <= i + 1 /\ i < b + n
    BY <1>2, <1>3, <1>4, ZenonT(30) DEF Owes
  <2>2. CASE x < n
    <3>1. Owes(producer'[p], t, i) <=> t = s /\ b + (x + 1) <= i + 1 /\ i < b + n
      BY <1>4, <1>14, <1>15, <2>2, ZenonT(30) DEF Owes
    <3> QED
      BY <1>8, <2>1, <3>1, SMTT(30)
  <2>3. CASE ~(x < n)
    <3>1. ~Owes(producer'[p], t, i)
      BY <1>14, <1>15, <2>3, ZenonT(30) DEF Owes
    <3> QED
      BY <1>6, <1>8, <2>1, <2>3, <3>1, SMTT(30)
  <2> QED
    BY <2>2, <2>3, ZenonT(30)
<1>17. Owes(producer[p], s, pos) /\ \A q \in Producer : Owes(producer'[q], s, pos) => FALSE
  <2>1. Owes(producer[p], s, pos)
    BY <1>2, <1>3, <1>4, <1>9, SMTT(30) DEF Owes
  <2>2. ASSUME NEW q \in Producer, Owes(producer'[q], s, pos) PROVE FALSE
    <3>1. CASE q = p
      BY <1>16, <2>2, <3>1, ZenonT(30)
    <3>2. CASE q # p
      <4>1. Owes(producer[q], s, pos)
        BY <1>15, <2>2, <3>2, ZenonT(30)
      <4> QED
        BY <1>1, <2>1, <3>2, <4>1 DEF ReservedOnce, Pending
    <3> QED
      BY <3>1, <3>2
  <2> QED
    BY <2>1, <2>2, ZenonT(30)
<1>18. \A t \in Made : queue'[t].deq = queue[t].deq /\ queue'[t].enq = queue[t].enq
  BY <1>4, <1>13, ZenonT(30)
<1>19. Positions'
  BY <1>1, <1>10, <1>18, ZenonT(30) DEF Positions
<1>20. SlotsTell'
  <2> SUFFICES ASSUME NEW t \in Made, NEW i \in queue[t].deq .. queue[t].deq + Depth - 1
               PROVE  IF i < queue[t].enq /\ \A q \in Producer : ~Owes(producer'[q], t, i)
                      THEN queue'[t].slot[i % Depth] = [sequence |-> i + 1, event |-> placed[t][i + 1]]
                      ELSE queue'[t].slot[i % Depth].sequence = i
    BY <1>10, <1>18, ZenonT(30) DEF SlotsTell, Pending
  <2>1. IF i < queue[t].enq /\ \A q \in Producer : ~Owes(producer[q], t, i)
        THEN queue[t].slot[i % Depth] = [sequence |-> i + 1, event |-> placed[t][i + 1]]
        ELSE queue[t].slot[i % Depth].sequence = i
    BY <1>1, ZenonT(30) DEF SlotsTell, Pending
  <2>2. i \in Nat
    BY <1>5, SMTT(30) DEF Queues
  <2>3. CASE t # s \/ i # pos
    <3>1. (\A q \in Producer : ~Owes(producer'[q], t, i)) <=> (\A q \in Producer : ~Owes(producer[q], t, i))
      <4>1. Owes(producer'[p], t, i) <=> Owes(producer[p], t, i)
        <5>1. CASE t # s
          <6>1. ~Owes(producer[p], t, i)
            BY <1>2, <1>3, <5>1, ZenonT(30) DEF Owes
          <6> QED
            BY <1>16, <2>2, <6>1, ZenonT(30)
        <5>2. CASE i # pos
          BY <1>16, <2>2, <5>2, ZenonT(30)
        <5> QED
          BY <2>3, <5>1, <5>2, ZenonT(30)
      <4> QED
        BY <1>15, <4>1, ZenonT(30)
    <3>2. queue'[t].slot[i % Depth] = queue[t].slot[i % Depth]
      <4>1. CASE t # s
        BY <1>13, <4>1, ZenonT(30)
      <4>2. CASE t = s /\ i # pos
        <5>1. i \in d .. d + Depth - 1 /\ pos \in d .. d + Depth - 1
          <6>1. i \in d .. d + Depth - 1
            BY <1>4, <4>2, ZenonT(30)
          <6>2. pos < d + Depth
            <7>1. queue[s].enq \in Nat /\ pos < queue[s].enq
              BY <1>5, <1>9, ZenonT(30)
            <7> QED
              BY <1>5, <1>7, <7>1, SMTT(30)
          <6> QED
            BY <1>5, <1>9, <6>1, <6>2, SMTT(30)
        <5>2. (i % Depth) # (pos % Depth)
          <6>1. CASE i < pos
            <7>1. pos < i + Depth
              BY <1>5, <2>2, <5>1, SMTT(30)
            <7> QED
              BY <1>5, <2>2, <6>1, <7>1, ModApart, ZenonT(30)
          <6>2. CASE pos < i
            <7>1. i < pos + Depth
              BY <1>5, <2>2, <5>1, SMTT(30)
            <7> QED
              BY <1>5, <2>2, <6>2, <7>1, ModApart, ZenonT(30)
          <6> QED
            BY <2>2, <4>2, <6>1, <6>2, SMTT(30)
        <5>3. i % Depth \in Slot
          BY <1>5, <2>2, ModSlot, ZenonT(30)
        <5>4. PICK j \in Slot, k \in Slot : j = i % Depth /\ k = pos % Depth /\ j # k
          BY <1>12, <5>2, <5>3, ZenonT(30)
        <5>5. queue'[s].slot = [queue[s].slot EXCEPT ![k] = w]
          BY <1>13, <5>4, ZenonT(30)
        <5>6. queue'[s].slot[j] = queue[s].slot[j]
          BY <1>5, <5>4, <5>5, ZenonT(30) DEF Slots
        <5> QED
          BY <4>2, <5>4, <5>6, ZenonT(30)
      <4> QED
        BY <2>3, <4>1, <4>2, ZenonT(30)
    <3> QED
      BY <2>1, <3>1, <3>2, ZenonT(30)
  <2>4. CASE t = s /\ i = pos
    <3>1. i < queue[t].enq /\ \A q \in Producer : ~Owes(producer'[q], t, i)
      BY <1>9, <1>17, <2>4, ZenonT(30)
    <3>2. PICK k \in Slot : k = pos % Depth
      BY <1>12, ZenonT(30)
    <3>3. queue'[s].slot = [queue[s].slot EXCEPT ![k] = w]
      BY <1>13, <3>2, ZenonT(30)
    <3>4. queue'[s].slot[k] = w
      BY <1>5, <3>3, ZenonT(30) DEF Slots
    <3>5. w = [sequence |-> i + 1, event |-> placed[t][i + 1]]
      BY <1>9, <1>11, <2>4, ZenonT(30)
    <3> QED
      BY <2>4, <3>1, <3>2, <3>4, <3>5, ZenonT(30)
  <2> QED
    BY <2>3, <2>4, ZenonT(30)
<1>21. Reserved'
  <2> SUFFICES ASSUME NEW q \in Producer, producer'[q].at = "publish"
               PROVE  LET u == producer'[q] IN
                      /\ u.index \in 1 .. Len(u.items)
                      /\ queue'[u.session].deq + 1 <= u.pos + u.index /\ u.pos + Len(u.items) <= queue'[u.session].enq
                      /\ \A k \in u.index .. Len(u.items) : placed'[u.session][u.pos + k] = u.items[k]
    BY ZenonT(30) DEF Reserved
  <2>1. CASE q = p
    <3>1. /\ producer'[q] = r /\ r.at = "publish" /\ x < n /\ r.index = x + 1 /\ r.pos = b /\ r.items = its
          /\ r.session = s /\ Len(r.items) = n
      BY <1>4, <1>14, <1>15, <2>1, ZenonT(30)
    <3>2. x + 1 \in 1 .. n /\ d + 1 <= b + (x + 1)
      BY <1>6, <3>1, SMTT(30)
    <3>3. \A k \in x + 1 .. n : placed'[s][b + k] = its[k]
      <4>1. \A k \in x + 1 .. n : k \in x .. n
        BY <1>6, SMTT(30)
      <4> QED
        BY <1>6, <1>10, <4>1, ZenonT(30)
    <3>4. queue'[s].deq = d /\ b + n <= queue'[s].enq
      BY <1>6, <1>13, ZenonT(30)
    <3>5. r.index \in 1 .. Len(r.items)
      BY <3>1, <3>2, ZenonT(30)
    <3>6. queue'[r.session].deq + 1 <= r.pos + r.index /\ r.pos + Len(r.items) <= queue'[r.session].enq
      BY <3>1, <3>2, <3>4, ZenonT(30)
    <3>7. \A k \in r.index .. Len(r.items) : placed'[r.session][r.pos + k] = r.items[k]
      BY <3>1, <3>3, ZenonT(30)
    <3> QED
      BY <3>1, <3>5, <3>6, <3>7, ZenonT(30)
  <2>2. CASE q # p
    <3>1. producer'[q] = producer[q] /\ producer[q].at = "publish" /\ producer[q].session \in Made
      <4>1. producer'[q] = producer[q]
        BY <1>15, <2>2, ZenonT(30)
      <4>2. producer[q].at = "publish"
        BY <4>1, ZenonT(30)
      <4> QED
        BY <1>1, <4>1, <4>2, ZenonT(30) DEF NotifyTypes
    <3>2. LET u == producer[q] IN
          /\ u.index \in 1 .. Len(u.items)
          /\ queue[u.session].deq + 1 <= u.pos + u.index /\ u.pos + Len(u.items) <= queue[u.session].enq
          /\ \A k \in u.index .. Len(u.items) : placed[u.session][u.pos + k] = u.items[k]
      BY <1>1, <3>1, ZenonT(30) DEF Reserved
    <3> QED
      BY <1>10, <1>18, <3>1, <3>2, ZenonT(30)
  <2> QED
    BY <2>1, <2>2, ZenonT(30)
<1>22. ReservedOnce'
  <2>1. \A q \in Producer : \A t \in Made : \A i \in Nat : Owes(producer'[q], t, i) => Owes(producer[q], t, i)
    BY <1>15, <1>16, ZenonT(30)
  <2>2. ASSUME NEW q \in Producer, NEW u \in Producer, NEW t \in Made, NEW i \in Nat, Owes(producer'[q], t, i), Owes(producer'[u], t, i)
        PROVE  q = u
    <3>1. Owes(producer[q], t, i) /\ Owes(producer[u], t, i)
      BY <2>1, <2>2, ZenonT(30)
    <3> QED
      BY <1>1, <3>1, ZenonT(30) DEF ReservedOnce, Pending
  <2> QED
    BY <1>10, <2>2, ZenonT(30) DEF ReservedOnce, Pending
<1>23. Cached'
  <2> SUFFICES ASSUME NEW q \in Producer
               PROVE  /\ producer'[q].session # 0 => producer'[q].cached <= queue'[producer'[q].session].deq
                      /\ producer'[q].at = "cas" => ~Exceeds(producer'[q].pos, producer'[q].cached, Len(producer'[q].items))
    BY ZenonT(30) DEF Cached, Exceeds
  <2>1. producer[q].session # 0 => producer[q].session \in Made
    BY <1>1, ZenonT(30) DEF NotifyTypes
  <2>2. CASE q = p
    <3>1. o.cached <= queue[s].deq
      BY <1>1, <1>2, <1>3, ZenonT(30) DEF Cached
    <3>2. producer'[q].at # "cas"
      BY <1>14, <1>15, <2>2, ZenonT(30)
    <3> QED
      BY <1>14, <1>15, <1>18, <2>2, <3>1, <3>2, ZenonT(30)
  <2>3. CASE q # p
    BY <1>1, <1>15, <1>18, <2>1, <2>3, ZenonT(30) DEF Cached
  <2> QED
    BY <2>2, <2>3, ZenonT(30)
<1>24. Copying'
  <2>1. CASE client.at \notin {"copy", "release"}
    BY <1>10, <2>1, ZenonT(30) DEF Copying
  <2>2. CASE client.at \in {"copy", "release"}
    <3>1. PICK c \in Made : c = client.session
      BY <1>1, <2>2, ZenonT(30) DEF NotifyTypes
    <3>2. PICK e \in Nat : e = queue[c].deq
      BY <1>5, ZenonT(30) DEF Queues
    <3>3. queue[c].slot[e % Depth].sequence = e + 1
      BY <1>1, <2>2, <3>1, <3>2, ZenonT(30) DEF Copying
    <3>4. e \in queue[c].deq .. queue[c].deq + Depth - 1
      BY <1>5, <3>2, SMTT(30)
    <3>5. e < queue[c].enq /\ \A q \in Producer : ~Owes(producer[q], c, e)
      <4>1. IF e < queue[c].enq /\ \A q \in Producer : ~Owes(producer[q], c, e)
            THEN queue[c].slot[e % Depth] = [sequence |-> e + 1, event |-> placed[c][e + 1]]
            ELSE queue[c].slot[e % Depth].sequence = e
        BY <1>1, <3>4, ZenonT(30) DEF SlotsTell, Pending
      <4>2. e + 1 # e
        OBVIOUS
      <4> QED
        BY <3>3, <4>1, <4>2, ZenonT(30)
    <3>6. \A q \in Producer : ~Owes(producer'[q], c, e)
      BY <1>15, <1>16, <3>5, ZenonT(30)
    <3>7. queue'[c].deq = e /\ queue'[c].enq = queue[c].enq
      BY <1>18, <3>2, ZenonT(30)
    <3>8. queue'[c].slot[e % Depth] = [sequence |-> e + 1, event |-> placed'[c][e + 1]]
      <4>1. c \in Made' /\ e \in queue'[c].deq .. queue'[c].deq + Depth - 1
        BY <1>10, <3>2, <3>4, <3>7, ZenonT(30)
      <4>2. e < queue'[c].enq /\ \A q \in Producer : ~Owes(producer'[q], c, e)
        BY <3>5, <3>6, <3>7, ZenonT(30)
      <4> QED
        BY <1>20, <4>1, <4>2, ZenonT(30) DEF SlotsTell, Pending
    <3>9. client.at = "release" => client.event = placed[c][e + 1]
      BY <1>1, <3>1, <3>2, ZenonT(30) DEF Copying
    <3> QED
      BY <1>10, <3>1, <3>7, <3>8, <3>9, SMTT(30) DEF Copying
  <2> QED
    BY <2>1, <2>2, ZenonT(30)
<1>25. EventsOnce'
  <2>1. \A q \in Producer : Holds(q)' => Holds(q) /\ producer'[q].items = producer[q].items
    BY <1>14, <1>15, ZenonT(30) DEF Holds
  <2>2. placed' = placed /\ next' = next /\ Made' = Made
    BY <1>10, ZenonT(30)
  <2> QED
    BY <1>1, <2>1, <2>2, NothingPlaced, ZenonT(30)
<1>26. NotifyTypes'
  <2>1. /\ next' \in Nat /\ 1 <= next' /\ next' <= MaxEvent + 1 /\ mActiveSession' \in Made \cup {0}
        /\ placed' \in [Session -> Seq(Nat)] /\ r.session \in Made \cup {0} /\ r.session # 0
    BY <1>1, <1>3, <1>10, <1>14, ZenonT(30) DEF NotifyTypes
  <2> QED
    BY <1>10, <1>13, <1>14, <2>1, ProducerTypes, ZenonT(30)
<1> QED
  BY <1>19, <1>20, <1>21, <1>22, <1>23, <1>24, <1>25, <1>26 DEF NotifyInv

(* ReleaseSlot: the slot now belongs to the position a window later.       *)
LEMMA ReleaseStep ==
  ASSUME NotifyConstants, NotifyInv, ReleaseSlot
  PROVE  NotifyInv'
<1>1. NotifyTypes /\ Positions /\ SlotsTell /\ Reserved /\ ReservedOnce /\ Cached /\ Copying /\ EventsOnce
  BY DEF NotifyInv
<1>2. PICK s \in Made : s = client.session /\ s \in Session
  BY <1>1, ZenonT(30) DEF NotifyTypes, ReleaseSlot
<1>3. /\ queue \in [Made -> Queues] /\ queue[s] \in Queues /\ client \in Clients /\ Depth \in Nat \ {0}
      /\ placed \in [Session -> Seq(Nat)] /\ delivered \in [Session -> Seq(Nat)] /\ delivered[s] \in Seq(Nat)
  BY <1>1, <1>2, ZenonT(30) DEF NotifyTypes, NotifyConstants
<1>4. PICK d \in Nat, e \in Nat, f \in Slots, v \in Nat :
        d = queue[s].deq /\ e = queue[s].enq /\ f = queue[s].slot /\ v = client.event
  BY <1>3, ZenonT(30) DEF Queues, Clients
<1>5. f[d % Depth].sequence = d + 1 /\ v = placed[s][d + 1]
  BY <1>1, <1>2, <1>4, ZenonT(30) DEF Copying, ReleaseSlot
<1>6. d < e /\ \A q \in Producer : ~Owes(producer[q], s, d)
  <2>1. d \in queue[s].deq .. queue[s].deq + Depth - 1
    BY <1>3, <1>4, SMTT(30)
  <2>2. IF d < e /\ \A q \in Producer : ~Owes(producer[q], s, d)
        THEN f[d % Depth] = [sequence |-> d + 1, event |-> placed[s][d + 1]]
        ELSE f[d % Depth].sequence = d
    BY <1>1, <1>4, <2>1, ZenonT(30) DEF SlotsTell, Pending
  <2> QED
    BY <1>5, <2>2, SMTT(30)
<1>7. e <= d + Depth /\ Len(placed[s]) = e /\ Len(delivered[s]) = d /\ \A k \in 1 .. d : delivered[s][k] = placed[s][k]
  BY <1>1, <1>4, ZenonT(30) DEF Positions
<1>8. /\ UNCHANGED <<busyPolling, mActiveSession, producer, accept, owner, process, next, placed>>
      /\ Made' = Made /\ Session' = Session
  BY ZenonT(30) DEF ReleaseSlot, Made, Session
<1>9. PICK j \in Slot : j = d % Depth
  BY <1>3, ModSlot, ZenonT(30)
<1>10. PICK w \in [sequence : Nat, event : Nat] : w = [f[j] EXCEPT !.sequence = d + Depth] /\ w.sequence = d + Depth
  <2>1. f[j] \in [sequence : Nat, event : Nat]
    BY DEF Slots
  <2>2. PICK a \in Nat : a = d + Depth
    BY <1>3
  <2>3. PICK g : g = [f[j] EXCEPT !.sequence = a]
    BY ZenonT(30)
  <2>4. g \in [sequence : Nat, event : Nat] /\ g.sequence = a
    BY <2>1, <2>3
  <2> QED
    BY <2>2, <2>3, <2>4
<1>11. /\ queue' \in [Made -> Queues] /\ \A t \in Made \ {s} : queue'[t] = queue[t]
       /\ queue'[s].enq = e /\ queue'[s].deq = d + 1 /\ queue'[s].slot = [f EXCEPT ![j] = w]
  <2>1. PICK sl : sl = [f EXCEPT ![j] = w]
    BY ZenonT(30)
  <2>2. sl \in Slots
    BY <2>1 DEF Slots
  <2>3. PICK y \in Nat : y = d + 1
    OBVIOUS
  <2>4. PICK c : c = [queue[s] EXCEPT !.slot = sl, !.deq = y]
    OBVIOUS
  <2>5. c \in Queues /\ c.enq = e /\ c.deq = y /\ c.slot = sl
    BY <1>3, <1>4, <2>2, <2>3, <2>4, ZenonT(30) DEF Queues
  <2>6. queue' = [queue EXCEPT ![s].slot[j].sequence = d + Depth, ![s].deq = @ + 1]
    BY <1>2, <1>4, <1>9, ZenonT(30) DEF ReleaseSlot
  <2>7. queue' = [queue EXCEPT ![s] = c]
    BY <1>3, <1>4, <1>10, <2>1, <2>3, <2>4, <2>6, ZenonT(30) DEF Queues
  <2> QED
    BY <1>3, <2>1, <2>3, <2>5, <2>7, ZenonT(30)
<1>12. /\ delivered' \in [Session -> Seq(Nat)] /\ \A t \in Session \ {s} : delivered'[t] = delivered[t]
       /\ Len(delivered'[s]) = d + 1 /\ delivered'[s][d + 1] = v
       /\ \A k \in 1 .. d : delivered'[s][k] = delivered[s][k]
  <2>1. PICK a \in Seq(Nat) : a = delivered[s] /\ Len(a) = d
    BY <1>3, <1>7, ZenonT(30)
  <2>2. /\ Append(a, v) \in Seq(Nat) /\ Len(Append(a, v)) = d + 1 /\ Append(a, v)[d + 1] = v
        /\ \A k \in 1 .. d : Append(a, v)[k] = a[k]
    BY <2>1, SMTT(30)
  <2>3. delivered' = [delivered EXCEPT ![s] = Append(a, v)]
    BY <1>2, <1>4, <2>1, ZenonT(30) DEF ReleaseSlot
  <2>4. delivered'[s] = Append(a, v)
    BY <1>2, <1>3, <2>3, ZenonT(30)
  <2>5. delivered' \in [Session -> Seq(Nat)] /\ \A t \in Session \ {s} : delivered'[t] = delivered[t]
    BY <1>2, <1>3, <2>2, <2>3, ZenonT(30)
  <2> QED
    BY <2>1, <2>2, <2>4, <2>5, ZenonT(30)
<1>13. \A t \in Made : queue'[t].enq = queue[t].enq /\ queue[t].deq <= queue'[t].deq /\ queue[t].deq \in Nat
  <2>1. \A t \in Made : queue[t].deq \in Nat
    BY <1>3, ZenonT(30) DEF Queues
  <2>2. d <= d + 1
    OBVIOUS
  <2>3. queue'[s].enq = queue[s].enq /\ queue[s].deq <= queue'[s].deq
    BY <1>4, <1>11, <2>2, ZenonT(30)
  <2>4. \A t \in Made \ {s} : queue'[t].enq = queue[t].enq /\ queue[t].deq <= queue'[t].deq
    <3> SUFFICES ASSUME NEW t \in Made \ {s}
                 PROVE  queue'[t].enq = queue[t].enq /\ queue[t].deq <= queue'[t].deq
      BY ZenonT(30)
    <3>1. queue'[t] = queue[t] /\ queue[t].deq \in Nat
      BY <1>11, <2>1, ZenonT(30)
    <3> QED
      BY <3>1, SMTT(30)
  <2> QED
    BY <2>1, <2>3, <2>4, ZenonT(30)
<1>14. Positions'
  <2>1. ASSUME NEW t \in Made
        PROVE  /\ Len(placed[t]) = queue'[t].enq /\ Len(delivered'[t]) = queue'[t].deq
               /\ queue'[t].deq <= queue'[t].enq /\ queue'[t].enq <= queue'[t].deq + Depth
               /\ \A k \in 1 .. queue'[t].deq : delivered'[t][k] = placed[t][k]
    <3>1. CASE t = s
      <4>1. \A k \in 1 .. d + 1 : delivered'[s][k] = placed[s][k]
        <5> SUFFICES ASSUME NEW k \in 1 .. d + 1 PROVE delivered'[s][k] = placed[s][k]
          BY ZenonT(30)
        <5>1. CASE k = d + 1
          BY <1>5, <1>12, <5>1, ZenonT(30)
        <5>2. CASE k # d + 1
          <6>1. k \in 1 .. d
            BY <5>2
          <6> QED
            BY <1>7, <1>12, <6>1, ZenonT(30)
        <5> QED
          BY <5>1, <5>2, ZenonT(30)
      <4>2. d + 1 <= e /\ e <= d + 1 + Depth
        BY <1>3, <1>6, <1>7, SMTT(30)
      <4> QED
        BY <1>7, <1>11, <1>12, <3>1, <4>1, <4>2, ZenonT(30)
    <3>2. CASE t # s
      <4>1. t \in Session
        BY <1>1, ZenonT(30) DEF NotifyTypes
      <4>2. queue'[t] = queue[t] /\ delivered'[t] = delivered[t]
        BY <1>11, <1>12, <3>2, <4>1, ZenonT(30)
      <4> QED
        BY <1>1, <4>2, SMTT(30) DEF Positions
    <3> QED
      BY <3>1, <3>2, ZenonT(30)
  <2>2. \A t \in Session \ Made : placed[t] = <<>> /\ delivered'[t] = <<>>
    BY <1>1, <1>12, ZenonT(30) DEF Positions
  <2>3. placed' = placed /\ Made' = Made /\ Session' = Session
    BY <1>8, ZenonT(30)
  <2> QED
    BY <2>1, <2>2, <2>3, ZenonT(30) DEF Positions
<1>15. SlotsTell'
  <2> SUFFICES ASSUME NEW t \in Made, NEW i \in queue'[t].deq .. queue'[t].deq + Depth - 1
               PROVE  IF i < queue'[t].enq /\ \A q \in Producer : ~Owes(producer[q], t, i)
                      THEN queue'[t].slot[i % Depth] = [sequence |-> i + 1, event |-> placed[t][i + 1]]
                      ELSE queue'[t].slot[i % Depth].sequence = i
    BY <1>8, ZenonT(30) DEF SlotsTell, Pending
  <2>1. CASE t # s
    <3>1. queue'[t] = queue[t]
      BY <1>11, <2>1, ZenonT(30)
    <3> QED
      BY <1>1, <3>1, ZenonT(30) DEF SlotsTell, Pending
  <2>2. CASE t = s
    <3>1. i \in d + 1 .. d + 1 + Depth - 1 /\ i \in Nat
      BY <1>3, <1>11, <2>2, SMTT(30)
    <3>2. CASE i = d + Depth
      <4>1. i % Depth = j
        <5>1. ((d + Depth) % Depth) = (d % Depth)
          BY <1>3, ModNext, ZenonT(30)
        <5> QED
          BY <1>9, <3>2, <5>1, ZenonT(30)
      <4>2. queue'[s].slot[j] = w
        BY <1>11, ZenonT(30) DEF Slots
      <4>3. ~(i < queue'[t].enq)
        <5>1. e <= d + Depth /\ Depth \in Nat
          BY <1>3, <1>7, ZenonT(30)
        <5>2. ~(d + Depth < e)
          BY <5>1, SMTT(30)
        <5> QED
          BY <1>11, <2>2, <3>2, <5>2, ZenonT(30)
      <4> QED
        BY <1>10, <2>2, <3>2, <4>1, <4>2, <4>3
    <3>3. CASE i # d + Depth
      <4>1. d < i /\ i < d + Depth /\ i \in d .. d + Depth - 1
        BY <1>3, <3>1, <3>3, SMTT(30)
      <4>2. (d % Depth) # (i % Depth)
        BY <1>3, <3>1, <4>1, ModApart, ZenonT(30)
      <4>3. PICK k \in Slot : k = i % Depth /\ k # j
        BY <1>3, <1>9, <3>1, <4>2, ModSlot, ZenonT(30)
      <4>4. queue'[s].slot[k] = f[k]
        BY <1>11, <4>3, ZenonT(30) DEF Slots
      <4>5. IF i < e /\ \A q \in Producer : ~Owes(producer[q], s, i)
            THEN f[i % Depth] = [sequence |-> i + 1, event |-> placed[s][i + 1]]
            ELSE f[i % Depth].sequence = i
        BY <1>1, <1>4, <4>1, ZenonT(30) DEF SlotsTell, Pending
      <4> QED
        BY <1>11, <2>2, <4>3, <4>4, <4>5, ZenonT(30)
    <3> QED
      BY <3>2, <3>3, ZenonT(30)
  <2> QED
    BY <2>1, <2>2, ZenonT(30)
<1>16. Reserved'
  <2> SUFFICES ASSUME NEW q \in Producer, producer[q].at = "publish"
               PROVE  LET u == producer[q] IN
                      /\ u.index \in 1 .. Len(u.items)
                      /\ queue'[u.session].deq + 1 <= u.pos + u.index /\ u.pos + Len(u.items) <= queue'[u.session].enq
                      /\ \A k \in u.index .. Len(u.items) : placed[u.session][u.pos + k] = u.items[k]
    BY <1>8, ZenonT(30) DEF Reserved
  <2>1. PICK u \in Producers : u = producer[q]
    BY <1>1, ZenonT(30) DEF NotifyTypes
  <2>2. PICK t \in Made : t = u.session
    BY <1>1, <2>1, ZenonT(30) DEF NotifyTypes
  <2>3. /\ u.index \in 1 .. Len(u.items)
        /\ queue[t].deq + 1 <= u.pos + u.index /\ u.pos + Len(u.items) <= queue[t].enq
        /\ \A k \in u.index .. Len(u.items) : placed[t][u.pos + k] = u.items[k]
    BY <1>1, <2>1, <2>2, ZenonT(30) DEF Reserved
  <2>4. queue'[t].deq + 1 <= u.pos + u.index
    <3>1. CASE t # s
      BY <1>11, <2>3, <3>1, ZenonT(30)
    <3>2. CASE t = s
      <4>1. PICK b \in Nat, x \in Nat, n \in Nat : b = u.pos /\ x = u.index /\ n = Len(u.items)
        <5>1. u.items \in Seq(Nat) /\ u.pos \in Nat /\ u.index \in Nat
          BY ZenonT(30) DEF Producers
        <5>2. Len(u.items) \in Nat
          BY <5>1, SMTT(30)
        <5> QED
          BY <5>1, <5>2, ZenonT(30)
      <4>2. x \in 1 .. n /\ d + 1 <= b + x
        BY <1>4, <2>3, <3>2, <4>1, ZenonT(30)
      <4>3. d < b + n
        BY <4>2, SMTT(30)
      <4>4. ~Owes(u, s, d)
        BY <1>6, <2>1, ZenonT(30)
      <4>5. ~(b + x <= d + 1)
        BY <2>1, <2>2, <3>2, <4>1, <4>3, <4>4, ZenonT(30) DEF Owes
      <4>6. d + 1 + 1 <= b + x
        BY <4>5, SMTT(30)
      <4> QED
        BY <1>11, <3>2, <4>1, <4>6, ZenonT(30)
    <3> QED
      BY <3>1, <3>2, ZenonT(30)
  <2>5. queue'[t].enq = queue[t].enq
    BY <1>13, ZenonT(30)
  <2> QED
    BY <2>1, <2>2, <2>3, <2>4, <2>5, ZenonT(30)
<1>17. ReservedOnce'
  BY <1>1, <1>8, ZenonT(30) DEF ReservedOnce, Pending
<1>18. Cached'
  <2> SUFFICES ASSUME NEW q \in Producer
               PROVE  /\ producer[q].session # 0 => producer[q].cached <= queue'[producer[q].session].deq
                      /\ producer[q].at = "cas" => ~Exceeds(producer[q].pos, producer[q].cached, Len(producer[q].items))
    BY <1>8, ZenonT(30) DEF Cached, Exceeds
  <2>1. producer[q].at = "cas" => ~Exceeds(producer[q].pos, producer[q].cached, Len(producer[q].items))
    BY <1>1, ZenonT(30) DEF Cached
  <2>2. ASSUME producer[q].session # 0 PROVE producer[q].cached <= queue'[producer[q].session].deq
    <3>1. PICK t \in Made : t = producer[q].session
      BY <1>1, <2>2, ZenonT(30) DEF NotifyTypes
    <3>2. PICK c \in Nat : c = producer[q].cached
      BY <1>1, ZenonT(30) DEF NotifyTypes, Producers
    <3>3. c <= queue[t].deq
      BY <1>1, <2>2, <3>1, <3>2, ZenonT(30) DEF Cached
    <3>4. queue[t].deq <= queue'[t].deq /\ queue[t].deq \in Nat /\ queue'[t].deq \in Nat
      BY <1>11, <1>13, ZenonT(30) DEF Queues
    <3> QED
      BY <3>1, <3>2, <3>3, <3>4, SMTT(30)
  <2> QED
    BY <2>1, <2>2, ZenonT(30)
<1>19. client' \in Clients /\ client'.session = s /\ client'.at = "wait"
  <2>1. client' = [client EXCEPT !.at = "wait", !.event = 0]
    BY ZenonT(30) DEF ReleaseSlot
  <2> QED
    BY <1>2, <1>3, <2>1, ZenonT(30) DEF Clients
<1>20. Copying'
  BY <1>19, ZenonT(30) DEF Copying
<1>21. EventsOnce'
  <2>1. placed' = placed /\ next' = next /\ producer' = producer /\ Made' = Made
    BY <1>8, ZenonT(30)
  <2>2. \A q \in Producer : Holds(q)' => Holds(q) /\ producer'[q].items = producer[q].items
    BY <2>1, ZenonT(30) DEF Holds
  <2> QED
    BY <1>1, <2>1, <2>2, NothingPlaced, ZenonT(30)
<1>22. NotifyTypes'
  <2>1. s # 0
    BY DEF Made
  <2> QED
    BY <1>1, <1>8, <1>11, <1>12, <1>19, <2>1, ZenonT(30) DEF NotifyTypes
<1> QED
  BY <1>14, <1>15, <1>16, <1>17, <1>18, <1>20, <1>21, <1>22, ZenonT(30) DEF NotifyInv

-----------------------------------------------------------------------------
(* Every step keeps the invariant.                                         *)
LEMMA NotifyStep ==
  ASSUME NotifyConstants, NotifyInv, [Next]_vars
  PROVE  NotifyInv'
<1>1. CASE UNCHANGED vars
  <2>1. QuietQueues /\ producer' = producer /\ next' = next
    BY <1>1, ZenonT(30) DEF vars, QuietQueues
  <2>2. Positions' /\ SlotsTell' /\ Reserved' /\ ReservedOnce' /\ Cached' /\ EventsOnce'
    BY <2>1, ClientQuiet, ZenonT(30)
  <2>3. Copying'
    BY <1>1, ZenonT(30) DEF vars, NotifyInv, Copying
  <2>4. NotifyTypes'
    BY <1>1 DEF vars, NotifyInv, NotifyTypes, Made, Session
  <2> QED
    BY <2>2, <2>3, <2>4, ZenonT(30) DEF NotifyInv
<1>2. CASE HandleClient
  BY <1>2, HandleStep
<1>3. CASE SendSubscription
  BY <1>3, SendStep
<1>4. CASE WorkerStops \/ WaitEvent \/ Dequeue \/ CopyEvent \/ Stop \/ Joined \/ Crash
  BY <1>4, WorkerStep
<1>5. CASE ReleaseSlot
  BY <1>5, ReleaseStep
<1>6. ASSUME NEW p \in Producer, NEW n \in 1 .. BatchNum, PublishBatch(p, n) PROVE NotifyInv'
  BY <1>6, BatchStep
<1>7. ASSUME NEW p \in Producer, LoadPos(p) \/ CheckRoom(p) \/ QueueFull(p) \/ Signal(p) PROVE NotifyInv'
  BY <1>7, ProducerStep
<1>8. ASSUME NEW p \in Producer, ReserveSlots(p) PROVE NotifyInv'
  <2>1. CASE queue[producer[p].session].enq = producer[p].pos
    BY <1>8, <2>1, ReserveStep
  <2>2. CASE queue[producer[p].session].enq # producer[p].pos
    <3>1. UNCHANGED queue
      BY <1>8, <2>2 DEF ReserveSlots
    <3> QED
      BY <1>8, <3>1, ProducerStep
  <2> QED
    BY <2>1, <2>2
<1>9. ASSUME NEW p \in Producer, PublishSlots(p) PROVE NotifyInv'
  BY <1>9, PublishStep
<1> QED
  BY <1>1, <1>2, <1>3, <1>4, <1>5, <1>6, <1>7, <1>8, <1>9, ZenonT(30) DEF Next

(* Whatever the producers, the depth, the batches, the sessions and the    *)
(* failures of the client: what a callback has got is what was placed, in  *)
(* the order of the positions, without a loss, a duplicate or a torn slot. *)
THEOREM NotifySafe == ASSUME NotifyConstants PROVE Spec => []NotifyIntact
<1>1. Init => NotifyInv
  BY NotifyFirst
<1>2. NotifyInv /\ [Next]_vars => NotifyInv'
  BY NotifyStep
<1>3. NotifyInv => NotifyIntact
  <2> SUFFICES ASSUME NotifyInv, NEW s \in Session
               PROVE  /\ Len(delivered[s]) <= Len(placed[s])
                      /\ \A k \in 1 .. Len(delivered[s]) : delivered[s][k] = placed[s][k]
    BY DEF NotifyIntact
  <2>1. CASE s \in Made
    BY <2>1 DEF NotifyInv, Positions
  <2>2. CASE s \notin Made
    <3>1. placed[s] = <<>> /\ delivered[s] = <<>>
      BY <2>2 DEF NotifyInv, Positions
    <3> QED
      BY <3>1
  <2> QED
    BY <2>1, <2>2
<1> QED
  BY <1>1, <1>2, <1>3, PTL DEF Spec
=============================================================================
