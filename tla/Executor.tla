------------------------------ MODULE Executor ------------------------------
(***************************************************************************)
(* ExecutorService of common/bio_execution.h: a fixed set of threads that  *)
(* take tasks from a blocking queue (RingBufferBlockingQueue: the ring     *)
(* buffer and a semaphore).  The ring operation and the semaphore          *)
(* operation beside it are separate steps.                                 *)
(***************************************************************************)
EXTENDS RingBuffer, FiniteSets, FiniteSetTheorems, TLAPS

CONSTANTS Worker, Client, MaxTask,
  CpuNums   \* MemStore: how many CPUs SetCpuIds may have been given

VARIABLES
  svc,      \* "new", "starting", "failed", "started", "stopping", "stopped"
  ring,     \* mRingBuffer
  sem,      \* mSem
  worker,   \* per thread: where it is, and the task it holds
  posting,  \* callers between the push of a task and its sem_post
  stops,    \* STOP tasks that Stop has still to enqueue
  next,     \* the next task to be handed in
  ref,      \* per task, its references once Execute has returned
  runs      \* per task, how often it has run

vars == <<svc, ring, sem, worker, posting, stops, next, ref, runs>>

Task == 1 .. MaxTask
STOP == 0
Owner == "owner"

Init ==
  /\ svc = "new"
  /\ ring = EmptyRing
  /\ sem = 0
  /\ worker = [w \in Worker |-> [at |-> "none", task |-> NoItem]]
  /\ posting = {}
  /\ stops = 0
  /\ next = 1
  /\ ref = [t \in Task |-> 0]
  /\ runs = [t \in Task |-> 0]

At(s) == {w \in Worker : worker[w].at = s}
Move(w, s, t) == worker' = [worker EXCEPT ![w] = [at |-> s, task |-> t]]

-----------------------------------------------------------------------------
(* Start: the queue first, then the threads one after the other.  When one *)
(* cannot be made Start returns false; the ones made stay.                 *)
Start ==
  /\ svc = "new"
  /\ svc' = "starting"
  /\ UNCHANGED <<ring, sem, worker, posting, stops, next, ref, runs>>

StartThread(w) ==
  /\ svc = "starting"
  /\ worker[w].at = "none"
  /\ Move(w, "pop", NoItem)
  /\ UNCHANGED <<svc, ring, sem, posting, stops, next, ref, runs>>

StartReturns ==
  /\ svc = "starting"
  /\ svc' \in IF At("none") = {} THEN {"started"} ELSE {"failed"}
  /\ UNCHANGED <<ring, sem, worker, posting, stops, next, ref, runs>>

-----------------------------------------------------------------------------
(* Execute: the reference is taken before the push and stays when the      *)
(* queue is full.                                                          *)
Execute(c) ==
  /\ svc \in {"started", "stopping"}
  /\ c \notin posting
  /\ next \in Task
  /\ next' = next + 1
  /\ ref' = [ref EXCEPT ![next] = 1]
  /\ ring' = PushBack(ring, next)
  /\ posting' = IF ring.count < Capacity THEN posting \cup {c} ELSE posting
  /\ UNCHANGED <<svc, sem, worker, stops, runs>>

\* mutant: the threads are only woken when the queue was empty
PostFirst(c) ==
  /\ c \in posting
  /\ posting' = posting \ {c}
  /\ sem' = IF ring.count = 1 THEN sem + 1 ELSE sem
  /\ UNCHANGED <<svc, ring, worker, stops, next, ref, runs>>

Post(c) ==
  /\ c \in posting
  /\ posting' = posting \ {c}
  /\ sem' = sem + 1
  /\ UNCHANGED <<svc, ring, worker, stops, next, ref, runs>>

-----------------------------------------------------------------------------
(* Stop: one STOP task per thread at the front of the queue; one that does *)
(* not fit is skipped.  Then every thread is joined and the queue freed.   *)
Stop ==
  /\ svc = "started"
  /\ svc' = "stopping"
  /\ stops' = Cardinality(Worker)
  /\ UNCHANGED <<ring, sem, worker, posting, next, ref, runs>>

StopTask ==
  /\ stops > 0
  /\ Owner \notin posting
  /\ stops' = stops - 1
  /\ ring' = PushFront(ring, STOP)
  /\ posting' = IF ring.count < Capacity THEN posting \cup {Owner} ELSE posting
  /\ UNCHANGED <<svc, sem, worker, next, ref, runs>>

StopReturns ==
  /\ svc = "stopping"
  /\ stops = 0
  /\ posting = {}
  /\ At("gone") = Worker
  /\ svc' = "stopped"
  /\ ring' = EmptyRing
  /\ UNCHANGED <<sem, worker, posting, stops, next, ref, runs>>

-----------------------------------------------------------------------------
(* DoRunnable, with Dequeue: take the first task, or wait for a post. *)
Dequeue(w) ==
  /\ worker[w].at = "pop"
  /\ ring' = PopFront(ring)
  /\ IF ring.count = 0 THEN Move(w, "wait", NoItem)
     ELSE IF First(ring) = STOP THEN Move(w, "gone", NoItem)
     ELSE Move(w, "run", First(ring))
  /\ UNCHANGED <<svc, sem, posting, stops, next, ref, runs>>

Wake(w) ==
  /\ worker[w].at = "wait"
  /\ sem > 0
  /\ sem' = sem - 1
  /\ Move(w, "pop", NoItem)
  /\ UNCHANGED <<svc, ring, posting, stops, next, ref, runs>>

Run(w) ==
  /\ worker[w].at = "run"
  /\ runs' = [runs EXCEPT ![worker[w].task] = @ + 1]
  /\ ref' = [ref EXCEPT ![worker[w].task] = @ - 1]
  /\ Move(w, "pop", NoItem)
  /\ UNCHANGED <<svc, ring, sem, posting, stops, next>>

RunInThread(w) == Dequeue(w) \/ Wake(w) \/ Run(w)

Next ==
  \/ Start \/ StartReturns \/ Stop \/ StopTask \/ StopReturns
  \/ \E w \in Worker : StartThread(w) \/ RunInThread(w)
  \/ \E c \in Client : Execute(c)
  \/ \E c \in Client \cup {Owner} : Post(c)

Spec == Init /\ [][Next]_vars

-----------------------------------------------------------------------------
(* No task waits in the queue while a thread sleeps for want of a post:    *)
(* for every queued task there is a post to come, a post already made, or  *)
(* a thread on its way to the queue; and a task that was accepted is       *)
(* queued, in a thread's hands or has run, exactly one of them             *)
(* (RingBufferBlockingQueue::Enqueue, EnqueueFirst and Dequeue).           *)
NoTaskStranded ==
  /\ svc # "stopped" =>
       ring.count <= sem + Cardinality(posting) + Cardinality(At("pop"))
  /\ \A t \in Task :
       Cardinality({i \in DOMAIN Contents(ring) : Contents(ring)[i] = t})
         + Cardinality({w \in Worker : worker[w].task = t}) + runs[t] <= 1

-----------------------------------------------------------------------------
(* MemStore's copy (mms_execution.h, mms_ring_buffer.h).  It can be given  *)
(* the CPUs its threads run on; a list that does not fit the threads makes *)
(* Start fail before anything is created.                                  *)
MmsCheckCpuIds(cpuNum) == cpuNum = 0 \/ cpuNum = Cardinality(Worker)

MmsInit == Init

MmsStart == \E cpuNum \in CpuNums : MmsCheckCpuIds(cpuNum) /\ Start
MmsStartThread(w) == StartThread(w)
MmsStartReturns == StartReturns
MmsExecute(c) == Execute(c)
MmsEnqueue(c) == Post(c)
MmsStop == Stop \/ StopTask \/ StopReturns
MmsDequeue(w) == Dequeue(w) \/ Wake(w)
MmsDoRunnable(w) == Run(w)

MmsNext ==
  \/ MmsStart \/ MmsStartReturns \/ MmsStop
  \/ \E w \in Worker : MmsStartThread(w) \/ MmsDequeue(w) \/ MmsDoRunnable(w)
  \/ \E c \in Client : MmsExecute(c)
  \/ \E c \in Client \cup {Owner} : MmsEnqueue(c)

-----------------------------------------------------------------------------
(* Proof of NoTaskStranded for every queue, every set of threads and every *)
(* set of callers.                                                         *)

\* What the instances satisfy: NoItem is no task.
ExecutorConstants ==
  /\ Capacity \in Nat \ {0} /\ MaxTask \in Nat
  /\ IsFiniteSet(Worker) /\ IsFiniteSet(Client)
  /\ NoItem \notin Nat

Slot == Task \cup {STOP, NoItem}

ExecutorTypes ==
  /\ svc \in {"new", "starting", "failed", "started", "stopping", "stopped"}
  /\ ring \in RingOf(Slot)
  /\ \A i \in 1 .. ring.count : ItemAt(ring, i) \in Task \cup {STOP}
  /\ sem \in Nat /\ stops \in Nat /\ next \in Nat \ {0}
  /\ worker \in [Worker -> [at : {"none", "pop", "wait", "run", "gone"}, task : Task \cup {NoItem}]]
  /\ \A w \in Worker : worker[w].at = "run" <=> worker[w].task # NoItem
  /\ posting \subseteq Client \cup {Owner}
  /\ runs \in [Task -> Nat]

\* For every queued task there is a post to come, a post made or a thread on
\* its way to the queue.
Covered == svc # "stopped" => ring.count <= sem + Cardinality(posting) + Cardinality(At("pop"))

Queued(t) == \E i \in 1 .. ring.count : ItemAt(ring, i) = t
InHand(t) == \E w \in Worker : worker[w].task = t

\* A task is in one place, and one that has not been handed in is nowhere.
OnePlace(t) ==
  /\ \A i, j \in 1 .. ring.count : ItemAt(ring, i) = t /\ ItemAt(ring, j) = t => i = j
  /\ \A v, w \in Worker : worker[v].task = t /\ worker[w].task = t => v = w
  /\ runs[t] <= 1
  /\ ~(Queued(t) /\ InHand(t))
  /\ runs[t] = 1 => ~Queued(t) /\ ~InHand(t)
  /\ t >= next => ~Queued(t) /\ ~InHand(t) /\ runs[t] = 0

ExecutorInv ==
  /\ ExecutorTypes
  /\ Covered
  /\ \A t \in Task : OnePlace(t)

\* A set whose elements are all equal has at most one.
LEMMA AtMostOne ==
  ASSUME NEW S, \A x, y \in S : x = y
  PROVE  Cardinality(S) \in {0, 1} /\ (S = {} => Cardinality(S) = 0)
<1>1. CASE S = {}
    BY <1>1, FS_EmptySet
<1>2. CASE S # {}
  <2>1. PICK x : x \in S
    BY <1>2
  <2>2. S = {x}
    BY <2>1
  <2> QED
    BY <1>2, <2>2, FS_Singleton
<1> QED
    BY <1>1, <1>2

\* The invariant says what NoTaskStranded says.
LEMMA InvGivesNoTaskStranded == ExecutorInv => NoTaskStranded
<1> SUFFICES ASSUME ExecutorInv PROVE NoTaskStranded
    OBVIOUS
<1>1. ASSUME NEW t \in Task
      PROVE  Cardinality({i \in DOMAIN Contents(ring) : Contents(ring)[i] = t})
               + Cardinality({w \in Worker : worker[w].task = t}) + runs[t] <= 1
  <2> DEFINE Q == {i \in DOMAIN Contents(ring) : Contents(ring)[i] = t}
             W == {w \in Worker : worker[w].task = t}
  <2>1. DOMAIN Contents(ring) = 1 .. ring.count /\ \A i \in 1 .. ring.count : Contents(ring)[i] = ItemAt(ring, i)
    BY DEF Contents, ItemAt
  <2>2. OnePlace(t) /\ runs[t] \in Nat
    BY DEF ExecutorInv, ExecutorTypes
  <2>3. Cardinality(Q) \in {0, 1} /\ (Q = {} => Cardinality(Q) = 0)
    <3>1. \A i, j \in Q : i = j
      BY <2>1, <2>2 DEF OnePlace
    <3> HIDE DEF Q
    <3> QED
      BY <3>1, AtMostOne
  <2>4. Cardinality(W) \in {0, 1} /\ (W = {} => Cardinality(W) = 0)
    <3>1. \A v, w \in W : v = w
      BY <2>2 DEF OnePlace
    <3> HIDE DEF W
    <3> QED
      BY <3>1, AtMostOne
  <2>5. (~Queued(t) => Q = {}) /\ (~InHand(t) => W = {})
    BY <2>1 DEF Queued, InHand
  <2> HIDE DEF Q, W
  <2>6. runs[t] \in {0, 1}
    BY <2>2 DEF OnePlace
  <2>7. Cardinality(Q) = 0 \/ Cardinality(W) = 0
    BY <2>2, <2>3, <2>4, <2>5 DEF OnePlace
  <2>8. runs[t] = 1 => Cardinality(Q) = 0 /\ Cardinality(W) = 0
    BY <2>2, <2>3, <2>4, <2>5 DEF OnePlace
  <2>9. Cardinality(Q) + Cardinality(W) + runs[t] <= 1
    BY <2>3, <2>4, <2>6, <2>7, <2>8
  <2> QED
    BY <2>9 DEF Q, W
<1> QED
    BY <1>1 DEF NoTaskStranded, ExecutorInv, Covered

\* The sets counted are finite.
LEMMA CountTypes ==
  ASSUME ExecutorConstants, ExecutorTypes
  PROVE  /\ IsFiniteSet(posting) /\ Cardinality(posting) \in Nat
         /\ IsFiniteSet(At("pop")) /\ Cardinality(At("pop")) \in Nat
<1>1. IsFiniteSet(Client \cup {Owner})
    BY FS_Singleton, FS_Union DEF ExecutorConstants
<1>2. At("pop") \subseteq Worker
    BY DEF At
<1> QED
    BY <1>1, <1>2, FS_Subset, FS_CardinalityType DEF ExecutorConstants, ExecutorTypes

\* Moving one thread moves the number of threads on their way to the queue.
LEMMA MoveCount ==
  ASSUME ExecutorConstants, ExecutorTypes, NEW w \in Worker,
         NEW s \in {"none", "pop", "wait", "run", "gone"}, NEW t, Move(w, s, t)
  PROVE  /\ worker'[w].at = s /\ worker'[w].task = t
         /\ \A v \in Worker : v # w => worker'[v] = worker[v]
         /\ Cardinality(At("pop")') \in Nat
         /\ s = "pop" /\ worker[w].at # "pop" => Cardinality(At("pop")') = Cardinality(At("pop")) + 1
         /\ s # "pop" /\ worker[w].at = "pop" => Cardinality(At("pop")') = Cardinality(At("pop")) - 1
<1>1. worker' = [worker EXCEPT ![w] = [at |-> s, task |-> t]] /\ worker \in [Worker -> [at : {"none", "pop", "wait", "run", "gone"}, task : Task \cup {NoItem}]]
    BY DEF Move, ExecutorTypes
<1>2. worker'[w].at = s /\ worker'[w].task = t /\ \A v \in Worker : v # w => worker'[v] = worker[v]
    BY <1>1
<1>3. IsFiniteSet(At("pop")) /\ Cardinality(At("pop")) \in Nat
    BY CountTypes
<1>4. Cardinality(At("pop")') \in Nat
  <2>1. At("pop")' \subseteq Worker
    BY DEF At
  <2> QED
    BY <2>1, FS_Subset, FS_CardinalityType DEF ExecutorConstants
<1>5. ASSUME s = "pop", worker[w].at # "pop" PROVE Cardinality(At("pop")') = Cardinality(At("pop")) + 1
  <2>1. At("pop")' = At("pop") \cup {w} /\ w \notin At("pop")
    BY <1>2, <1>5 DEF At
  <2> QED
    BY <1>3, <2>1, FS_AddElement
<1>6. ASSUME s # "pop", worker[w].at = "pop" PROVE Cardinality(At("pop")') = Cardinality(At("pop")) - 1
  <2>1. At("pop")' = At("pop") \ {w} /\ w \in At("pop")
    BY <1>2, <1>6 DEF At
  <2> QED
    BY <1>3, <2>1, FS_RemoveElement
<1> QED
    BY <1>2, <1>4, <1>5, <1>6

\* A thread that holds no task before and after a step holds it nowhere else.
LEMMA MoveTypes ==
  ASSUME ExecutorTypes, NEW w \in Worker, NEW s \in {"none", "pop", "wait", "run", "gone"},
         NEW t \in Task \cup {NoItem}, Move(w, s, t), s = "run" <=> t # NoItem
  PROVE  /\ worker' \in [Worker -> [at : {"none", "pop", "wait", "run", "gone"}, task : Task \cup {NoItem}]]
         /\ \A v \in Worker : worker'[v].at = "run" <=> worker'[v].task # NoItem
  BY DEF Move, ExecutorTypes

\* The executor's invariant holds at first.
LEMMA ExecutorInit == ASSUME ExecutorConstants PROVE Init => ExecutorInv
<1> SUFFICES ASSUME Init PROVE ExecutorInv
    OBVIOUS
<1>1. ring \in RingOf(Slot) /\ ring.count = 0
    BY EmptyRingOf DEF Init, ExecutorConstants, Slot
<1>2. ExecutorTypes
    BY <1>1 DEF Init, ExecutorTypes
<1>3. Covered
    BY <1>1, <1>2, CountTypes DEF Init, Covered, ExecutorTypes
<1>4. ASSUME NEW t \in Task PROVE OnePlace(t)
  <2>1. t # NoItem
    BY DEF ExecutorConstants, Task
  <2>2. ~Queued(t)
    BY <1>1 DEF Queued
  <2>3. \A w \in Worker : worker[w].task # t
    BY <2>1 DEF Init
  <2> QED
    BY <1>1, <2>2, <2>3 DEF OnePlace, InHand, Init
<1> QED
    BY <1>2, <1>3, <1>4 DEF ExecutorInv

\* A push of x at place p shifts the items from p on and disturbs no other.
LEMMA PushPlaces ==
  ASSUME ExecutorTypes, ring' \in RingOf(Slot), ring'.count = ring.count + 1,
         NEW x \in Task \cup {STOP}, NEW p \in 1 .. ring.count + 1, ItemAt(ring', p) = x,
         \A i \in 1 .. ring.count + 1 : i # p => ItemAt(ring', i) = ItemAt(ring, IF i < p THEN i ELSE i - 1)
  PROVE  /\ \A i \in 1 .. ring'.count : ItemAt(ring', i) \in Task \cup {STOP}
         /\ \A t \in Task : t # x => (Queued(t)' <=> Queued(t))
         /\ \A t \in Task : (t # x /\ \A i, j \in 1 .. ring.count : ItemAt(ring, i) = t /\ ItemAt(ring, j) = t => i = j)
              => \A i, j \in 1 .. ring'.count : ItemAt(ring', i) = t /\ ItemAt(ring', j) = t => i = j
         /\ ~Queued(x) => \A i, j \in 1 .. ring'.count : ItemAt(ring', i) = x /\ ItemAt(ring', j) = x => i = j
<1>1. ring.count \in Nat
    BY DEF ExecutorTypes, RingOf
<1> DEFINE Old(i) == IF i < p THEN i ELSE i - 1
<1>2. ASSUME NEW i \in 1 .. ring.count + 1, i # p PROVE Old(i) \in 1 .. ring.count /\ ItemAt(ring', i) = ItemAt(ring, Old(i))
    BY <1>1, <1>2
<1>3. ASSUME NEW i \in 1 .. ring.count + 1, NEW j \in 1 .. ring.count + 1, i # p, j # p, Old(i) = Old(j) PROVE i = j
    BY <1>1, <1>3
<1>4. ASSUME NEW k \in 1 .. ring.count PROVE \E i \in 1 .. ring.count + 1 : i # p /\ Old(i) = k
  <2>1. CASE k < p
    BY <1>1, <2>1
  <2>2. CASE ~(k < p)
    <3>1. k + 1 \in 1 .. ring.count + 1 /\ k + 1 # p /\ Old(k + 1) = k
      BY <1>1, <2>2
    <3> QED
      BY <3>1
  <2> QED
    BY <2>1, <2>2
<1> HIDE DEF Old
<1>5. \A i \in 1 .. ring'.count : ItemAt(ring', i) \in Task \cup {STOP}
    BY <1>2 DEF ExecutorTypes
<1>6. ASSUME NEW t \in Task, t # x PROVE Queued(t)' <=> Queued(t)
  <2>1. ASSUME Queued(t)' PROVE Queued(t)
    <3>1. PICK i \in 1 .. ring.count + 1 : ItemAt(ring', i) = t
      BY <2>1 DEF Queued
    <3>2. i # p
      BY <1>6, <3>1
    <3> QED
      BY <1>2, <3>1, <3>2 DEF Queued
  <2>2. ASSUME Queued(t) PROVE Queued(t)'
    <3>1. PICK k \in 1 .. ring.count : ItemAt(ring, k) = t
      BY <2>2 DEF Queued
    <3>2. PICK i \in 1 .. ring.count + 1 : i # p /\ Old(i) = k
      BY <1>4
    <3>3. ItemAt(ring', i) = t
      BY <1>2, <3>1, <3>2
    <3> QED
      BY <3>3 DEF Queued
  <2> QED
    BY <2>1, <2>2
<1>7. ASSUME NEW t \in Task, t # x, \A i, j \in 1 .. ring.count : ItemAt(ring, i) = t /\ ItemAt(ring, j) = t => i = j,
             NEW i \in 1 .. ring'.count, NEW j \in 1 .. ring'.count, ItemAt(ring', i) = t, ItemAt(ring', j) = t
      PROVE  i = j
  <2>1. i # p /\ j # p /\ i \in 1 .. ring.count + 1 /\ j \in 1 .. ring.count + 1
    BY <1>7
  <2>2. Old(i) \in 1 .. ring.count /\ Old(j) \in 1 .. ring.count /\ ItemAt(ring, Old(i)) = t /\ ItemAt(ring, Old(j)) = t
    BY <1>2, <1>7, <2>1
  <2>3. Old(i) = Old(j)
    BY <1>7, <2>2
  <2> QED
    BY <1>3, <2>1, <2>3
<1>8. ASSUME ~Queued(x), NEW i \in 1 .. ring'.count, NEW j \in 1 .. ring'.count, ItemAt(ring', i) = x, ItemAt(ring', j) = x
      PROVE  i = j
  <2>1. ASSUME NEW k \in 1 .. ring'.count, ItemAt(ring', k) = x PROVE k = p
    <3> SUFFICES ASSUME k # p PROVE FALSE
      OBVIOUS
    <3>1. Old(k) \in 1 .. ring.count /\ ItemAt(ring, Old(k)) = x
      BY <1>2, <2>1
    <3> QED
      BY <1>8, <3>1 DEF Queued
  <2> QED
    BY <1>8, <2>1
<1> QED
    BY <1>5, <1>6, <1>7, <1>8

\* PushBack and PushFront on a queue with room are such pushes.
LEMMA PushedAt ==
  ASSUME ExecutorConstants, ExecutorTypes, NEW x \in Task \cup {STOP}, ring.count < Capacity,
         ring' = PushBack(ring, x) \/ ring' = PushFront(ring, x)
  PROVE  /\ ring' \in RingOf(Slot) /\ ring'.count = ring.count + 1
         /\ \E p \in 1 .. ring.count + 1 :
              /\ ItemAt(ring', p) = x
              /\ \A i \in 1 .. ring.count + 1 : i # p => ItemAt(ring', i) = ItemAt(ring, IF i < p THEN i ELSE i - 1)
<1>1. ring \in RingOf(Slot) /\ x \in Slot /\ Capacity \in Nat \ {0} /\ ring.count \in Nat
    BY DEF ExecutorConstants, ExecutorTypes, Slot, RingOf
<1>2. CASE ring' = PushBack(ring, x)
  <2>1. ring' = AddLast(ring, x)
    BY <1>2 DEF PushBack
  <2>2. /\ ring' \in RingOf(Slot) /\ ring'.count = ring.count + 1 /\ ItemAt(ring', ring.count + 1) = x
        /\ \A i \in 1 .. ring.count : ItemAt(ring', i) = ItemAt(ring, i)
    BY <1>1, <2>1, AddLastItems
  <2>3. ring.count + 1 \in 1 .. ring.count + 1
    BY <1>1
  <2>4. ASSUME NEW i \in 1 .. ring.count + 1, i # ring.count + 1
        PROVE  ItemAt(ring', i) = ItemAt(ring, IF i < ring.count + 1 THEN i ELSE i - 1)
    <3>1. i < ring.count + 1 /\ i \in 1 .. ring.count
      BY <1>1, <2>4
    <3> QED
      BY <2>2, <3>1
  <2> QED
    BY <2>2, <2>3, <2>4
<1>3. CASE ring' = PushFront(ring, x)
  <2>1. ring' = AddFirst(ring, x)
    BY <1>3 DEF PushFront
  <2>2. /\ ring' \in RingOf(Slot) /\ ring'.count = ring.count + 1 /\ ItemAt(ring', 1) = x
        /\ \A i \in 1 .. ring.count : ItemAt(ring', i + 1) = ItemAt(ring, i)
    BY <1>1, <2>1, AddFirstItems
  <2>3. 1 \in 1 .. ring.count + 1
    BY <1>1
  <2>4. ASSUME NEW i \in 1 .. ring.count + 1, i # 1
        PROVE  ItemAt(ring', i) = ItemAt(ring, IF i < 1 THEN i ELSE i - 1)
    <3>1. ~(i < 1) /\ i - 1 \in 1 .. ring.count /\ (i - 1) + 1 = i
      BY <1>1, <2>4
    <3>2. ItemAt(ring', (i - 1) + 1) = ItemAt(ring, i - 1)
      BY <2>2, <3>1
    <3> QED
      BY <3>1, <3>2
  <2> QED
    BY <2>2, <2>3, <2>4
<1> QED
    BY <1>2, <1>3

\* A caller's and the owner's push keep the invariant.
LEMMA PushStep ==
  ASSUME ExecutorConstants, ExecutorInv, NEW c \in Client \cup {Owner}, NEW x \in Task \cup {STOP},
         c \notin posting, ring' = PushBack(ring, x) \/ ring' = PushFront(ring, x),
         posting' = IF ring.count < Capacity THEN posting \cup {c} ELSE posting,
         stops' \in Nat, UNCHANGED <<svc, sem, worker, runs>>,
         (x \in Task /\ x = next /\ next' = next + 1) \/ (x = STOP /\ next' = next)
  PROVE  ExecutorInv'
<1>1. ExecutorTypes /\ next \in Nat /\ \A t \in Task : t \in Nat /\ OnePlace(t)
    BY DEF ExecutorInv, ExecutorTypes, Task
<1>2. CASE ~(ring.count < Capacity)
  <2>1. ring' = ring /\ posting' = posting
    BY <1>2 DEF PushBack, PushFront
  <2>2. ExecutorTypes'
    BY <1>1, <2>1 DEF ExecutorTypes
  <2>3. Covered'
    BY <2>1 DEF ExecutorInv, Covered, At
  <2>4. ASSUME NEW t \in Task PROVE OnePlace(t)'
    <3>1. (Queued(t)' <=> Queued(t)) /\ (InHand(t)' <=> InHand(t))
      BY <2>1 DEF Queued, InHand
    <3>2. t >= next' => t >= next
      BY <1>1
    <3> QED
      BY <1>1, <2>1, <3>1, <3>2 DEF OnePlace
  <2> QED
    BY <2>2, <2>3, <2>4 DEF ExecutorInv
<1>3. CASE ring.count < Capacity
  <2>1. /\ ring' \in RingOf(Slot) /\ ring'.count = ring.count + 1 /\ ring.count \in Nat
        /\ \E p \in 1 .. ring.count + 1 :
             /\ ItemAt(ring', p) = x
             /\ \A i \in 1 .. ring.count + 1 : i # p => ItemAt(ring', i) = ItemAt(ring, IF i < p THEN i ELSE i - 1)
    <3>1. ring.count \in Nat
      BY <1>1, RingFields DEF ExecutorTypes, ExecutorConstants
    <3> QED
      BY <1>1, <1>3, <3>1, PushedAt
  <2>2. /\ \A i \in 1 .. ring'.count : ItemAt(ring', i) \in Task \cup {STOP}
        /\ \A t \in Task : t # x => (Queued(t)' <=> Queued(t))
        /\ \A t \in Task : (t # x /\ \A i, j \in 1 .. ring.count : ItemAt(ring, i) = t /\ ItemAt(ring, j) = t => i = j)
             => \A i, j \in 1 .. ring'.count : ItemAt(ring', i) = t /\ ItemAt(ring', j) = t => i = j
        /\ ~Queued(x) => \A i, j \in 1 .. ring'.count : ItemAt(ring', i) = x /\ ItemAt(ring', j) = x => i = j
    BY <1>1, <2>1, PushPlaces
  <2>3. posting' = posting \cup {c} /\ next' \in Nat \ {0}
    BY <1>1, <1>3 DEF ExecutorTypes
  <2>4. ExecutorTypes'
    BY <1>1, <2>1, <2>2, <2>3 DEF ExecutorTypes
  <2>5. Covered'
    <3>1. Cardinality(posting') = Cardinality(posting) + 1
      BY <1>1, <2>3, CountTypes, FS_AddElement
    <3>2. Cardinality(At("pop"))' = Cardinality(At("pop"))
      BY DEF At
    <3>3. Cardinality(posting) \in Nat /\ Cardinality(At("pop")) \in Nat /\ sem \in Nat
      BY <1>1, CountTypes DEF ExecutorTypes
    <3> QED
      BY <2>1, <3>1, <3>2, <3>3 DEF ExecutorInv, Covered
  <2>6. ASSUME NEW t \in Task PROVE OnePlace(t)'
    <3>1. InHand(t)' <=> InHand(t)
      BY DEF InHand
    <3>2. CASE t = x
      <4>1. t = next /\ next' = next + 1
        BY <3>2 DEF Task, STOP
      <4>2. ~Queued(t) /\ ~InHand(t) /\ runs[t] = 0
        BY <1>1, <4>1 DEF OnePlace
      <4>3. ~(t >= next')
        BY <1>1, <4>1
      <4> QED
        BY <1>1, <2>2, <3>1, <3>2, <4>2, <4>3 DEF OnePlace
    <3>3. CASE t # x
      <4>1. Queued(t)' <=> Queued(t)
        BY <2>2, <3>3
      <4>2. t >= next' => t >= next
        BY <1>1
      <4>3. \A i, j \in 1 .. ring'.count : ItemAt(ring', i) = t /\ ItemAt(ring', j) = t => i = j
        BY <1>1, <2>2, <3>3 DEF OnePlace
      <4> QED
        BY <1>1, <3>1, <4>1, <4>2, <4>3 DEF OnePlace
    <3> QED
      BY <3>2, <3>3
  <2> QED
    BY <2>4, <2>5, <2>6 DEF ExecutorInv
<1> QED
    BY <1>2, <1>3

\* A thread that moves without the queue and without a task keeps it.
LEMMA IdleMove ==
  ASSUME ExecutorConstants, ExecutorInv, NEW w \in Worker, NEW s \in {"none", "pop", "wait", "gone"},
         Move(w, s, NoItem), worker[w].at # "run", UNCHANGED <<svc, ring, posting, stops, next, runs>>,
         sem' \in Nat, Covered'
  PROVE  ExecutorInv'
<1>1. ExecutorTypes /\ \A t \in Task : OnePlace(t) /\ t # NoItem
    BY DEF ExecutorInv, ExecutorConstants, Task
<1>2. /\ worker' \in [Worker -> [at : {"none", "pop", "wait", "run", "gone"}, task : Task \cup {NoItem}]]
      /\ \A v \in Worker : worker'[v].at = "run" <=> worker'[v].task # NoItem
    BY <1>1, MoveTypes
<1>3. ExecutorTypes'
    BY <1>1, <1>2 DEF ExecutorTypes
<1>4. worker'[w].task = NoItem /\ worker[w].task = NoItem /\ \A v \in Worker : v # w => worker'[v] = worker[v]
    BY <1>1, MoveCount DEF ExecutorTypes
<1>5. ASSUME NEW t \in Task PROVE OnePlace(t)'
  <2>1. \A v \in Worker : worker'[v].task = t <=> worker[v].task = t
    BY <1>1, <1>4
  <2>2. (InHand(t)' <=> InHand(t)) /\ (Queued(t)' <=> Queued(t))
    BY <2>1 DEF InHand, Queued
  <2> QED
    BY <1>1, <2>1, <2>2 DEF OnePlace
<1> QED
    BY <1>3, <1>5 DEF ExecutorInv

\* Dequeue takes the first item, or sleeps when there is none.
LEMMA DequeueStep ==
  ASSUME ExecutorConstants, ExecutorInv, NEW w \in Worker, Dequeue(w)
  PROVE  ExecutorInv'
<1>1. /\ ExecutorTypes /\ next \in Nat /\ ring \in RingOf(Slot) /\ ring.count \in Nat /\ Capacity \in Nat \ {0}
      /\ \A t \in Task : OnePlace(t) /\ t \in Nat /\ t # NoItem /\ t # STOP
      /\ STOP # NoItem
    BY DEF ExecutorInv, ExecutorTypes, ExecutorConstants, RingOf, Task, STOP
<1>2. worker[w].at = "pop" /\ UNCHANGED <<svc, sem, posting, stops, next, runs>>
    BY DEF Dequeue
<1>c. /\ Cardinality(posting) \in Nat /\ Cardinality(At("pop")) \in Nat /\ sem \in Nat
    BY <1>1, CountTypes DEF ExecutorTypes
<1>3. CASE ring.count = 0
  <2>1. ring' = ring /\ Move(w, "wait", NoItem)
    BY <1>3 DEF Dequeue, PopFront
  <2>2. Cardinality(At("pop")') \in Nat
    BY <1>1, <2>1, MoveCount
  <2>3. Covered'
    BY <1>2, <1>3, <1>c, <2>1, <2>2 DEF Covered
  <2> QED
    BY <1>1, <1>2, <2>1, <2>3, IdleMove DEF ExecutorTypes
<1>4. CASE ring.count # 0
  <2> DEFINE x == ItemAt(ring, 1)
  <2>1. /\ ring' = DropFirst(ring) /\ ring' \in RingOf(Slot) /\ ring'.count = ring.count - 1 /\ First(ring) = x
        /\ \A i \in 1 .. ring.count - 1 : ItemAt(ring', i) = ItemAt(ring, i + 1)
    BY <1>1, <1>4, DropFirstItems DEF Dequeue, PopFront
  <2>2. x \in Task \cup {STOP} /\ 1 \in 1 .. ring.count
    BY <1>1, <1>4 DEF ExecutorTypes
  <2> HIDE DEF x
  <2>3. \A i \in 1 .. ring'.count : i + 1 \in 1 .. ring.count /\ ItemAt(ring', i) = ItemAt(ring, i + 1)
    BY <1>1, <2>1
  <2>4. ASSUME NEW t \in Task PROVE Queued(t)' => Queued(t)
    BY <2>3 DEF Queued
  <2>5. ASSUME NEW t \in Task, NEW i \in 1 .. ring'.count, NEW j \in 1 .. ring'.count,
               ItemAt(ring', i) = t, ItemAt(ring', j) = t PROVE i = j
    <3>1. i + 1 = j + 1
      BY <1>1, <2>3, <2>5 DEF OnePlace
    <3> QED
      BY <1>1, <2>1, <3>1
  <2>6. PICK s \in {"run", "gone"}, y \in Task \cup {NoItem} :
          Move(w, s, y) /\ (s = "run" <=> y # NoItem) /\ (y # NoItem => y = x)
    <3>1. CASE x = STOP
      BY <1>4, <2>1, <3>1 DEF Dequeue
    <3>2. CASE x # STOP
      BY <1>1, <1>4, <2>1, <2>2, <3>2 DEF Dequeue
    <3> QED
      BY <3>1, <3>2
  <2>7. /\ worker'[w].task = y /\ worker[w].task = NoItem /\ (\A v \in Worker : v # w => worker'[v] = worker[v])
        /\ Cardinality(At("pop")') = Cardinality(At("pop")) - 1 /\ Cardinality(At("pop")') \in Nat
    BY <1>1, <1>2, <2>6, MoveCount DEF ExecutorTypes
  <2>8. ExecutorTypes'
    <3>1. /\ worker' \in [Worker -> [at : {"none", "pop", "wait", "run", "gone"}, task : Task \cup {NoItem}]]
          /\ \A v \in Worker : worker'[v].at = "run" <=> worker'[v].task # NoItem
      BY <1>1, <2>6, MoveTypes
    <3>2. \A i \in 1 .. ring'.count : ItemAt(ring', i) \in Task \cup {STOP}
      BY <1>1, <2>3 DEF ExecutorTypes
    <3> QED
      BY <1>1, <1>2, <2>1, <3>1, <3>2 DEF ExecutorTypes
  <2>9. Covered'
    BY <1>1, <1>2, <1>c, <2>1, <2>7 DEF ExecutorInv, Covered
  <2>10. ASSUME NEW t \in Task PROVE OnePlace(t)'
    <3>1. OnePlace(t) /\ t # NoItem
      BY <1>1
    <3>2. CASE t = y
      <4>1. t = x
        BY <2>6, <3>1, <3>2
      <4>2. Queued(t)
        BY <2>2, <4>1 DEF Queued, x
      <4>3. ~InHand(t) /\ runs[t] # 1 /\ ~(t >= next)
        BY <3>1, <4>2 DEF OnePlace
      <4>4. ~Queued(t)'
        <5> SUFFICES ASSUME NEW i \in 1 .. ring'.count, ItemAt(ring', i) = t PROVE FALSE
          BY DEF Queued
        <5>1. i + 1 \in 1 .. ring.count /\ ItemAt(ring, i + 1) = t /\ ItemAt(ring, 1) = t
          BY <2>3, <4>1 DEF x
        <5>2. i + 1 = 1
          BY <2>2, <3>1, <5>1 DEF OnePlace
        <5> QED
          BY <5>2
      <4>5. \A v \in Worker : worker'[v].task = t => v = w
        BY <2>7, <4>3 DEF InHand
      <4> QED
        BY <1>2, <2>5, <3>1, <4>3, <4>4, <4>5 DEF OnePlace
    <3>3. CASE t # y
      <4>1. \A v \in Worker : worker'[v].task = t <=> worker[v].task = t
        BY <2>7, <3>1, <3>3
      <4>2. InHand(t)' <=> InHand(t)
        BY <4>1 DEF InHand
      <4> QED
        BY <1>2, <2>4, <2>5, <3>1, <4>1, <4>2 DEF OnePlace
    <3> QED
      BY <3>2, <3>3
  <2> QED
    BY <2>8, <2>9, <2>10 DEF ExecutorInv
<1> QED
    BY <1>3, <1>4

\* A thread runs its task and goes back to the queue.
LEMMA RunStep ==
  ASSUME ExecutorConstants, ExecutorInv, NEW w \in Worker, Run(w)
  PROVE  ExecutorInv'
<1>1. /\ ExecutorTypes /\ \A t \in Task : OnePlace(t) /\ t \in Nat /\ t # NoItem
    BY DEF ExecutorInv, ExecutorConstants, Task
<1>2. /\ worker[w].at = "run" /\ Move(w, "pop", NoItem) /\ UNCHANGED <<svc, ring, sem, posting, stops, next>>
      /\ runs' = [runs EXCEPT ![worker[w].task] = @ + 1]
    BY DEF Run
<1>3. worker[w].task \in Task /\ runs \in [Task -> Nat]
    BY <1>1, <1>2 DEF ExecutorTypes
<1>4. /\ worker'[w].task = NoItem /\ (\A v \in Worker : v # w => worker'[v] = worker[v])
      /\ Cardinality(At("pop")') = Cardinality(At("pop")) + 1 /\ Cardinality(At("pop")') \in Nat
    BY <1>1, <1>2, MoveCount
<1>5. ExecutorTypes'
  <2>1. /\ worker' \in [Worker -> [at : {"none", "pop", "wait", "run", "gone"}, task : Task \cup {NoItem}]]
        /\ \A v \in Worker : worker'[v].at = "run" <=> worker'[v].task # NoItem
    BY <1>1, <1>2, MoveTypes
  <2>2. runs' \in [Task -> Nat]
    BY <1>2, <1>3
  <2> QED
    BY <1>1, <1>2, <2>1, <2>2 DEF ExecutorTypes
<1>6. Covered'
  <2>1. Cardinality(posting) \in Nat /\ Cardinality(At("pop")) \in Nat /\ sem \in Nat /\ ring.count \in Nat
    BY <1>1, CountTypes DEF ExecutorTypes, RingOf
  <2> QED
    BY <1>2, <1>4, <2>1 DEF ExecutorInv, Covered
<1>7. ASSUME NEW t \in Task PROVE OnePlace(t)'
  <2>1. OnePlace(t) /\ t # NoItem /\ (Queued(t)' <=> Queued(t))
    BY <1>1, <1>2 DEF Queued
  <2>2. CASE t = worker[w].task
    <3>1. InHand(t)
      BY <2>2 DEF InHand
    <3>2. runs[t] = 0 /\ ~Queued(t) /\ ~(t >= next)
      BY <1>3, <2>1, <3>1 DEF OnePlace
    <3>3. runs'[t] = 1
      BY <1>2, <1>3, <2>2, <3>2
    <3>4. ~InHand(t)'
      BY <1>4, <2>1, <2>2 DEF OnePlace, InHand
    <3> QED
      BY <1>2, <2>1, <3>2, <3>3, <3>4 DEF OnePlace, InHand
  <2>3. CASE t # worker[w].task
    <3>1. \A v \in Worker : worker'[v].task = t <=> worker[v].task = t
      BY <1>4, <2>1, <2>3
    <3>2. InHand(t)' <=> InHand(t)
      BY <3>1 DEF InHand
    <3>3. runs'[t] = runs[t]
      BY <1>2, <1>3, <2>3
    <3> QED
      BY <1>2, <2>1, <3>1, <3>2, <3>3 DEF OnePlace
  <2> QED
    BY <2>2, <2>3
<1> QED
    BY <1>5, <1>6, <1>7 DEF ExecutorInv

\* The steps that only count posts, threads and the state of the service.
LEMMA ServiceStep ==
  ASSUME ExecutorConstants, ExecutorInv,
         \/ Start \/ StartReturns \/ Stop \/ StopReturns
         \/ \E w \in Worker : StartThread(w) \/ Wake(w)
         \/ \E c \in Client \cup {Owner} : Post(c)
  PROVE  ExecutorInv'
<1>1. ExecutorTypes /\ \A t \in Task : OnePlace(t)
    BY DEF ExecutorInv
<1>c. /\ Cardinality(posting) \in Nat /\ Cardinality(At("pop")) \in Nat /\ sem \in Nat /\ ring.count \in Nat
      /\ IsFiniteSet(posting)
    BY <1>1, CountTypes DEF ExecutorTypes, RingOf
<1>2. ASSUME Start \/ StartReturns \/ Stop PROVE ExecutorInv'
  <2>1. /\ UNCHANGED <<ring, sem, worker, posting, next, runs>> /\ svc # "stopped" /\ stops' \in Nat
        /\ svc' \in {"starting", "started", "failed", "stopping"}
    BY <1>1, <1>2, FS_CardinalityType DEF Start, StartReturns, Stop, ExecutorTypes, ExecutorConstants
  <2>2. ExecutorTypes'
    BY <1>1, <2>1 DEF ExecutorTypes
  <2>3. Covered'
    BY <2>1 DEF ExecutorInv, Covered, At
  <2>4. \A t \in Task : OnePlace(t)'
    BY <1>1, <2>1 DEF OnePlace, Queued, InHand
  <2> QED
    BY <2>2, <2>3, <2>4 DEF ExecutorInv
<1>3. ASSUME StopReturns PROVE ExecutorInv'
  <2>1. UNCHANGED <<sem, worker, posting, stops, next, runs>> /\ svc' = "stopped" /\ ring' = EmptyRing
    BY <1>3 DEF StopReturns
  <2>2. ring' \in RingOf(Slot) /\ ring'.count = 0
    BY <2>1, EmptyRingOf DEF ExecutorConstants, Slot
  <2>3. ExecutorTypes'
    BY <1>1, <2>1, <2>2 DEF ExecutorTypes
  <2>4. ASSUME NEW t \in Task PROVE OnePlace(t)'
    <3>1. ~Queued(t)' /\ (InHand(t)' <=> InHand(t))
      BY <2>1, <2>2 DEF Queued, InHand
    <3> QED
      BY <1>1, <2>1, <2>2, <3>1 DEF OnePlace
  <2> QED
    BY <2>1, <2>3, <2>4 DEF ExecutorInv, Covered
<1>4. ASSUME NEW w \in Worker, StartThread(w) PROVE ExecutorInv'
  <2>1. worker[w].at = "none" /\ Move(w, "pop", NoItem) /\ UNCHANGED <<svc, ring, sem, posting, stops, next, runs>>
    BY <1>4 DEF StartThread
  <2>2. Cardinality(At("pop")') = Cardinality(At("pop")) + 1
    BY <1>1, <2>1, MoveCount
  <2>3. Covered'
    BY <1>c, <2>1, <2>2 DEF ExecutorInv, Covered
  <2> QED
    BY <1>c, <2>1, <2>3, IdleMove
<1>5. ASSUME NEW w \in Worker, Wake(w) PROVE ExecutorInv'
  <2>1. worker[w].at = "wait" /\ Move(w, "pop", NoItem) /\ UNCHANGED <<svc, ring, posting, stops, next, runs>>
        /\ sem' = sem - 1 /\ sem > 0
    BY <1>5 DEF Wake
  <2>2. Cardinality(At("pop")') = Cardinality(At("pop")) + 1
    BY <1>1, <2>1, MoveCount
  <2>3. Covered'
    <3>1. sem \in Nat /\ Cardinality(posting) \in Nat /\ Cardinality(At("pop")) \in Nat /\ ring.count \in Nat
      BY <1>1, CountTypes, RingFields DEF ExecutorTypes, ExecutorConstants
    <3>2. svc' = svc /\ ring' = ring /\ posting' = posting
      BY <2>1
    <3>3. Covered
      BY DEF ExecutorInv
    <3>4. ring.count <= sem + Cardinality(posting) + Cardinality(At("pop")) =>
            ring.count <= (sem - 1) + Cardinality(posting) + (Cardinality(At("pop")) + 1)
      BY <3>1
    <3> QED
      BY <2>1, <2>2, <3>2, <3>3, <3>4 DEF Covered
  <2>4. sem' \in Nat
    BY <1>c, <2>1
  <2> QED
    BY <2>1, <2>3, <2>4, IdleMove
<1>6. ASSUME NEW c \in Client \cup {Owner}, Post(c) PROVE ExecutorInv'
  <2>1. c \in posting /\ posting' = posting \ {c} /\ sem' = sem + 1 /\ UNCHANGED <<svc, ring, worker, stops, next, runs>>
    BY <1>6 DEF Post
  <2>2. Cardinality(posting') = Cardinality(posting) - 1
    BY <1>c, <2>1, FS_RemoveElement
  <2>3. ExecutorTypes'
    BY <1>1, <2>1 DEF ExecutorTypes
  <2>4. Cardinality(At("pop"))' = Cardinality(At("pop"))
    BY <2>1 DEF At
  <2>5. Covered'
    BY <1>c, <2>1, <2>2, <2>4 DEF ExecutorInv, Covered
  <2>6. \A t \in Task : OnePlace(t)'
    BY <1>1, <2>1 DEF OnePlace, Queued, InHand
  <2> QED
    BY <2>3, <2>5, <2>6 DEF ExecutorInv
<1> QED
    BY <1>2, <1>3, <1>4, <1>5, <1>6

\* No task is stranded, lost or run twice: every queued task has a post or a
\* thread coming, and is in one place only, for every size of the queue and
\* every number of threads and callers, start-up and Stop included.
THEOREM ExecutorKeepsTasks ==
  ASSUME ExecutorConstants
  PROVE  Spec => []NoTaskStranded
<1>1. Init => ExecutorInv
    BY ExecutorInit
<1>2. ExecutorInv /\ [Next]_vars => ExecutorInv'
  <2> SUFFICES ASSUME ExecutorInv, [Next]_vars PROVE ExecutorInv'
    OBVIOUS
  <2>1. CASE UNCHANGED vars
    <3>1. UNCHANGED <<svc, ring, sem, worker, posting, stops, next, ref, runs>>
      BY <2>1 DEF vars
    <3>2. ExecutorTypes' /\ Covered'
      BY <3>1 DEF ExecutorInv, ExecutorTypes, Covered, At
    <3>3. \A t \in Task : OnePlace(t)'
      BY <3>1 DEF ExecutorInv, OnePlace, Queued, InHand
    <3> QED
      BY <3>2, <3>3 DEF ExecutorInv
  <2>2. ASSUME NEW c \in Client, Execute(c) PROVE ExecutorInv'
    <3>1. /\ c \notin posting /\ next \in Task /\ next' = next + 1 /\ ring' = PushBack(ring, next)
          /\ posting' = (IF ring.count < Capacity THEN posting \cup {c} ELSE posting)
          /\ UNCHANGED <<svc, sem, worker, stops, runs>> /\ stops \in Nat
      BY <2>2 DEF Execute, ExecutorInv, ExecutorTypes
    <3> QED
      BY <3>1, PushStep
  <2>3. ASSUME StopTask PROVE ExecutorInv'
    <3>1. /\ Owner \notin posting /\ next' = next /\ ring' = PushFront(ring, STOP)
          /\ posting' = (IF ring.count < Capacity THEN posting \cup {Owner} ELSE posting)
          /\ UNCHANGED <<svc, sem, worker, runs>> /\ stops' \in Nat
      BY <2>3 DEF StopTask, ExecutorInv, ExecutorTypes
    <3> QED
      BY <3>1, PushStep
  <2>4. CASE Next
    BY <2>2, <2>3, <2>4, ServiceStep, DequeueStep, RunStep DEF Next, RunInThread
  <2> QED
    BY <2>1, <2>4
<1>3. ExecutorInv => NoTaskStranded
    BY InvGivesNoTaskStranded
<1> QED
    BY <1>1, <1>2, <1>3, PTL DEF Spec
=============================================================================
