----------------------------- MODULE NetEngine -----------------------------
(* The links between two processes: the channels of the transport (hcom, external), the two
   channel tables (NetChannelMgr) that find a channel by its peer, the connector with its task
   threads, what is done after a break, and calls over the links.  One side ("c") connects,
   the other ("s") accepts; a plane is the control or the data plane of BoostIO, a group of
   MemStore.  What BoostIO and MemStore do differently is a constant, given by BioNetEngine
   and MmsNetEngine. *)
EXTENDS Integers, FiniteSets

CONSTANTS Scenarios,       \* records: kind of the product, mode "rpc"/"ipc", pid (accepted
                           \* channels are registered), worker (threads of the connector),
                           \* breaks, fails, crashes, calls: bounds on faults and calls
          MaxChan,         \* bound on channels ever opened
          AddChannel(_, _, _),  \* the table with a channel added to a plane
          MayRecover(_, _, _),  \* mode, todo, work: a thread may start to reconnect
          InitFailed(_, _)      \* what is left to do when the memory could not be asked for

Plane == {0, 1}            \* the control and the data plane
Chan == 1..MaxChan
None == 0

VARIABLES env,     \* the scenario
          chan,    \* channel -> its plane, "new", "open" or "broken", the server it leads to
          reg,     \* side -> mChannelNodeMap (channels) and mChannelMgr (plane -> channel)
          told,    \* side -> channels whose break ChannelBroken has handled
          early,   \* channels that broke before they were registered
          work,    \* connector thread -> the task it runs
          todo,    \* tasks queued, threads about to reconnect, threads about to initialise
          srv,     \* the accepting process: up, its incarnation; the connecting side's view
          shm,     \* the incarnation whose shared memory the connecting side has mapped
          call,    \* the call under way: the caller's and the handler's view of it
          left     \* what is left of the bounds

vars == <<env, chan, reg, told, early, work, todo, srv, shm, call, left>>

NoTable == [node |-> {}, mgr |-> [p \in Plane |-> None]]
Idle == [pc |-> "idle", plane |-> 0, ch |-> None]
NoCall == [c |-> "none", s |-> "none", ch |-> None]

Init ==
  /\ env \in Scenarios
  /\ chan = [i \in Chan |-> [plane |-> 0, st |-> "new", to |-> 0]]
  /\ reg = [side \in {"c", "s"} |-> NoTable]
  /\ told = [side \in {"c", "s"} |-> {}]
  /\ early = {}
  /\ work = [w \in 1..env.worker |-> Idle]
  /\ todo = [queue |-> IF env.mode = "rpc" THEN 1 ELSE 0,
             recover |-> IF env.mode = "ipc" THEN 1 ELSE 0, init |-> 0]
  /\ srv = [up |-> TRUE, inc |-> 1, online |-> TRUE]
  /\ shm = 0
  /\ call = NoCall
  /\ left = [breaks |-> env.breaks, fails |-> env.fails, crashes |-> env.crashes,
             calls |-> env.calls]

-----------------------------------------------------------------------------
(* NetChannelMgr *)

(* RemoveChannel: a registered channel takes the entry of its peer along, whichever channel
   the entry holds. *)
RemoveChannel(t, id, p) ==
  IF id \in t.node THEN [node |-> t.node \ {id}, mgr |-> [t.mgr EXCEPT ![p] = None]] ELSE t

(* GetChannel *)
GetChannel(side, p) == reg[side].mgr[p]

(* NewChannel on the accepting side: only a channel from a client process is registered. *)
NewChannel(id, p) ==
  IF env.pid THEN [reg EXCEPT !["s"] = AddChannel(@, id, p)] ELSE reg

(* ChannelBroken takes the channel out of the table of its plane. *)
ChannelBroken(side, id) == [reg EXCEPT ![side] = RemoveChannel(@, id, chan[id].plane)]

Open(id) == id # None /\ chan[id].st = "open"

-----------------------------------------------------------------------------
(* The connector: ConnectTask::DoConnect walks over the planes. *)

(* AsyncConnect and SyncConnect hand a task to the threads of the connector. *)
Enqueue(t) == [t EXCEPT !.queue = @ + 1]

(* The task takes its next plane: nothing to do where the table has a channel. *)
NextPlane(w, p) ==
  IF p \notin Plane THEN [work EXCEPT ![w] = [pc |-> "done", plane |-> 0, ch |-> None]]
  ELSE [work EXCEPT ![w] = [pc |-> "get", plane |-> p, ch |-> None]]

TakeTask(w) ==
  /\ work[w] = Idle /\ todo.queue > 0
  /\ todo' = [todo EXCEPT !.queue = @ - 1]
  /\ work' = NextPlane(w, 0)
  /\ UNCHANGED <<env, chan, reg, told, early, srv, shm, call, left>>

\* mutant: a channel on the control plane is taken for a connection
SkipPlaneAll(w) ==
  /\ work[w].pc = "get" /\ GetChannel("c", work[w].plane) # None
  /\ work' = NextPlane(w, 2)
  /\ UNCHANGED <<env, chan, reg, told, early, todo, srv, shm, call, left>>

SkipPlane(w) ==
  /\ work[w].pc = "get" /\ GetChannel("c", work[w].plane) # None
  /\ work' = NextPlane(w, work[w].plane + 1)
  /\ UNCHANGED <<env, chan, reg, told, early, todo, srv, shm, call, left>>

(* ConnectToPeer: the transport opens a channel; the peer's NewChannel has run, and has
   registered it when it came from a client process, when Connect returns. *)
ConnectToPeer(w, id) ==
  /\ work[w].pc = "get" /\ GetChannel("c", work[w].plane) = None
  /\ srv.up /\ id = Cardinality({i \in Chan : chan[i].st # "new"}) + 1 /\ id \in Chan
  /\ chan' = [chan EXCEPT ![id] = [plane |-> work[w].plane, st |-> "open", to |-> srv.inc]]
  /\ reg' = NewChannel(id, work[w].plane)
  /\ work' = [work EXCEPT ![w] = [@ EXCEPT !.pc = "add", !.ch = id]]
  /\ UNCHANGED <<env, told, early, todo, srv, shm, call, left>>

(* The connecting side registers the channel, which may have broken in the meantime. *)
Register(w) ==
  /\ work[w].pc = "add"
  /\ reg' = [reg EXCEPT !["c"] = AddChannel(@, work[w].ch, work[w].plane)]
  /\ early' = IF work[w].ch \in told["c"] THEN early \cup {work[w].ch} ELSE early
  /\ work' = NextPlane(w, work[w].plane + 1)
  /\ UNCHANGED <<env, chan, told, todo, srv, shm, call, left>>

(* The handler of the task.  RPC: done.  IPC: SyncConnect returns and the thread goes on to
   ShmInit, or to BuildServices. *)
TaskDone(w) ==
  /\ work[w].pc = "done"
  /\ work' = [work EXCEPT ![w] = Idle]
  /\ todo' = IF env.mode = "ipc" THEN [todo EXCEPT !.init = @ + 1] ELSE todo
  /\ UNCHANGED <<env, chan, reg, told, early, srv, shm, call, left>>

(* One more thread that will reconnect; over RPC only when the peer is online in the view. *)
Again == IF env.mode = "ipc" \/ srv.online THEN [todo EXCEPT !.recover = @ + 1] ELSE todo

(* A connection that fails is tried again after a while (ReConnect, RecoverRpc, RecoverIpc). *)
ConnectFails(w) ==
  /\ work[w].pc = "get" /\ GetChannel("c", work[w].plane) = None
  /\ \/ ~srv.up /\ left' = left
     \/ srv.up /\ left.fails > 0 /\ left' = [left EXCEPT !.fails = @ - 1]
  /\ work' = [work EXCEPT ![w] = Idle]
  /\ todo' = Again
  /\ UNCHANGED <<env, chan, reg, told, early, srv, shm, call>>

(* A thread that reconnects queues a task after a sleep. *)
Recover ==
  /\ todo.recover > 0 /\ MayRecover(env.mode, todo, work)
  /\ todo' = Enqueue([todo EXCEPT !.recover = @ - 1])
  /\ UNCHANGED <<env, chan, reg, told, early, work, srv, shm, call, left>>

(* The peer answers with the descriptor, offset and size of the memory it allocated. *)
ServerMemory(ch) == chan[ch].to

(* The connecting side asks the peer for its memory over the control plane. *)
ShmInit ==
  /\ todo.init > 0
  /\ LET ch == GetChannel("c", 0)
     IN IF Open(ch)
        THEN shm' = ServerMemory(ch) /\ todo' = [todo EXCEPT !.init = @ - 1]
        ELSE shm' = shm /\ todo' = InitFailed(todo, ch)
  /\ UNCHANGED <<env, chan, reg, told, early, work, srv, call, left>>

-----------------------------------------------------------------------------
(* Faults and their notices. *)

Break(id) ==
  /\ left.breaks > 0 /\ chan[id].st = "open"
  /\ chan' = [chan EXCEPT ![id].st = "broken"]
  /\ left' = [left EXCEPT !.breaks = @ - 1]
  /\ UNCHANGED <<env, reg, told, early, work, todo, srv, shm, call>>

(* ChannelBroken on the connecting side: the table entry goes and a reconnection starts. *)
BrokenAtClient(id) ==
  /\ chan[id].st = "broken" /\ id \notin told["c"]
  /\ told' = [told EXCEPT !["c"] = @ \cup {id}]
  /\ reg' = ChannelBroken("c", id)
  /\ todo' = Again
  /\ UNCHANGED <<env, chan, early, work, srv, shm, call, left>>

(* ChannelBroken on the accepting side. *)
BrokenAtServer(id) ==
  /\ chan[id].st = "broken" /\ id \notin told["s"] /\ srv.up /\ chan[id].to = srv.inc
  /\ told' = [told EXCEPT !["s"] = @ \cup {id}]
  /\ reg' = ChannelBroken("s", id)
  /\ UNCHANGED <<env, chan, early, work, todo, srv, shm, call, left>>

(* The accepting process goes down and comes back with empty tables and new memory. *)
Crash ==
  /\ left.crashes > 0 /\ srv.up
  /\ left' = [left EXCEPT !.crashes = @ - 1]
  /\ srv' = [srv EXCEPT !.up = FALSE]
  /\ chan' = [i \in Chan |-> IF chan[i].st = "open" THEN [chan[i] EXCEPT !.st = "broken"]
                             ELSE chan[i]]
  /\ reg' = [reg EXCEPT !["s"] = NoTable]
  /\ call' = [call EXCEPT !.s = IF @ = "queued" THEN "none" ELSE @]
  /\ UNCHANGED <<env, told, early, work, todo, shm>>

Restart ==
  /\ ~srv.up
  /\ srv' = [srv EXCEPT !.up = TRUE, !.inc = @ + 1]
  /\ UNCHANGED <<env, chan, reg, told, early, work, todo, shm, call, left>>

(* Connection: a task for a peer that is normal in the new view. *)
Connection(normal) == IF normal THEN Enqueue(todo) ELSE todo

(* The node view follows the peer (HandleCmNodeEvent, Rebuild). *)
NodeView ==
  /\ env.mode = "rpc" /\ srv.online # srv.up
  /\ srv' = [srv EXCEPT !.online = srv.up]
  /\ todo' = Connection(srv.up)
  /\ UNCHANGED <<env, chan, reg, told, early, work, shm, call, left>>

-----------------------------------------------------------------------------
(* Calls over the control plane; the handler runs in the executor of the peer and reads the
   caller's data over the data plane it accepted. *)

(* SyncCall, AsyncCall, AsyncCallWithoutResponse: without a channel the call is to be
   retried; one that wants no response is done when it is sent. *)
CallStart(form) ==
  /\ left.calls > 0 /\ call.c # "wait" /\ call.s # "queued"
  /\ left' = [left EXCEPT !.calls = @ - 1]
  /\ LET ch == GetChannel("c", 0)
     IN call' = [c |-> IF ~Open(ch) THEN "retry" ELSE IF form = "oneway" THEN "sent" ELSE "wait",
                 s |-> "none", ch |-> ch]
  /\ UNCHANGED <<env, chan, reg, told, early, work, todo, srv, shm>>

(* AddTask: a request that the executor does not take is dropped without an answer. *)
AddTask ==
  \/ call' = [call EXCEPT !.s = "queued"] /\ left' = left
  \/ /\ left.fails > 0
     /\ left' = [left EXCEPT !.fails = @ - 1]
     /\ call' = [call EXCEPT !.s = "lost"]

RequestReceived ==
  /\ call.c \in {"wait", "sent"} /\ call.s = "none" /\ Open(call.ch)
  /\ AddTask
  /\ UNCHANGED <<env, chan, reg, told, early, work, todo, srv, shm>>

(* SyncRead and SyncWrite of a handler look for the caller's data channel. *)
SyncRead == env.pid => Open(GetChannel("s", 1))

Handle ==
  /\ call.s = "queued" /\ srv.up
  /\ call' = [call EXCEPT !.s = IF SyncRead THEN "served" ELSE "failed"]
  /\ UNCHANGED <<env, chan, reg, told, early, work, todo, srv, shm, left>>

(* The caller of a call that was answered gets the error code of the response. *)
Response == IF call.s = "served" THEN "ok" ELSE "error"

(* Reply over the channel of the request. *)
Reply ==
  /\ call.c = "wait" /\ call.s \in {"served", "failed"} /\ Open(call.ch)
  /\ call' = [call EXCEPT !.c = Response]
  /\ UNCHANGED <<env, chan, reg, told, early, work, todo, srv, shm, left>>

(* NetResult: a call on a broken channel, or one without an answer in time, is to be retried;
   the handler may run all the same. *)
NetResult ==
  /\ call.c = "wait" /\ (~Open(call.ch) \/ call.s = "lost")
  /\ call' = [call EXCEPT !.c = "retry"]
  /\ UNCHANGED <<env, chan, reg, told, early, work, todo, srv, shm, left>>

Next ==
  \/ \E w \in DOMAIN work : \/ TakeTask(w) \/ SkipPlane(w) \/ Register(w) \/ TaskDone(w)
                            \/ ConnectFails(w) \/ \E id \in Chan : ConnectToPeer(w, id)
  \/ Recover \/ ShmInit
  \/ \E id \in Chan : Break(id) \/ BrokenAtClient(id) \/ BrokenAtServer(id)
  \/ Crash \/ Restart \/ NodeView
  \/ (\E form \in {"sync", "oneway"} : CallStart(form))
  \/ RequestReceived \/ Handle \/ Reply \/ NetResult

Spec == Init /\ [][Next]_vars

-----------------------------------------------------------------------------
(* A channel in the table of either side has not been reported broken to that side, except
   one that broke before the connecting side had registered it: calls do not keep going to a
   channel that is known to be gone. *)
GoneIsForgotten ==
  \A side \in {"c", "s"} : \A p \in Plane :
    LET id == reg[side].mgr[p] IN id # None /\ id \in told[side] => side = "c" /\ id \in early

(* The connecting side has nothing left to do about its links. *)
Quiet ==
  /\ todo.queue = 0 /\ todo.recover = 0 /\ todo.init = 0
  /\ \A w \in DOMAIN work : work[w] = Idle
  /\ \A i \in Chan : chan[i].st = "broken" => i \in told["c"]
  /\ srv.up = srv.online

(* Whatever broke, and in whichever order the breaks of the planes, the view and the failed
   attempts came: when nothing is left to do and the peer is up, both planes are connected to
   the running peer and its memory is the one that is mapped (but for a channel that broke
   before it was registered). *)
LinksComeBack ==
  Quiet /\ srv.up /\ early = {} =>
    /\ \A p \in Plane : Open(GetChannel("c", p)) /\ chan[GetChannel("c", p)].to = srv.inc
    /\ env.mode = "ipc" => shm = srv.inc

(* A caller that was told OK was served: its handler ran to the end on the caller's data,
   over whichever channels that took. *)
OkMeansServed == call.c = "ok" => call.s = "served"

=============================================================================
