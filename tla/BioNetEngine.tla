---------------------------- MODULE BioNetEngine ----------------------------
(* The links of BoostIO: its channel table, and its client and server as users of NetEngine. *)
EXTENDS Integers

CONSTANTS Scenarios, MaxChan

VARIABLES env, chan, reg, told, early, work, todo, srv, shm, call, left

(* AddChannel: insert keeps the channel that the peer has already. *)
AddChannel(t, id, p) ==
  [node |-> t.node \cup {id}, mgr |-> IF t.mgr[p] = 0 THEN [t.mgr EXCEPT ![p] = id] ELSE t.mgr]

(* Every break starts a thread of its own. *)
MayRecover(mode, t, w) == TRUE

(* RecoverIpc connects again when ShmInit fails. *)
RecoverIpc(t, ch) == [t EXCEPT !.init = @ - 1, !.recover = @ + 1]

Net == INSTANCE NetEngine WITH InitFailed <- RecoverIpc

Init == Net!Init

\* The client: BioClientNet.
ClientBroken(id) == Net!BrokenAtClient(id)
RecoverRpc == Net!Recover
ShmInit == Net!ShmInit
Rebuild == Net!NodeView

\* The server: BioServer.
ServerBroken(id) == Net!BrokenAtServer(id)
ReConnect(w) == Net!ConnectFails(w)

Connect(w) == Net!TakeTask(w) \/ Net!SkipPlane(w) \/ Net!Register(w) \/ Net!TaskDone(w)
ConnectToPeer(w, id) == Net!ConnectToPeer(w, id)

Next ==
  \/ \E w \in DOMAIN work : Connect(w) \/ ReConnect(w)
                            \/ \E id \in 1..MaxChan : ConnectToPeer(w, id)
  \/ RecoverRpc \/ ShmInit \/ Rebuild
  \/ \E id \in 1..MaxChan : Net!Break(id) \/ ClientBroken(id) \/ ServerBroken(id)
  \/ Net!Crash \/ Net!Restart
  \/ \E form \in {"sync", "oneway"} : Net!CallStart(form)
  \/ Net!RequestReceived \/ Net!Handle \/ Net!Reply \/ Net!NetResult
=============================================================================
