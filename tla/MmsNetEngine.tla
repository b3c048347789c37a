---------------------------- MODULE MmsNetEngine ----------------------------
(* The links of MemStore: its channel table, and its client and server as users of NetEngine.
   The steps are NetEngine's; a plane is a worker group. *)
EXTENDS Integers

CONSTANTS Scenarios, MaxChan

VARIABLES env, chan, reg, told, early, work, todo, srv, shm, call, left

(* AddChannel: the slot of the group gets the new channel. *)
AddChannel(t, id, p) == [node |-> t.node \cup {id}, mgr |-> [t.mgr EXCEPT ![p] = id]]

(* The client runs BuildThreadTask in one thread: one rebuild at a time. *)
BuildThreadTask(mode, t, w) ==
  mode = "ipc" => t.queue = 0 /\ t.init = 0 /\ \A i \in DOMAIN w : w[i].pc = "idle"

(* RebuildServices tries again while it is connected, and leaves it to the next rebuild when
   it is not. *)
RebuildServices(t, ch) == IF ch = 0 THEN [t EXCEPT !.init = @ - 1] ELSE t

Net == INSTANCE NetEngine WITH MayRecover <- BuildThreadTask, InitFailed <- RebuildServices

Init == Net!Init

\* The client: MmsClient.
HandleClientChannelBroken(id) == Net!BrokenAtClient(id)
ReconnectLocalServer == Net!Recover
BuildServices == Net!ShmInit

\* The server: MmsServer.
NetConnect == Net!NodeView
NetReConnect(w) == Net!ConnectFails(w)

\* The engine and its connector.
ChannelBroken(id) == Net!BrokenAtServer(id)
DoConnect(w) == Net!TakeTask(w) \/ Net!SkipPlane(w) \/ Net!Register(w)
SyncConnect(w) == Net!TaskDone(w)
ConnectToPeer(w, id) == Net!ConnectToPeer(w, id)
SyncCall(form) == Net!CallStart(form)
RequestReceived == Net!RequestReceived
SyncRead == Net!Handle
Reply == Net!Reply
NetResult == Net!NetResult

Next ==
  \/ \E w \in DOMAIN work : DoConnect(w) \/ SyncConnect(w) \/ NetReConnect(w)
                            \/ \E id \in 1..MaxChan : ConnectToPeer(w, id)
  \/ ReconnectLocalServer \/ BuildServices \/ NetConnect
  \/ \E id \in 1..MaxChan : \/ Net!Break(id) \/ HandleClientChannelBroken(id)
                            \/ ChannelBroken(id)
  \/ Net!Crash \/ Net!Restart
  \/ \E form \in {"sync", "oneway"} : SyncCall(form)
  \/ RequestReceived \/ SyncRead \/ Reply \/ NetResult
=============================================================================
