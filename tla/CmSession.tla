----------------------------- MODULE CmSession -----------------------------
(***************************************************************************)
(* The ZooKeeper sessions of the cluster manager: how a process registers  *)
(* its node, takes part in the election of the master server, subscribes   *)
(* to the published lists, and restores all of that when its session has   *)
(* expired (cm_zkadapter.c, cm_client_local.c).  What the master computes  *)
(* from the session znodes is the subject of CmServerView; here it only    *)
(* publishes which nodes have one.                                         *)
(*                                                                         *)
(* A process has two threads of interest: the one that runs the start      *)
(* sequence, or later the restore sequence (its remaining steps are        *)
(* todo), and the completion thread of the ZooKeeper handle, which runs    *)
(* the callbacks of one-shot watches one at a time (its step is cb).  A    *)
(* session is <<process, number>>; a crash leaves it behind until          *)
(* ZooKeeper expires it.                                                   *)
(***************************************************************************)
EXTENDS Naturals, Sequences, FiniteSets

CONSTANTS
  Proc,         \* the processes, each with an address of its own
  MaxNodeNum,   \* pool->maxNodeNum
  Starts,       \* the initial states: [running, first, cfg, open, crash, expire, fail, data]
  GenNodeId(_, _, _)  \* CmClientZkGenNodeId: process, recorded ids, next sequence number

VARIABLES
  pool,     \* the configuration recorded for the pool (CM_POOL/<poolId>)
  ids,      \* address -> node id, recorded for good (CM_IP_PATH)
  seq,      \* the sequence number of the next CM_NODEID_GENERATE_CHILD_PATH znode
  nodeZ,    \* node id -> session holding its ephemeral znode (CM_NODE_PATH)
  metaZ,    \* sessions holding the ephemeral znode of their server (CM_META)
  masterZ,  \* session holding the ephemeral master znode (CM_MASTER_PATH)
  list,     \* the published lists
  live,     \* the sessions ZooKeeper keeps
  proc,     \* the processes
  left      \* bounds: sessions that may be opened, faults that may happen

vars == <<pool, ids, seq, nodeZ, metaZ, masterZ, list, live, proc, left>>

NodeId == 0 .. MaxNodeNum - 1
None == <<>>
NoId == MaxNodeNum + 10

(* CM_STATE_PATH (the nodes that are UP), CM_PT_PATH (the nodes the partition  *)
(* table counts on) and the data znode of the upgrade flag ({} or {0}).        *)
Lists == {"state", "pt", "data"}

Do(d) == [do |-> d, l |-> "none"]
Get(l) == [do |-> "get", l |-> l]
Put(l) == [do |-> "put", l |-> l]

Subscribe == <<Get("state"), Put("state"), Get("pt"), Put("pt"), Get("data")>>
Elect == <<Do("create"), Do("role")>>

(* CmZkInit: the directories of the pool, most of which hold nothing themselves, *)
(* are one step; one that exists is left alone.                                *)
InitSteps == <<Do("dirs")>>

(* CM_Init: the directories (CmZkInit), the server half (CmServerZkInit,       *)
(* CmServerViewInit), the client half (CmClientLocalRegister); the data znode  *)
(* is subscribed last, by the embedding program.                               *)
StartSteps == InitSteps \o <<Do("meta")>> \o Elect
              \o <<Do("genid"), Do("record"), Do("wait"), Do("session")>> \o Subscribe

(* CmZkClientRestore and then CmZkServerRestore.                               *)
RestoreSteps == <<Do("session")>> \o Subscribe \o <<Do("meta")>> \o Elect

Empty == [l \in Lists |-> {}]
Unwatched == [l \in Lists \cup {"role"} |-> "off"]

Off(k) == [cfg |-> None, on |-> FALSE, started |-> FALSE, k |-> k, todo |-> <<>>, cb |-> Do("idle"),
           id |-> NoId, role |-> "slave", got |-> {}, cbGot |-> {}, last |-> Empty,
           view |-> Empty, watch |-> Unwatched, deaf |-> FALSE, skipped |-> FALSE]

Running(i, m, up) ==
  [Off(1) EXCEPT !.on = TRUE, !.started = TRUE, !.id = i,
                 !.role = IF i = m THEN "master" ELSE "slave",
                 !.last = [Empty EXCEPT !["state"] = up, !["pt"] = up],
                 !.view = [Empty EXCEPT !["state"] = up, !["pt"] = up],
                 !.watch = [l \in Lists \cup {"role"} |-> "armed"]]

(* The programs of a start are either running, with the node ids first gives   *)
(* them and node 0's as the master, or not started and unknown.                *)
Init ==
  \E s \in Starts :
    LET up == {s.first[p] : p \in s.running} IN
    /\ ids = [p \in Proc |-> IF p \in s.running THEN s.first[p] ELSE NoId]
    /\ seq = Cardinality(up)
    /\ nodeZ = [n \in NodeId |-> IF n \in up THEN <<CHOOSE p \in s.running : s.first[p] = n, 1>>
                                 ELSE None]
    /\ live = {<<p, 1>> : p \in s.running}
    /\ metaZ = live
    /\ masterZ = IF up = {} THEN None ELSE nodeZ[0]
    /\ pool = IF up = {} THEN None ELSE s.cfg[masterZ[1]]
    /\ list = [Empty EXCEPT !["state"] = up, !["pt"] = up]
    /\ proc = [p \in Proc |-> [IF p \in s.running THEN Running(s.first[p], 0, up) ELSE Off(0)
                                EXCEPT !.cfg = s.cfg[p]]]
    /\ left = [open |-> s.open, crash |-> s.crash, expire |-> s.expire, fail |-> s.fail, data |-> s.data]

Session(p) == <<p, proc[p].k>>
Live(p) == proc[p].on /\ Session(p) \in live

(* The watches on a changed znode are used up and their callbacks queued.      *)
Fire(pr, l) ==
  [q \in Proc |-> IF pr[q].watch[l] = "armed" THEN [pr[q] EXCEPT !.watch[l] = "due"] ELSE pr[q]]

(* The next step of the sequence; the start is over with its last step.        *)
Onward(r) == [r EXCEPT !.todo = Tail(@), !.started = @ \/ Len(r.todo) = 1]

Stepping(p, d) == Live(p) /\ proc[p].todo # <<>> /\ Head(proc[p].todo).do = d

(* A failed step ends the start: the process exits and leaves its session.     *)
Gone(r) == [Off(r.k) EXCEPT !.cfg = r.cfg, !.skipped = r.skipped]

-----------------------------------------------------------------------------
(* Starting and registering                                                *)

Start(p) ==
  /\ ~proc[p].on
  /\ left.open > 0
  /\ left' = [left EXCEPT !.open = @ - 1]
  /\ proc' = [proc EXCEPT ![p] = [Gone(@) EXCEPT !.k = @ + 1, !.on = TRUE, !.todo = StartSteps]]
  /\ live' = live \cup {<<p, proc[p].k + 1>>}
  /\ UNCHANGED <<pool, ids, seq, nodeZ, metaZ, masterZ, list>>

(* The directories and the empty lists are created unless they exist; so is    *)
(* the pool's, with the configuration, and what it holds must agree with ours. *)
CreateDirs(p) ==
  /\ Stepping(p, "dirs")
  /\ pool' = IF pool = None THEN proc[p].cfg ELSE pool
  /\ proc' = [proc EXCEPT ![p] = IF pool' = @.cfg THEN Onward(@) ELSE Gone(@)]
  /\ UNCHANGED <<ids, seq, nodeZ, metaZ, masterZ, list, live, left>>

(* mutant: the server does not wait for the znode of its earlier session       *)
RegisterMetaNodeAtOnce(p) ==
  /\ Stepping(p, "meta")
  /\ metaZ' = metaZ \cup {Session(p)}
  /\ proc' = [proc EXCEPT ![p] = Onward(@)]
  /\ UNCHANGED <<pool, ids, seq, nodeZ, masterZ, list, live, left>>

(* A server that starts waits until the znode of its earlier session is gone,  *)
(* then creates its own; a restore only creates it.                            *)
RegisterMetaNode(p) ==
  /\ Stepping(p, "meta")
  /\ \A s \in metaZ : s[1] # p
  /\ metaZ' = metaZ \cup {Session(p)}
  /\ proc' = [proc EXCEPT ![p] = Onward(@)]
  /\ UNCHANGED <<pool, ids, seq, nodeZ, masterZ, list, live, left>>

GenerateId(p) ==
  /\ Stepping(p, "genid")
  /\ \E g \in {GenNodeId(p, ids, seq)} :
       /\ seq' = g.seq
       /\ proc' = [proc EXCEPT ![p] = IF g.ok THEN [Onward(@) EXCEPT !.id = g.id]
                                      ELSE Gone(@)]
  /\ UNCHANGED <<pool, ids, nodeZ, metaZ, masterZ, list, live, left>>

RecordNodeId(p) ==
  /\ Stepping(p, "record")
  /\ ids' = [ids EXCEPT ![p] = proc[p].id]
  /\ proc' = [proc EXCEPT ![p] = Onward(@)]
  /\ UNCHANGED <<pool, seq, nodeZ, metaZ, masterZ, list, live, left>>

(* The node's earlier session must be gone; then the id must fit the pool.     *)
CheckNodeIdExist(p) ==
  /\ Stepping(p, "wait")
  /\ proc[p].id \in NodeId => nodeZ[proc[p].id] = None
  /\ proc' = [proc EXCEPT ![p] = IF proc[p].id \in NodeId THEN Onward(@) ELSE Gone(@)]
  /\ UNCHANGED <<pool, ids, seq, nodeZ, metaZ, masterZ, list, live, left>>

(* The steps a restore still takes when one of its steps fails.                *)
AfterFailure(todo) ==
  IF Head(todo).do \in {"session", "get", "put"} THEN <<Do("meta")>> \o Elect
  ELSE IF Head(todo).do = "meta" THEN Elect
  ELSE <<>>

(* The znode that tells the master this node is up; one that exists is an      *)
(* error.                                                                      *)
RecordLocalSession(p) ==
  /\ Stepping(p, "session")
  /\ \E n \in {proc[p].id} :
       /\ nodeZ' = [nodeZ EXCEPT ![n] = IF @ = None THEN Session(p) ELSE @]
       /\ proc' = [proc EXCEPT ![p] = IF nodeZ[n] = None THEN Onward(@)
                                      ELSE IF @.started THEN [@ EXCEPT !.todo = AfterFailure(@)]
                                      ELSE Gone(@)]
  /\ UNCHANGED <<pool, ids, seq, metaZ, masterZ, list, live, left>>

-----------------------------------------------------------------------------
(* The election                                                            *)

(* A step of the election is run by the sequence or by the role callback.      *)
Electing(p, d, t) ==
  IF t = "seq" THEN Stepping(p, d) ELSE Live(p) /\ proc[p].cb = Do(d)

Elected(r, d, t) == IF t = "seq" THEN Onward(r) ELSE [r EXCEPT !.cb = Do(d)]

CreateMaster(p, t) ==
  /\ Electing(p, "create", t)
  /\ masterZ' = IF masterZ = None THEN Session(p) ELSE masterZ
  /\ proc' = [proc EXCEPT ![p] = Elected(@, "role", t)]
  /\ UNCHANGED <<pool, ids, seq, nodeZ, metaZ, list, live, left>>

(* The master znode is read and watched: it holds the master's server id.  If  *)
(* it has gone since, the election fails, with no watch set: a start exits, a  *)
(* restore or a callback leaves it at that.                                    *)
SubRoleChange(p, t) ==
  /\ Electing(p, "role", t)
  /\ proc' = [proc EXCEPT ![p] =
       IF masterZ # None
       THEN [Elected(@, "idle", t) EXCEPT
               !.role = IF masterZ[1] = p THEN "master" ELSE "slave",
               !.watch["role"] = "armed"]
       ELSE IF t = "cb" THEN [@ EXCEPT !.cb = Do("idle")]
       ELSE IF @.started THEN [@ EXCEPT !.todo = <<>>]
       ELSE Gone(@)]
  /\ UNCHANGED <<pool, ids, seq, nodeZ, metaZ, masterZ, list, live, left>>

(* The master's znode was deleted: take part in a new election.                *)
RoleWatchFunc(p) ==
  /\ Live(p)
  /\ proc[p].cb = Do("idle")
  /\ proc[p].watch["role"] = "due"
  /\ proc' = [proc EXCEPT ![p].cb = Do("create"), ![p].watch["role"] = "off"]
  /\ UNCHANGED <<pool, ids, seq, nodeZ, metaZ, masterZ, list, live, left>>

-----------------------------------------------------------------------------
(* Subscriptions                                                           *)

(* The list is read and watched in one request.                                *)
SubList(p) ==
  /\ Stepping(p, "get")
  /\ \E l \in {Head(proc[p].todo).l} \ {"data"} :
       proc' = [proc EXCEPT ![p] = [Onward(@) EXCEPT !.got = list[l], !.last[l] = list[l],
                                                     !.watch[l] = "armed"]]
  /\ UNCHANGED <<pool, ids, seq, nodeZ, metaZ, masterZ, list, live, left>>

SubDataHandle(p) ==
  /\ Stepping(p, "get")
  /\ Head(proc[p].todo).l = "data"
  /\ proc' = [proc EXCEPT ![p] = [Onward(@) EXCEPT !.view["data"] = list["data"],
                                    !.last["data"] = list["data"], !.watch["data"] = "armed"]]
  /\ UNCHANGED <<pool, ids, seq, nodeZ, metaZ, masterZ, list, live, left>>

(* mutant: the callback reads the list but does not watch it again             *)
WatchFuncOnce(p, l) ==
  /\ Live(p)
  /\ proc[p].cb = Do("idle")
  /\ proc[p].watch[l] = "due"
  /\ proc' = [proc EXCEPT ![p].cb = Put(l), ![p].cbGot = list[l], ![p].last[l] = list[l],
                          ![p].watch[l] = "off"]
  /\ UNCHANGED <<pool, ids, seq, nodeZ, metaZ, masterZ, list, live, left>>

(* The callback of a list reads and watches it again.                          *)
WatchFunc(p, l) ==
  /\ Live(p)
  /\ proc[p].cb = Do("idle")
  /\ proc[p].watch[l] = "due"
  /\ proc' = [proc EXCEPT ![p].cb = Put(l), ![p].cbGot = list[l], ![p].last[l] = list[l],
                          ![p].watch[l] = "armed"]
  /\ UNCHANGED <<pool, ids, seq, nodeZ, metaZ, masterZ, list, live, left>>

(* The session of a node that is newly UP is read; if it is gone, the entries  *)
(* from that node on stay as they were.                                        *)
UpdateStateList(old, new) ==
  LET lost == {n \in new \ old : nodeZ[n] = None} IN
  {n \in NodeId : IF \E m \in lost : m <= n THEN n \in old ELSE n \in new}

Update(r, l, new) ==
  [r EXCEPT !.view[l] = IF l = "state" THEN UpdateStateList(@, new) ELSE new]

(* What was read is compared with the list kept, entry by entry, and the       *)
(* changed entries are kept and notified.                                      *)
UpdateList(p) ==
  \/ /\ Stepping(p, "put")
     /\ proc' = [proc EXCEPT ![p] = Update([Onward(@) EXCEPT !.got = {}],
                                           Head(proc[p].todo).l, proc[p].got)]
     /\ UNCHANGED <<pool, ids, seq, nodeZ, metaZ, masterZ, list, live, left>>
  \/ /\ Live(p)
     /\ proc[p].cb.do = "put"
     /\ proc' = [proc EXCEPT ![p] = Update([@ EXCEPT !.cb = Do("idle"), !.cbGot = {}],
                                           proc[p].cb.l, proc[p].cbGot)]
     /\ UNCHANGED <<pool, ids, seq, nodeZ, metaZ, masterZ, list, live, left>>

-----------------------------------------------------------------------------
(* Publishing: a master with a live session records what it sees (the nodes    *)
(* with a session znode, then the partition table for them).                   *)

Published(l, new) ==
  /\ list[l] # new
  /\ list' = [list EXCEPT ![l] = new]
  /\ proc' = Fire(proc, l)
  /\ UNCHANGED <<pool, ids, seq, nodeZ, metaZ, masterZ, live>>

RecordStateList(p) ==
  /\ Live(p) /\ proc[p].role = "master"
  /\ Published("state", {n \in NodeId : nodeZ[n] # None})
  /\ UNCHANGED left

RecordPtList(p) ==
  /\ Live(p) /\ proc[p].role = "master"
  /\ Published("pt", list["state"])
  /\ UNCHANGED left

RecordDataInfo(p) ==
  /\ Live(p) /\ proc[p].started
  /\ left.data > 0
  /\ Published("data", {0} \ list["data"])
  /\ left' = [left EXCEPT !.data = @ - 1]

-----------------------------------------------------------------------------
(* Faults                                                                  *)

(* The process dies; its session lives on until it times out.                  *)
Crash(p) ==
  /\ proc[p].on /\ left.crash > 0
  /\ left' = [left EXCEPT !.crash = @ - 1]
  /\ proc' = [proc EXCEPT ![p] = Gone(@)]
  /\ UNCHANGED <<pool, ids, seq, nodeZ, metaZ, masterZ, list, live>>

(* ZooKeeper ends a session: its ephemeral znodes and watches go with it.      *)
Expire(s) ==
  /\ s \in live
  /\ \E mine \in {proc[s[1]].on /\ Session(s[1]) = s} :
     \E pr \in {IF mine THEN [proc EXCEPT ![s[1]].watch = Unwatched] ELSE proc} :
       /\ mine => left.expire > 0
       /\ left' = [left EXCEPT !.expire = IF mine THEN @ - 1 ELSE @]
       /\ proc' = IF masterZ = s THEN Fire(pr, "role") ELSE pr
  /\ live' = live \ {s}
  /\ nodeZ' = [n \in NodeId |-> IF nodeZ[n] = s THEN None ELSE nodeZ[n]]
  /\ metaZ' = metaZ \ {s}
  /\ masterZ' = IF masterZ = s THEN None ELSE masterZ
  /\ UNCHANGED <<pool, ids, seq, list>>

(* The expiry is noticed: the server gives up its role, the handle is closed   *)
(* and a new one connected, and everything is registered again.                *)
Restore(p) ==
  /\ proc[p].on /\ proc[p].started /\ ~Live(p)
  /\ left.open > 0
  /\ left' = [left EXCEPT !.open = @ - 1]
  /\ proc[p].cb.do = "idle"
  /\ proc' = [proc EXCEPT ![p].role = "slave", ![p].todo = RestoreSteps, ![p].k = @ + 1,
                          ![p].deaf = FALSE]
  /\ live' = live \cup {<<p, proc[p].k + 1>>}
  /\ UNCHANGED <<pool, ids, seq, nodeZ, metaZ, masterZ, list>>

(* A request of the sequence fails for good: three attempts failed, or the     *)
(* session is gone.                                                            *)
StepFails(p) ==
  /\ proc[p].on /\ proc[p].todo # <<>>
  /\ Live(p) => left.fail > 0
  /\ left' = [left EXCEPT !.fail = IF Live(p) THEN @ - 1 ELSE @]
  /\ proc' = [proc EXCEPT ![p] =
       IF @.started THEN [@ EXCEPT !.todo = AfterFailure(@), !.deaf = TRUE,
                                        !.skipped = @ \/ Head(proc[p].todo).do = "meta"] ELSE Gone(@)]
  /\ UNCHANGED <<pool, ids, seq, nodeZ, metaZ, masterZ, list, live>>

(* A request of a callback fails for good: it is only logged.                  *)
CallbackFails(p) ==
  /\ proc[p].on
  /\ Live(p) => left.fail > 0
  /\ left' = [left EXCEPT !.fail = IF Live(p) THEN @ - 1 ELSE @]
  /\ \/ /\ proc[p].cb.do # "idle"
        /\ proc' = [proc EXCEPT ![p].cb = Do("idle"), ![p].cbGot = {}, ![p].deaf = TRUE]
     \/ \E l \in Lists :
          /\ proc[p].cb.do = "idle" /\ proc[p].watch[l] = "due"
          /\ proc' = [proc EXCEPT ![p].watch[l] = "off", ![p].deaf = TRUE]
  /\ UNCHANGED <<pool, ids, seq, nodeZ, metaZ, masterZ, list, live>>

-----------------------------------------------------------------------------
Next ==
  \/ \E p \in Proc :
       \/ Start(p) \/ CreateDirs(p) \/ RegisterMetaNode(p) \/ GenerateId(p) \/ RecordNodeId(p)
       \/ CheckNodeIdExist(p) \/ RecordLocalSession(p)
       \/ \E t \in {"seq", "cb"} : CreateMaster(p, t) \/ SubRoleChange(p, t)
       \/ RoleWatchFunc(p) \/ SubList(p) \/ SubDataHandle(p) \/ UpdateList(p)
       \/ \E l \in Lists : WatchFunc(p, l)
       \/ RecordStateList(p) \/ RecordPtList(p) \/ RecordDataInfo(p)
       \/ Crash(p) \/ Restore(p) \/ StepFails(p) \/ CallbackFails(p)
  \/ \E s \in live : Expire(s)

Spec == Init /\ [][Next]_vars

-----------------------------------------------------------------------------
(* The process has nothing left to do until ZooKeeper calls it.                *)
Quiet(p) ==
  /\ Live(p) /\ proc[p].started /\ proc[p].todo = <<>> /\ proc[p].cb.do = "idle"
  /\ \A l \in Lists \cup {"role"} : proc[p].watch[l] # "due"

(* No two addresses are given the same node id, whatever crashes between the   *)
(* generation of an id and its record, and the session znode of a node is held *)
(* by the process whose address owns the id: nodes are told apart by their id  *)
(* everywhere else (CmClientZkGenNodeId, CmClientZkRegisterNodeInfo).  And all *)
(* that run were configured for the same pool (CmZkCheckPoolDir).              *)
RegisteredApart ==
  /\ \A p \in Proc : proc[p].started => proc[p].cfg = pool
  /\ \A p, q \in Proc : p # q /\ ids[p] # NoId => ids[p] # ids[q]
  /\ \A n \in NodeId : nodeZ[n] # None => ids[nodeZ[n][1]] = n

(* No two processes act as the master with a session ZooKeeper still honours:  *)
(* an expired master gives up its role before it reconnects, and a restarted   *)
(* one does not take its own leftover znode for an election it won             *)
(* (CmZkWatchFunc, CmServerZkRegisterMetaNode, CmServerZkSubRoleChange).       *)
OneLiveMaster ==
  \A p, q \in Proc :
    /\ Live(p) /\ proc[p].role = "master" /\ ~proc[p].skipped
    /\ Live(q) /\ proc[q].role = "master" /\ ~proc[q].skipped
    => p = q

(* A process at rest, none of whose requests failed since it last registered,  *)
(* holds the znode of its node and has read the lists as they are published:   *)
(* neither the start nor the restore leaves a list unwatched or a change       *)
(* unread (CmZkClientRestore, the Sub...Change functions and their watches).   *)
NothingMissed ==
  \A p \in Proc :
    Quiet(p) /\ ~proc[p].deaf =>
      /\ nodeZ[proc[p].id] = Session(p)
      /\ \A l \in Lists : proc[p].watch[l] = "armed" /\ proc[p].last[l] = list[l]

(* As long as a server is at rest with a live session, there is a master or an *)
(* election under way (CmServerZkSubRoleChange).                               *)
MasterOrElection ==
  (\E p \in Proc : Quiet(p) /\ ~proc[p].deaf) =>
    \/ masterZ # None
    \/ \E q \in Proc :
         \/ proc[q].on /\ ~Live(q)
         \/ proc[q].todo # <<>>
         \/ proc[q].cb.do \in {"create", "role"}
         \/ proc[q].watch["role"] = "due"
=============================================================================
