---------------------------- MODULE CmServerView ----------------------------
(***************************************************************************)
(* The cluster manager's master (cm_server_view.c, cm_server_monitor.c, the *)
(* server half of cm_zkadapter.c): it watches the sessions of the nodes and *)
(* the events they post in ZooKeeper, keeps the state list and the partition*)
(* table, and publishes both in ZooKeeper.                                  *)
(*                                                                          *)
(* ZooKeeper survives; the master's memory does not.  All handlers of a pool*)
(* run one at a time on the pool's schedule thread, in the order in which   *)
(* they were queued; the watch callbacks, the fault monitor and the thread  *)
(* that waits for the first nodes only queue.  A new master subscribes on   *)
(* its main thread, beside all of them (a slave that takes over does so on  *)
(* the callback thread, which only orders the steps more).  A ZooKeeper     *)
(* request may fail; whoever made it then returns at that point.            *)
(*                                                                          *)
(* One server process is master at a time: when it dies another one, with   *)
(* fresh memory, takes over.  What a process that has lost its session does *)
(* before it notices is not modelled.                                       *)
(***************************************************************************)
EXTENDS PtTable, TLC

\* The calculator, calcOps: what it makes of the table for a node that goes down or comes
\* up, for a report of finished recoveries, to build the table and to rebalance it.
CONSTANTS PtNodeDown(_, _), PtNodeUp(_, _, _), PtNodeFinish(_, _, _, _),
          PtInitial(_, _, _), PtNeedRebalance(_, _, _), PtRebalance(_, _, _, _),
          NormNodeNum(_, _)

\* A node event puts a disk that the node reports otherwise back into the cluster.
CONSTANT SyncDisks

\* Bounds: each behaviour starts with one of these budgets.  session: losses and returns
\* of sessions; disk: faults and repairs of disks; fault: deaths of the master and failed
\* requests of it to ZooKeeper; expire: expiries of the permanent fault timers; report:
\* reports of finished recoveries.
CONSTANT Budgets
Budget == {"session", "disk", "fault", "expire", "report"}

VARIABLES
    \* ZooKeeper
    alive,      \* nodes with a session znode
    zkInfo,     \* the disk state each node has recorded
    zkState,    \* the recorded state list and master node
    zkPt,       \* the recorded partition table
    nodeEv,     \* node events: node -> event type
    ptEv,       \* finish events: node -> list of [pt, birth]
    armed, fired,   \* watches set, and watches whose callback has not run yet
    \* the nodes
    toReport,   \* node events waiting to be posted: node -> type or "NONE"
    \* the master
    up,         \* some process is master
    m,          \* its memory
    queue,      \* the schedule thread's tasks
    cb,         \* the events the callback thread has read and not yet queued
    run,        \* where the schedule thread is between two tasks
    \* bookkeeping
    left,       \* what is left of the budget
    health,     \* "fine", "failed" once a request of the master has failed, "dying"
                \* when that was the end of its process
    unseen,     \* <<n, p>>: node n went away with a RUNNING copy of p, and <<n, 0>>: it
                \* went away, and the master has not acted on that yet
    holders,    \* the last nonempty set of nodes with a RUNNING copy, per partition: the
                \* master's word for having the data
    recovered   \* <<n, p>>: node n has finished the recovery the table asks of it for p

zkVars == <<alive, zkInfo, zkState, zkPt, nodeEv, ptEv, armed, fired>>
vars == <<alive, zkInfo, zkState, zkPt, nodeEv, ptEv, armed, fired, toReport,
          up, m, queue, run, cb, left, health, unseen, holders, recovered>>

Watches == <<"node", "nodeEv", "ptEv">>
Disk == {"NORMAL", "FAULT"}
NoPt == [gv |-> 0, entries |-> << >>]
NoState == [node |-> [n \in Node |-> [state |-> "INVALID", cluster |-> "INVALID", disk |-> "IN"]],
            master |-> NODE_ID_INVALID]

Idle == [kind |-> "idle"]

\* The memory of a new process.
NoMemory ==
    [info |-> [n \in Node |-> "NONE"], st |-> NoState, pt |-> NoPt,
     stateChange |-> FALSE, ptChange |-> FALSE,
     mon |-> [n \in Node |-> "NONE"], monIdle |-> TRUE,
     detect |-> FALSE, doing |-> FALSE, initialOk |-> FALSE,
     nodeIdle |-> TRUE, ptIdle |-> TRUE,
     boot |-> 4, hand |-> Idle,      \* the subscription made next, the reading not yet queued
     overtaken |-> FALSE, late |-> {}]

\* The last two are history: the reading the main thread queued is older than one queued
\* before it; the kinds whose last task found one of its events already handled.

EmptyFcn == [n \in {} |-> "NONE"]
\* A change under a watched znode: the callback is due, after the ones due before it.
Fire(w) == /\ fired' = IF w \in armed THEN Append(fired, w) ELSE fired
           /\ armed' = armed \ {w}
Called(w) == /\ fired # << >> /\ Head(fired) = w
             /\ fired' = Tail(fired)

Init ==
    /\ alive = Node
    /\ zkInfo = [n \in Node |-> "NORMAL"]
    /\ zkState = NoState /\ zkPt = NoPt
    /\ nodeEv = EmptyFcn /\ ptEv = EmptyFcn
    /\ armed = {} /\ fired = << >>
    /\ toReport = [n \in Node |-> "NONE"]
    /\ up = FALSE /\ m = NoMemory /\ queue = << >> /\ run = Idle /\ cb = Idle
    /\ left \in Budgets
    /\ health = "fine" /\ unseen = {}
    /\ holders = [p \in 1 .. PtNum |-> {}] /\ recovered = {}

-----------------------------------------------------------------------------
(* The memory of the master: each operator below takes the memory mm and   *)
(* returns it as the function of the same name leaves it.                  *)

SetPt(mm, pt) == [mm EXCEPT !.pt = pt, !.ptChange = @ \/ pt # mm.pt]

CmServerListenNodeFault(mm, n) == [mm EXCEPT !.mon[n] = "NODE"]
CmServerCancelNodeFault(mm, n) == [mm EXCEPT !.mon[n] = "NONE"]

\* A record of the node itself takes precedence over one of its disk.
CmServerListenDiskFault(mm, n) ==
    IF mm.mon[n] = "NODE" THEN mm ELSE [mm EXCEPT !.mon[n] = "DISK"]
CmServerCancelDiskFault(mm, n) ==
    IF mm.mon[n] = "NODE" THEN mm ELSE [mm EXCEPT !.mon[n] = "NONE"]

CmServerViewCheckDiskFault(mm, n) ==
    IF mm.info[n] = "FAULT" /\ mm.st.node[n].disk = "IN"
    THEN CmServerListenDiskFault(mm, n) ELSE CmServerCancelDiskFault(mm, n)

CmServerViewUpdateMasterNodeId(mm) ==
    LET fit == {n \in Node : mm.st.node[n].state = "UP" /\ mm.st.node[n].cluster = "IN"}
    IN  IF mm.st.master \in fit \/ fit = {} THEN mm
        ELSE [mm EXCEPT !.st.master = CHOOSE n \in fit : \A k \in fit : n <= k,
                        !.stateChange = TRUE]

\* The copies of node n go down, or come back or not as its disk says.
LoseNode(mm, n) ==
    SetPt(CmServerListenNodeFault(mm, n), PtNodeDown(mm.pt, n))
ServeNode(mm, n) ==
    SetPt(CmServerViewCheckDiskFault(mm, n), PtNodeUp(mm.pt, n, mm.info))

CmServerViewNodeOffline(mm, n) ==
    LET down == [mm EXCEPT !.stateChange = TRUE, !.st.node[n].state = "DOWN"]
    IN  IF mm.st.node[n].state # "UP" THEN mm
        ELSE IF mm.st.node[n].cluster # "IN" THEN CmServerViewUpdateMasterNodeId(down)
        ELSE LoseNode(CmServerViewUpdateMasterNodeId(down), n)

\* What is done before the request for the node's record, which may fail.
OnlineBegin(mm, n) ==
    IF mm.st.node[n].state = "UP" THEN mm
    ELSE [CmServerCancelNodeFault(mm, n) EXCEPT !.stateChange = TRUE]

CmServerViewNodeOnline(mm, n) ==
    LET in == [state |-> "UP", cluster |-> "IN",
               disk |-> IF zkInfo[n] = "NORMAL" THEN "IN" ELSE "OUT"]
    IN  IF mm.st.node[n].state = "UP" THEN mm
        ELSE ServeNode(CmServerViewUpdateMasterNodeId(
                 [OnlineBegin(mm, n) EXCEPT !.info[n] = zkInfo[n], !.st.node[n] = in]), n)

\* The node list S against the memory, node by node; with stop in Node the request for
\* the record of that node fails and the rest is not looked at.
NodeListChange(mm, S, stop) ==
    LET one(v, i) == IF i > stop THEN v
                     ELSE IF i = stop THEN OnlineBegin(v, i)
                     ELSE IF i \in S THEN CmServerViewNodeOnline(v, i)
                     ELSE CmServerViewNodeOffline(v, i)
    IN  FoldLeft(one, mm, [i \in 1 .. NodeNum |-> i - 1])

Reconcile(mm, n) == IF mm.st.node[n].state = "DOWN" THEN LoseNode(mm, n) ELSE ServeNode(mm, n)

\* What the record of node n says, as a new master or for an event of the node.
CmServerViewBuildNode(mm, n, isInit) ==
    LET s == mm.st.node[n]
        sync == IF SyncDisks /\ mm.info[n] # zkInfo[n] /\ ~isInit
                THEN [mm EXCEPT !.st.node[n].disk = "IN", !.stateChange = TRUE, !.ptChange = TRUE]
                ELSE mm
        read == CmServerViewUpdateMasterNodeId([sync EXCEPT !.info[n] = zkInfo[n]])
    IN  CASE s.state = "INVALID" -> mm
          [] s.state # "INVALID" /\ s.cluster # "IN" -> read
          [] s.state # "INVALID" /\ s.cluster = "IN" -> Reconcile(read, n)

\* The outcomes of recording the table r, with the state list as in st: done, or failed
\* before or after ZooKeeper has done it.  A table that is recorded is not written again.
RecordPt(mm, st, r) ==
    LET calc == [mm EXCEPT !.pt = r.pt, !.ptChange = @ \/ (r.ok /\ r.pt # mm.pt)]
        fails == calc.ptChange /\ calc.pt # zkPt /\ left.fault > 0
    IN  IF ~r.ok THEN {[m |-> calc, st |-> st, pt |-> zkPt, ok |-> FALSE]}
        ELSE {[m |-> [calc EXCEPT !.ptChange = FALSE], st |-> st, ok |-> TRUE,
               pt |-> IF calc.ptChange THEN calc.pt ELSE zkPt]}
             \cup {[m |-> calc, st |-> st, pt |-> pt, ok |-> FALSE] :
                     pt \in IF fails THEN {zkPt, calc.pt} ELSE {}}

\* The outcomes of rebalancing if needed and recording the table if it changed.
CmServerViewUpdatePtEntryList(mm, st, event) ==
    RecordPt(mm, st, IF PtNeedRebalance(mm.pt, mm.info, mm.st.node)
                     THEN PtRebalance(mm.pt, mm.info, mm.st.node, event)
                     ELSE [ok |-> TRUE, pt |-> mm.pt])

\* The outcomes of the end of a handler that leaves the memory mm: record the state list
\* if it changed, then bring the table up to date.
Commits(mm, event) ==
    {[m |-> mm, st |-> st, pt |-> zkPt, ok |-> FALSE] :
        st \in IF mm.stateChange /\ left.fault > 0 THEN {zkState, mm.st} ELSE {}}
    \cup CmServerViewUpdatePtEntryList([mm EXCEPT !.stateChange = FALSE],
                                       IF mm.stateChange THEN mm.st ELSE zkState, event)

\* The outcome when nothing is recorded.
Unrecorded(mm, ok) == [m |-> mm, st |-> zkState, pt |-> zkPt, ok |-> ok]

NodesInState(pt, p, s) ==
    {pt.entries[p].copies[i].node : i \in InState(pt.entries[p], s)}
RunningNodes(pt, p) == NodesInState(pt, p, "RUNNING")

\* Writes the outcome c of a handler to ZooKeeper and to the memory.
Publish(c) ==
    /\ m' = c.m /\ zkState' = c.st /\ zkPt' = c.pt
    /\ health' \in IF c.ok THEN {health} ELSE IF left.fault > 0 THEN {"failed", "dying"} ELSE {"failed"}
    /\ left' = IF c.ok THEN left ELSE [left EXCEPT !.fault = Max({0, @ - 1})]
    /\ holders' = [p \in 1 .. PtNum |->
            IF p \in DOMAIN c.pt.entries /\ RunningNodes(c.pt, p) # {}
            THEN RunningNodes(c.pt, p) ELSE holders[p]]
    /\ recovered' = {r \in recovered : r[1] \in NodesInState(c.pt, r[2], "RECOVERY")}

-----------------------------------------------------------------------------
(* The nodes.                                                              *)

Spend(b) == /\ left[b] > 0
            /\ left' = [left EXCEPT ![b] = @ - 1]

\* The session of node n ends: its process died or lost its connection.
SessionLost(n) ==
    /\ Spend("session")
    /\ n \in alive
    /\ alive' = alive \ {n}
    /\ Fire("node")
    /\ unseen' = unseen \cup {<<n, 0>>}
                        \cup {<<n, p>> : p \in {q \in DOMAIN zkPt.entries : n \in RunningNodes(zkPt, q)}}
    /\ UNCHANGED <<zkInfo, zkState, zkPt, nodeEv, ptEv, toReport, up, m, queue, run, health, holders, recovered, cb>>

\* The node's process starts: it records the state of its disk and opens a session;
\* what an earlier process had recovered, or not reported yet, is lost.
Register(n, d) ==
    /\ left.session > 0 /\ (d = zkInfo[n] \/ left.disk > 0)
    /\ left' = [left EXCEPT !.session = @ - 1, !.disk = IF d = zkInfo[n] THEN @ ELSE @ - 1]
    /\ n \notin alive
    /\ alive' = alive \cup {n}
    /\ zkInfo' = [zkInfo EXCEPT ![n] = d]
    /\ toReport' = [toReport EXCEPT ![n] = "NONE"]
    /\ recovered' = {r \in recovered : r[1] # n}
    /\ Fire("node")
    /\ UNCHANGED <<zkState, zkPt, nodeEv, ptEv, up, m, queue, run, health, unseen, holders, cb>>

\* CM_SetDiskStatus on a fault, CM_UpdateNodeInfo on a repair.
SetDisk(n) ==
    LET d == CHOOSE x \in Disk : x # zkInfo[n]
    IN  /\ Spend("disk")
        /\ n \in alive
        /\ zkInfo' = [zkInfo EXCEPT ![n] = d]
        /\ toReport' = [toReport EXCEPT ![n] = IF d = "FAULT" THEN "DISK" ELSE "ADD_DISK"]
        /\ UNCHANGED <<alive, zkState, zkPt, nodeEv, ptEv, armed, fired, up, m, queue, run,
                       health, unseen, holders, recovered, cb>>

\* CmClientNodeEventHandle: posts the event once the node's previous one is gone.
PostNodeEvent(n) ==
    /\ n \in alive /\ toReport[n] # "NONE" /\ n \notin DOMAIN nodeEv
    /\ nodeEv' = nodeEv @@ (n :> toReport[n])
    /\ toReport' = [toReport EXCEPT ![n] = "NONE"]
    /\ Fire("nodeEv")
    /\ UNCHANGED <<alive, zkInfo, zkState, zkPt, ptEv, up, m, queue, run, left, health, unseen,
                   holders, recovered, cb>>

\* CM_SetPtFinishStatus: node n reports recoveries that the published table asks of it.
PostPtEvent(n) ==
    LET mine == {p \in DOMAIN zkPt.entries :
                   \E i \in InState(zkPt.entries[p], "RECOVERY") : zkPt.entries[p].copies[i].node = n}
    IN  /\ n \in alive /\ n \notin DOMAIN ptEv
        /\ Spend("report")
        /\ \E S \in SUBSET mine \ {{}} :
             /\ ptEv' = ptEv @@ (n :> SetToSeq({[pt |-> p, birth |-> zkPt.entries[p].birth] : p \in S}))
             /\ recovered' = recovered \cup {<<n, p>> : p \in S}
        /\ Fire("ptEv")
        /\ UNCHANGED <<alive, zkInfo, zkState, zkPt, nodeEv, toReport, up, m, queue, run,
                       health, unseen, holders, cb>>

-----------------------------------------------------------------------------
(* Callbacks and threads of the master that queue tasks.  The callbacks run*)
(* one at a time on ZooKeeper's thread.                                    *)

Task(k, S) == [kind |-> k, nodes |-> S]

\* CmServerZkSubNodeListWatch: reads the sessions, sets the watch again, queues.
NodeListWatch ==
    /\ Called("node") /\ cb = Idle
    /\ armed' = armed \cup {"node"}
    /\ queue' = Append(queue, Task("list", alive))
    /\ m' = [m EXCEPT !.overtaken = (m.hand.kind = "list")]
    /\ UNCHANGED <<alive, zkInfo, zkState, zkPt, nodeEv, ptEv, toReport, up, run, cb, left, health,
                   unseen, holders, recovered>>

\* CmServerZkSubNodeEvent and CmServerZkSubPtEvent: the first half sets the watch again
\* and reads the names of the events there are, the second clears the flag and queues.
EventsOf(k) == IF k = "nodeEv" THEN DOMAIN nodeEv ELSE DOMAIN ptEv
InHand(mm, k) == IF k = "nodeEv" THEN [mm EXCEPT !.nodeIdle = FALSE] ELSE [mm EXCEPT !.ptIdle = FALSE]

\* The callbacks do nothing, and do not set the watch again, while events are in hand.
EventWatch(k) ==
    /\ Called(k) /\ cb = Idle
    /\ IF InHand(m, k) = m THEN UNCHANGED <<armed, cb>>
       ELSE /\ armed' = armed \cup {k}
            /\ cb' = IF EventsOf(k) = {} THEN Idle ELSE Task(k, EventsOf(k))
    /\ UNCHANGED <<alive, zkInfo, zkState, zkPt, nodeEv, ptEv, toReport, up, m, queue, run, left, health,
                   unseen, holders, recovered>>

EventWatchQueue ==
    /\ cb # Idle
    /\ m' = InHand(m, cb.kind)
    /\ queue' = Append(queue, cb)
    /\ cb' = Idle
    /\ UNCHANGED <<zkVars, toReport, up, run, left, health, unseen, holders, recovered>>

\* The request of a callback fails: the watch is not set again.
WatchFails ==
    /\ Spend("fault")
    /\ cb = Idle
    /\ \E w \in {"node", "nodeEv", "ptEv"} :
         Called(w) /\ (w = "nodeEv" => m.nodeIdle) /\ (w = "ptEv" => m.ptIdle)
    /\ health' = "failed"
    /\ UNCHANGED <<alive, zkInfo, zkState, zkPt, nodeEv, ptEv, armed, toReport, up, m, queue, run,
                   unseen, holders, recovered, cb>>

\* CmServerMonitorDetectThread: some fault has lasted as long as the configuration allows.
MonitorDetect ==
    /\ up /\ m.monIdle
    /\ Spend("expire")
    /\ \E n \in Node : m.mon[n] # "NONE"
    /\ m' = [m EXCEPT !.monIdle = FALSE]
    /\ queue' = Append(queue, Task("expired", {}))
    /\ UNCHANGED <<zkVars, toReport, up, run, health, unseen, holders, recovered, cb>>

\* CmServerViewInitialDetectThread: enough nodes are up to build the table.
InitialDetect ==
    /\ up /\ m.detect /\ ~m.doing /\ ~m.initialOk
    /\ Cardinality({n \in Node : m.st.node[n].state = "UP" /\ m.st.node[n].cluster = "IN"}) >= CopyNum
    /\ m' = [m EXCEPT !.doing = TRUE]
    /\ queue' = Append(queue, Task("initial", {}))
    /\ UNCHANGED <<zkVars, toReport, up, run, left, health, unseen, holders, recovered, cb>>

-----------------------------------------------------------------------------
(* The tasks of the schedule thread.                                       *)

Next1(k) == /\ up /\ run = Idle /\ queue # << >>
            /\ Head(queue).kind = k
            /\ queue' = Tail(queue)

\* CmServerViewNodeListChange.
NodeListTask ==
    /\ Next1("list")
    /\ LET S == Head(queue).nodes
       IN  \/ \E c \in Commits(NodeListChange(m, S, NodeNum), "NONE") :
                /\ Publish(c)
                /\ unseen' = {u \in unseen : u[1] \in S \/ c.st.node[u[1]].state = "UP"}
           \/ \E n \in S :
                /\ left.fault > 0 /\ m.st.node[n].state # "UP"
                /\ Publish(Unrecorded(NodeListChange(m, S, n), FALSE))
                /\ unseen' = {u \in unseen : u[1] \in S \/ u[1] >= n}
    /\ UNCHANGED <<alive, zkInfo, nodeEv, ptEv, armed, fired, toReport, up, run, cb>>

\* CmServerViewExpiredNodeSet and CmServerViewExpiredDiskSet, for the faults of the nodes E.
ExpiredSet(mm, E) ==
    LET out == [n \in Node |->
            IF n \notin E THEN mm.st.node[n]
            ELSE IF mm.mon[n] = "NODE" THEN [mm.st.node[n] EXCEPT !.cluster = "OUT"]
            ELSE [mm.st.node[n] EXCEPT !.disk = "OUT"]]
    IN  [mm EXCEPT !.st.node = out, !.stateChange = @ \/ out # mm.st.node]

\* CmServerMonitorPoolExpiredHandle: the nodes and disks of E have been at fault too
\* long and leave the cluster.
ExpiredTask ==
    /\ Next1("expired")
    /\ \E E \in SUBSET {n \in Node : m.mon[n] # "NONE"} :
         LET set == ExpiredSet(m, E)
         IN  \E c \in IF set.stateChange THEN Commits(set, "NONE") ELSE {Unrecorded(set, TRUE)} :
               Publish([c EXCEPT !.m.monIdle = TRUE,
                                 !.m.mon = [n \in Node |-> IF c.ok /\ n \in E THEN "NONE" ELSE @[n]]])
    /\ UNCHANGED <<alive, zkInfo, nodeEv, ptEv, armed, fired, toReport, up, run, unseen, cb>>

\* CmServerViewInitialThread.
InitialTask ==
    /\ Next1("initial")
    /\ IF NormNodeNum(m.info, m.st.node) < CopyNum
       THEN Publish(Unrecorded([m EXCEPT !.doing = FALSE], TRUE))
       ELSE \E c \in RecordPt([m EXCEPT !.doing = FALSE], zkState,
                              PtInitial(m.pt, m.info, m.st.node)) :
              Publish([c EXCEPT !.m.initialOk = c.ok, !.m.ptChange = m.ptChange])
    /\ UNCHANGED <<alive, zkInfo, nodeEv, ptEv, armed, fired, toReport, up, run, unseen, cb>>

\* CmServerZkSubNodeEventHandle takes the events it was queued with one by one.
NodeEventStart ==
    /\ Next1("nodeEv")
    /\ run' = Head(queue)
    /\ UNCHANGED <<zkVars, toReport, up, m, left, health, unseen, holders, recovered, cb>>

\* The outcomes of CmServerViewNodeEvent.
NodeEvent(n) == Commits(CmServerViewBuildNode(m, n, FALSE), nodeEv[n])

\* One node event: CmServerViewNodeEvent, then the event is deleted.  An event that is
\* gone, or a request that fails, ends the task with nodeIdle still FALSE.
NodeEventStep(n) ==
    /\ up /\ run.kind = "nodeEv" /\ n \in run.nodes
    /\ \/ /\ n \notin DOMAIN nodeEv \/ left.fault > 0             \* the read fails
          /\ Publish(IF n \in DOMAIN nodeEv THEN Unrecorded(m, FALSE)
                     ELSE Unrecorded([m EXCEPT !.late = @ \cup {"nodeEv"}], TRUE))
          /\ run' = Idle
          /\ UNCHANGED <<nodeEv, armed, fired>>
       \/ /\ n \in DOMAIN nodeEv
          /\ \E c \in NodeEvent(n) :
               \/ /\ ~c.ok \/ left.fault > 0                       \* a record or the delete fails
                  /\ Publish([c EXCEPT !.ok = FALSE])
                  /\ run' = Idle
                  /\ UNCHANGED <<nodeEv, armed, fired>>
               \/ /\ c.ok
                  /\ Publish(c)
                  /\ nodeEv' = Restrict(nodeEv, DOMAIN nodeEv \ {n})
                  /\ Fire("nodeEv")
                  /\ run' = IF run.nodes = {n} THEN Task("nodeEvIdle", {})
                            ELSE Task("nodeEv", run.nodes \ {n})
    /\ UNCHANGED <<alive, zkInfo, ptEv, toReport, up, queue, unseen, cb>>

\* The memory after the finish events of the nodes of S, in some order.
Finished(S) ==
    LET valid == Cardinality({n \in Node : m.st.node[n].cluster = "IN"})
        one(pt, n) == PtNodeFinish(pt, n, ptEv[n], valid)
    IN  {SetPt(m, FoldLeft(one, m.pt, order)) : order \in SetToSeqs(S)}

\* CmServerZkSubPtEventHandle: applies all the finish events it was queued with,
\* records the table if that changed it, deletes the events.
PtEventTask ==
    LET S == Head(queue).nodes
    IN  /\ Next1("ptEv")
        /\ \/ /\ S \subseteq DOMAIN ptEv
              /\ \E mm \in Finished(S) : \E c \in RecordPt(mm, zkState, [ok |-> TRUE, pt |-> mm.pt]) :
                   \/ /\ c.ok
                      /\ Publish(c)
                      /\ ptEv' = Restrict(ptEv, DOMAIN ptEv \ S)
                      /\ Fire("ptEv")
                      /\ run' = Task("ptEvIdle", {})
                   \/ /\ ~c.ok                          \* the record fails
                      /\ Publish(c)
                      /\ run' = Idle
                      /\ UNCHANGED <<ptEv, armed, fired>>
                   \/ /\ c.ok /\ left.fault > 0         \* a delete fails
                      /\ Publish([c EXCEPT !.ok = FALSE])
                      /\ \E D \in SUBSET S \ {S} :
                           /\ ptEv' = Restrict(ptEv, DOMAIN ptEv \ D)
                           /\ fired' = IF D # {} /\ "ptEv" \in armed THEN Append(fired, "ptEv") ELSE fired
                           /\ armed' = IF D # {} THEN armed \ {"ptEv"} ELSE armed
                      /\ run' = Idle
           \/ \E R \in SUBSET (S \cap DOMAIN ptEv) :     \* the events of R read, the next one not
                /\ R # S
                /\ S \subseteq DOMAIN ptEv => left.fault > 0
                /\ \E mm \in Finished(R) :
                     Publish(IF S \subseteq DOMAIN ptEv THEN Unrecorded(mm, FALSE)
                             ELSE Unrecorded([mm EXCEPT !.late = @ \cup {"ptEv"}], TRUE))
                /\ run' = Idle
                /\ UNCHANGED <<ptEv, armed, fired>>
        /\ UNCHANGED <<alive, zkInfo, nodeEv, toReport, up, unseen, cb>>

\* The end of both event tasks: the flag is cleared first, then the subscription is
\* made again, and a callback may run in between.
EventIdle ==
    /\ up /\ run.kind \in {"nodeEvIdle", "ptEvIdle"}
    /\ m' = IF run.kind = "nodeEvIdle" THEN [m EXCEPT !.nodeIdle = TRUE, !.late = @ \ {"nodeEv"}]
            ELSE [m EXCEPT !.ptIdle = TRUE, !.late = @ \ {"ptEv"}]
    /\ run' = Task(IF run.kind = "nodeEvIdle" THEN "nodeEvSub" ELSE "ptEvSub", {})
    /\ UNCHANGED <<zkVars, toReport, up, queue, left, health, unseen, holders, recovered, cb>>

\* mutant: the watch is set, the events posted meanwhile are not looked for
ResubscribeOnly(k) == armed' = armed \cup {k} /\ run' = Idle

\* The watch is set and the names of the events are read; then the flag is set and the
\* events are queued.
Resubscribe(k) ==
    /\ armed' = armed \cup {k}
    /\ run' = IF EventsOf(k) = {} THEN Idle ELSE [kind |-> "queue", task |-> Task(k, EventsOf(k))]

EventSub ==
    /\ up /\ run.kind \in {"nodeEvSub", "ptEvSub"}
    /\ \/ LET k == IF run.kind = "nodeEvSub" THEN "nodeEv" ELSE "ptEv"
          IN  Resubscribe(k) /\ UNCHANGED <<left, health>>
       \/ /\ Spend("fault")                      \* the request fails
          /\ health' = "failed"
          /\ run' = Idle /\ UNCHANGED armed
    /\ UNCHANGED <<alive, zkInfo, zkState, zkPt, nodeEv, ptEv, fired, toReport, up, m, queue, unseen,
                   holders, recovered, cb>>

EventSubQueue ==
    /\ up /\ run.kind = "queue"
    /\ m' = InHand(m, run.task.kind)
    /\ queue' = Append(queue, run.task)
    /\ run' = Idle
    /\ UNCHANGED <<zkVars, toReport, up, left, health, unseen, holders, recovered, cb>>

-----------------------------------------------------------------------------
(* Mastership.                                                             *)

\* CmServerViewBuildNodeList, before it commits: what the first k nodes have recorded is
\* brought together with the state list and the table.
BuildNodeList(k) ==
    LET loaded == [NoMemory EXCEPT !.pt = zkPt, !.st = zkState, !.detect = (zkPt.entries = << >>)]
    IN  FoldLeft(LAMBDA mm, i : CmServerViewBuildNode(mm, i - 1, TRUE), loaded, Ascending(k))

\* CmServerViewBuildPool: the new master reads the table and the state list and brings
\* them in line with each other.  If that fails it does not subscribe.
BecomeMaster ==
    /\ ~up
    /\ up' = TRUE
    /\ \/ \E c \in Commits(BuildNodeList(NodeNum), "NONE") :
            Publish([c EXCEPT !.m.boot = IF c.ok THEN 1 ELSE 4])
       \/ \E k \in 0 .. NodeNum :     \* a read of a node, or the record of the list, fails
            left.fault > 0 /\ Publish(Unrecorded(BuildNodeList(k), FALSE))
    /\ unseen' = {u \in unseen : zkState.node[u[1]].state = "UP"}
    /\ UNCHANGED <<alive, zkInfo, nodeEv, ptEv, armed, fired, toReport, queue, run, cb>>

\* It then makes its three subscriptions, one after the other: each sets the watch and
\* reads what there is, and queues it.  The callbacks of a watch that is set run beside.
Subscribe ==
    LET k == Watches[m.boot]
        read == IF k = "node" THEN Task("list", alive) ELSE Task(k, EventsOf(k))
    IN
    /\ up /\ m.boot < 4 /\ m.hand = Idle
    /\ \/ /\ armed' = armed \cup {k}
          /\ m' = IF k # "node" /\ EventsOf(k) = {} THEN [m EXCEPT !.boot = @ + 1] ELSE [m EXCEPT !.hand = read]
          /\ UNCHANGED <<left, health>>
       \/ /\ Spend("fault")                      \* the request fails
          /\ health' = "failed"
          /\ m' = [m EXCEPT !.boot = 4] /\ UNCHANGED armed
    /\ UNCHANGED <<alive, zkInfo, zkState, zkPt, nodeEv, ptEv, fired, toReport, up, queue, run, cb, unseen,
                   holders, recovered>>

SubscribeQueue ==
    /\ up /\ m.hand # Idle
    /\ m' = [(IF m.hand.kind = "list" THEN m ELSE InHand(m, m.hand.kind)) EXCEPT !.hand = Idle, !.boot = @ + 1]
    /\ queue' = Append(queue, m.hand)
    /\ UNCHANGED <<zkVars, toReport, up, run, left, health, unseen, holders, recovered, cb>>

\* The master's process dies, between two steps or at a request.
Crash ==
    /\ up
    /\ \/ health = "dying" /\ UNCHANGED left
       \/ health # "dying" /\ Spend("fault")
    /\ health' = IF health = "dying" THEN "fine" ELSE health
    /\ up' = FALSE /\ m' = NoMemory /\ queue' = << >> /\ run' = Idle /\ cb' = Idle
    /\ armed' = {} /\ fired' = << >>
    /\ UNCHANGED <<alive, zkInfo, zkState, zkPt, nodeEv, ptEv, toReport, unseen, holders, recovered>>

Step ==
    \/ \E n \in Node : \/ SessionLost(n)
                       \/ \E d \in Disk : Register(n, d)
                       \/ SetDisk(n)
                       \/ PostNodeEvent(n)
                       \/ PostPtEvent(n)
                       \/ NodeEventStep(n)
    \/ \E k \in {"nodeEv", "ptEv"} : EventWatch(k)
    \/ NodeListWatch \/ EventWatchQueue \/ WatchFails
    \/ MonitorDetect \/ InitialDetect
    \/ NodeListTask \/ ExpiredTask \/ InitialTask
    \/ NodeEventStart \/ PtEventTask \/ EventIdle \/ EventSub \/ EventSubQueue
    \/ BecomeMaster \/ Subscribe \/ SubscribeQueue

Next == \/ Crash
        \/ health # "dying" /\ Step

Spec == Init /\ [][Next]_vars

-----------------------------------------------------------------------------
(* Safety of the published table.                                          *)

\* Every slot of a partition is served from exactly one of its main and its extension
\* copy, and no node has two live copies, after any series of nodes leaving, returning
\* and recovering (the slots ViewCalcBuildPtEntry and ViewPtEntryTrim hand over).  The
\* state and the master of a partition are what its copies allow: at fault just when too
\* few of them run, and a master that has a RUNNING copy (ViewPtEntryUpdatePtState has
\* to follow every change of a copy).
CopiesWellFormed == \A pt \in {zkPt, m.pt} : \A p \in DOMAIN pt.entries :
    LET e == pt.entries[p]
        live == {i \in Slots : Live(e.copies[i])}
    IN  /\ \A i \in 1 .. CopyNum : Live(e.copies[i]) # Live(e.copies[i + CopyNum])
        /\ \A i, j \in live : e.copies[i].node = e.copies[j].node => i = j
        /\ \A i \in live : e.copies[i].node \in Node /\ i \in Used(e)
        /\ e.state = "FAULT" <=> RunningNum(e) < MinCopyNum
        /\ e.state = "NORMAL" <=> RunningNum(e) = CopyNum
        /\ RunningNum(e) > 0 => e.master \in RunningNodes(pt, p)

\* The mark keepAlive tells the last holders of the data (cm_inner.h:95).  A published
\* copy that is the only one RUNNING has it, whatever step made it the only one: without
\* it the copy would wait for a source after a restart of all nodes.  With no copy
\* RUNNING, the ones that may run again at once are among the last that did: a mark left
\* from an earlier loss would bring old data back (ViewPtUpdateCopyState).
MarksFollowData == \A p \in DOMAIN zkPt.entries :
    LET e == zkPt.entries[p]
    IN  /\ RunningNum(e) = 1 => \A i \in InState(e, "RUNNING") : e.copies[i].keepAlive
        /\ RunningNum(e) = 0 /\ holders[p] # {} =>
             \A i \in Slots : Holds(e.copies[i]) => e.copies[i].node \in holders[p]

HolderNodes(pt, p) ==
    {pt.entries[p].copies[i].node : i \in {j \in Slots : Holds(pt.entries[p].copies[j])}}
\* CmServerViewInitialThread builds the table once more: the first record failed and a
\* handler has recorded the table meanwhile.
Rebuilt == m.doing /\ ~m'.doing

HasData(n, p) == n \in holders[p] \/ <<n, p>> \in recovered
Excluded(n) == zkState.node[n].cluster = "OUT" \/ zkState.node[n].disk = "OUT"

\* A partition that comes back to life does so on a node that has its data, unless all
\* the last holders have left the cluster for good (ViewPtUpdateCopyState,
\* ViewCalcUpdatePtEntryList11) or the table is built anew.  A node that the master has
\* made RUNNING on its report counts as having the data.
NoStaleMasterStep == Rebuilt \/ \A p \in DOMAIN zkPt.entries :
    LET new == RunningNodes(zkPt', p) \ RunningNodes(zkPt, p)
    IN  RunningNodes(zkPt, p) = {} /\ new # {} =>
          (\E n \in new : HasData(n, p)) \/ \A n \in holders[p] : Excluded(n)'

\* No published table gives up the last copy with the data of a partition: some copy that
\* runs, or may run again at once, is on a node that has them, unless all the last
\* holders have left the cluster for good (ViewCalcInitPtEntryList1, MoveCopy) or the
\* table is built anew.
HolderKeptStep == Rebuilt \/ \A p \in DOMAIN zkPt.entries :
    \/ \E n \in HolderNodes(zkPt', p) : HasData(n, p)
    \/ \A n \in holders[p] : Excluded(n)'

\* While a partition is served, a node starts to serve it only after it has finished the
\* recovery the table asks of it: the report of a recovery that the node's own restart
\* has made void is not taken for one of the new recovery (the birth version).  The
\* exceptions are a restart that fell between two readings of the sessions, which the
\* master cannot tell, and a table that is built anew.
JoinsRecoveredStep == Rebuilt \/ \A p \in DOMAIN zkPt.entries :
    LET new == RunningNodes(zkPt', p) \ RunningNodes(zkPt, p)
    IN  RunningNodes(zkPt, p) \cap RunningNodes(zkPt', p) # {} =>
          \A n \in new : <<n, p>> \in recovered \/ <<n, 0>> \in unseen

-----------------------------------------------------------------------------
(* What a master that has nothing left to do has done.  It is quiet when   *)
(* no task runs or waits and no callback is due; no request has failed.    *)
(* Settled leaves out a node that has not reported the state of its disk,  *)
(* and one whose session ended and began again between two readings of the *)
(* sessions, which the master cannot tell.                                 *)

Quiet == /\ up /\ health = "fine" /\ queue = << >> /\ fired = << >> /\ run = Idle /\ cb = Idle
         /\ m.boot = 4
Settled == (\A n \in Node : toReport[n] = "NONE") /\ DOMAIN nodeEv = {} /\ unseen = {}

\* No event stays behind unhandled, all the master knows is published, and what it knows
\* of the sessions is what they are: a subscription made again sees what was posted since
\* the last reading, and no change of the sessions falls between a reading and the next
\* watch (cm_zkadapter.c:1694-2145).  Two orders of threads break it, and these alone.
\* A callback that has read the names of events sets nodeIdle or ptIdle after the task
\* that handles them is over: its own task finds an event gone and returns, the flag
\* stays as it is and later events are ignored (late).  A new master's main thread
\* queues its reading of the sessions after a callback has queued a later one: the old
\* reading stands until the sessions change again (overtaken).
NothingPending == Quiet =>
    /\ "nodeEv" \notin m.late => m.nodeIdle /\ DOMAIN nodeEv = {}
    /\ "ptEv" \notin m.late => m.ptIdle /\ DOMAIN ptEv = {}
    /\ zkPt = m.pt /\ zkState = m.st
    /\ ~m.overtaken => /\ \A n \in Node : zkState.node[n].state = "UP" <=> n \in alive
                       /\ alive # {} => zkState.master \in alive

\* A copy is DOWN just when its node is, or its disk is at fault, also after the master
\* died in the middle of a handler (BuildNode at the start of a master).
CopiesFollowNodes == Quiet /\ Settled =>
    \A p \in DOMAIN zkPt.entries : \A i \in Slots :
      LET c == zkPt.entries[p].copies[i]
          serves == zkState.node[c.node].state = "UP" /\ zkInfo[c.node] = "NORMAL"
      IN  Live(c) => (c.state = "DOWN" <=> ~serves)

\* Every node and disk at fault is being timed, so that it leaves the cluster if it does
\* not come back, also when another master has taken over (CmServerMonitorListen*).
FaultsAreTimed == Quiet /\ Settled /\ m.monIdle => \A n \in Node :
    LET s == zkState.node[n]
    IN  /\ s.state = "DOWN" /\ s.cluster = "IN" => m.mon[n] = "NODE"
        /\ s.state = "UP" /\ zkInfo[n] = "FAULT" /\ s.disk = "IN" => m.mon[n] = "DISK"
=============================================================================
