------------------------------ MODULE MmsCmView ------------------------------
(***************************************************************************)
(* The cluster manager's master of MemStore.  It is BoostIO's program with *)
(* MemStore's calculator: the handlers below are CmServerView's.  A node   *)
(* reports no fault of its memory, so that no node event is ever posted.   *)
(***************************************************************************)
EXTENDS MmsPtCalc, TLC

CONSTANT Budgets

VARIABLES alive, zkInfo, zkState, zkPt, nodeEv, ptEv, armed, fired, toReport,
          up, m, queue, run, cb, left, health, unseen, holders, recovered

Master == INSTANCE CmServerView WITH
    SyncDisks <- FALSE,
    PtNodeDown <- ViewPtEntryListUpdateNodeDown,
    PtNodeUp <- ViewPtEntryListUpdateNodeUp,
    PtNodeFinish <- ViewPtEntryListUpdateNodeFinish,
    PtInitial <- ViewCalculatorInitial,
    PtNeedRebalance <- ViewCalculatorNeedRebalance,
    PtRebalance <- ViewCalculatorRebalance,
    NormNodeNum <- ViewCalcNormNodeNum

Init == Master!Init

\* The nodes: sessions begin and end, finished recoveries are reported.
SessionLost(n) == Master!SessionLost(n)
Register(n) == Master!Register(n, "NORMAL")
PostPtEvent(n) == Master!PostPtEvent(n)

\* The callbacks and threads that queue tasks.
NodeListWatch == Master!NodeListWatch
PtEventWatch == Master!EventWatch("ptEv")
EventWatchQueue == Master!EventWatchQueue
WatchFails == Master!WatchFails
MonitorDetect == Master!MonitorDetect
InitialDetect == Master!InitialDetect

\* The schedule thread.
NodeListTask == Master!NodeListTask
ExpiredTask == Master!ExpiredTask
InitialTask == Master!InitialTask
PtEventTask == Master!PtEventTask
EventIdle == Master!EventIdle
EventSub == Master!EventSub
EventSubQueue == Master!EventSubQueue

BecomeMaster == Master!BecomeMaster
Subscribe == Master!Subscribe
SubscribeQueue == Master!SubscribeQueue
Crash == Master!Crash

Step ==
    \/ \E n \in Node : SessionLost(n) \/ Register(n) \/ PostPtEvent(n)
    \/ NodeListWatch \/ PtEventWatch \/ EventWatchQueue \/ WatchFails
    \/ MonitorDetect \/ InitialDetect
    \/ NodeListTask \/ ExpiredTask \/ InitialTask
    \/ PtEventTask \/ EventIdle \/ EventSub \/ EventSubQueue
    \/ BecomeMaster \/ Subscribe \/ SubscribeQueue

Next == Crash \/ (health # "dying" /\ Step)
=============================================================================
