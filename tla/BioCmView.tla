------------------------------ MODULE BioCmView ------------------------------
(* The cluster manager's master of BoostIO: CmServerView with its calculator. *)
EXTENDS PtCalc, TLC

CONSTANT Budgets

VARIABLES alive, zkInfo, zkState, zkPt, nodeEv, ptEv, armed, fired, toReport,
          up, m, queue, run, cb, left, health, unseen, holders, recovered

Master == INSTANCE CmServerView WITH
    SyncDisks <- TRUE,
    PtNodeDown <- ViewPtEntryListUpdateNodeDown,
    PtNodeUp <- ViewPtEntryListUpdateNodeUp,
    PtNodeFinish <- ViewPtEntryListUpdateNodeFinish,
    PtInitial <- ViewCalculatorInitial,
    PtNeedRebalance <- ViewCalculatorNeedRebalance,
    PtRebalance <- ViewCalculatorRebalance,
    NormNodeNum <- ViewCalcNormNodeNum

Init == Master!Init
Next == Master!Next
=============================================================================
