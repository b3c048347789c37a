--------------------------- MODULE MCCmServerView ---------------------------
(* The two cluster managers for TLC.  BoostIO: three changes of sessions      *)
(* without a failure, or two changes of sessions or disks and a failed        *)
(* request or death of the master.  MemStore: the same without disks.         *)
EXTENDS Integers, Sequences, TLC

CONSTANTS BioBudgets, BioNodeNum, BioPtNum, BioCopyNum, BioMinCopyNum, MmsBudgets, MmsNodeNum

Budget == {"session", "disk", "fault", "expire", "report"}
ASSUME Instances ==
    /\ BioBudgets \cup MmsBudgets \subseteq [Budget -> Nat]
    /\ {BioPtNum, BioMinCopyNum, BioCopyNum} \subseteq Nat \ {0}
    /\ BioMinCopyNum <= BioCopyNum /\ BioCopyNum <= BioNodeNum
    /\ MmsNodeNum > 1

VARIABLES part, alive, zkInfo, zkState, zkPt, nodeEv, ptEv, armed, fired, toReport,
          up, m, queue, run, cb, left, health, unseen, holders, recovered

vars == <<part, alive, zkInfo, zkState, zkPt, nodeEv, ptEv, armed, fired, toReport,
          up, m, queue, run, cb, left, health, unseen, holders, recovered>>

Bio == INSTANCE BioCmView WITH
    Budgets <- BioBudgets, NodeNum <- BioNodeNum, PtNum <- BioPtNum,
    CopyNum <- BioCopyNum, MinCopyNum <- BioMinCopyNum

Mms == INSTANCE MmsCmView WITH
    Budgets <- MmsBudgets, NodeNum <- MmsNodeNum, PtNum <- MmsNodeNum,
    CopyNum <- MmsNodeNum, MinCopyNum <- MmsNodeNum - 1

Of(s, d, f, e, r) == [session |-> s, disk |-> d, fault |-> f, expire |-> e, report |-> r]
MCBioBudgets == {Of(3, 0, 0, 1, 1), Of(2, 0, 1, 1, 1), Of(1, 1, 1, 0, 1), Of(0, 2, 0, 0, 0), Of(0, 1, 0, 1, 1)}
MCMmsBudgets == {Of(4, 0, 0, 0, 1), Of(2, 0, 1, 1, 1)}

Init == \/ part = "boostio" /\ Bio!Init
        \/ part = "memstore" /\ Mms!Init
Next == \/ part = "boostio" /\ Bio!Next /\ part' = part
        \/ part = "memstore" /\ Mms!Next /\ part' = part
Spec == Init /\ [][Next]_vars

\* The table follows the nodes: every slot of a partition is served by one live copy,
\* its state and master are what its copies allow, and once the master has nothing left
\* to do a copy is DOWN just when its node or disk is (of both systems); BoostIO's marks
\* keepAlive tell the last holders of the data (cm_pt_calc_fixed_state.c).
TableFollows ==
    IF part = "boostio"
    THEN Bio!Master!CopiesWellFormed /\ Bio!Master!CopiesFollowNodes /\ Bio!Master!MarksFollowData
    ELSE Mms!Master!CopiesWellFormed /\ Mms!Master!CopiesFollowNodes

\* A master that has nothing left to do has handled every event, published all it
\* knows, knows the sessions as they are, and times every node and disk at fault
\* (the subscriptions of cm_zkadapter.c, cm_server_monitor.c).  Two orders of threads
\* break it, and these alone: a callback that sets nodeIdle or ptIdle after the task for
\* the events it read is over, so that its own task finds them gone, leaves the flag set
\* and later events are ignored; and a new master's main thread that queues its reading
\* of the sessions after a callback's later one.  No request has failed.
NothingForgotten ==
    IF part = "boostio"
    THEN Bio!Master!NothingPending /\ Bio!Master!FaultsAreTimed
    ELSE Mms!Master!NothingPending /\ Mms!Master!FaultsAreTimed

\* BoostIO: a partition that comes back to life does so on a node that has its data,
\* unless all the last holders have left for good (ViewPtUpdateCopyState) or the table
\* is built anew because its first record failed.  A node the master has made RUNNING
\* on its report counts as having the data: BoostIO's birth version does not tell a
\* report that a restart has made void.
NoStaleMaster == [][part = "boostio" => Bio!Master!NoStaleMasterStep]_vars

\* BoostIO: no published table gives up the last copy with the data of a partition
\* (ViewCalcInitPtEntryList1, ViewCalcBuildPreCheck), with the same two exceptions.
HolderKept == [][part = "boostio" => Bio!Master!HolderKeptStep]_vars

\* MemStore: while a partition is served, a node starts to serve it only after it has
\* finished the recovery the table asks of it (ViewPtEntryListUpdateNodeFinish), unless
\* it restarted between two readings of the sessions or the table is built anew.
JoinsRecovered == [][part = "memstore" => Mms!Master!JoinsRecoveredStep]_vars
=============================================================================
