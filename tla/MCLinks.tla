------------------------------- MODULE MCLinks -------------------------------
(* The ZooKeeper sessions of both products ("biosession", "mmssession") and     *)
(* their network links ("bionet", "mmsnet"), for TLC.  A part has its variables *)
(* in v1, v2, ...                                                               *)
EXTENDS Integers, TLC

CONSTANTS a, b
VARIABLES part, v1, v2, v3, v4, v5, v6, v7, v8, v9, v10, v11

vars == <<part, v1, v2, v3, v4, v5, v6, v7, v8, v9, v10, v11>>

\* Two processes: first starts with one configuration or two, a crash and a
\* restart, an expired session, a failed request.
First == [p \in {a, b} |-> IF p = a THEN 0 ELSE 1]
Same == [p \in {a, b} |-> <<2>>]
Apart == [p \in {a, b} |-> IF p = a THEN <<2>> ELSE <<3>>]
Start(running, open, crash, expire, fail, data) ==
    [running |-> running, first |-> First, cfg |-> Same, open |-> open, crash |-> crash,
     expire |-> expire, fail |-> fail, data |-> data]
BioSession == INSTANCE BioCmSession WITH
         Proc <- {a, b}, MaxNodeNum <- 3,
         Starts <- {[Start({}, 2, 0, 0, 0, 0) EXCEPT !.cfg = Apart], Start({}, 2, 0, 0, 0, 0),
                    Start({a, b}, 1, 1, 0, 0, 1), Start({a, b}, 1, 0, 1, 1, 0)},
         pool <- v1, ids <- v2, seq <- v3, nodeZ <- v4, metaZ <- v5, masterZ <- v6, list <- v7, live <- v8,
         proc <- v9, left <- v10
MmsSession == INSTANCE MmsCmSession WITH
         Proc <- {a, b}, MaxNodeNum <- 3, CfgNodeId <- First,
         Starts <- {Start({a}, 1, 0, 0, 1, 0), Start({a, b}, 0, 1, 0, 0, 0), Start({a, b}, 1, 0, 1, 0, 0),
                    Start({a, b}, 0, 0, 0, 1, 1)},
         pool <- v1, ids <- v2, seq <- v3, nodeZ <- v4, metaZ <- v5, masterZ <- v6, list <- v7, live <- v8,
         proc <- v9, left <- v10

\* One link: breaks, failed connects, a restart of the accepting process, calls.
Link(kind, mode, pid, worker, breaks, fails, crashes, calls) ==
    [kind |-> kind, mode |-> mode, pid |-> pid, worker |-> worker, breaks |-> breaks,
     fails |-> fails, crashes |-> crashes, calls |-> calls]
BioNet == INSTANCE BioNetEngine WITH
         MaxChan <- 5,
         Scenarios <- {Link("bio", "rpc", TRUE, 2, 1, 1, 0, 0), Link("bio", "rpc", TRUE, 1, 1, 1, 0, 1),
                       Link("bio", "rpc", TRUE, 1, 0, 0, 1, 1), Link("bio", "ipc", TRUE, 2, 0, 0, 1, 0),
                       Link("bio", "ipc", TRUE, 1, 1, 0, 1, 0)},
         env <- v1, chan <- v2, reg <- v3, told <- v4, early <- v5, work <- v6, todo <- v7, srv <- v8,
         shm <- v9, call <- v10, left <- v11
MmsNet == INSTANCE MmsNetEngine WITH
         MaxChan <- 5,
         Scenarios <- {Link("mms", "ipc", TRUE, 1, 1, 0, 1, 0), Link("mms", "rpc", FALSE, 1, 2, 1, 0, 0),
                       Link("mms", "rpc", FALSE, 1, 0, 1, 1, 1)},
         env <- v1, chan <- v2, reg <- v3, told <- v4, early <- v5, work <- v6, todo <- v7, srv <- v8,
         shm <- v9, call <- v10, left <- v11

Init ==
    \/ part = "biosession" /\ BioSession!Init /\ v11 = 0
    \/ part = "mmssession" /\ MmsSession!Init /\ v11 = 0
    \/ part = "bionet" /\ BioNet!Init
    \/ part = "mmsnet" /\ MmsNet!Init

Next ==
    /\ UNCHANGED part
    /\ \/ part = "biosession" /\ BioSession!Next /\ UNCHANGED v11
       \/ part = "mmssession" /\ MmsSession!Next /\ UNCHANGED v11
       \/ part = "bionet" /\ BioNet!Next
       \/ part = "mmsnet" /\ MmsNet!Next

Spec == Init /\ [][Next]_vars
-----------------------------------------------------------------------------
\* No two addresses are given the same node id, whatever crashes between the
\* generation of an id and its record, and a node's session znode is held by the
\* process that owns the id (CmClientZkGenNodeId, CmClientZkRegisterNodeInfo).
RegisteredApart ==
    /\ part = "biosession" => BioSession!S!RegisteredApart
    /\ part = "mmssession" => MmsSession!S!RegisteredApart

\* No two processes act as the master with a session ZooKeeper still honours: an
\* expired master gives up its role before it reconnects (cm_zkadapter.c).
OneLiveMaster ==
    /\ part = "biosession" => BioSession!S!OneLiveMaster
    /\ part = "mmssession" => MmsSession!S!OneLiveMaster

\* A process at rest, none of whose requests failed since it last registered, holds
\* the znode of its node and has been told of the lists as they are published; while
\* there is one, there is a master or an election under way.
NothingMissed ==
    /\ part = "biosession" =>
         BioSession!S!NothingMissed /\ BioSession!S!MasterOrElection
    /\ part = "mmssession" =>
         MmsSession!S!NothingMissed /\ MmsSession!S!MasterOrElection

\* When nothing is left to do and the peer is up, both planes are connected to the
\* running peer and its memory is the one that is mapped; no side keeps a channel
\* it was told is broken; a caller that was told OK was served (net_engine.cpp).
LinksComeBack ==
    /\ part = "bionet" => BioNet!Net!LinksComeBack /\ BioNet!Net!GoneIsForgotten /\ BioNet!Net!OkMeansServed
    /\ part = "mmsnet" => MmsNet!Net!LinksComeBack /\ MmsNet!Net!GoneIsForgotten /\ MmsNet!Net!OkMeansServed
=============================================================================
