---------------------------- MODULE MmsCmSession ----------------------------
(* The sessions of MemStore: CmSession's program, except that the node id may  *)
(* be configured.                                                              *)
EXTENDS Naturals, Sequences, FiniteSets

CONSTANTS Proc, MaxNodeNum, Starts,
          CfgNodeId   \* process -> configured id, or MaxNodeNum + 10 if it has none
VARIABLES pool, ids, seq, nodeZ, metaZ, masterZ, list, live, proc, left

(* A configured id must agree with the one recorded for the address.           *)
GenNodeId(p, known, next) ==
  IF CfgNodeId[p] # MaxNodeNum + 10
  THEN [ok |-> known[p] \in {CfgNodeId[p], MaxNodeNum + 10}, id |-> CfgNodeId[p], seq |-> next]
  ELSE IF known[p] # MaxNodeNum + 10 THEN [ok |-> TRUE, id |-> known[p], seq |-> next]
  ELSE [ok |-> TRUE, id |-> next, seq |-> next + 1]

S == INSTANCE CmSession

Init == S!Init
Lists == S!Lists

\* Starting and registering.
Start(p) == S!Start(p)
CreateDirs(p) == S!CreateDirs(p)
RegisterMetaNode(p) == S!RegisterMetaNode(p)
GenerateId(p) == S!GenerateId(p)
RecordNodeId(p) == S!RecordNodeId(p)
CheckNodeIdExist(p) == S!CheckNodeIdExist(p)
RecordLocalSession(p) == S!RecordLocalSession(p)

\* The election.
CreateMaster(p, t) == S!CreateMaster(p, t)
SubRoleChange(p, t) == S!SubRoleChange(p, t)
RoleWatchFunc(p) == S!RoleWatchFunc(p)

\* Subscriptions and publications.
SubList(p) == S!SubList(p)
SubDataHandle(p) == S!SubDataHandle(p)
WatchFunc(p, l) == S!WatchFunc(p, l)
UpdateList(p) == S!UpdateList(p)
RecordStateList(p) == S!RecordStateList(p)
RecordPtList(p) == S!RecordPtList(p)
RecordDataInfo(p) == S!RecordDataInfo(p)

\* Expired sessions and failed requests.
Restore(p) == S!Restore(p)
StepFails(p) == S!StepFails(p)
CallbackFails(p) == S!CallbackFails(p)

Next ==
  \/ \E p \in Proc :
       \/ Start(p) \/ CreateDirs(p) \/ RegisterMetaNode(p) \/ GenerateId(p) \/ RecordNodeId(p)
       \/ CheckNodeIdExist(p) \/ RecordLocalSession(p)
       \/ \E t \in {"seq", "cb"} : CreateMaster(p, t) \/ SubRoleChange(p, t)
       \/ RoleWatchFunc(p) \/ SubList(p) \/ SubDataHandle(p) \/ UpdateList(p)
       \/ \E l \in Lists : WatchFunc(p, l)
       \/ RecordStateList(p) \/ RecordPtList(p) \/ RecordDataInfo(p)
       \/ S!Crash(p) \/ Restore(p) \/ StepFails(p) \/ CallbackFails(p)
  \/ \E s \in live : S!Expire(s)
=============================================================================
