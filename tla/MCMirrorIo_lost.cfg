SPECIFICATION Spec
CONSTANTS
  Node = {"a", "b"}
  Thread = {"t1", "t2"}
  Key = {"k", "j"}
  MaxFlow = 2
  Scenarios <- FullReplica
INVARIANT MasterServes
CHECK_DEADLOCK FALSE
