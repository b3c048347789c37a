\* One crash at a time, at most two flows; the system stops when the programs are done.
SPECIFICATION Spec
CONSTANTS
  Node = {"a", "b"}
  Thread = {"t1", "t2"}
  Key = {"k", "j"}
  MaxFlow = 2
  Scenarios <- Mixed
INVARIANTS EveryCopyServes DeletedStaysGone
PROPERTY ServesAsStore
CHECK_DEADLOCK FALSE
