\* A device given up after a failed write stops for good once the bound on
\* restarts is used up, so deadlock is not checked.
SPECIFICATION Spec
CONSTANTS
  o1 = o1
  o2 = o2
  u1 = u1
  u2 = u2
  n1 = n1
  n2 = n2
  n3 = n3
SYMMETRY Symmetry
INVARIANTS
  BdmConsistent
  DataFits
  
  PoolsConsistent
  
  
  DisksKept
PROPERTY RestartKeepsChunks
CHECK_DEADLOCK FALSE
