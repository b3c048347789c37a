SPECIFICATION Spec
CONSTANTS
  a = a
  b = b
INVARIANTS
  
  OneLiveMaster
  
  
CHECK_DEADLOCK FALSE
