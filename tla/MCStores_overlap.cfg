SPECIFICATION Spec
CONSTANTS
  o1 = o1
  o2 = o2
  u1 = u1
  u2 = u2
  n1 = n1
  n2 = n2
  n3 = n3
SYMMETRY Symmetry
INVARIANT RecordsOutsideData
CHECK_DEADLOCK FALSE
