SPECIFICATION Spec
CONSTANTS
  k1 = k1
  k2 = k2
  c1 = c1
  c2 = c2
  c3 = c3
  m1 = m1
  d1 = d1
SYMMETRY ClientSymmetry
INVARIANTS PlacedOnce ReadersSafe AckedReadable DeletedStaysDeleted
CHECK_DEADLOCK FALSE
