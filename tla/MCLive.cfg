SPECIFICATION MCFairSpec
CONSTANTS
  k1 = k1
  N = 1
  Keys = {k1}
  KeyOf <- MCKeyOf
  Clients = {c1}
  MemPool = {m1}
  DiskPool = {d1}
  Through = {"mem"}
  Readable = {}
  Deletable = {}
  Events = {"flush", "role"}
  MaxViews = 0
  Crashes = 0
INVARIANTS ServedInWindow
PROPERTIES FlushEvictsAll HeldIsReleased EvictionProgress NegotiationCompletes
CHECK_DEADLOCK FALSE
