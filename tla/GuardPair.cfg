\* Two processes and everything that can go wrong within their time limits.
CONSTANTS
  p1 = p1
  p2 = p2
  p3 = p3
  missing = missing
  empty = empty
  none = none
  Procs = {p1, p2}
  Policy = "replace"
  Exits = {p1, p2}
  Faults = {"crash", "disk"}
SPECIFICATION FairSpec
CHECK_DEADLOCK FALSE
INVARIANTS
  MutualExclusion
  LockIntact
PROPERTIES
  AcquireEnds
  AskedStops
  AloneAcquires
