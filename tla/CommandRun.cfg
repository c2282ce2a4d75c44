\* Two commands that end by themselves, then a server that forks and does not.
CONSTANTS
  Last = 3
  Exits = {1, 2}
  Forks = {3}
  Ignores <- MCIgnores
SPECIFICATION FairSpec
CHECK_DEADLOCK FALSE
INVARIANTS
  SuccessMeansAllRan
PROPERTIES
  TaskPromise
  CancelCleansUp
