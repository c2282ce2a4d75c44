\* A build and a service, in the scenarios in which no change is missed.
CONSTANTS
  Scenarios <- MCScenarios
  MaxEdits = 4
SPECIFICATION Spec
CHECK_DEADLOCK FALSE
INVARIANTS
  NoMissedRebuild
