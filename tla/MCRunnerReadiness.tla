------------------------- MODULE MCRunnerReadiness -------------------------
(* RunnerReadiness with one service and the generator that waits for it.   *)
EXTENDS RunnerReadiness, TaskGraphs

CONSTANT helper
=============================================================================
