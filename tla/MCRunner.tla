------------------------------ MODULE MCRunner ------------------------------
(* Runner on the task configurations of TaskGraphs.                           *)
EXTENDS Runner, TaskGraphs

NoProviders == [t \in Tasks |-> {}]
ModeOf == [t \in Tasks |-> AutoMode[t]]
=============================================================================
