------------------------------- MODULE MCMain -------------------------------
(* Main and the runner on the task configurations of TaskGraphs.           *)
EXTENDS Main, TaskGraphs

NoProviders == [t \in Tasks |-> {}]
ModeOf == [t \in Tasks |-> AutoMode[t]]
=============================================================================
