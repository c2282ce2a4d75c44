------------------------ MODULE MCRebuildSuppression ------------------------
(* The scenarios in which no change is missed.                             *)
EXTENDS RebuildSuppression

Scenario(c, m) == [continuous |-> c, may |-> m]

(* The largest sets of events: edits that may be taken back, each made     *)
(* after the last one was dealt with, of a build and of a service that does*)
(* not fail; and inputs that are edited at any time but never back.        *)
MCScenarios == {
  Scenario(FALSE, {"fail", "revert"}),
  Scenario(TRUE, {"fast", "revert"}),
  Scenario(FALSE, Events \ {"revert"}),
  Scenario(TRUE, Events \ {"revert"})}
=============================================================================
