----------------------------- MODULE TaskGraphs -----------------------------
(* Small task configurations for the runs of the runner.                   *)
EXTENDS TLC

CONSTANTS gen, build, lint, api, web

(* build depends on gen; lint on nothing.                                  *)
BuildTasks == {gen, build}
BuildDeps == (gen :> {}) @@ (build :> {gen})

(* build depends on gen and lint.                                          *)
JoinTasks == {gen, lint, build}
JoinDeps == (gen :> {}) @@ (lint :> {}) @@ (build :> {gen, lint})

(* web consumes the URL of api; both run until they are stopped.           *)
ServeTasks == {api, web}
ServeDeps == (api :> {}) @@ (web :> {})
ServeProviders == (api :> {}) @@ (web :> {api})

(* Continuous tasks that have nothing to do with each other.               *)
ThreeServers == {api, web, lint}
ThreeDeps == (api :> {}) @@ (web :> {}) @@ (lint :> {})
TwoServers == {api, web}

(* gen generates code from the API that the service api describes.         *)
GenTasks == {api, gen}
GenDeps == (api :> {}) @@ (gen :> {})
GenProviders == (api :> {}) @@ (gen :> {api})
GenMode == (api :> "none") @@ (gen :> "none")

AutoMode == [t \in {gen, build, lint, api, web} |-> "auto"]
=============================================================================
