----------------------------- MODULE MCDebounce -----------------------------
(* Two tasks with different debounces, one file each and one for both.     *)
EXTENDS Debounce, TLC

CONSTANTS fast, slow, goFile, sqlFile, modFile

MCTasks == {fast, slow}
MCFiles == {goFile, sqlFile, modFile}
MCTasksOf == (goFile :> {fast}) @@ (sqlFile :> {slow}) @@ (modFile :> {fast, slow})
MCWait == (fast :> 1) @@ (slow :> 3)
=============================================================================
