---------------------------- MODULE ChangeFilter ----------------------------
(***************************************************************************)
(* What the runner makes of a batch of changes (src/runner.go):            *)
(* findTasksAffectedByFileChanges goes through the changed directories, in *)
(* the order of a Go map, and merges what each of them means for a task;   *)
(* filterRunningTasks drops the tasks that were started after the newest   *)
(* change.                                                                 *)
(***************************************************************************)
EXTENDS Naturals

CONSTANTS
  Tasks,     (* the configured tasks                                        *)
  Files, Dirs,
  DirOf,     (* [Files -> Dirs]                                             *)
  Includes,  (* [Tasks -> SUBSET Files]: include without exclude            *)
  MaxTime    (* bound: times; 0 is before everything                        *)

ASSUME FilterAssumption ==
  DirOf \in [Files -> Dirs] /\ Includes \in [Tasks -> SUBSET Files] /\ MaxTime \in Nat

VARIABLES
  batch,    (* file -> its modification time, 0 when it did not change      *)
  started,  (* task -> when it was started last, 0 when never               *)
  left,     (* directories of the batch that are still to be looked at      *)
  found,    (* schedulableTasks: the tasks in it                            *)
  time,     (* task -> its ModificationTime                                 *)
  files,    (* task -> its MatchedFiles                                     *)
  kept      (* what filterRunningTasks kept, and whether it has run         *)

filterVars == <<batch, started, left, found, time, files, kept>>

Changed == {f \in Files : batch[f] # 0}
Newest(S, t) == CHOOSE n \in 0 .. MaxTime :
  /\ n = t \/ \E f \in S : n = batch[f]
  /\ t <= n /\ \A f \in S : batch[f] <= n

FilterInit ==
  /\ batch \in [Files -> 0 .. MaxTime] /\ Changed # {}
  /\ started \in [Tasks -> 0 .. MaxTime]
  /\ left = {DirOf[f] : f \in Changed}
  /\ found = {}
  /\ time = [t \in Tasks |-> 0] /\ files = [t \in Tasks |-> {}]
  /\ kept = [done |-> FALSE, tasks |-> {}]

(* getMatchedFileChangesForTask                                            *)
Matches(t, d) == {f \in Changed \cap Includes[t] : DirOf[f] = d}

(* The loop ends early when every task is to be scheduled.                 *)
MoreToFind == left # {} /\ found # Tasks

(* A mutant: a task that was found before is left as it is.                *)
ProcessUnmerged(d) ==
  LET new == {t \in Tasks \ found : Matches(t, d) # {}} IN
  /\ MoreToFind
  /\ left' = left \ {d}
  /\ found' = found \cup new
  /\ time' = [t \in Tasks |-> IF t \in new THEN Newest(Matches(t, d), 0) ELSE time[t]]
  /\ files' = [t \in Tasks |-> IF t \in new THEN Matches(t, d) ELSE files[t]]
  /\ UNCHANGED <<batch, started, kept>>

(* processEventTasks                                                       *)
ProcessEventTasks(d) ==
  /\ MoreToFind
  /\ left' = left \ {d}
  /\ found' = found \cup {t \in Tasks : Matches(t, d) # {}}
  /\ time' = [t \in Tasks |-> Newest(Matches(t, d), time[t])]
  /\ files' = [t \in Tasks |-> files[t] \cup Matches(t, d)]
  /\ UNCHANGED <<batch, started, kept>>

(* filterRunningTasks                                                      *)
FilterRunningTasks ==
  /\ ~MoreToFind /\ ~kept.done
  /\ kept' = [done |-> TRUE, tasks |-> {t \in found : started[t] <= time[t]}]
  /\ UNCHANGED <<batch, started, left, found, time, files>>

FilterNext == (\E d \in left : ProcessEventTasks(d)) \/ FilterRunningTasks

FilterSpec == FilterInit /\ [][FilterNext]_filterVars

-----------------------------------------------------------------------------
(***************************************************************************)
(* The tasks that are scheduled are those with a changed file they include *)
(* that is not older than their last start, in whatever order the changed  *)
(* directories come.                                                       *)
(***************************************************************************)
FilterIsExact ==
  kept.done => kept.tasks =
    {t \in Tasks : \E f \in Changed \cap Includes[t] : started[t] <= batch[f]}
=============================================================================
