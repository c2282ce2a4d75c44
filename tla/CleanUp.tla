------------------------------- MODULE CleanUp -------------------------------
(***************************************************************************)
(* The cleanup task of a configuration: startCleanUp (src/runner.go:552),  *)
(* which onTaskFinished calls after every success, walks the tree and      *)
(* deletes the files that match but the newest.                            *)
(*                                                                         *)
(* The goroutines of tasks that finish together do so at a time, with no   *)
(* lock, while other tasks go on writing their outputs.                    *)
(***************************************************************************)
EXTENDS Naturals, FiniteSets

CONSTANTS
  Cleaners,  (* the goroutines in onTaskFinished                            *)
  Outputs,   (* the files that match the cleanup task                       *)
  Order,     (* [Outputs -> Nat]: the order filepath.Walk goes by           *)
  InPlace,   (* files are written again; otherwise each is written once     *)
  MaxClock   (* bound: the last time of a write                             *)

ASSUME CleanUpAssumption ==
  /\ Order \in [Outputs -> Nat] /\ \A f, g \in Outputs : Order[f] = Order[g] => f = g
  /\ InPlace \in BOOLEAN /\ MaxClock \in Nat

VARIABLES
  written,   (* file -> its modification time                               *)
  exists,    (* the files that are there                                    *)
  clock,     (* the time                                                    *)
  cleaner    (* goroutine -> where it is, the names it has still to visit   *)
             (* or to delete, and the times of those that matched           *)

cleanUpVars == <<written, exists, clock, cleaner>>

At(l, left, found) == [at |-> l, left |-> left, found |-> found]
NotFound == [f \in Outputs |-> 0]
Go(c, step) == cleaner' = [cleaner EXCEPT ![c] = step]

(* Some outputs of earlier runs are there.                                 *)
CleanUpInit ==
  /\ exists \in SUBSET Outputs /\ clock = 1
  /\ written = [f \in Outputs |-> IF f \in exists THEN 1 ELSE 0]
  /\ cleaner = [c \in Cleaners |-> At("build", {}, NotFound)]

(* A command writes an output; times may be too coarse to tell two apart.  *)
WriteOutput(f) ==
  /\ InPlace \/ written[f] = 0
  /\ \E now \in {clock, clock + 1} :
       /\ now <= MaxClock
       /\ clock' = now /\ written' = [written EXCEPT ![f] = now]
  /\ exists' = exists \cup {f}
  /\ UNCHANGED cleaner

(* A task has succeeded; filepath.Walk reads the names.                    *)
ReadNames(c) ==
  /\ cleaner[c].at = "build"
  /\ Go(c, At("walk", exists, NotFound))
  /\ UNCHANGED <<written, exists, clock>>

IsFirst(f, names) == f \in names /\ \A g \in names : Order[f] <= Order[g]

(* A name that is gone ends the walk with an error, and nothing is done.   *)
VisitFile(c) ==
  LET here == cleaner[c] IN
  /\ here.at = "walk"
  /\ \E f \in Outputs :
       /\ IsFirst(f, here.left)
       /\ Go(c, IF f \in exists
                THEN At("walk", here.left \ {f}, [here.found EXCEPT ![f] = written[f]])
                ELSE At("done", {}, NotFound))
  /\ UNCHANGED <<written, exists, clock>>

(* A mutant: the last file of the walk is taken for the newest.            *)
IsNewestByName(f, matched, found) == f \in matched /\ \A g \in matched : Order[g] <= Order[f]

(* RemoveNewestFile: the first of those with the greatest time is kept.    *)
IsNewest(f, matched, found) ==
  f \in matched /\ \A g \in matched :
    found[g] < found[f] \/ (found[g] = found[f] /\ Order[f] <= Order[g])

(* All but the newest are to go, if there are two or more.                 *)
KeepNewest(c) ==
  LET found == cleaner[c].found
      matched == {f \in Outputs : found[f] > 0} IN
  /\ cleaner[c].at = "walk" /\ cleaner[c].left = {}
  /\ IF Cardinality(matched) <= 1 THEN Go(c, At("done", {}, NotFound))
     ELSE \E f \in Outputs :
            IsNewest(f, matched, found) /\ Go(c, At("delete", matched \ {f}, NotFound))
  /\ UNCHANGED <<written, exists, clock>>

(* What cannot be deleted is passed over.                                  *)
DeleteNext(c) ==
  /\ cleaner[c].at = "delete"
  /\ \E f \in Outputs :
       LET rest == cleaner[c].left \ {f} IN
       /\ IsFirst(f, cleaner[c].left)
       /\ exists' = exists \ {f}
       /\ Go(c, At(IF rest = {} THEN "done" ELSE "delete", rest, NotFound))
  /\ UNCHANGED <<written, clock>>

CleanUpNext ==
  \/ \E f \in Outputs : WriteOutput(f)
  \/ \E c \in Cleaners : ReadNames(c) \/ VisitFile(c) \/ KeepNewest(c) \/ DeleteNext(c)

CleanUpSpec == CleanUpInit /\ [][CleanUpNext]_cleanUpVars

-----------------------------------------------------------------------------
(***************************************************************************)
(* "removes all files matching the glob pattern except the latest one"     *)
(* (src/config/loader.go:28): a file is deleted only while one that is as  *)
(* new stays, although what the goroutine has listed may be out of date    *)
(* and others may delete the file that it keeps.                           *)
(***************************************************************************)
NewestSurvives ==
  [][\A f \in exists \ exists' : \E g \in exists' : written[g] >= written[f]]_cleanUpVars
=============================================================================
