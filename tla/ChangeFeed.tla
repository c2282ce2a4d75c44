----------------------------- MODULE ChangeFeed -----------------------------
(***************************************************************************)
(* What the watcher promises the runner: no change that was noted is lost, *)
(* changes are handed over all together, each with the newest modification *)
(* time reported for its file, and never an empty batch.                   *)
(***************************************************************************)
EXTENDS Integers

CONSTANTS
  Files,
  Times     (* modification times; 0 stands for a file without a change     *)

VARIABLES
  notes,    (* how many changes were reported                               *)
  pending,  (* file -> newest modification time not yet handed over, or 0   *)
  handed    (* the batch the runner was given last                          *)

feedVars == <<notes, pending, handed>>

Nothing == [f \in Files |-> 0]
Newer(m, n) == IF m > n THEN m ELSE n

Init ==
  /\ notes = 0
  /\ pending = Nothing /\ handed = Nothing

Report(f, m) ==
  /\ notes' = notes + 1
  /\ pending' = [pending EXCEPT ![f] = Newer(m, @)]
  /\ UNCHANGED handed

HandOver ==
  /\ pending # Nothing
  /\ handed' = pending /\ pending' = Nothing
  /\ UNCHANGED notes

Next ==
  \/ \E f \in Files, m \in Times : Report(f, m)
  \/ HandOver

Spec == Init /\ [][Next]_feedVars
=============================================================================
