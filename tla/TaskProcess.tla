----------------------------- MODULE TaskProcess ----------------------------
(***************************************************************************)
(* What a running task promises whoever stops it and waits for it: its     *)
(* commands run one after the other, none is begun once the task is        *)
(* cancelled, and when it has ended no process of it is left.              *)
(***************************************************************************)
CONSTANT Commands   (* of the task *)

VARIABLES
  live,       (* the commands with a process that has not been reaped       *)
  cancelled,  (* whether the context of the task is done                    *)
  ended       (* whether the task has ended, so that Wait returns           *)

taskVars == <<live, cancelled, ended>>

Init == live = {} /\ cancelled = FALSE /\ ended = FALSE

(* The cancellation may arrive while the process is being made.            *)
Launch(c) ==
  /\ ~cancelled /\ ~ended /\ live = {}
  /\ live' = {c} /\ cancelled' \in BOOLEAN
  /\ UNCHANGED ended

Reap ==
  /\ live # {} /\ live' = {}
  /\ UNCHANGED <<cancelled, ended>>

Cancel ==
  /\ cancelled' = TRUE
  /\ UNCHANGED <<live, ended>>

End ==
  /\ live = {} /\ ended' = TRUE /\ cancelled' = TRUE
  /\ UNCHANGED live

Next ==
  \/ \E c \in Commands : Launch(c)
  \/ Reap \/ Cancel \/ End

Spec == Init /\ [][Next]_taskVars
=============================================================================
