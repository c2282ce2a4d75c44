------------------------ MODULE RebuildSuppression ------------------------
(***************************************************************************)
(* Rebuild suppression (src/rebuild_suppression.go) of one task: a change  *)
(* is not scheduled when the fingerprint of the task's inputs equals the   *)
(* last accepted one.  A scheduled change leaves its fingerprint pending,  *)
(* the start of a process takes it over, the end of the process accepts or *)
(* drops it; a continuous task is accepted when it starts.                 *)
(*                                                                         *)
(* Three goroutines are involved: the watcher's callback (onFileChange),   *)
(* the one that starts the task (startScheduledTask), and the process's    *)
(* own.  Inputs are numbered; equal numbers have equal fingerprints.       *)
(***************************************************************************)
EXTENDS Naturals

CONSTANTS
  Scenarios,   (* the kinds of task and of what may happen to it            *)
  MaxEdits     (* bound: edits, and different contents                      *)

(* fail: the task fails, at its start or later.  misread: its inputs cannot*)
(* be read when a change is handled.  revert: an edit brings back earlier  *)
(* contents.  hurry: an edit comes before the last one is dealt with.      *)
(* requeue: the task is scheduled without a change, as a consumer is.      *)
(* fast: a build ends before the start of it is recorded.                  *)
Events == {"fail", "misread", "revert", "hurry", "requeue", "fast"}

ASSUME SuppressionAssumption ==
  Scenarios \subseteq [continuous : BOOLEAN, may : SUBSET Events] /\ MaxEdits \in Nat

NoPrint == 0  (* a nil *TaskFingerprint                                     *)

VARIABLES
  scenario,   (* the one of this behaviour                                  *)
  disk,       (* the inputs as they are                                     *)
  newest,     (* how many contents there have been                          *)
  edits,
  event,      (* the watcher has a change to deliver                        *)
  modified,   (* the inputs changed after lastTaskStartTimes                *)
  callback,   (* what onFileChange does next, and the fingerprint it has    *)
  queued,     (* the task is in ScheduledTasks                              *)
  starter,    (* what startScheduledTask does next                          *)
  alive,      (* the task's process runs                                    *)
  read,       (* history: the inputs the last start was made on             *)
  built,      (* history: the inputs of the last run that ended well; first  *)
              (* those NewRunner takes for accepted                          *)
  accepted,   (* LastAccepted                                               *)
  pending,    (* LastPending                                                *)
  startedPrint,  (* LastStarted                                             *)
  before      (* LastAcceptedBeforeStart, in a set of at most one           *)

world == <<disk, newest, edits>>
prints == <<accepted, pending, startedPrint, before>>
vars == <<scenario, world, event, modified, callback, queued, starter, alive, read, built, prints>>

Continuous == scenario.continuous
May == scenario.may

At(l, p) == [at |-> l, print |-> p]

-----------------------------------------------------------------------------
(* NewRunner takes the first fingerprint; Runner.Start schedules the task. *)
Init ==
  /\ scenario \in Scenarios
  /\ disk = 1 /\ newest = 1 /\ edits = 0
  /\ event = FALSE /\ modified = FALSE
  /\ callback = At("none", NoPrint)
  /\ queued = TRUE /\ starter = "none" /\ alive = FALSE /\ read = NoPrint
  /\ built = 1
  /\ accepted = 1 /\ pending = NoPrint /\ startedPrint = NoPrint /\ before = {}

Settled ==
  /\ ~event /\ callback.at = "none" /\ ~queued /\ starter = "none"
  /\ Continuous \/ ~alive

Edit ==
  /\ edits < MaxEdits /\ edits' = edits + 1
  /\ "hurry" \in May \/ Settled
  /\ \E c \in IF "revert" \in May THEN (1 .. newest + 1) \ {disk} ELSE {newest + 1} :
       disk' = c /\ newest' = IF c > newest THEN c ELSE newest
  /\ event' = TRUE /\ modified' = TRUE
  /\ UNCHANGED <<callback, queued, starter, alive, read, built, prints>>

Requeue ==
  /\ "requeue" \in May /\ ~queued /\ queued' = TRUE
  /\ UNCHANGED <<world, event, modified, callback, starter, alive, read, built, prints>>

(* onFileChange: filterRunningTasks, and the fingerprint of the inputs; a  *)
(* task whose inputs cannot be read is scheduled.                          *)
Fingerprint ==
  /\ callback.at = "none" /\ event /\ event' = FALSE
  /\ \/ callback' = IF modified THEN At("compare", disk) ELSE callback
     \/ "misread" \in May /\ modified /\ callback' = At("schedule", NoPrint)
  /\ UNCHANGED <<world, modified, queued, starter, alive, read, built, prints>>

(* shouldScheduleAfterRebuildSuppression, under the lock                   *)
Compare ==
  /\ callback.at = "compare"
  /\ IF callback.print = accepted
     THEN callback' = At("none", NoPrint) /\ UNCHANGED pending
     ELSE callback' = At("schedule", NoPrint) /\ pending' = callback.print
  /\ UNCHANGED <<world, event, modified, queued, starter, alive, read, built,
                 accepted, startedPrint, before>>

Schedule ==
  /\ callback.at = "schedule"
  /\ callback' = At("none", NoPrint) /\ queued' = TRUE
  /\ UNCHANGED <<world, event, modified, starter, alive, read, built, prints>>

-----------------------------------------------------------------------------
(* A mutant: a run accepts what is pending.                                *)
SuccessOfPending ==
  /\ accepted' = IF pending # NoPrint THEN pending ELSE accepted
  /\ startedPrint' = NoPrint /\ before' = {} /\ pending' = NoPrint

RecordSuccessful ==
  /\ accepted' = IF startedPrint # NoPrint THEN startedPrint ELSE accepted
  /\ startedPrint' = NoPrint
  /\ before' = IF startedPrint # NoPrint THEN {} ELSE before
  /\ UNCHANGED pending

RecordFailed ==
  /\ accepted' = IF startedPrint # NoPrint /\ before # {}
                 THEN CHOOSE p \in before : TRUE ELSE accepted
  /\ startedPrint' = NoPrint /\ before' = {}
  /\ UNCHANGED pending

(* canStartTask: a build waits for its own end, a continuous one does not. *)
Take ==
  /\ starter = "none" /\ queued /\ (Continuous \/ ~alive)
  /\ queued' = FALSE /\ starter' = "launch"
  /\ UNCHANGED <<world, event, modified, callback, alive, read, built, prints>>

(* The process of a continuous task ends when its start asks it to, or by  *)
(* itself, which counts as a failure.  onTaskFinished records the result.  *)
Exit ==
  /\ alive /\ alive' = FALSE
  /\ starter = "record" => "fast" \in May
  /\ \/ (Continuous => starter = "launch") /\ RecordSuccessful /\ built' = read
     \/ "fail" \in May /\ RecordFailed /\ UNCHANGED built
  /\ UNCHANGED <<world, event, modified, callback, queued, starter, read>>

(* prepareTaskForStart fails before recordTaskStartTime, startTaskAsync    *)
(* after it.                                                               *)
FailToStart ==
  /\ starter = "launch" /\ ~alive /\ "fail" \in May
  /\ starter' = "none" /\ read' = disk
  /\ modified' \in {modified, FALSE}
  /\ RecordFailed
  /\ UNCHANGED <<world, event, callback, queued, alive, built>>

Launch ==
  /\ starter = "launch" /\ ~alive
  /\ alive' = TRUE /\ read' = disk /\ modified' = FALSE
  /\ starter' = "record"
  /\ UNCHANGED <<world, event, callback, queued, built, prints>>

RecordStarted ==
  /\ starter = "record" /\ starter' = "none"
  /\ IF pending = NoPrint THEN UNCHANGED prints
     ELSE /\ startedPrint' = pending /\ pending' = NoPrint
          /\ IF Continuous THEN before' = {accepted} /\ accepted' = pending
             ELSE UNCHANGED <<before, accepted>>
  /\ UNCHANGED <<world, event, modified, callback, queued, alive, read, built>>

Next ==
  /\ UNCHANGED scenario
  /\ \/ Edit \/ Requeue
     \/ Fingerprint \/ Compare \/ Schedule
     \/ Take \/ Exit \/ FailToStart \/ Launch \/ RecordStarted

Spec == Init /\ [][Next]_vars

-----------------------------------------------------------------------------
Prints == 0 .. MaxEdits + 1

(* Fingerprints are of contents there have been.                           *)
TypeOK ==
  /\ scenario \in Scenarios
  /\ disk \in 1 .. newest /\ newest \in 1 .. MaxEdits + 1 /\ edits \in 0 .. MaxEdits
  /\ {event, modified, queued, alive} \subseteq BOOLEAN
  /\ callback \in [at : {"none", "compare", "schedule"}, print : Prints]
  /\ starter \in {"none", "launch", "record"}
  /\ accepted \in 1 .. newest /\ {read, built, pending, startedPrint} \subseteq 0 .. newest
  /\ before \subseteq 1 .. newest

(***************************************************************************)
(* No change is missed: when nothing is left to deliver, to start or to    *)
(* finish, the last start was made on the inputs as they are; or what a    *)
(* build made of these very inputs is still there.                         *)
(***************************************************************************)
NoMissedRebuild ==
  Settled /\ read # NoPrint => disk = read \/ (~Continuous /\ disk = built)

(* A run accepts what it was started on, or older inputs, but not a change *)
(* that is queued behind it; contents that come later have higher numbers. *)
AcceptedWasRead == accepted > 1 => accepted <= read
=============================================================================
