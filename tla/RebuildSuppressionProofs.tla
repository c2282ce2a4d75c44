---------------------- MODULE RebuildSuppressionProofs ----------------------
(***************************************************************************)
(* Proofs about rebuild suppression, for any number of edits and contents  *)
(* and for all tasks at once: which of them miss no change, and why.       *)
(***************************************************************************)
EXTENDS RebuildSuppression, TLAPS

(* A task whose inputs are never edited back, whatever else may happen; a  *)
(* task whose edits wait until the last one is dealt with, if it is a build*)
(* or, being continuous, never fails.  TLC finds a missed change with      *)
(* every other set of events.                                              *)
OnlyForward(s) == "revert" \notin s.may
OneByOne(s) == s.may \subseteq {"revert", IF s.continuous THEN "fast" ELSE "fail"}

Dependable(s) == OnlyForward(s) \/ OneByOne(s)

(* Every content there has been came with an edit, the callback's too.     *)
Counted == newest <= edits + 1 /\ callback.print <= newest

(* With no way back the newest contents are on disk.  As long as no start  *)
(* is on its way, every fingerprint is of what the last start has read or  *)
(* older, so that one of later contents differs from the accepted one.     *)
StartComes == queued \/ starter = "launch" \/ callback.at = "schedule"

ForwardInv ==
  /\ disk = newest
  /\ StartComes \/ /\ read # NoPrint
                   /\ accepted <= read /\ pending <= read /\ startedPrint <= read
                   /\ \A p \in before : p <= read
                   /\ disk # read => /\ modified
                                     /\ event \/ callback = At("compare", disk)

(* With one edit at a time, everything under way is about the contents on  *)
(* disk, in one place only.                                                *)
Starting == queued \/ starter # "none"

Orderly ==
  /\ event => modified /\ callback.at = "none"
  /\ callback.at = "compare" => callback.print = disk
  /\ callback.at = "schedule" => pending = disk
  /\ event \/ callback.at # "none" => ~Starting /\ (Continuous \/ ~alive)
  /\ queued => starter = "none"
  /\ Starting => pending = disk \/ (pending = NoPrint /\ disk = accepted)
  /\ starter = "record" => read = disk

(* A build: what is accepted is what was built, and only a run that was    *)
(* started for a change has a fingerprint.                                 *)
BuildInv ==
  /\ accepted = built /\ before = {}
  /\ queued \/ starter = "launch" => ~alive
  /\ ~alive => startedPrint = NoPrint
  /\ starter = "record" => alive /\ startedPrint = NoPrint
  /\ alive /\ starter = "none" =>
       /\ read = disk
       /\ startedPrint = disk \/ (startedPrint = NoPrint /\ accepted = disk)
  /\ Settled => disk \in {read, built}

(* A service: a change to deliver differs from what is accepted, and that  *)
(* is what the running process has read.                                   *)
ServiceInv ==
  /\ startedPrint \in {NoPrint, accepted}
  /\ event \/ callback.at # "none" => disk # accepted
  /\ Settled => disk = read /\ accepted = disk

OneByOneInv == Orderly /\ IF Continuous THEN ServiceInv ELSE BuildInv

IndInv ==
  /\ TypeOK /\ Counted
  /\ OnlyForward(scenario) => ForwardInv
  /\ OneByOne(scenario) => OneByOneInv

(* What a failed run falls back to.                                        *)
LEMMA FallBack ==
  ASSUME before # {}
  PROVE  (CHOOSE p \in before : TRUE) \in before
OBVIOUS

(* An edit brings new contents or contents there have been.                *)
LEMMA EditStep ==
  ASSUME TypeOK, Edit
  PROVE  /\ disk' \in 1 .. newest' /\ disk' # disk
         /\ newest' \in newest .. newest + 1
         /\ OnlyForward(scenario) => disk' = newest + 1 /\ newest' = newest + 1
<1>1. PICK c \in IF "revert" \in May THEN (1 .. newest + 1) \ {disk} ELSE {newest + 1} :
        disk' = c /\ newest' = IF c > newest THEN c ELSE newest
  BY DEF Edit
<1>2. c \in 1 .. newest + 1 /\ c # disk
      /\ (OnlyForward(scenario) => c = newest + 1)
  BY <1>1 DEF TypeOK, OnlyForward, May
<1>3. QED BY <1>1, <1>2 DEF TypeOK

(* What the end of a run, or a start that fails, does to the fingerprints. *)
LEMMA EndStep ==
  ASSUME RecordSuccessful \/ RecordFailed
  PROVE  /\ accepted' \in {accepted} \cup ({startedPrint} \ {NoPrint}) \cup before
         /\ startedPrint' = NoPrint /\ before' \subseteq before /\ pending' = pending
<1>1. CASE RecordSuccessful BY <1>1 DEF RecordSuccessful
<1>2. CASE RecordFailed BY <1>2, FallBack DEF RecordFailed
<1>3. QED BY <1>1, <1>2

(* What the start of a run does to them: nothing, or the pending one of a  *)
(* build is set aside, of a continuous task accepted.                      *)
LEMMA StartStep ==
  ASSUME RecordStarted
  PROVE  /\ starter = "record" /\ starter' = "none"
         /\ UNCHANGED <<disk, newest, edits, event, modified, callback, queued, alive, read, built>>
         /\ \/ pending = NoPrint
               /\ UNCHANGED <<accepted, pending, startedPrint, before>>
            \/ /\ pending # NoPrint /\ startedPrint' = pending /\ pending' = NoPrint
               /\ IF Continuous THEN before' = {accepted} /\ accepted' = pending
                                ELSE UNCHANGED <<before, accepted>>
BY DEF RecordStarted, world, prints

(* Every step keeps the types and the count of the contents.               *)
LEMMA TypeStep ==
  ASSUME TypeOK, Counted, [Next]_vars
  PROVE  TypeOK' /\ Counted'
<1> DEFINE Contents == /\ disk \in 1 .. newest /\ newest \in 1 .. MaxEdits + 1
                       /\ edits \in 0 .. MaxEdits /\ newest <= edits + 1
           Control == /\ {event, modified, queued, alive} \subseteq BOOLEAN
                      /\ starter \in {"none", "launch", "record"}
                      /\ callback.at \in {"none", "compare", "schedule"}
                      /\ callback.print \in 0 .. newest
                      /\ callback = At(callback.at, callback.print)
           History == /\ read \in 0 .. newest /\ built \in 0 .. newest
                      /\ accepted \in 1 .. newest /\ pending \in 0 .. newest
                      /\ startedPrint \in 0 .. newest /\ before \subseteq 1 .. newest
<1>0. Contents /\ Control /\ History
  BY SuppressionAssumption DEF TypeOK, Counted, Prints, At
<1>1. scenario' \in Scenarios BY DEF TypeOK, Next, vars
<1>2. Contents'
  <2>1. CASE Edit BY <2>1, <1>0, SuppressionAssumption, EditStep DEF Edit
  <2>2. CASE UNCHANGED world BY <2>2, <1>0 DEF world
  <2>3. QED
    BY <2>1, <2>2 DEF Next, vars, Requeue, Fingerprint, Compare, Schedule, Take, Exit,
       FailToStart, Launch, RecordStarted
<1>3. newest \in Nat /\ newest' \in Nat /\ newest <= newest'
  <2>1. CASE Edit BY <2>1, <1>0, SuppressionAssumption, EditStep
  <2>2. CASE UNCHANGED world BY <2>2, <1>0, SuppressionAssumption DEF world
  <2>3. QED
    BY <2>1, <2>2 DEF Next, vars, Requeue, Fingerprint, Compare, Schedule, Take, Exit,
       FailToStart, Launch, RecordStarted
<1>4. Control'
  <2>1. CASE Fingerprint \/ Compare \/ Schedule
    <3>1. {event', modified', queued', alive'} \subseteq BOOLEAN /\ starter' = starter
      BY <2>1, <1>0 DEF Fingerprint, Compare, Schedule
    <3>2. \/ callback' = callback \/ callback' = At("compare", disk)
          \/ callback' = At("schedule", callback.print)
          \/ \E l \in {"none", "schedule"} : callback' = At(l, NoPrint)
      BY <2>1 DEF Fingerprint, Compare, Schedule, At
    <3>3. /\ callback'.at \in {"none", "compare", "schedule"}
          /\ callback'.print \in 0 .. newest'
          /\ callback' = At(callback'.at, callback'.print)
      BY <3>2, <1>0, <1>3 DEF At, NoPrint
    <3>4. QED BY <3>1, <3>3, <1>0
  <2>2. CASE UNCHANGED callback /\ ~(Fingerprint \/ Compare \/ Schedule)
    <3>1. callback'.print \in 0 .. newest' BY <2>2, <1>0, <1>3
    <3>2. {event', modified', queued', alive'} \subseteq BOOLEAN
      BY <2>2, <1>0 DEF Next, vars, Edit, Requeue, Take, Exit, FailToStart, Launch, RecordStarted
    <3>3. starter' \in {"none", "launch", "record"}
      BY <2>2, <1>0 DEF Next, vars, Edit, Requeue, Take, Exit, FailToStart, Launch, RecordStarted
    <3>4. QED BY <2>2, <1>0, <3>1, <3>2, <3>3 DEF At
  <2>3. QED
    BY <2>1, <2>2 DEF Next, vars, Edit, Requeue, Take, Exit, FailToStart, Launch, RecordStarted
<1>5. History'
  <2>1. CASE UNCHANGED <<read, built, prints>>
    BY <2>1, <1>0, <1>3 DEF prints
  <2>2. CASE Compare
    BY <2>2, <1>0, <1>3 DEF Compare
  <2>3. CASE Exit \/ FailToStart
    <3>1. newest' = newest /\ read' \in {read, disk} /\ built' \in {built, read}
      BY <2>3 DEF Exit, FailToStart, world
    <3>2. RecordSuccessful \/ RecordFailed BY <2>3 DEF Exit, FailToStart
    <3>3. /\ accepted' \in 1 .. newest /\ startedPrint' \in 0 .. newest
          /\ pending' \in 0 .. newest /\ before' \subseteq 1 .. newest
      <4>1. History BY <1>0
      <4>2. /\ accepted' \in {accepted} \cup ({startedPrint} \ {NoPrint}) \cup before
            /\ startedPrint' = NoPrint /\ before' \subseteq before /\ pending' = pending
        BY <3>2, EndStep
      <4>3. newest \in Nat BY <1>3
      <4>4. QED BY <4>1, <4>2, <4>3 DEF NoPrint
    <3>4. QED BY <3>1, <3>3, <1>0
  <2>4. CASE Launch
    BY <2>4, <1>0, <1>3 DEF Launch, prints, world
  <2>5. CASE RecordStarted
    <3>1. CASE UNCHANGED <<accepted, pending, startedPrint, before>>
      BY <3>1, <2>5, <1>0, StartStep
    <3>2. CASE pending # NoPrint
      <4>1. newest' = newest /\ read' = read /\ built' = built BY <2>5, StartStep
      <4>2. startedPrint' = pending /\ pending' = NoPrint BY <2>5, <3>2, StartStep
      <4>3. accepted' \in {accepted, pending} /\ before' \subseteq before \cup {accepted}
        BY <2>5, <3>2, StartStep
      <4>4. QED BY <4>1, <4>2, <4>3, <1>0, <3>2 DEF NoPrint
    <3>3. QED BY <2>5, <3>1, <3>2, StartStep
  <2>6. QED
    BY <2>1, <2>2, <2>3, <2>4, <2>5
       DEF Next, vars, Edit, Requeue, Fingerprint, Schedule, Take
<1>6. QED
  <2>1. callback' \in [at : {"none", "compare", "schedule"}, print : Prints]
    BY <1>2, <1>4, SuppressionAssumption DEF Prints, At
  <2>2. {read, built, pending, startedPrint}' \subseteq 0 .. newest' BY <1>5
  <2>3. newest' \in Nat /\ newest' <= edits' + 1 BY <1>2, <1>3
  <2>4. (callback.print)' \in 0 .. newest' BY <1>4
  <2>5. Counted' BY <2>3, <2>4 DEF Counted
  <2>6. QED BY <1>1, <1>2, <1>4, <1>5, <2>1, <2>2, <2>5 DEF TypeOK

(* While nothing is edited back, a start comes after every change.         *)
LEMMA ForwardStep ==
  ASSUME TypeOK, Counted, OnlyForward(scenario), ForwardInv, [Next]_vars
  PROVE  ForwardInv'
<1> DEFINE Behind == /\ accepted <= read /\ pending <= read /\ startedPrint <= read
                     /\ \A p \in before : p <= read
           OnItsWay == disk # read => /\ modified
                                      /\ event \/ callback = At("compare", disk)
<1>0. /\ disk = newest /\ newest \in Nat /\ read \in 0 .. newest
      /\ accepted \in 1 .. newest /\ pending \in 0 .. newest
      /\ startedPrint \in 0 .. newest /\ before \subseteq 1 .. newest
      /\ callback.print <= newest
  BY SuppressionAssumption DEF TypeOK, Counted, ForwardInv
<1>1. StartComes \/ (read # NoPrint /\ Behind /\ OnItsWay) BY DEF ForwardInv
<1>2. /\ TypeOK' /\ disk' = newest' BY TypeStep, EditStep, <1>0
      DEF Next, vars, world, Edit, Requeue, Fingerprint, Compare, Schedule, Take, Exit,
       FailToStart, Launch, RecordStarted
<1> SUFFICES ASSUME ~StartComes' PROVE (read # NoPrint /\ Behind /\ OnItsWay)'
  BY <1>2 DEF ForwardInv
<1>3. CASE FailToStart \/ Launch
  <2>1. read' = disk /\ disk' = disk /\ newest' = newest
    BY <1>3 DEF FailToStart, Launch, world
  <2>2. read' # NoPrint /\ OnItsWay' BY <2>1, <1>0, <1>2 DEF NoPrint, TypeOK
  <2>3. newest' = read' BY <2>1, <1>0
  <2>4. QED BY <1>2, <2>2, <2>3 DEF TypeOK
<1>4. CASE ~(FailToStart \/ Launch)
  <2>1. ~StartComes /\ UNCHANGED read
    BY <1>4 DEF Next, vars, StartComes, Edit, Requeue, Fingerprint, Compare, Schedule, Take,
       Exit, RecordStarted, At
  <2>2. read # NoPrint /\ Behind /\ OnItsWay BY <2>1, <1>1
  <2>3. CASE Edit
    BY <2>1, <2>2, <2>3, EditStep, <1>0 DEF Edit, prints
  <2>4. CASE Fingerprint
    <3>1. Behind' BY <2>1, <2>2, <2>4 DEF Fingerprint, prints
    <3>2. callback' = callback \/ callback' = At("compare", disk) \/ StartComes'
      BY <2>4 DEF Fingerprint, StartComes, At
    <3>3. UNCHANGED <<disk, read, modified>> BY <2>4 DEF Fingerprint, world
    <3>4. disk # read => callback' = At("compare", disk)
      BY <2>1, <2>2, <2>4, <3>2 DEF Fingerprint, At
    <3>5. QED BY <2>2, <3>1, <3>3, <3>4
  <2>5. CASE Compare
    <3>1. callback.print = accepted /\ UNCHANGED <<disk, read, modified, event, prints>>
      BY <2>5 DEF Compare, StartComes, At, world, prints
    <3>2. callback = At("compare", disk) => disk = read BY <3>1, <2>2, <1>0 DEF At
    <3>3. QED BY <2>2, <3>1, <3>2 DEF prints
  <2>6. CASE Exit
    <3>1. UNCHANGED <<disk, read, modified, event, callback>> BY <2>6 DEF Exit, world
    <3>2. /\ accepted' \in {accepted} \cup ({startedPrint} \ {NoPrint}) \cup before
          /\ startedPrint' = NoPrint /\ before' \subseteq before /\ pending' = pending
      BY <2>6, EndStep DEF Exit
    <3>3. Behind' BY <2>2, <3>1, <3>2, <1>0 DEF NoPrint
    <3>4. QED BY <2>2, <3>1, <3>3
  <2>7. CASE RecordStarted
    <3>1. UNCHANGED <<disk, read, modified, event, callback>> BY <2>7, StartStep
    <3>2. /\ accepted' \in {accepted, pending} /\ pending' \in {pending, NoPrint}
          /\ startedPrint' \in {startedPrint, pending}
          /\ before' \subseteq before \cup {accepted}
      BY <2>7, StartStep
    <3>3. Behind' BY <2>2, <3>1, <3>2, <1>0 DEF NoPrint
    <3>4. QED BY <2>2, <3>1, <3>3
  <2>8. CASE Requeue \/ Schedule \/ Take \/ UNCHANGED vars
    <3>1. UNCHANGED <<disk, read, modified, event, callback, prints>>
      BY <2>8, <2>1 DEF Requeue, Schedule, Take, vars, world, StartComes
    <3>2. QED BY <2>2, <3>1 DEF prints
  <2>9. QED BY <1>4, <2>3, <2>4, <2>5, <2>6, <2>7, <2>8 DEF Next
<1>5. QED BY <1>3, <1>4

(* What cannot happen to a task whose edits come one by one.               *)
LEMMA OneByOneEvents ==
  ASSUME OneByOne(scenario)
  PROVE  /\ "hurry" \notin May /\ "misread" \notin May /\ "requeue" \notin May
         /\ Continuous => "fail" \notin May
         /\ ~Continuous => "fast" \notin May
BY DEF OneByOne, May, Continuous

(* An edit of a task at rest, and its way to the queue.                    *)
LEMMA OneByOneWatch ==
  ASSUME TypeOK, OneByOne(scenario), OneByOneInv, UNCHANGED scenario,
         Edit \/ Fingerprint \/ Compare \/ Schedule
  PROVE  OneByOneInv'
<1> USE OneByOneEvents DEF OneByOneInv, Orderly, Starting, Settled, BuildInv, ServiceInv, NoPrint,
     Continuous
<1>1. CASE Edit BY <1>1, EditStep DEF Edit, prints
<1>2. CASE Fingerprint BY <1>2 DEF Fingerprint, At, prints, world
<1>3. CASE Compare BY <1>3 DEF Compare, At, prints, world
<1>4. CASE Schedule BY <1>4 DEF Schedule, At, prints, world
<1>5. QED BY <1>1, <1>2, <1>3, <1>4

(* A build from the queue to its end, or to a start that fails.            *)
LEMMA OneByOneBuild ==
  ASSUME TypeOK, OneByOne(scenario), OneByOneInv, UNCHANGED scenario, ~Continuous,
         Take \/ Launch \/ RecordStarted \/ Exit \/ FailToStart
  PROVE  OneByOneInv'
<1> USE OneByOneEvents DEF OneByOneInv, Orderly, Starting, Settled, BuildInv, NoPrint, Continuous
<1>1. CASE Take BY <1>1 DEF Take, prints, world
<1>2. CASE Launch BY <1>2 DEF Launch, prints, world
<1>3. CASE RecordStarted BY <1>3, StartStep
<1>4. CASE Exit
  <2>1. /\ alive /\ alive' = FALSE /\ starter = "none" /\ read = disk
        /\ ~queued /\ ~event /\ callback.at = "none"
    BY <1>4 DEF Exit, TypeOK
  <2>2. startedPrint' = NoPrint /\ before' = {} /\ accepted' = built'
    <3>1. CASE RecordSuccessful /\ built' = read
      <4>1. before = {} /\ (startedPrint = disk \/ (startedPrint = NoPrint /\ accepted = disk))
        BY <2>1
      <4>2. disk # NoPrint BY SuppressionAssumption DEF TypeOK
      <4>3. QED BY <3>1, <4>1, <4>2, <2>1 DEF RecordSuccessful
    <3>2. CASE RecordFailed /\ UNCHANGED built
      BY <3>2 DEF RecordFailed
    <3>3. QED BY <1>4, <3>1, <3>2 DEF Exit
  <2>3. UNCHANGED <<disk, read, event, callback, queued, starter>> BY <1>4 DEF Exit, world
  <2>4. QED BY <2>1, <2>2, <2>3
<1>5. CASE FailToStart BY <1>5 DEF FailToStart, RecordFailed, world
<1>6. QED BY <1>1, <1>2, <1>3, <1>4, <1>5

(* A service replaced by its next process.                                 *)
LEMMA OneByOneService ==
  ASSUME TypeOK, OneByOne(scenario), OneByOneInv, UNCHANGED scenario, Continuous,
         Take \/ Launch \/ RecordStarted \/ Exit \/ FailToStart
  PROVE  OneByOneInv'
<1> USE OneByOneEvents DEF OneByOneInv, Orderly, Starting, Settled, ServiceInv, NoPrint, Continuous
<1>1. CASE Take BY <1>1 DEF Take, prints, world
<1>2. CASE Launch BY <1>2 DEF Launch, prints, world
<1>3. CASE RecordStarted
  <2>1. read = disk /\ (pending = disk \/ (pending = NoPrint /\ disk = accepted)) BY <1>3, StartStep
  <2>2. accepted' = disk /\ startedPrint' \in {NoPrint, disk}
    <3>1. CASE pending = NoPrint
      <4>1. disk = accepted BY <3>1, <2>1 DEF TypeOK
      <4>2. QED BY <3>1, <4>1, <1>3, StartStep
    <3>2. CASE pending # NoPrint BY <3>2, <2>1, <1>3, StartStep
    <3>3. QED BY <3>1, <3>2
  <2>3. ~event /\ callback.at = "none" BY <1>3, StartStep DEF TypeOK
  <2>4. UNCHANGED <<disk, read, event, callback, queued>> /\ starter' = "none" BY <1>3, StartStep
  <2>5. ~queued BY <1>3, StartStep
  <2>6. QED BY <2>1, <2>2, <2>3, <2>4, <2>5
<1>4. CASE Exit BY <1>4 DEF Exit, RecordSuccessful, RecordFailed, world
<1>5. CASE FailToStart BY <1>5 DEF FailToStart
<1>6. QED BY <1>1, <1>2, <1>3, <1>4, <1>5

(* Every step of a task whose edits come one by one.                       *)
LEMMA OneByOneStep ==
  ASSUME TypeOK, OneByOne(scenario), OneByOneInv, [Next]_vars
  PROVE  OneByOneInv'
<1>1. CASE UNCHANGED vars
  BY <1>1 DEF vars, world, prints, OneByOneInv, Orderly, Starting, Settled, BuildInv, ServiceInv,
     Continuous
<1>2. CASE Next
  <2>1. ~Requeue BY OneByOneEvents DEF Requeue
  <2>2. QED BY <1>2, <2>1, OneByOneWatch, OneByOneBuild, OneByOneService DEF Next
<1>3. QED BY <1>1, <1>2

LEMMA Inductive == Spec => []IndInv
<1>1. Init => IndInv
  <2> SUFFICES ASSUME Init PROVE IndInv OBVIOUS
  <2>1. TypeOK /\ Counted
    <3>1. 1 \in 1 .. MaxEdits + 1 /\ 0 \in 0 .. MaxEdits /\ 0 \in Prints
      BY SuppressionAssumption DEF Prints
    <3>2. newest = 1 /\ edits = 0 /\ callback.print = 0 BY DEF Init, At, NoPrint
    <3>3. callback \in [at : {"none", "compare", "schedule"}, print : Prints]
      BY <3>1 DEF Init, At, NoPrint
    <3>4. {read, built, pending, startedPrint} \subseteq 0 .. newest /\ before \subseteq 1 .. newest
      BY DEF Init, NoPrint
    <3>5. /\ scenario \in Scenarios /\ disk = 1 /\ accepted = 1
          /\ {event, modified, queued, alive} \subseteq BOOLEAN
          /\ starter \in {"none", "launch", "record"}
      BY DEF Init
    <3>6. QED BY <3>1, <3>2, <3>3, <3>4, <3>5 DEF TypeOK, Counted
  <2>2. ForwardInv BY DEF Init, ForwardInv, StartComes
  <2>3. Orderly BY DEF Init, Orderly, Starting, NoPrint, At
  <2>4. BuildInv /\ ServiceInv BY DEF Init, BuildInv, ServiceInv, Settled, NoPrint, At
  <2>5. QED BY <2>1, <2>2, <2>3, <2>4 DEF IndInv, OneByOneInv
<1>2. IndInv /\ [Next]_vars => IndInv'
  <2> SUFFICES ASSUME IndInv, [Next]_vars PROVE IndInv' OBVIOUS
  <2>1. TypeOK' /\ Counted' BY TypeStep DEF IndInv
  <2>2. scenario' = scenario BY DEF Next, vars
  <2>3. OnlyForward(scenario) => ForwardInv' BY ForwardStep DEF IndInv
  <2>4. OneByOne(scenario) => OneByOneInv' BY OneByOneStep DEF IndInv
  <2>5. QED BY <2>1, <2>2, <2>3, <2>4 DEF IndInv, OnlyForward, OneByOne
<1>3. QED BY <1>1, <1>2, PTL DEF Spec

(***************************************************************************)
(* Fingerprints are of contents there have been, for any number of edits   *)
(* of any task (rebuild_suppression.go).                                   *)
(***************************************************************************)
THEOREM SuppressionTypeOK == Spec => []TypeOK
<1>1. IndInv => TypeOK BY DEF IndInv
<1>2. QED BY <1>1, Inductive, PTL

(***************************************************************************)
(* No change of a dependable task is missed: when nothing is left to       *)
(* deliver, to start or to finish, the last start was made on the inputs as*)
(* they are, or they are the ones of the last good build.                  *)
(***************************************************************************)
THEOREM NoChangeMissed == Spec => [](Dependable(scenario) => NoMissedRebuild)
<1>1. IndInv => (Dependable(scenario) => NoMissedRebuild)
  <2> SUFFICES ASSUME IndInv, Dependable(scenario), Settled, read # NoPrint
               PROVE  disk = read \/ (~Continuous /\ disk = built)
    BY DEF NoMissedRebuild
  <2>1. CASE OnlyForward(scenario)
    BY <2>1 DEF IndInv, ForwardInv, StartComes, Settled, At
  <2>2. CASE OneByOne(scenario)
    BY <2>2 DEF IndInv, OneByOneInv, ServiceInv, BuildInv
  <2>3. QED BY <2>1, <2>2 DEF Dependable
<1>2. QED BY <1>1, Inductive, PTL
=============================================================================
