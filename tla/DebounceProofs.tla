--------------------------- MODULE DebounceProofs ---------------------------
(***************************************************************************)
(* Proofs about the watcher's aggregator, for any files, tasks, debounces  *)
(* and bounds.  The invariant says of the one goroutine that will hand the *)
(* batch over that it sleeps long enough for every pending task, and of    *)
(* all others that they will find another changeId.                        *)
(***************************************************************************)
EXTENDS Debounce, TLAPS

Current(timer) == timer.id = changeId

LongEnough ==
  \A timer \in timers : Current(timer) =>
    \A t \in PendingTasks(aggregated) : last[t] + Wait[t] <= timer.due

Given == busy => aggregated # NoFile

IndInv == TypeOK /\ OneTimerIsLeft /\ LongEnough /\ Given

(* Merging a report keeps the types and leaves the batch with a change.    *)
LEMMA CollectedType ==
  ASSUME TypeOK, NEW f \in Files, NEW m \in Times
  PROVE  /\ Collected(f, m) \in [Files -> Times \cup {0}]
         /\ Collected(f, m)[f] # 0
         /\ \A g \in Files : g # f => Collected(f, m)[g] = aggregated[g]
<1> USE DebounceAssumption
<1>1. aggregated[f] \in Times \cup {0} BY DEF TypeOK
<1>2. Newer(m, aggregated[f]) \in Times BY <1>1 DEF Newer
<1>3. QED BY <1>2 DEF TypeOK, Collected

(* A change adds one timer, and it becomes the current one.                *)
LEMMA NotePreserves ==
  ASSUME IndInv, NEW f \in Files, NEW m \in Times, Note(f, m)
  PROVE  IndInv'
<1> USE DebounceAssumption
<1> DEFINE tasks == PendingTasks(Collected(f, m))
<1>1. PICK d \in {Wait[t] : t \in tasks} :
        /\ LongestWait(d, tasks)
        /\ timers' = timers \cup {[id |-> changeId + 1, due |-> now + d]}
  BY DEF Note, Collect
<1>2. tasks \subseteq Tasks BY DEF PendingTasks
<1>3. d \in Nat BY <1>2
<1> DEFINE new == [id |-> changeId + 1, due |-> now + d]
<1>4. /\ aggregated' = Collected(f, m) /\ changeId' = changeId + 1
      /\ last' = [t \in Tasks |-> IF t \in TasksOf[f] THEN now ELSE last[t]]
      /\ now' = now /\ busy' = busy /\ given' = given /\ ~busy
  BY DEF Note, Collect
<1>5. TypeOK'
  <2>1. aggregated' \in [Files -> Times \cup {0}] BY <1>4, CollectedType DEF IndInv
  <2>2. timers' \subseteq [id : 1 .. changeId', due : Nat]
    <3>1. \A x \in timers : x \in [id : 1 .. changeId + 1, due : Nat]
      BY DEF IndInv, TypeOK
    <3>2. new \in [id : 1 .. changeId + 1, due : Nat] BY <1>3 DEF IndInv, TypeOK
    <3>3. QED BY <1>1, <1>4, <3>1, <3>2
  <2>3. last' \in [Tasks -> 0 .. now'] BY <1>4 DEF IndInv, TypeOK
  <2>4. QED BY <1>4, <2>1, <2>2, <2>3 DEF IndInv, TypeOK
<1>6. \A x \in timers : x.id # changeId' BY <1>4 DEF IndInv, TypeOK
<1>7. aggregated' # NoFile BY <1>4, CollectedType DEF IndInv, NoFile
<1>8. OneTimerIsLeft'
  <2>1. new \in {timer \in timers' : timer.id = changeId'} BY <1>1, <1>4
  <2>2. ASSUME NEW x \in timers', NEW y \in timers', x.id = y.id PROVE x = y
    BY <1>1, <1>4, <1>6, <2>2 DEF IndInv, OneTimerIsLeft
  <2>3. QED BY <1>4, <1>7, <2>1, <2>2 DEF OneTimerIsLeft
<1>9. LongEnough'
  <2>1. ASSUME NEW timer \in timers', Current(timer)', NEW t \in PendingTasks(aggregated)'
        PROVE  last'[t] + Wait[t] <= timer.due
    <3>1. timer = new BY <1>1, <1>6, <2>1 DEF Current
    <3>2. t \in tasks BY <1>4 DEF PendingTasks
    <3>3. Wait[t] <= d BY <1>1, <3>2 DEF LongestWait
    <3>4. last'[t] <= now /\ last'[t] \in Nat BY <1>2, <1>5, <1>4, <3>2 DEF TypeOK, IndInv
    <3>5. Wait[t] \in Nat BY <1>2, <3>2
    <3>6. now \in Nat BY DEF IndInv, TypeOK
    <3>7. QED BY <1>3, <3>1, <3>3, <3>4, <3>5, <3>6
  <2>2. QED BY <2>1 DEF LongEnough
<1>10. QED BY <1>4, <1>5, <1>8, <1>9 DEF IndInv, Given

(* The current timer finds a batch; no other touches it.                   *)
LEMMA StepPreserves ==
  ASSUME IndInv, [Next]_vars
  PROVE  IndInv'
<1> USE DebounceAssumption
<1>1. ASSUME NEW f \in Files, NEW m \in Times, Note(f, m) PROVE IndInv'
  BY <1>1, NotePreserves
<1>2. ASSUME NEW timer \in timers, Discard(timer) PROVE IndInv'
  <2> USE <1>2 DEF Discard
  <2>1. TypeOK' BY DEF IndInv, TypeOK
  <2>2. OneTimerIsLeft'
    <3>1. {x \in timers' : x.id = changeId'} = {x \in timers : x.id = changeId} OBVIOUS
    <3>2. QED BY <3>1 DEF IndInv, OneTimerIsLeft
  <2>3. LongEnough' BY DEF IndInv, LongEnough, Current, PendingTasks
  <2>4. QED BY <2>1, <2>2, <2>3 DEF IndInv, Given
<1>3. ASSUME NEW timer \in timers, Propagate(timer) PROVE IndInv'
  <2> USE <1>3 DEF Propagate, Awake
  <2>1. TypeOK' BY DEF IndInv, TypeOK
  <2>2. aggregated # NoFile BY DEF IndInv, OneTimerIsLeft
  <2>3. \A x \in timers' : x.id # changeId BY DEF IndInv, OneTimerIsLeft
  <2>4. OneTimerIsLeft' BY <2>3 DEF IndInv, OneTimerIsLeft
  <2>5. LongEnough' BY <2>3 DEF LongEnough, Current
  <2>6. QED BY <2>1, <2>2, <2>4, <2>5 DEF IndInv, Given
<1>4. CASE Propagated
  <2> USE <1>4 DEF Propagated
  <2>1. NoFile \in [Files -> Times \cup {0}] BY DEF NoFile
  <2>2. TypeOK' BY <2>1 DEF IndInv, TypeOK
  <2>3. \A x \in timers' : x.id # changeId' BY DEF IndInv, OneTimerIsLeft
  <2>4. OneTimerIsLeft' BY <2>3 DEF IndInv, OneTimerIsLeft
  <2>5. LongEnough' BY <2>3 DEF LongEnough, Current
  <2>6. QED BY <2>2, <2>4, <2>5 DEF IndInv, Given
<1>5. CASE Tick
  BY <1>5 DEF Tick, IndInv, TypeOK, OneTimerIsLeft, LongEnough, Current, Given, PendingTasks
<1>6. CASE UNCHANGED vars
  BY <1>6 DEF vars, IndInv, TypeOK, OneTimerIsLeft, LongEnough, Current, Given, PendingTasks
<1>7. QED BY <1>1, <1>2, <1>3, <1>4, <1>5, <1>6 DEF Next

(* The inductive invariant holds.                                          *)
THEOREM IndInvHolds == Spec => []IndInv
<1>1. Init => IndInv
  <2> SUFFICES ASSUME Init PROVE IndInv OBVIOUS
  <2> USE DebounceAssumption DEF Init
  <2>1. NoFile \in [Files -> Times \cup {0}] BY DEF NoFile
  <2>2. TypeOK
    <3>1. last \in [Tasks -> 0 .. now] OBVIOUS
    <3>2. timers \subseteq [id : 1 .. changeId, due : Nat] OBVIOUS
    <3>3. QED BY <2>1, <3>1, <3>2 DEF TypeOK
  <2>3. OneTimerIsLeft BY DEF OneTimerIsLeft
  <2>4. LongEnough /\ Given BY DEF LongEnough, Given
  <2>5. QED BY <2>2, <2>3, <2>4 DEF IndInv
<1>2. IndInv /\ [Next]_vars => IndInv' BY StepPreserves
<1>3. QED BY <1>1, <1>2, PTL DEF Spec

(* There is always exactly one goroutine left that hands the batch over.   *)
THEOREM TimerIsLeft == Spec => []OneTimerIsLeft
<1>1. IndInv => OneTimerIsLeft BY DEF IndInv
<1>2. QED BY <1>1, IndInvHolds, PTL

(* A batch is handed over only when all its tasks have been quiet for as   *)
(* long as each of them asks.                                              *)
THEOREM QuietPeriodHolds == Spec => QuietPeriod
<1>1. IndInv /\ [Next]_vars => [~busy /\ busy' => Quiet]_vars
  <2> SUFFICES ASSUME IndInv, [Next]_vars, ~busy, busy' PROVE Quiet
    BY DEF vars
  <2>1. PICK timer \in timers : Propagate(timer)
    BY DEF Next, vars, Note, Collect, Discard, Propagated, Tick
  <2>2. ASSUME NEW t \in PendingTasks(aggregated) PROVE last[t] + Wait[t] <= now
    <3>1. timer.due <= now /\ Current(timer) BY <2>1 DEF Propagate, Awake, Current
    <3>2. last[t] + Wait[t] <= timer.due BY <3>1 DEF IndInv, LongEnough
    <3>3. t \in Tasks BY DebounceAssumption DEF PendingTasks
    <3>4. last[t] \in Nat /\ Wait[t] \in Nat /\ now \in Nat /\ timer.due \in Nat
      BY <3>3, DebounceAssumption DEF IndInv, TypeOK
    <3>5. QED BY <3>1, <3>2, <3>4
  <2>3. QED BY <2>2 DEF Quiet
<1>2. QED BY <1>1, IndInvHolds, PTL DEF Spec, QuietPeriod

(* The aggregator implements the change feed: locks, timers and abandoned  *)
(* goroutines neither lose nor repeat a change.                            *)
THEOREM ImplementsFeed == Spec => FeedSpec
<1> DEFINE seen == IF busy THEN NoFile ELSE aggregated
<1>1. Init => Feed!Init
  BY DEF Init, Feed!Init, Feed!Nothing, NoFile
<1>2. IndInv /\ [Next]_vars => [Feed!Next]_Feed!feedVars
  <2> SUFFICES ASSUME IndInv, [Next]_vars PROVE [Feed!Next]_Feed!feedVars
    OBVIOUS
  <2>1. ASSUME NEW f \in Files, NEW m \in Times, Note(f, m) PROVE Feed!Next
    <3>1. Feed!Report(f, m)
      BY <2>1 DEF Feed!Report, Note, Collect, Collected, Feed!Newer, Newer
    <3>2. QED BY <3>1 DEF Feed!Next
  <2>2. ASSUME NEW timer \in timers, Propagate(timer) PROVE Feed!Next
    <3>1. aggregated # NoFile /\ ~busy
      BY <2>2 DEF Propagate, Awake, IndInv, OneTimerIsLeft
    <3>2. Feed!HandOver
      BY <2>2, <3>1 DEF Feed!HandOver, Propagate, Feed!Nothing, NoFile
    <3>3. QED BY <3>2 DEF Feed!Next
  <2>3. ASSUME NEW timer \in timers, Discard(timer) PROVE UNCHANGED Feed!feedVars
    BY <2>3 DEF Discard, Feed!feedVars
  <2>4. CASE Propagated BY <2>4 DEF Propagated, Feed!feedVars
  <2>5. CASE Tick BY <2>5 DEF Tick, Feed!feedVars
  <2>6. CASE UNCHANGED vars BY <2>6 DEF vars, Feed!feedVars
  <2>7. QED BY <2>1, <2>2, <2>3, <2>4, <2>5, <2>6 DEF Next
<1>3. QED BY <1>1, <1>2, IndInvHolds, PTL DEF Spec, FeedSpec, Feed!Spec
=============================================================================
