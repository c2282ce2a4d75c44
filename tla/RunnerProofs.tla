---------------------------- MODULE RunnerProofs ----------------------------
(***************************************************************************)
(* Without failures no wakeup is lost, whatever the tasks, dependencies,   *)
(* consumed services and bounds.                                           *)
(*                                                                         *)
(* The argument.  A queued task can become startable only because an       *)
(* entry left RunningTasks, exports appeared or the queue changed.  The    *)
(* actor of each such step is still going to look at the queue: it is on   *)
(* its way to the loop after a success, or it is inside startScheduledTask *)
(* and goes back to the loop.  The only actor that stops looking is the    *)
(* one that just found every queued task blocked.  What has to be carried  *)
(* along is where sel is set, and that no actor is on the error path.      *)
(***************************************************************************)
EXTENDS Main, RunnerReadiness, TLAPS, FiniteSetTheorems, SequenceTheorems

(* Inside startScheduledTask a task is selected.                           *)
Inside == {"begin", "await", "unlist", "unlisting", "prepare", "launch",
           "register", "announce", "prune"}

Shape ==
  /\ queue \subseteq Tasks /\ stale \subseteq Tasks
  /\ pc \in [Actors -> Labels]
  /\ sel \in [Actors -> Tasks \cup {NoTask}]
  /\ errored \in [Actors -> BOOLEAN]

SelectedInside == \A a \in Actors : pc[a] \in Inside => sel[a] # NoTask

NoErrors == \A a \in Actors : ~errored[a]

Undisturbed == Shape /\ SelectedInside /\ NoErrors

WakeupInv == Undisturbed /\ NoLostWakeup

LEMMA InitWakeup == Init => WakeupInv
  <1> SUFFICES ASSUME Init PROVE WakeupInv
    OBVIOUS
  <1>1. Shape
    BY DEF Init, Shape, Labels
  <1>2. SelectedInside
    BY DEF Init, SelectedInside, Inside
  <1>3. NoErrors /\ NoLostWakeup
    BY DEF Init, NoErrors, NoLostWakeup
  <1>4. QED BY <1>1, <1>2, <1>3 DEF WakeupInv, Undisturbed

(* The starter and the watcher are actors, and so is every instance.       *)
LEMMA ActorsKnown == starter \in Actors /\ watcher \in Actors /\ Instances \subseteq Actors
  BY DEF Actors

(* While a removal is under way the current list is still one of the views *)
(* a reader may have, so what no view blocks the list does not block.      *)
LEMMA CurrentView == running \in Views
  BY DEF Views

LEMMA StepShape ==
  ASSUME MayFail = {}, Undisturbed, [Next]_vars
  PROVE  Undisturbed'
  <1> SUFFICES Shape' /\ SelectedInside' /\ NoErrors' BY DEF Undisturbed
  <1> USE ActorsKnown, RunnerAssumption DEF Undisturbed, Shape, SelectedInside, NoErrors, Labels, Inside, Goto, Set
  <1>1. CASE ScheduleAll
    BY <1>1 DEF ScheduleAll, locals
  <1>2. CASE FileChange
    BY <1>2 DEF FileChange, locals
  <1>3. ASSUME NEW t \in Watched, Modify(t) PROVE Shape' /\ SelectedInside' /\ NoErrors'
    BY <1>3 DEF Modify, locals
  <1>4. ASSUME NEW i \in Instances, Exit(i) PROVE Shape' /\ SelectedInside' /\ NoErrors'
    BY <1>4 DEF Exit, data
  <1>5. ASSUME NEW a \in Actors, Step(a) PROVE Shape' /\ SelectedInside' /\ NoErrors'
    <2>1. CASE Select(a)
      BY <2>1 DEF Select
    <2>2. CASE LeaveLoop(a)
      BY <2>2 DEF LeaveLoop, AfterLoop, data, locals
    <2>3. CASE CancelPrevious(a)
      BY <2>3 DEF CancelPrevious
    <2>4. CASE NoPrevious(a)
      BY <2>4 DEF NoPrevious, data, locals
    <2>5. CASE AwaitPrevious(a)
      BY <2>5 DEF AwaitPrevious, data
    <2>6. CASE Prepare(a)
      BY <2>6 DEF Prepare
    <2>7. CASE FailToStart(a)
      BY <2>7 DEF FailToStart, data, locals
    <2>8. CASE Launch(a)
      BY <2>8 DEF Launch
    <2>9. CASE Register(a)
      BY <2>9 DEF Register
    <2>10. CASE Announce(a)
      BY <2>10 DEF Announce, RestartedBy
    <2>11. CASE BeginRemove(a)
      BY <2>11 DEF BeginRemove, locals
    <2>12. CASE EndRemove(a)
      BY <2>12 DEF EndRemove, Removed
    <2>13. CASE NothingToRemove(a)
      BY <2>13 DEF NothingToRemove, Removed, data
    <2>14. CASE Release(a)
      BY <2>14 DEF Release, Failed, locals
    <2>15. CASE Prune(a)
      BY <2>15 DEF Prune, Return, locals
    <2>16. CASE CountRunning(a)
      BY <2>16 DEF CountRunning, data
    <2>17. CASE CheckCompletion(a)
      BY <2>17 DEF CheckCompletion, Return
    <2>18. CASE SignalCompletion(a)
      BY <2>18 DEF SignalCompletion, Return
    <2>19. QED BY <1>5, <2>1, <2>2, <2>3, <2>4, <2>5, <2>6, <2>7, <2>8, <2>9, <2>10, <2>11,
             <2>12, <2>13, <2>14, <2>15, <2>16, <2>17, <2>18 DEF Step
  <1>6. CASE UNCHANGED vars
    BY <1>6 DEF vars, data, locals
  <1>7. QED BY <1>1, <1>2, <1>3, <1>4, <1>5, <1>6 DEF Next

(* What an actor that goes on looking makes of the property.               *)
LEMMA LookingSuffices ==
  ASSUME NEW a \in Actors, WillLook(a)'
  PROVE  NoLostWakeup'
  BY DEF NoLostWakeup

(* An actor whose own counters did not change looks as before.             *)
LEMMA SameLook ==
  ASSUME NEW a \in Actors, pc'[a] = pc[a], sel'[a] = sel[a], errored'[a] = errored[a]
  PROVE  WillLook(a)' <=> WillLook(a)
  BY DEF WillLook

(* The property survives a step after which nothing new is startable and   *)
(* every actor that was going to look still is.                            *)
LEMMA NothingStartable ==
  ASSUME NoLostWakeup,
         \A t \in Tasks : MayBlock(t) => MayBlock(t)',
         queue \subseteq Tasks, queue' \subseteq queue,
         \A a \in Actors : WillLook(a) => WillLook(a)'
  PROVE  NoLostWakeup'
  BY DEF NoLostWakeup

(* Blocking depends on the queue, the list, the shift and the exports.     *)
LEMMA SameBlock ==
  ASSUME UNCHANGED <<queue, running, shift, exported>>
  PROVE  \A t \in Tasks : MayBlock(t) <=> MayBlock(t)'
  BY DEF MayBlock, MaySeeRunning, Views, TasksIn, Unlocked, Without

(* Nothing that blocks or admits a task has changed, and who was going to  *)
(* look still is.                                                          *)
Uneventful ==
  /\ UNCHANGED <<queue, running, shift, exported>>
  /\ \A a \in Actors : WillLook(a) => WillLook(a)'

(* Outside the loop an actor's step either changes nothing that matters or *)
(* leaves the actor on its way to the loop.                                *)
LEMMA StepLooks ==
  ASSUME MayFail = {}, Undisturbed, NEW a \in Actors, Step(a), pc[a] # "loop"
  PROVE  WillLook(a)' \/ Uneventful
  <1> USE ActorsKnown DEF Undisturbed, Shape, Goto, Set, Uneventful
  <1>1. CASE \/ CancelPrevious(a) \/ NoPrevious(a) \/ AwaitPrevious(a)
            \/ Prepare(a) \/ FailToStart(a) \/ Launch(a) \/ Register(a)
    <2>1. pc[a] \in Inside /\ sel' = sel
      BY <1>1 DEF CancelPrevious, NoPrevious, AwaitPrevious, Prepare, FailToStart,
           Launch, Register, Inside, locals
    <2>2. sel'[a] # NoTask
      BY <2>1 DEF SelectedInside
    <2>3. QED BY <2>2 DEF WillLook
  <1>2. CASE Announce(a)
    BY <1>2 DEF Announce, WillLook
  <1>3. CASE BeginRemove(a) \/ EndRemove(a) \/ NothingToRemove(a)
    BY <1>3 DEF BeginRemove, EndRemove, NothingToRemove, Removed, WillLook,
         NoErrors, SelectedInside, Inside, locals
  <1>4. CASE Release(a)
    BY <1>4 DEF Release, Failed, WillLook, NoErrors, locals
  <1>5. CASE Prune(a)
    BY <1>5 DEF Prune, Return, WillLook, SelectedInside, Inside, locals
  <1>6. CASE CountRunning(a)
    BY <1>6 DEF CountRunning, WillLook, data
  <1>7. CASE CheckCompletion(a) \/ SignalCompletion(a)
    <2>1. UNCHANGED <<queue, running, shift, exported>>
      BY <1>7 DEF CheckCompletion, SignalCompletion
    <2>2. ~WillLook(a) \/ WillLook(a)'
      BY <1>7 DEF CheckCompletion, SignalCompletion, Return, WillLook
    <2>3. \A b \in Actors \ {a} : pc'[b] = pc[b] /\ sel'[b] = sel[b] /\ errored'[b] = errored[b]
      BY <1>7 DEF CheckCompletion, SignalCompletion, Return
    <2>4. \A b \in Actors : WillLook(b) => WillLook(b)'
      BY <2>2, <2>3, SameLook
    <2>5. QED BY <2>1, <2>4
  <1>8. QED
    BY <1>1, <1>2, <1>3, <1>4, <1>5, <1>6, <1>7 DEF Step, Select, LeaveLoop

LEMMA StepWakeup ==
  ASSUME MayFail = {}, WakeupInv, [Next]_vars
  PROVE  NoLostWakeup'
  <1> USE ActorsKnown DEF WakeupInv, Undisturbed, Shape, Goto, Set
  <1>0. ASSUME Uneventful PROVE NoLostWakeup'
    BY <1>0, SameBlock, NothingStartable DEF Uneventful
  <1>1. CASE ScheduleAll
    <2>1. WillLook(starter)'
      BY <1>1 DEF ScheduleAll, WillLook
    <2>2. QED BY <2>1, LookingSuffices
  <1>2. CASE FileChange
    <2>1. CASE events \cap stale = {}
      <3>1. Uneventful
        BY <1>2, <2>1 DEF Uneventful, FileChange, WillLook, locals
      <3>2. QED BY <3>1, <1>0
    <2>2. CASE events \cap stale # {}
      <3>1. WillLook(watcher)'
        BY <1>2, <2>2 DEF FileChange, WillLook
      <3>2. QED BY <3>1, LookingSuffices
    <2>3. QED BY <2>1, <2>2
  <1>3. ASSUME NEW t \in Watched, Modify(t) PROVE NoLostWakeup'
    <2>1. Uneventful
      BY <1>3 DEF Uneventful, Modify, WillLook, locals
    <2>2. QED BY <2>1, <1>0
  <1>4. ASSUME NEW i \in Instances, Exit(i) PROVE NoLostWakeup'
    <2>1. WillLook(i)'
      BY <1>4, RunnerAssumption DEF Exit, WillLook
    <2>2. QED BY <2>1, LookingSuffices
  <1>5. ASSUME NEW a \in Actors, Step(a) PROVE NoLostWakeup'
    <2>1. CASE Select(a)
      <3>1. sel'[a] # NoTask
        BY <2>1, RunnerAssumption DEF Select
      <3>2. QED BY <3>1, LookingSuffices DEF WillLook
    <2>2. CASE LeaveLoop(a)
      <3>1. \A t \in queue : MayBlock(t)
        BY <2>2 DEF LeaveLoop
      <3>2. UNCHANGED <<queue, running, shift, exported>>
        BY <2>2 DEF LeaveLoop, data
      <3>3. \A t \in queue' : MayBlock(t)'
        BY <3>1, <3>2, SameBlock
      <3>4. QED BY <3>3 DEF NoLostWakeup
    <2>3. CASE pc[a] # "loop"
      BY <1>5, <2>3, <1>0, StepLooks, LookingSuffices
    <2>4. CASE pc[a] = "loop"
      BY <1>5, <2>1, <2>2, <2>4 DEF Step, CancelPrevious, NoPrevious, AwaitPrevious, Prepare,
         FailToStart, Launch, Register, Announce, BeginRemove, EndRemove, NothingToRemove,
         Release, Prune, CountRunning, CheckCompletion, SignalCompletion
    <2>5. QED BY <2>3, <2>4
  <1>6. CASE UNCHANGED vars
    <2>1. Uneventful
      BY <1>6 DEF Uneventful, vars, data, locals, WillLook
    <2>2. QED BY <2>1, <1>0
  <1>7. QED BY <1>1, <1>2, <1>3, <1>4, <1>5, <1>6 DEF Next

(* When no task fails, a startable task never waits with nobody left to    *)
(* start it.                                                               *)
THEOREM NoWakeupLost ==
  ASSUME MayFail = {}
  PROVE  Spec => []NoLostWakeup
  <1>1. Init => WakeupInv
    BY InitWakeup
  <1>2. WakeupInv /\ [Next]_vars => WakeupInv'
    BY StepShape, StepWakeup DEF WakeupInv
  <1>3. WakeupInv => NoLostWakeup
    BY DEF WakeupInv
  <1>4. QED BY <1>1, <1>2, <1>3, PTL DEF Spec

-----------------------------------------------------------------------------
(***************************************************************************)
(* Main: who interrupts asynk early sees no task started.  The argument    *)
(* follows the signal from the channel through its goroutine, or the last  *)
(* look of stopAcquireSignals, to the context that main looks at before it *)
(* starts the runner.                                                      *)
(***************************************************************************)
Waiting == {"acquire", "monitor", "unregister"}

Caught == 1 \in pending \/ listener[1] = "received" \/ 1 \in ctxDone

NothingBegun == ~begun => \A t \in Tasks : launched[t] = 0

EarlyInv ==
  /\ listener \in [Channels -> {"none", "select", "received", "done"}]
  /\ notified = 1 => main \in Waiting \cup {"exited"}
  /\ main \in Waiting \cup {"drain", "close", "check", "register", "start"} => ~begun
  /\ NothingBegun
  /\ early =>
       /\ ~begun
       /\ main \in Waiting \cup {"drain"} => Caught
       /\ main \in {"close", "check"} => listener[1] = "received" \/ 1 \in ctxDone
       /\ main \in {"register", "start", "wait", "stop"} => watchDone

LEMMA EarlyInit == MainInit => EarlyInv
  BY DEF MainInit, StopInit, Init, EarlyInv, Caught, NothingBegun, Channels, Waiting

(* The goroutines of the signals and the ways to a shutdown.               *)
LEMMA EarlySignals ==
  ASSUME EarlyInv,
         \/ Signal \/ ShutdownRequest \/ Relay
         \/ \E c \in Channels : Receive(c) \/ CancelContext(c) \/ Dismiss(c)
  PROVE  EarlyInv'
  <1> USE DEF EarlyInv, Caught, Waiting, Channels, Alive, allVars, vars, data, signalVars
  <1>1. UNCHANGED <<begun, launched>>
    BY DEF Signal, ShutdownRequest, Relay, Receive, CancelContext, Dismiss
  <1>2. NothingBegun'
    BY <1>1 DEF NothingBegun
  <1>3. CASE Signal
    <2>1. CASE notified = 1
      BY <1>2, <1>3, <2>1 DEF Signal
    <2>2. CASE notified # 1
      <3>1. (early' => early) /\ notified' = notified /\ pending \subseteq pending' /\ main' \in {main, "killed"}
            /\ UNCHANGED <<watchDone, listener, ctxDone, begun>>
        BY <1>3, <2>2 DEF Signal
      <3>2. QED BY <1>2, <2>2, <3>1
    <2>3. QED BY <2>1, <2>2
  <1>4. CASE ShutdownRequest \/ Relay
    BY <1>2, <1>4 DEF ShutdownRequest, Relay
  <1>5. ASSUME NEW c \in Channels, Receive(c) PROVE EarlyInv'
    BY <1>2, <1>5 DEF Receive
  <1>6. ASSUME NEW c \in Channels, CancelContext(c) PROVE EarlyInv'
    BY <1>2, <1>6 DEF CancelContext
  <1>7. ASSUME NEW c \in Channels, Dismiss(c) PROVE EarlyInv'
    BY <1>2, <1>7 DEF Dismiss
  <1>8. QED BY <1>3, <1>4, <1>5, <1>6, <1>7

(* main itself.                                                            *)
LEMMA EarlyMain ==
  ASSUME Prompt, EarlyInv, MainStep
  PROVE  EarlyInv'
  <1> USE DEF EarlyInv, Caught, Waiting, Channels, Go, allVars, vars, data, signalVars
  <1>1. UNCHANGED launched
    BY DEF MainStep, Acquire, FailToAcquire, StartMonitor, Unregister, Drain, Close,
         CheckAcquireContext, Register2, StartRunner, BeginStop, Shutdown, Finish
  <1>2. CASE Acquire \/ FailToAcquire \/ StartMonitor
    BY <1>1, <1>2 DEF Acquire, FailToAcquire, StartMonitor, NothingBegun
  <1>3. CASE Unregister
    BY <1>1, <1>3 DEF Unregister, NothingBegun
  <1>4. CASE Drain
    BY <1>1, <1>4 DEF Drain, NothingBegun
  <1>5. CASE Close
    BY <1>1, <1>5 DEF Close, NothingBegun
  <1>6. CASE CheckAcquireContext
    BY <1>1, <1>6 DEF CheckAcquireContext, NothingBegun
  <1>7. CASE Register2
    BY <1>1, <1>7 DEF Register2, NothingBegun
  <1>8. CASE StartRunner
    BY <1>1, <1>8 DEF StartRunner, NothingBegun
  <1>9. CASE BeginStop \/ Finish
    BY <1>1, <1>9 DEF BeginStop, Finish, NothingBegun
  <1>10. QED BY <1>2, <1>3, <1>4, <1>5, <1>6, <1>7, <1>8, <1>9 DEF MainStep

(* The runner takes steps only when it was begun, and Stop starts nothing. *)
LEMMA EarlyOthers ==
  ASSUME EarlyInv, RunnerStep \/ StopStep \/ UNCHANGED everything
  PROVE  EarlyInv'
  <1>1. UNCHANGED mainVars
    BY DEF RunnerStep, StopStep, everything
  <1>2. begun \/ UNCHANGED launched
    BY DEF RunnerStep, StopStep, everything, SignalNext, AllSignalled, WaitNext, Waited,
         AllWaited, allVars, vars, data
  <1>3. QED
    BY <1>1, <1>2 DEF EarlyInv, NothingBegun, Caught, mainVars, signalVars

(***************************************************************************)
(* main.go:88: a signal that was caught while main waited for the lock     *)
(* keeps every task from being started, when the goroutine that received   *)
(* it cancels the context before main looks at it.                         *)
(***************************************************************************)
THEOREM EarlySignalObeyed ==
  ASSUME Prompt
  PROVE  MainSpec => []EarlySignalStartsNothing
  <1>1. EarlyInv /\ [MainNext]_everything => EarlyInv'
    BY EarlySignals, EarlyMain, EarlyOthers DEF MainNext
  <1>2. EarlyInv => EarlySignalStartsNothing
    BY DEF EarlyInv, NothingBegun, EarlySignalStartsNothing
  <1>3. QED BY EarlyInit, <1>1, <1>2, PTL DEF MainSpec

-----------------------------------------------------------------------------
(***************************************************************************)
(* Readiness: it is that of a live process.  A provider is marked ready by *)
(* a poller that was answered, and the generation of its answer ends with  *)
(* the process that gave it: until then a process runs, or the goroutine   *)
(* of one that has ended is on its way to cancelReadinessPoller.           *)
(***************************************************************************)
Generations == SUBSET (ReadinessTasks \X Nat)
Starting == {"begin", "await", "unlist", "unlisting", "prepare", "launch"}

ControlShape ==
  /\ queue \subseteq Tasks /\ stale \subseteq Tasks
  /\ pc \in [Actors -> Labels]
  /\ sel \in [Actors -> Tasks \cup {NoTask}]
  /\ launched \in [Tasks -> 0 .. MaxLaunches]
  /\ todo \in [Actors -> ReadinessTasks \cup {NoTask}]
  /\ toPoll \in [Actors -> ReadinessTasks \cup {NoTask}]
  /\ \A a \in Actors : pc[a] \in Starting => sel[a] # NoTask

Entries == [cause : Causes, gens : Generations]
Pollers == [task : ReadinessTasks, gen : Nat, cause : Causes, at : {"polling", "answered", "marked"}]

PollShape ==
  /\ generation \in [ReadinessTasks -> Nat] /\ ready \in [ReadinessTasks -> Nat]
  /\ entry \in [Tasks -> Entries] /\ hand \in [Actors -> Entries]
  /\ pollers \subseteq Pollers

(* A poller's generation is one its provider has or had.                   *)
NoFutureGeneration == \A q \in pollers : q.gen <= generation[q.task]

(* An instance is new until it is launched, and has nothing else to do     *)
(* until its process has ended.                                            *)
Fresh == \A t \in Tasks, k \in 1 .. MaxLaunches : k > launched[t] => pc[<<t, k>>] = "none"
OnlyRuns == \A i \in Instances : pc[i] \in {"none", "run"} => sel[i] = NoTask /\ todo[i] = NoTask

(* What speaks for p being ready, and what answers for it.                 *)
Claimed(p) ==
  \/ IsReady(p)
  \/ \E q \in pollers : q.task = p /\ q.gen = generation[p] /\ q.at = "answered"
Answers(a, p) ==
  \/ pc[a] = "run" /\ a \in {p} \X (1 .. MaxLaunches)
  \/ todo[a] = p
  \/ pc[a] \in {"finish", "finishing", "release"} /\ Subject(a) = p
Backed == \A p \in ReadinessTasks : Claimed(p) => \E a \in Actors : Answers(a, p)

LiveInv == ControlShape /\ PollShape /\ NoFutureGeneration /\ Fresh /\ OnlyRuns /\ Backed

(* ReadinessNext, with the steps that Runner has too told from its own.    *)
LEMMA ReadinessCases ==
  ASSUME [ReadinessNext]_readyVars
  PROVE  \/ ScheduleInitial \/ ScheduleChanged
         \/ \E t \in Watched : Modify(t) /\ UNCHANGED readinessVars
         \/ \E i \in Instances : Exit(i) /\ UNCHANGED readinessVars
         \/ \E a \in Actors : CancelPoller(a) \/ StartPolling(a)
         \/ \E a \in Actors :
              /\ todo[a] = NoTask /\ toPoll[a] = NoTask
              /\ \/ SelectReady(a) \/ LeaveLoopUnready(a) \/ CheckCurrent(a) \/ SkipStale(a)
                 \/ Begin(a) \/ AnnounceStart(a) \/ FailToPrepare(a)
                 \/ ReleaseAndCancel(a) \/ Other(a)
         \/ \E q \in pollers : Answer(q) \/ PollTimeout(q) \/ PollerStep(q)
         \/ UNCHANGED readyVars
  BY DEF ReadinessNext, ReadinessStep

(* The actors keep their types: the queue, their counters and tasks.       *)
LEMMA ControlStep ==
  ASSUME ControlShape, PollShape, [ReadinessNext]_readyVars
  PROVE  ControlShape'
  <1> USE ActorsKnown, RunnerAssumption, ReadinessAssumption
      DEF ControlShape, Starting, Goto, Set, Labels
  <1>1. CASE ScheduleInitial \/ ScheduleChanged
    BY <1>1 DEF ScheduleInitial, ScheduleChanged, ScheduleAll, FileChange, locals
  <1>2. ASSUME NEW t \in Watched, Modify(t), UNCHANGED readinessVars PROVE ControlShape'
    BY <1>2 DEF Modify, locals, readinessVars
  <1>3. ASSUME NEW i \in Instances, Exit(i), UNCHANGED readinessVars PROVE ControlShape'
    BY <1>3 DEF Exit, data, readinessVars
  <1>4. ASSUME NEW a \in Actors, CancelPoller(a) \/ StartPolling(a) PROVE ControlShape'
    BY <1>4 DEF CancelPoller, StartPolling, vars, data, locals
  <1>5. ASSUME NEW a \in Actors, SelectReady(a) \/ LeaveLoopUnready(a) PROVE ControlShape'
    <2>1. CASE SelectReady(a)
      <3>1. PICK t \in queue : sel' = Set(sel, a, t)
        BY <2>1 DEF SelectReady, Select
      <3>2. pc' = Set(pc, a, "begin") /\ UNCHANGED <<stale, launched, todo, toPoll>>
            /\ queue' \subseteq queue
        BY <2>1, <3>1 DEF SelectReady, Select
      <3>3. t \in Tasks
        BY <2>1, <3>1
      <3>4. QED BY <3>1, <3>2, <3>3
    <2>2. CASE LeaveLoopUnready(a)
      BY <2>2 DEF LeaveLoopUnready, AfterLoop, readinessVars, data, locals
    <2>3. QED BY <1>5, <2>1, <2>2
  <1>6. ASSUME NEW a \in Actors, CheckCurrent(a) \/ SkipStale(a) PROVE ControlShape'
    <2>1. CASE CheckCurrent(a)
      BY <2>1 DEF CheckCurrent, vars, data, locals
    <2>2. CASE SkipStale(a)
      BY <2>2 DEF SkipStale, data
    <2>3. QED BY <1>6, <2>1, <2>2
  <1>7. ASSUME NEW a \in Actors, Begin(a) PROVE ControlShape'
    BY <1>7 DEF Begin, CancelPrevious, NoPrevious, data, locals
  <1>8. ASSUME NEW a \in Actors, AnnounceStart(a) PROVE ControlShape'
    BY <1>8 DEF AnnounceStart, Announce, RestartedBy
  <1>9. ASSUME NEW a \in Actors, FailToPrepare(a) PROVE ControlShape'
    BY <1>9 DEF FailToPrepare, FailToStart, data, locals
  <1>10. ASSUME NEW a \in Actors, ReleaseAndCancel(a) PROVE ControlShape'
    BY <1>10 DEF ReleaseAndCancel, Release, locals
  <1>11. ASSUME NEW a \in Actors, Other(a) PROVE ControlShape'
    <2>1. UNCHANGED <<todo, toPoll>>
      BY <1>11 DEF Other, readinessVars
    <2>2. CASE AwaitPrevious(a) \/ Prepare(a)
      BY <2>1, <2>2 DEF AwaitPrevious, Prepare, data
    <2>3. CASE Launch(a)
      <3>1. launched' \in [Tasks -> 0 .. MaxLaunches]
        <4>1. launched' = [launched EXCEPT ![sel[a]] = @ + 1] /\ launched[sel[a]] < MaxLaunches
          BY <2>3 DEF Launch
        <4>2. CASE sel[a] \in Tasks
          <5>1. launched[sel[a]] + 1 \in 0 .. MaxLaunches BY <4>1, <4>2
          <5>2. QED BY <4>1, <5>1
        <4>3. CASE sel[a] \notin Tasks
          BY <4>1, <4>3
        <4>4. QED BY <4>2, <4>3
      <3>2. \E i : pc' = [pc EXCEPT ![a] = "register", ![i] = "run"]
        BY <2>3 DEF Launch
      <3>3. sel' = sel /\ queue' = queue /\ stale' \subseteq stale
        BY <2>3 DEF Launch
      <3>4. QED BY <2>1, <3>1, <3>2, <3>3
    <2>4. CASE Register(a) \/ BeginRemove(a) \/ EndRemove(a) \/ NothingToRemove(a)
      BY <2>1, <2>4 DEF Register, BeginRemove, EndRemove, NothingToRemove, Removed, data, locals
    <2>5. CASE Prune(a)
      <3>1. queue' \subseteq queue /\ UNCHANGED <<stale, launched>>
        BY <2>5 DEF Prune
      <3>2. CASE Once
        BY <2>1, <2>5, <3>1, <3>2 DEF Prune, locals
      <3>3. CASE ~Once
        BY <2>1, <2>5, <3>1, <3>3 DEF Prune, Return
      <3>4. QED BY <3>2, <3>3
    <2>6. CASE CountRunning(a) \/ CheckCompletion(a) \/ SignalCompletion(a)
      <3>1. CASE CountRunning(a)
        BY <2>1, <3>1 DEF CountRunning, data
      <3>2. CASE CheckCompletion(a)
        BY <2>1, <3>2 DEF CheckCompletion, Return
      <3>3. CASE SignalCompletion(a)
        BY <2>1, <3>3 DEF SignalCompletion, Return
      <3>4. QED BY <2>6, <3>1, <3>2, <3>3
    <2>7. QED BY <1>11, <2>2, <2>3, <2>4, <2>5, <2>6 DEF Other
  <1>12. ASSUME NEW q \in pollers, Answer(q) \/ PollTimeout(q) \/ PollerStep(q)
         PROVE  ControlShape'
    <2>1. CASE Answer(q) \/ PollTimeout(q) \/ MarkReadinessReady(q)
      BY <2>1 DEF Answer, PollTimeout, MarkReadinessReady, vars, data, locals
    <2>2. CASE ScheduleReadinessConsumers(q)
      BY <2>2 DEF ScheduleReadinessConsumers, ReadyConsumers, locals
    <2>3. QED BY <1>12, <2>1, <2>2 DEF PollerStep
  <1>13. CASE UNCHANGED readyVars
    BY <1>13 DEF readyVars, readinessVars, vars, data, locals
  <1>14. QED
    BY ReadinessCases, <1>1, <1>2, <1>3, <1>4, <1>5, <1>6, <1>7, <1>8, <1>9, <1>10, <1>11, <1>12, <1>13

(* A poller goes on to its next label.                                     *)
LEMMA AdvanceStep ==
  ASSUME PollShape, NoFutureGeneration, NEW q \in pollers,
         NEW l \in {"polling", "answered", "marked"}
  PROVE  /\ Advance(q, l) \subseteq Pollers
         /\ \A r \in Advance(q, l) : r.gen <= generation[r.task]
  <1>1. q \in Pollers
    BY DEF PollShape
  <1>2. [q EXCEPT !.at = l] \in Pollers /\ [q EXCEPT !.at = l].gen = q.gen
        /\ [q EXCEPT !.at = l].task = q.task
    BY <1>1 DEF Pollers
  <1>3. QED BY <1>2 DEF Advance, PollShape, NoFutureGeneration

(* The generation of one task ends and another may begin.                  *)
LEMMA NextGeneration ==
  ASSUME PollShape, NoFutureGeneration, NEW t \in ReadinessTasks,
         generation' = [generation EXCEPT ![t] = @ + 1], ready' = [ready EXCEPT ![t] = 0],
         \A q \in pollers' \ pollers : q \in Pollers /\ q.gen = generation'[q.task]
  PROVE  /\ generation' \in [ReadinessTasks -> Nat] /\ ready' \in [ReadinessTasks -> Nat]
         /\ \A p \in ReadinessTasks : generation[p] <= generation'[p]
         /\ pollers' \subseteq Pollers /\ NoFutureGeneration'
  <1>1. /\ generation' \in [ReadinessTasks -> Nat] /\ ready' \in [ReadinessTasks -> Nat]
        /\ \A p \in ReadinessTasks : generation[p] <= generation'[p]
    BY DEF PollShape
  <1>2. \A q \in pollers : q \in Pollers /\ q.task \in ReadinessTasks /\ q.gen \in Nat
    BY DEF PollShape, Pollers
  <1>3. \A q \in pollers' : q.gen <= generation'[q.task]
    <2> SUFFICES ASSUME NEW q \in pollers' PROVE q.gen <= generation'[q.task]
      OBVIOUS
    <2>1. CASE q \in pollers
      <3>1. q.gen <= generation[q.task] /\ generation[q.task] <= generation'[q.task]
        BY <2>1, <1>1, <1>2 DEF NoFutureGeneration
      <3>2. generation[q.task] \in Nat /\ generation'[q.task] \in Nat /\ q.gen \in Nat
        BY <2>1, <1>1, <1>2 DEF PollShape
      <3>3. QED BY <3>1, <3>2
    <2>2. CASE q \notin pollers
      <3>1. q \in Pollers /\ q.gen = generation'[q.task] BY <2>2
      <3>2. q.gen \in Nat BY <3>1 DEF Pollers
      <3>3. QED BY <3>1, <3>2
    <2>3. QED BY <2>1, <2>2
  <1>4. QED BY <1>1, <1>2, <1>3 DEF NoFutureGeneration

(* Entries, generations and pollers keep their types.                      *)
LEMMA PollStep ==
  ASSUME ControlShape, PollShape, NoFutureGeneration, [ReadinessNext]_readyVars
  PROVE  PollShape' /\ NoFutureGeneration'
  <1> USE ActorsKnown DEF Set
  <1> DEFINE Same == UNCHANGED <<generation, ready, pollers>>
             Entered == entry' \in [Tasks -> Entries]
             Handed == hand' \in [Actors -> Entries]
  <1>0. ASSUME Same, Entered, Handed PROVE PollShape' /\ NoFutureGeneration'
    BY <1>0 DEF PollShape, NoFutureGeneration
  <1>1. \A S, e : e \in Entries => Overwrite(S, e) \in [Tasks -> Entries]
    BY DEF Overwrite, PollShape
  <1>2. \A c \in Causes : Scheduled(c, {}) \in Entries
    BY DEF Scheduled, Entries, Generations
  <1>3. Unscheduled \in Entries
    BY <1>2 DEF Unscheduled, Causes
  <1>4. entry \in [Tasks -> Entries] /\ hand \in [Actors -> Entries]
    BY DEF PollShape
  <1>5. CASE ScheduleInitial
    BY <1>5, <1>0, <1>1, <1>3, <1>4 DEF ScheduleInitial
  <1>6. CASE ScheduleChanged
    <2>1. Same /\ Handed /\ \E c \in FileCauses : entry' = Overwrite(events \cap stale, Scheduled(c, {}))
      BY <1>6, <1>4 DEF ScheduleChanged
    <2>2. FileCauses \subseteq Causes
      BY ReadinessAssumption DEF Causes
    <2>3. QED BY <2>1, <2>2, <1>0, <1>1, <1>2
  <1>7. ASSUME NEW a \in Actors, CancelPoller(a) PROVE PollShape' /\ NoFutureGeneration'
    <2>1. Handed /\ Entered
      BY <1>7, <1>1, <1>3, <1>4 DEF CancelPoller
    <2>2. todo[a] \in ReadinessTasks
      BY <1>7 DEF CancelPoller, ControlShape
    <2>3. /\ generation' = [generation EXCEPT ![todo[a]] = @ + 1]
          /\ ready' = [ready EXCEPT ![todo[a]] = 0] /\ pollers' \subseteq pollers
      BY <1>7 DEF CancelPoller
    <2>4. QED BY <2>1, <2>2, <2>3, NextGeneration DEF PollShape
  <1>8. ASSUME NEW a \in Actors, StartPolling(a) PROVE PollShape' /\ NoFutureGeneration'
    <2>1. Handed /\ Entered
      BY <1>8, <1>3, <1>4 DEF StartPolling
    <2>2. toPoll[a] \in ReadinessTasks
      BY <1>8 DEF StartPolling, ControlShape
    <2>3. CASE toPoll[a] \in exported
      <3> DEFINE new == [task |-> toPoll[a], gen |-> generation'[toPoll[a]],
                         cause |-> hand[a].cause, at |-> "polling"]
      <3>1. /\ generation' = [generation EXCEPT ![toPoll[a]] = @ + 1]
            /\ ready' = [ready EXCEPT ![toPoll[a]] = 0]
            /\ pollers' \subseteq pollers \cup {new}
        BY <1>8, <2>3 DEF StartPolling
      <3>2. generation'[toPoll[a]] \in Nat
        BY <3>1, <2>2 DEF PollShape
      <3>3. new \in Pollers /\ new.gen = generation'[new.task]
        BY <3>2, <2>2, <1>4 DEF Pollers, Entries
      <3>4. QED BY <2>1, <2>2, <3>1, <3>3, NextGeneration DEF PollShape
    <2>4. CASE toPoll[a] \notin exported
      BY <1>8, <2>4, <2>1, <1>0 DEF StartPolling
    <2>5. QED BY <2>3, <2>4
  <1>9. ASSUME NEW a \in Actors, SelectReady(a) PROVE PollShape' /\ NoFutureGeneration'
    <2>1. PICK t \in queue : sel' = Set(sel, a, t)
      BY <1>9 DEF SelectReady, Select
    <2>2. sel'[a] \in Tasks
      BY <2>1 DEF ControlShape
    <2>3. QED BY <1>9, <2>2, <1>0, <1>1, <1>3, <1>4 DEF SelectReady
  <1>10. ASSUME NEW a \in Actors, LeaveLoopUnready(a) \/ CheckCurrent(a) \/ SkipStale(a) \/ Begin(a)
         PROVE  PollShape' /\ NoFutureGeneration'
    <2>1. Same /\ entry' = entry /\ hand' \in {hand, Set(hand, a, Unscheduled)}
      BY <1>10 DEF LeaveLoopUnready, CheckCurrent, SkipStale, Begin, readinessVars
    <2>2. QED BY <2>1, <1>0, <1>3, <1>4
  <1>11. ASSUME NEW a \in Actors, AnnounceStart(a) PROVE PollShape' /\ NoFutureGeneration'
    <2>1. Same /\ Handed
      BY <1>11, <1>3, <1>4 DEF AnnounceStart
    <2>2. Entered
      BY <1>11, <1>1, <1>2 DEF AnnounceStart, Causes
    <2>3. QED BY <2>1, <2>2, <1>0
  <1>12. ASSUME NEW a \in Actors, FailToPrepare(a) \/ ReleaseAndCancel(a) \/ Other(a)
         PROVE  PollShape' /\ NoFutureGeneration'
    <2>1. Same /\ entry' = entry /\ hand' \in {hand, Set(hand, a, Unscheduled)}
      BY <1>12 DEF FailToPrepare, ReleaseAndCancel, Other, readinessVars
    <2>2. QED BY <2>1, <1>0, <1>3, <1>4
  <1>13. ASSUME NEW q \in pollers, Answer(q) \/ PollTimeout(q)
         PROVE  PollShape' /\ NoFutureGeneration'
    <2>1. pollers' \subseteq pollers \/ pollers' = Advance(q, "answered")
      BY <1>13 DEF Answer, PollTimeout
    <2>2. UNCHANGED <<generation, ready, entry, hand>>
      BY <1>13 DEF Answer, PollTimeout
    <2>3. QED BY <2>1, <2>2, AdvanceStep DEF PollShape, NoFutureGeneration
  <1>14. ASSUME NEW q \in pollers, MarkReadinessReady(q)
         PROVE  PollShape' /\ NoFutureGeneration'
    <2>1. pollers' = Advance(q, "marked") /\ UNCHANGED <<generation, entry, hand>>
      BY <1>14 DEF MarkReadinessReady
    <2>2. q \in Pollers
      BY DEF PollShape
    <2>3. ready' \in [ReadinessTasks -> Nat]
      BY <1>14, <2>2 DEF MarkReadinessReady, PollShape, Pollers
    <2>4. QED BY <2>1, <2>3, AdvanceStep DEF PollShape, NoFutureGeneration
  <1>15. ASSUME NEW q \in pollers, ScheduleReadinessConsumers(q)
         PROVE  PollShape' /\ NoFutureGeneration'
    <2>1. pollers' \subseteq pollers /\ UNCHANGED <<generation, ready, hand>>
      BY <1>15 DEF ScheduleReadinessConsumers
    <2>2. \A t \in Tasks : Scheduled("readiness", ReadyGenerations(t)) \in Entries
      BY DEF Scheduled, ReadyGenerations, Entries, Generations, Causes, ReadinessTasks, PollShape
    <2>3. Entered
      BY <1>15, <2>2, <1>4 DEF ScheduleReadinessConsumers
    <2>4. QED BY <2>1, <2>3 DEF PollShape, NoFutureGeneration
  <1>16. ASSUME UNCHANGED readinessVars PROVE PollShape' /\ NoFutureGeneration'
    BY <1>16, <1>0, <1>4 DEF readinessVars
  <1>17. QED
    BY ReadinessCases, <1>5, <1>6, <1>7, <1>8, <1>9, <1>10, <1>11, <1>12, <1>13, <1>14, <1>15, <1>16
       DEF PollerStep, readyVars

(* A step of actor a that starts no process: only its own counters change, *)
(* and it is neither new nor a running process before or after.            *)
ActorStep(a) ==
  \/ SelectReady(a) \/ LeaveLoopUnready(a) \/ CheckCurrent(a) \/ SkipStale(a)
  \/ Begin(a) \/ AnnounceStart(a) \/ FailToPrepare(a)
  \/ ReleaseAndCancel(a) \/ (Other(a) /\ ~Launch(a))

LEMMA OwnCounters ==
  ASSUME ControlShape, NEW a \in Actors, ActorStep(a)
  PROVE  /\ pc[a] \notin {"none", "run"} /\ pc'[a] \notin {"none", "run"}
         /\ launched' = launched
         /\ \A b \in Actors \ {a} : pc'[b] = pc[b] /\ sel'[b] = sel[b] /\ todo'[b] = todo[b]
  <1> USE DEF ControlShape, Goto, Set
  <1>1. CASE SelectReady(a)
    BY <1>1 DEF SelectReady, Select
  <1>2. CASE LeaveLoopUnready(a)
    BY <1>2 DEF LeaveLoopUnready, AfterLoop, readinessVars, data, locals
  <1>3. CASE CheckCurrent(a)
    BY <1>3 DEF CheckCurrent, vars, data, locals
  <1>4. CASE SkipStale(a)
    BY <1>4 DEF SkipStale, data
  <1>5. CASE Begin(a)
    BY <1>5 DEF Begin, CancelPrevious, NoPrevious, data, locals
  <1>6. CASE AnnounceStart(a)
    BY <1>6 DEF AnnounceStart, Announce
  <1>7. CASE FailToPrepare(a)
    BY <1>7 DEF FailToPrepare, FailToStart, data, locals
  <1>8. CASE ReleaseAndCancel(a)
    BY <1>8 DEF ReleaseAndCancel, Release, locals
  <1>9. CASE Other(a) /\ ~Launch(a)
    <2>1. UNCHANGED todo
      BY <1>9 DEF Other, readinessVars
    <2>2. CASE AwaitPrevious(a) \/ Prepare(a) \/ Register(a)
      BY <2>1, <2>2 DEF AwaitPrevious, Prepare, Register, data
    <2>3. CASE BeginRemove(a) \/ EndRemove(a) \/ NothingToRemove(a)
      BY <2>1, <2>3 DEF BeginRemove, EndRemove, NothingToRemove, Removed, data, locals
    <2>4. CASE Prune(a)
      BY <2>1, <2>4 DEF Prune, Return, locals
    <2>5. CASE CountRunning(a) \/ CheckCompletion(a) \/ SignalCompletion(a)
      BY <2>1, <2>5 DEF CountRunning, CheckCompletion, SignalCompletion, Return, data
    <2>6. QED BY <1>9, <2>2, <2>3, <2>4, <2>5 DEF Other
  <1>10. QED
    BY <1>1, <1>2, <1>3, <1>4, <1>5, <1>6, <1>7, <1>8, <1>9 DEF ActorStep

(* The instance that is launched was new.                                  *)
LEMMA LaunchStep ==
  ASSUME ControlShape, Fresh, OnlyRuns, NEW a \in Actors, Launch(a), UNCHANGED readinessVars
  PROVE  /\ \A b \in Actors : \/ pc'[b] = pc[b]
                              \/ b = a /\ pc'[b] = "register"
                              \/ pc[b] = "none" /\ pc'[b] = "run"
         /\ pc[a] = "launch" /\ UNCHANGED <<sel, todo>>
         /\ Fresh' /\ OnlyRuns'
  <1> USE ActorsKnown, RunnerAssumption
  <1> DEFINE t == sel[a]
             i == <<t, launched[t] + 1>>
  <1>1. /\ pc[a] = "launch" /\ launched[t] < MaxLaunches
        /\ launched' = [launched EXCEPT ![t] = @ + 1]
        /\ pc' = [pc EXCEPT ![a] = "register", ![i] = "run"]
        /\ UNCHANGED <<sel, todo>>
    BY DEF Launch, readinessVars
  <1>2. \A b \in Actors : pc'[b] = IF b = i THEN "run" ELSE IF b = a THEN "register" ELSE pc[b]
    BY <1>1 DEF ControlShape
  <1>3. CASE t \in Tasks
    <2>1. launched[t] \in 0 .. MaxLaunches
      BY <1>3 DEF ControlShape
    <2>2. i \in Instances /\ pc[i] = "none"
      BY <1>1, <1>3, <2>1 DEF Instances, Fresh
    <2>3. sel[i] = NoTask /\ todo[i] = NoTask
      BY <2>2 DEF OnlyRuns
    <2>4. OnlyRuns'
      BY <1>1, <1>2, <2>2, <2>3 DEF OnlyRuns
    <2>5. Fresh'
      <3> SUFFICES ASSUME NEW u \in Tasks, NEW k \in 1 .. MaxLaunches, k > launched'[u]
                   PROVE  pc'[<<u, k>>] = "none"
        BY DEF Fresh
      <3>1. /\ launched[u] \in 0 .. MaxLaunches /\ launched[u] <= launched'[u]
            /\ launched'[u] \in Nat
        BY <1>1, <1>3, <2>1 DEF ControlShape
      <3>2. pc[<<u, k>>] = "none" /\ <<u, k>> \in Instances
        BY <3>1 DEF Fresh, Instances
      <3>3. <<u, k>> # i
        BY <1>1, <1>3, <2>1 DEF ControlShape
      <3>4. QED BY <1>1, <1>2, <3>2, <3>3
    <2>6. QED BY <1>1, <1>2, <2>2, <2>4, <2>5
  <1>4. t \in Tasks
    BY <1>1 DEF ControlShape, Starting
  <1>5. QED BY <1>3, <1>4

(* New instances stay new until they are launched.                         *)
LEMMA FreshStep ==
  ASSUME ControlShape, Fresh, OnlyRuns, [ReadinessNext]_readyVars
  PROVE  Fresh' /\ OnlyRuns'
  <1> USE ActorsKnown
  <1> DEFINE Moved(b) == pc[b] # "none" /\ pc'[b] \notin {"none", "run"}
  <1>0. ASSUME launched' = launched,
               \A b \in Instances : Moved(b) \/ (pc'[b] = pc[b] /\ sel'[b] = sel[b] /\ todo'[b] \in {todo[b], NoTask})
        PROVE  Fresh' /\ OnlyRuns'
    <2>1. \A t \in Tasks, k \in 1 .. MaxLaunches : <<t, k>> \in Instances
      BY DEF Instances
    <2>2. QED BY <1>0, <2>1 DEF Fresh, OnlyRuns
  <1>1. CASE ScheduleInitial \/ ScheduleChanged
    <2>1. launched' = launched /\ UNCHANGED <<sel, todo>>
      BY <1>1 DEF ScheduleInitial, ScheduleChanged, ScheduleAll, FileChange, locals
    <2>2. \A b \in Instances : pc'[b] = pc[b]
      BY <1>1, ActorsAssumption DEF ScheduleInitial, ScheduleChanged, ScheduleAll, FileChange, Goto,
           ControlShape
    <2>3. QED BY <2>1, <2>2, <1>0
  <1>2. ASSUME NEW t \in Watched, Modify(t), UNCHANGED readinessVars PROVE Fresh' /\ OnlyRuns'
    BY <1>2, <1>0 DEF Modify, locals, readinessVars
  <1>3. ASSUME NEW i \in Instances, Exit(i), UNCHANGED readinessVars PROVE Fresh' /\ OnlyRuns'
    <2>1. launched' = launched /\ UNCHANGED <<sel, todo>> /\ pc[i] = "run" /\ pc' = [pc EXCEPT ![i] = "finish"]
      BY <1>3 DEF Exit, data, readinessVars, Goto
    <2>2. QED BY <2>1, <1>0 DEF ControlShape
  <1>4. ASSUME NEW a \in Actors, CancelPoller(a) \/ StartPolling(a) PROVE Fresh' /\ OnlyRuns'
    <2>1. launched' = launched /\ UNCHANGED <<pc, sel>>
          /\ \A b \in Actors : todo'[b] \in {todo[b], NoTask}
      BY <1>4 DEF CancelPoller, StartPolling, vars, data, locals, Set, ControlShape
    <2>2. QED BY <2>1, <1>0
  <1>5. ASSUME NEW a \in Actors, ActorStep(a) PROVE Fresh' /\ OnlyRuns'
    BY <1>5, <1>0, OwnCounters
  <1>6. ASSUME NEW a \in Actors, Other(a), Launch(a) PROVE Fresh' /\ OnlyRuns'
    BY <1>6, LaunchStep DEF Other
  <1>7. ASSUME NEW q \in pollers, Answer(q) \/ PollTimeout(q) \/ PollerStep(q)
        PROVE  Fresh' /\ OnlyRuns'
    <2>1. launched' = launched /\ UNCHANGED <<sel, todo>>
      BY <1>7 DEF Answer, PollTimeout, PollerStep, MarkReadinessReady, ScheduleReadinessConsumers,
           vars, data, locals
    <2>2. \A b \in Instances : pc'[b] = pc[b] \/ Moved(b)
      BY <1>7 DEF Answer, PollTimeout, PollerStep, MarkReadinessReady, ScheduleReadinessConsumers,
           vars, Goto, ControlShape
    <2>3. QED BY <2>1, <2>2, <1>0
  <1>8. CASE UNCHANGED readyVars
    BY <1>8, <1>0 DEF readyVars, readinessVars, vars, data, locals
  <1>9. QED
    BY ReadinessCases, <1>1, <1>2, <1>3, <1>4, <1>5, <1>6, <1>7, <1>8 DEF ActorStep

(* An actor that answers for p goes on doing so until it has cancelled the *)
(* poller of p.                                                            *)
LEMMA AnswersStep ==
  ASSUME ControlShape, Fresh, OnlyRuns, [ReadinessNext]_readyVars,
         NEW p \in ReadinessTasks, NEW b \in Actors, Answers(b, p),
         ~(CancelPoller(b) /\ todo[b] = p)
  PROVE  Answers(b, p)'
  <1> USE ActorsKnown, RunnerAssumption DEF Answers, Subject
  <1>0. ASSUME pc'[b] = pc[b], sel'[b] = sel[b], todo'[b] = todo[b] PROVE Answers(b, p)'
    BY <1>0
  <1>1. CASE ScheduleInitial \/ ScheduleChanged
    <2>1. /\ UNCHANGED <<sel, todo>>
          /\ pc'[b] = pc[b] \/ pc[b] \in {"init", "idle"}
      BY <1>1 DEF ScheduleInitial, ScheduleChanged, ScheduleAll, FileChange, Goto, locals,
           ControlShape
    <2>2. QED BY <2>1
  <1>2. ASSUME NEW t \in Watched, Modify(t), UNCHANGED readinessVars PROVE Answers(b, p)'
    BY <1>2, <1>0 DEF Modify, locals, readinessVars
  <1>3. ASSUME NEW i \in Instances, Exit(i), UNCHANGED readinessVars PROVE Answers(b, p)'
    <2>1. pc[i] = "run" /\ pc' = [pc EXCEPT ![i] = "finish"] /\ UNCHANGED <<sel, todo>>
      BY <1>3 DEF Exit, data, readinessVars, Goto
    <2>2. CASE b = i
      <3>1. sel[i] = NoTask /\ todo[i] = NoTask /\ i[1] \in Tasks
        BY <2>1 DEF OnlyRuns, Instances
      <3>2. NoTask \notin ReadinessTasks
        BY ReadinessAssumption DEF ReadinessTasks
      <3>3. i[1] = p
        BY <2>1, <2>2, <3>1, <3>2
      <3>4. pc'[i] = "finish"
        BY <2>1 DEF ControlShape
      <3>5. QED BY <2>1, <2>2, <3>1, <3>3, <3>4
    <2>3. QED BY <2>1, <2>2, <1>0 DEF ControlShape
  <1>4. ASSUME NEW a \in Actors, CancelPoller(a) \/ StartPolling(a) PROVE Answers(b, p)'
    <2>1. UNCHANGED <<pc, sel>>
      BY <1>4 DEF CancelPoller, StartPolling, vars, data, locals
    <2>2. CASE CancelPoller(a)
      BY <2>1, <2>2 DEF CancelPoller, Set, ControlShape
    <2>3. CASE StartPolling(a)
      BY <2>1, <2>3 DEF StartPolling
    <2>4. QED BY <1>4, <2>2, <2>3
  <1>5. ASSUME NEW a \in Actors, ActorStep(a), todo[a] = NoTask PROVE Answers(b, p)'
    <2>1. CASE b # a
      BY <2>1, <1>5, <1>0, OwnCounters
    <2>2. CASE b = a
      <3>1. pc[a] \in {"finish", "finishing", "release"} /\ Subject(a) = p
        <4>1. NoTask \notin ReadinessTasks
          BY ReadinessAssumption DEF ReadinessTasks
        <4>2. QED BY <1>5, <2>2, <4>1, OwnCounters
      <3>2. CASE ReleaseAndCancel(a)
        BY <2>2, <3>1, <3>2 DEF ReleaseAndCancel, Set, ControlShape
      <3>3. CASE Other(a)
        <4>1. BeginRemove(a) \/ EndRemove(a) \/ NothingToRemove(a)
          BY <3>1, <3>3, <1>5 DEF Other, AwaitPrevious, Prepare, Launch, Register, Prune, CountRunning,
               CheckCompletion, SignalCompletion
        <4>2. sel' = sel /\ pc'[a] \in {"finishing", "release"}
          BY <3>1, <4>1 DEF BeginRemove, EndRemove, NothingToRemove, Removed, locals, Goto, ControlShape
        <4>3. QED BY <2>2, <3>1, <4>2
      <3>4. ReleaseAndCancel(a) \/ Other(a)
        BY <3>1, <1>5 DEF ActorStep, SelectReady, Select, LeaveLoopUnready, CheckCurrent, SkipStale,
             Begin, CancelPrevious, NoPrevious, AnnounceStart, Announce, FailToPrepare, FailToStart
      <3>5. QED BY <3>2, <3>3, <3>4
    <2>3. QED BY <2>1, <2>2
  <1>6. ASSUME NEW a \in Actors, Other(a), Launch(a) PROVE Answers(b, p)'
    <2>1. /\ UNCHANGED <<sel, todo>> /\ pc[a] = "launch"
          /\ pc'[b] = pc[b] \/ pc[b] \in {"launch", "none"}
      BY <1>6, LaunchStep DEF Other
    <2>2. QED BY <2>1
  <1>7. ASSUME NEW q \in pollers, Answer(q) \/ PollTimeout(q) \/ PollerStep(q)
        PROVE  Answers(b, p)'
    <2>1. UNCHANGED <<sel, todo>>
      BY <1>7 DEF Answer, PollTimeout, PollerStep, MarkReadinessReady, ScheduleReadinessConsumers,
           vars, data, locals
    <2>2. pc'[b] = pc[b] \/ pc[b] = "idle"
      BY <1>7 DEF Answer, PollTimeout, PollerStep, MarkReadinessReady, ScheduleReadinessConsumers,
           vars, Goto, ControlShape
    <2>3. QED BY <2>1, <2>2, <1>0
  <1>8. CASE UNCHANGED readyVars
    BY <1>8, <1>0 DEF readyVars, readinessVars, vars, data, locals
  <1>9. QED
    BY ReadinessCases, <1>1, <1>2, <1>3, <1>4, <1>5, <1>6, <1>7, <1>8 DEF ActorStep

(* A generation that ends leaves no claim behind.                          *)
LEMMA ClaimEnds ==
  ASSUME PollShape, NoFutureGeneration, NEW p \in ReadinessTasks,
         generation' = [generation EXCEPT ![p] = @ + 1], ready' = [ready EXCEPT ![p] = 0],
         \A q \in pollers' : q \in pollers \/ q.at = "polling"
  PROVE  ~Claimed(p)'
  <1>1. generation[p] \in Nat /\ generation'[p] = generation[p] + 1 /\ ready'[p] = 0
    BY DEF PollShape
  <1>2. ~IsReady(p)'
    BY <1>1 DEF IsReady
  <1>3. ASSUME NEW q \in pollers, q.task = p PROVE q.gen # generation'[p]
    <2>1. q.gen \in Nat /\ q.gen <= generation[p]
      BY <1>3 DEF PollShape, Pollers, NoFutureGeneration
    <2>2. QED BY <1>1, <2>1
  <1>4. QED BY <1>2, <1>3 DEF Claimed

(* A claim lasts when neither the generation nor an answer has changed.    *)
LEMMA ClaimKept ==
  ASSUME NEW p \in ReadinessTasks, Claimed(p)',
         generation'[p] = generation[p], ready'[p] = ready[p],
         \A q \in pollers' : q \in pollers \/ q.at # "answered" \/ q.task # p
  PROVE  Claimed(p)
  BY DEF Claimed, IsReady

(* Who claims that p is ready has somebody who answers for it.             *)
LEMMA ClaimStep ==
  ASSUME LiveInv, [ReadinessNext]_readyVars, NEW p \in ReadinessTasks, Claimed(p)'
  PROVE  \E b \in Actors : Answers(b, p) /\ ~(CancelPoller(b) /\ todo[b] = p)
  <1> USE ActorsKnown DEF LiveInv
  <1> DEFINE Same == UNCHANGED <<generation, ready, pollers>>
             Other2(t) == /\ generation' = [generation EXCEPT ![t] = @ + 1]
                          /\ ready' = [ready EXCEPT ![t] = 0]
                          /\ \A q \in pollers' : q \in pollers \/ q.at = "polling"
  <1>1. ASSUME Same PROVE Claimed(p)
    BY <1>1, ClaimKept
  <1>2. ASSUME NEW t \in ReadinessTasks, Other2(t) PROVE t # p /\ Claimed(p)
    <2>1. t # p
      BY <1>2, ClaimEnds
    <2>2. generation'[p] = generation[p] /\ ready'[p] = ready[p]
      BY <1>2, <2>1 DEF PollShape
    <2>3. QED BY <1>2, <2>1, <2>2, ClaimKept
  <1>3. ASSUME NEW a \in Actors, CancelPoller(a) PROVE todo[a] # p /\ Claimed(p)
    <2>1. todo[a] \in ReadinessTasks
      BY <1>3 DEF CancelPoller, ControlShape
    <2>2. Other2(todo[a])
      BY <1>3 DEF CancelPoller
    <2>3. QED BY <2>1, <2>2, <1>2
  <1>4. ASSUME NEW a \in Actors, StartPolling(a) PROVE Claimed(p)
    <2>1. toPoll[a] \in ReadinessTasks
      BY <1>4 DEF StartPolling, ControlShape
    <2>2. CASE toPoll[a] \in exported
      <3>1. Other2(toPoll[a])
        BY <1>4, <2>2 DEF StartPolling
      <3>2. QED BY <2>1, <3>1, <1>2
    <2>3. CASE toPoll[a] \notin exported
      BY <1>4, <2>3, <1>1 DEF StartPolling
    <2>4. QED BY <2>2, <2>3
  <1>5. ASSUME NEW q \in pollers, PollTimeout(q) \/ ScheduleReadinessConsumers(q)
        PROVE  Claimed(p)
    <2>1. UNCHANGED <<generation, ready>> /\ pollers' \subseteq pollers
      BY <1>5 DEF PollTimeout, ScheduleReadinessConsumers
    <2>2. QED BY <2>1, ClaimKept
  <1>6. ASSUME NEW q \in pollers, MarkReadinessReady(q) PROVE Claimed(p)
    <2>1. UNCHANGED generation /\ q.at = "answered"
          /\ \A r \in pollers' : r \in pollers \/ r.at = "marked"
      <3>1. [q EXCEPT !.at = "marked"].at = "marked"
        BY DEF PollShape, Pollers
      <3>2. QED BY <1>6, <3>1 DEF MarkReadinessReady, Advance
    <2>2. CASE generation[q.task] = q.gen /\ q.task = p
      BY <2>1, <2>2 DEF Claimed
    <2>3. CASE ~(generation[q.task] = q.gen /\ q.task = p)
      <3>1. ready'[p] = ready[p]
        BY <1>6, <2>3 DEF MarkReadinessReady, PollShape
      <3>2. QED BY <2>1, <3>1, ClaimKept
    <2>4. QED BY <2>2, <2>3
  <1>7. ASSUME NEW q \in pollers, Answer(q)
        PROVE  Claimed(p) \/ (UNCHANGED todo /\ \E b \in Actors : pc[b] = "run" /\ Answers(b, p))
    <2>1. /\ UNCHANGED <<generation, ready, todo>> /\ Live(q.task) # {}
          /\ \A r \in pollers' : r \in pollers \/ r.task = q.task
      <3>1. [q EXCEPT !.at = "answered"].task = q.task
        BY DEF PollShape, Pollers
      <3>2. QED BY <1>7, <3>1 DEF Answer, Advance
    <2>2. CASE q.task = p
      <3>1. PICK b \in {p} \X (1 .. launched[p]) : pc[b] = "run"
        BY <2>1, <2>2 DEF Live
      <3>2. p \in Tasks
        BY ReadinessAssumption, RunnerAssumption DEF ReadinessTasks
      <3>3. b \in {p} \X (1 .. MaxLaunches)
        <4>1. launched[p] \in 0 .. MaxLaunches
          BY <3>2 DEF ControlShape
        <4>2. 1 .. launched[p] \subseteq 1 .. MaxLaunches
          BY <4>1, RunnerAssumption
        <4>3. QED BY <3>1, <4>2
      <3>4. b \in Actors
        BY <3>2, <3>3 DEF Instances
      <3>5. QED BY <2>1, <3>1, <3>3, <3>4 DEF Answers
    <2>3. CASE q.task # p
      BY <2>1, <2>3, ClaimKept
    <2>4. QED BY <2>2, <2>3
  <1>8. Claimed(p) \/ \E q \in pollers : Answer(q)
    <2>1. ASSUME NEW a \in Actors,
                 \/ SelectReady(a) \/ LeaveLoopUnready(a) \/ CheckCurrent(a) \/ SkipStale(a)
                 \/ Begin(a) \/ AnnounceStart(a) \/ FailToPrepare(a)
                 \/ ReleaseAndCancel(a) \/ Other(a)
          PROVE  Same
      BY <2>1 DEF SelectReady, LeaveLoopUnready, CheckCurrent, SkipStale, Begin, AnnounceStart,
           FailToPrepare, ReleaseAndCancel, Other, readinessVars
    <2>2. ASSUME ScheduleInitial \/ ScheduleChanged \/ UNCHANGED readinessVars PROVE Same
      BY <2>2 DEF ScheduleInitial, ScheduleChanged, readinessVars
    <2>3. QED
      BY ReadinessCases, <2>1, <2>2, <1>1, <1>3, <1>4, <1>5, <1>6 DEF PollerStep, readyVars
  <1>9. ASSUME NEW b \in Actors, CancelPoller(b), todo[b] = p PROVE FALSE
    BY <1>9, <1>3
  <1>10. CASE Claimed(p)
    <2>1. PICK b \in Actors : Answers(b, p)
      BY <1>10 DEF Backed
    <2>2. QED BY <2>1, <1>9
  <1>11. QED BY <1>7, <1>8, <1>9, <1>10

LEMMA LiveInit == ReadinessInit => LiveInv
  <1> SUFFICES ASSUME ReadinessInit PROVE LiveInv
    OBVIOUS
  <1> USE ActorsKnown, RunnerAssumption, ReadinessAssumption
  <1>1. ControlShape
    BY DEF ReadinessInit, Init, ControlShape, Labels, Starting
  <1>2. Unscheduled \in Entries
    BY DEF Unscheduled, Scheduled, Entries, Generations, Causes
  <1>3. PollShape /\ NoFutureGeneration
    BY <1>2 DEF ReadinessInit, PollShape, NoFutureGeneration
  <1>4. \A i \in Instances : pc[i] = "none" /\ sel[i] = NoTask /\ todo[i] = NoTask
    BY ActorsAssumption DEF ReadinessInit, Init
  <1>5. Fresh /\ OnlyRuns
    BY <1>4 DEF Fresh, OnlyRuns, Instances
  <1>6. Backed
    BY DEF ReadinessInit, Backed, Claimed, IsReady
  <1>7. QED BY <1>1, <1>3, <1>5, <1>6 DEF LiveInv

LEMMA LiveStep ==
  ASSUME LiveInv, [ReadinessNext]_readyVars
  PROVE  LiveInv'
  <1> USE DEF LiveInv
  <1>1. ControlShape' /\ PollShape' /\ NoFutureGeneration' /\ Fresh' /\ OnlyRuns'
    BY ControlStep, PollStep, FreshStep
  <1>2. ASSUME NEW p \in ReadinessTasks, Claimed(p)'
        PROVE  \E a \in Actors : Answers(a, p)'
    BY <1>2, ClaimStep, AnswersStep
  <1>3. Backed'
    BY <1>2 DEF Backed
  <1>4. QED BY <1>1, <1>3

(***************************************************************************)
(* readiness.go:167-223: a provider that counts as ready has a process, or *)
(* the goroutine that reports its end is still to cancel its readiness:    *)
(* also when tasks fail, and when pollers answer after a restart.          *)
(***************************************************************************)
THEOREM ReadinessIsLive == ReadinessSpec => []ReadyIsLive
  <1>1. LiveInv => ReadyIsLive
    <2> SUFFICES ASSUME LiveInv, NEW p \in ReadinessTasks, IsReady(p), ~Reporting(p)
                 PROVE  Live(p) # {}
      BY DEF ReadyIsLive
    <2>1. PICK a \in Actors : Answers(a, p)
      BY DEF LiveInv, Backed, Claimed
    <2>2. pc[a] = "run" /\ a \in {p} \X (1 .. MaxLaunches)
      BY <2>1 DEF Answers, Reporting
    <2>3. PICK k \in 1 .. MaxLaunches : a = <<p, k>>
      BY <2>2
    <2>4. p \in Tasks
      BY ReadinessAssumption, RunnerAssumption DEF ReadinessTasks
    <2>5. launched[p] \in Nat /\ ~(k > launched[p])
      BY <2>2, <2>3, <2>4 DEF LiveInv, Fresh, ControlShape
    <2>6. a \in {p} \X (1 .. launched[p])
      BY <2>3, <2>5
    <2>7. QED BY <2>2, <2>6 DEF Live
  <1>2. QED BY LiveInit, LiveStep, <1>1, PTL DEF ReadinessSpec

-----------------------------------------------------------------------------
(***************************************************************************)
(* Readiness loses no wakeup.  A queued consumer can become startable also *)
(* because its provider becomes ready; whoever marks the provider ready    *)
(* goes on to schedule its consumers and to have the queue looked at,      *)
(* unless readinessConsumerShouldRun refuses: when the provider was        *)
(* started for a file change that does not match the filters of its        *)
(* consumers, or was restarted for a provider of its own.                  *)
(***************************************************************************)
PassedOn ==
  /\ FileCauses = {"file"}
  /\ \A p \in ReadinessTasks : Providers[p] = {} \/ OnChange[p] = "none"

Reasons == {"initial", "readiness", "file"}

(* A provider is started for a reason that is passed on to its consumers.  *)
Reasoned ==
  /\ \A p \in ReadinessTasks : entry[p].cause \in Reasons
  /\ \A a \in Actors : sel[a] \in ReadinessTasks \/ toPoll[a] # NoTask => hand[a].cause \in Reasons
  /\ \A q \in pollers : q.cause \in Reasons

(* Where an actor is that has a poller to start or to cancel.              *)
Pending ==
  \A a \in Actors :
    /\ toPoll[a] # NoTask => pc[a] = "loop"
    /\ todo[a] # NoTask => pc[a] \in {"begin", "loop", "prune"}

ReadyWakeupInv == LiveInv /\ Undisturbed /\ Reasoned /\ Pending /\ NoLostReadyWakeup

LEMMA ReadinessTasksKnown == ReadinessTasks \subseteq Tasks /\ NoTask \notin ReadinessTasks
  BY ReadinessAssumption, RunnerAssumption DEF ReadinessTasks

(* Selections and errors are as in the runner without readiness.           *)
LEMMA UndisturbedReady ==
  ASSUME MayFail = {}, LiveInv, Undisturbed, [ReadinessNext]_readyVars
  PROVE  Undisturbed'
  <1> USE ActorsKnown
  <1>1. ASSUME [Next]_vars PROVE Undisturbed'
    BY <1>1, StepShape
  <1>2. ASSUME queue' \subseteq Tasks, UNCHANGED <<stale, sel, errored>>,
               \/ pc' = pc
               \/ \E h \in Actors : pc' = [pc EXCEPT ![h] = "loop"]
        PROVE  Undisturbed'
    BY <1>2 DEF Undisturbed, Shape, SelectedInside, NoErrors, Labels, Inside
  <1>3. CASE ScheduleInitial \/ ScheduleChanged
    BY <1>3, <1>1 DEF ScheduleInitial, ScheduleChanged, Next
  <1>4. ASSUME NEW a \in Actors, CancelPoller(a) PROVE Undisturbed'
    <2>1. queue' \subseteq queue /\ UNCHANGED <<stale, pc, sel, errored>>
      BY <1>4 DEF CancelPoller, locals
    <2>2. QED BY <2>1, <1>2 DEF Undisturbed, Shape
  <1>5. ASSUME NEW a \in Actors, LeaveLoopUnready(a) PROVE Undisturbed'
    BY <1>5 DEF LeaveLoopUnready, AfterLoop, Goto, data, locals, Undisturbed, Shape, SelectedInside,
         NoErrors, Labels, Inside
  <1>6. ASSUME NEW a \in Actors, SkipStale(a) PROVE Undisturbed'
    BY <1>6 DEF SkipStale, Goto, Set, data, Undisturbed, Shape, SelectedInside,
         NoErrors, Labels, Inside
  <1>7. ASSUME NEW a \in Actors,
               \/ SelectReady(a) \/ Begin(a) \/ AnnounceStart(a) \/ FailToPrepare(a)
               \/ ReleaseAndCancel(a) \/ Other(a)
        PROVE  Undisturbed'
    <2>1. Step(a)
      BY <1>7 DEF SelectReady, Begin, AnnounceStart, FailToPrepare, ReleaseAndCancel, Other, Step
    <2>2. QED BY <2>1, <1>1 DEF Next
  <1>8. ASSUME NEW a \in Actors, CheckCurrent(a) \/ StartPolling(a) PROVE Undisturbed'
    BY <1>8, <1>1 DEF CheckCurrent, StartPolling
  <1>9. ASSUME NEW q \in pollers, ScheduleReadinessConsumers(q) PROVE Undisturbed'
    <2>1. queue' \subseteq Tasks
      BY <1>9 DEF ScheduleReadinessConsumers, ReadyConsumers, Undisturbed, Shape
    <2>2. pc' = pc \/ \E h \in Actors : pc' = [pc EXCEPT ![h] = "loop"]
      BY <1>9 DEF ScheduleReadinessConsumers, Goto, Actors
    <2>3. UNCHANGED <<stale, sel, errored>>
      BY <1>9 DEF ScheduleReadinessConsumers, locals
    <2>4. QED BY <2>1, <2>2, <2>3, <1>2
  <1>10. ASSUME NEW q \in pollers, Answer(q) \/ PollTimeout(q) \/ MarkReadinessReady(q)
         PROVE  Undisturbed'
    BY <1>10, <1>1 DEF Answer, PollTimeout, MarkReadinessReady
  <1>11. QED
    BY ReadinessCases, <1>1, <1>3, <1>4, <1>5, <1>6, <1>7, <1>8, <1>9, <1>10
       DEF PollerStep, readyVars, Next

(* Whoever has a poller to see to sees to it before anything else.         *)
LEMMA PendingStep ==
  ASSUME LiveInv, Pending, [ReadinessNext]_readyVars
  PROVE  Pending'
  <1> USE ActorsKnown DEF LiveInv
  <1> DEFINE Still(b) == /\ toPoll'[b] \in {toPoll[b], NoTask} /\ todo'[b] \in {todo[b], NoTask}
                         /\ pc'[b] = pc[b] \/ pc[b] \in {"init", "idle", "run", "none"}
  <1>0. ASSUME \A b \in Actors : Still(b) PROVE Pending'
    BY <1>0 DEF Pending
  <1>1. CASE ScheduleInitial \/ ScheduleChanged
    <2>1. \A b \in Actors : Still(b)
      BY <1>1 DEF ScheduleInitial, ScheduleChanged, ScheduleAll, FileChange, Goto, ControlShape
    <2>2. QED BY <2>1, <1>0
  <1>2. ASSUME NEW t \in Watched, Modify(t), UNCHANGED readinessVars PROVE Pending'
    BY <1>2, <1>0 DEF Modify, readinessVars
  <1>3. ASSUME NEW i \in Instances, Exit(i), UNCHANGED readinessVars PROVE Pending'
    <2>1. \A b \in Actors : Still(b)
      BY <1>3 DEF Exit, Goto, ControlShape, readinessVars
    <2>2. QED BY <2>1, <1>0
  <1>4. ASSUME NEW a \in Actors, CancelPoller(a) \/ StartPolling(a) PROVE Pending'
    <2>1. pc' = pc /\ \A b \in Actors : toPoll'[b] \in {toPoll[b], NoTask} /\ todo'[b] \in {todo[b], NoTask}
      BY <1>4 DEF CancelPoller, StartPolling, vars, Set, ControlShape
    <2>2. QED BY <2>1, <1>0
  <1>5. ASSUME NEW a \in Actors, ActorStep(a), todo[a] = NoTask, toPoll[a] = NoTask PROVE Pending'
    <2>1. \A b \in Actors \ {a} : pc'[b] = pc[b] /\ todo'[b] = todo[b] /\ toPoll'[b] = toPoll[b]
      <3>1. \A b \in Actors \ {a} : toPoll'[b] = toPoll[b]
        BY <1>5 DEF ActorStep, SelectReady, LeaveLoopUnready, CheckCurrent, SkipStale, Begin,
           AnnounceStart, FailToPrepare, ReleaseAndCancel, Other, readinessVars, Set, ControlShape
      <3>2. QED BY <1>5, <3>1, OwnCounters
    <2>2. CASE CheckCurrent(a)
      <3>1. pc[a] = "begin" /\ pc' = pc /\ toPoll' = toPoll
        BY <2>2 DEF CheckCurrent, vars
      <3>2. QED BY <1>5, <2>1, <3>1 DEF Pending
    <2>3. CASE AnnounceStart(a)
      <3>1. pc'[a] = "loop" /\ todo' = todo
        BY <2>3 DEF AnnounceStart, Announce, Goto, ControlShape
      <3>2. QED BY <1>5, <2>1, <3>1 DEF Pending
    <2>4. CASE ReleaseAndCancel(a)
      <3>1. pc'[a] \in {"loop", "prune"} /\ toPoll' = toPoll
        BY <2>4 DEF ReleaseAndCancel, Release, Goto, ControlShape
      <3>2. QED BY <1>5, <2>1, <3>1 DEF Pending
    <2>5. CASE \/ SelectReady(a) \/ LeaveLoopUnready(a) \/ SkipStale(a) \/ Begin(a)
              \/ FailToPrepare(a) \/ Other(a)
      <3>1. UNCHANGED <<todo, toPoll>>
        BY <2>5 DEF SelectReady, LeaveLoopUnready, SkipStale, Begin, FailToPrepare, Other, readinessVars
      <3>2. QED BY <1>5, <2>1, <3>1 DEF Pending
    <2>6. QED BY <1>5, <2>2, <2>3, <2>4, <2>5 DEF ActorStep
  <1>6. ASSUME NEW a \in Actors, Other(a), Launch(a), todo[a] = NoTask, toPoll[a] = NoTask PROVE Pending'
    <2>1. UNCHANGED readinessVars
      BY <1>6 DEF Other
    <2>2. \A b \in Actors : \/ pc'[b] = pc[b] \/ b = a \/ pc[b] = "none"
      BY <1>6, <2>1, LaunchStep
    <2>3. QED BY <1>6, <2>1, <2>2 DEF Pending, readinessVars
  <1>7. ASSUME NEW q \in pollers, Answer(q) \/ PollTimeout(q) \/ PollerStep(q) PROVE Pending'
    <2>1. UNCHANGED <<todo, toPoll>> /\ \A b \in Actors : pc'[b] = pc[b] \/ pc[b] = "idle"
      BY <1>7 DEF Answer, PollTimeout, PollerStep, MarkReadinessReady, ScheduleReadinessConsumers,
         vars, Goto, ControlShape
    <2>2. QED BY <2>1, <1>0
  <1>8. CASE UNCHANGED readyVars
    BY <1>8, <1>0 DEF readyVars, readinessVars, vars
  <1>9. QED
    BY ReadinessCases, <1>1, <1>2, <1>3, <1>4, <1>5, <1>6, <1>7, <1>8 DEF ActorStep

(* The reasons of starts stay such as are passed on.                       *)
LEMMA ReasonedStep ==
  ASSUME PassedOn, LiveInv, Reasoned, [ReadinessNext]_readyVars
  PROVE  Reasoned'
  <1> USE ActorsKnown, ReadinessTasksKnown DEF LiveInv, Set
  <1> DEFINE Entered == \A p \in ReadinessTasks : entry'[p] = entry[p] \/ entry'[p].cause \in Reasons
             Handed(b) == \/ hand'[b].cause \in Reasons
                          \/ /\ hand'[b] = hand[b]
                             /\ sel'[b] \in {sel[b], NoTask}
                             /\ toPoll'[b] \in {toPoll[b], sel[b], NoTask}
                             /\ toPoll'[b] \in ReadinessTasks \cup {NoTask}
             Polled == \A q \in pollers' : q.cause \in Reasons
  <1>0. ASSUME Entered, Polled, \A b \in Actors : Handed(b) PROVE Reasoned'
    BY <1>0 DEF Reasoned
  <1>1. \A S, e : e.cause \in Reasons /\ entry' = Overwrite(S, e) => Entered
    BY DEF Overwrite
  <1>2. Unscheduled.cause \in Reasons
    BY DEF Unscheduled, Scheduled, Reasons
  <1>3. pollers' \subseteq pollers => Polled
    BY DEF Reasoned
  <1>4. ASSUME UNCHANGED <<hand, toPoll>>, \A b \in Actors : sel'[b] \in {sel[b], NoTask}
        PROVE  \A b \in Actors : Handed(b)
    BY <1>4 DEF ControlShape
  <1>5. CASE ScheduleInitial \/ ScheduleChanged
    <2>1. UNCHANGED <<sel, hand, toPoll, pollers>>
      BY <1>5 DEF ScheduleInitial, ScheduleChanged, ScheduleAll, FileChange, locals
    <2>2. CASE ScheduleInitial
      BY <2>1, <2>2, <1>0, <1>1, <1>2, <1>3, <1>4 DEF ScheduleInitial
    <2>3. CASE ScheduleChanged
      <3>1. PICK c \in FileCauses : entry' = Overwrite(events \cap stale, Scheduled(c, {}))
        BY <2>3 DEF ScheduleChanged
      <3>2. Scheduled(c, {}).cause \in Reasons
        BY DEF PassedOn, Scheduled, Reasons
      <3>3. QED BY <2>1, <3>1, <3>2, <1>0, <1>1, <1>3, <1>4
    <2>4. QED BY <1>5, <2>2, <2>3
  <1>6. ASSUME UNCHANGED <<sel, readinessVars>> PROVE Reasoned'
    BY <1>6 DEF readinessVars, Reasoned
  <1>7. ASSUME NEW t \in Watched, Modify(t), UNCHANGED readinessVars PROVE Reasoned'
    BY <1>7, <1>6 DEF Modify, locals
  <1>8. ASSUME NEW i \in Instances, Exit(i), UNCHANGED readinessVars PROVE Reasoned'
    BY <1>8, <1>6 DEF Exit
  <1>9. ASSUME NEW a \in Actors, CancelPoller(a) PROVE Reasoned'
    <2>1. UNCHANGED <<sel, hand, toPoll>> /\ pollers' \subseteq pollers
          /\ entry' = Overwrite(MadeByPoller(todo[a]), Unscheduled)
      BY <1>9 DEF CancelPoller, locals
    <2>2. QED BY <2>1, <1>0, <1>1, <1>2, <1>3, <1>4
  <1>10. ASSUME NEW a \in Actors, StartPolling(a) PROVE Reasoned'
    <2>1. UNCHANGED <<sel, entry>> /\ hand' = Set(hand, a, Unscheduled)
          /\ toPoll' = Set(toPoll, a, NoTask) /\ toPoll[a] # NoTask
      BY <1>10 DEF StartPolling, vars, locals
    <2>2. hand[a].cause \in Reasons
      BY <2>1 DEF Reasoned
    <2>3. \A q \in pollers' : q \in pollers \/ q.cause = hand[a].cause
      BY <1>10 DEF StartPolling
    <2>4. Polled
      BY <2>2, <2>3 DEF Reasoned
    <2>5. \A b \in Actors : Handed(b)
      BY <2>1, <1>2 DEF ControlShape, PollShape
    <2>6. QED BY <2>1, <2>4, <2>5, <1>0
  <1>11. ASSUME NEW a \in Actors, toPoll[a] = NoTask, SelectReady(a) PROVE Reasoned'
    <2>1. PICK t \in queue : sel' = Set(sel, a, t)
      BY <1>11 DEF SelectReady, Select
    <2>2. sel'[a] \in Tasks
      BY <2>1 DEF ControlShape
    <2>3. UNCHANGED <<pollers, toPoll>> /\ hand' = Set(hand, a, entry[sel'[a]])
          /\ entry' = Overwrite({sel'[a]}, Unscheduled)
      BY <1>11 DEF SelectReady
    <2>4. Entered /\ Polled
      BY <2>3, <1>1, <1>2, <1>3
    <2>5. \A b \in Actors \ {a} : sel'[b] = sel[b] /\ hand'[b] = hand[b] /\ toPoll'[b] = toPoll[b]
      BY <2>1, <2>3 DEF ControlShape, PollShape
    <2>6. sel'[a] \in ReadinessTasks => hand'[a].cause \in Reasons
      BY <2>3 DEF PollShape, Reasoned
    <2>7. toPoll'[a] = NoTask
      BY <2>3, <1>11
    <2>8. QED BY <2>4, <2>5, <2>6, <2>7 DEF Reasoned
  <1>12. ASSUME NEW a \in Actors, LeaveLoopUnready(a) \/ CheckCurrent(a) PROVE Reasoned'
    <2>1. UNCHANGED <<sel, entry, hand, toPoll, pollers>>
      BY <1>12 DEF LeaveLoopUnready, CheckCurrent, vars, locals, readinessVars
    <2>2. QED BY <2>1 DEF Reasoned
  <1>13. ASSUME NEW a \in Actors, SkipStale(a) \/ FailToPrepare(a) PROVE Reasoned'
    <2>1. UNCHANGED <<entry, toPoll, pollers>> /\ hand' = Set(hand, a, Unscheduled)
          /\ \A b \in Actors : sel'[b] \in {sel[b], NoTask}
      BY <1>13 DEF SkipStale, FailToPrepare, FailToStart, locals, ControlShape
    <2>2. \A b \in Actors : Handed(b)
      BY <2>1, <1>2 DEF ControlShape, PollShape
    <2>3. QED BY <2>1, <2>2, <1>0, <1>3
  <1>14. ASSUME NEW a \in Actors, Begin(a) \/ ReleaseAndCancel(a) \/ Other(a) PROVE Reasoned'
    <2>1. UNCHANGED <<entry, hand, toPoll, pollers>>
      BY <1>14 DEF Begin, ReleaseAndCancel, Other, readinessVars
    <2>2. \A b \in Actors : sel'[b] \in {sel[b], NoTask}
      <3>1. CASE Begin(a) \/ ReleaseAndCancel(a)
        BY <3>1 DEF Begin, CancelPrevious, NoPrevious, ReleaseAndCancel, Release, locals
      <3>2. CASE Other(a)
        BY <3>2 DEF Other, AwaitPrevious, Prepare, Launch, Register, BeginRemove, EndRemove,
           NothingToRemove, Prune, Return, CountRunning, CheckCompletion, SignalCompletion,
           locals, ControlShape
      <3>3. QED BY <1>14, <3>1, <3>2
    <2>3. QED BY <2>1, <2>2, <1>0, <1>3, <1>4
  <1>15. ASSUME NEW a \in Actors, AnnounceStart(a) PROVE Reasoned'
    <2>1. UNCHANGED pollers /\ sel' = Set(sel, a, NoTask)
          /\ entry' = Overwrite(RestartedBy(sel[a], changed[a]), Scheduled("provider", {}))
      BY <1>15 DEF AnnounceStart, Announce
    <2>2. \A p \in ReadinessTasks : p \notin RestartedBy(sel[a], changed[a])
      BY DEF PassedOn, RestartedBy
    <2>3. Entered
      BY <2>1, <2>2 DEF Overwrite
    <2>4. \A b \in Actors : Handed(b)
      BY <1>15, <2>1, <1>2 DEF AnnounceStart, ControlShape, PollShape
    <2>5. QED BY <2>1, <2>3, <2>4, <1>0, <1>3
  <1>16. ASSUME NEW q \in pollers, Answer(q) \/ PollTimeout(q) \/ MarkReadinessReady(q)
         PROVE  Reasoned'
    <2>1. UNCHANGED <<sel, entry, hand, toPoll>>
      BY <1>16 DEF Answer, PollTimeout, MarkReadinessReady, vars, locals
    <2>2. \A l : [q EXCEPT !.at = l].cause = q.cause
      BY DEF PollShape, Pollers
    <2>3. \A r \in pollers' : r \in pollers \/ r.cause = q.cause
      BY <1>16, <2>2 DEF Answer, PollTimeout, MarkReadinessReady, Advance
    <2>4. QED BY <2>1, <2>3 DEF Reasoned
  <1>17. ASSUME NEW q \in pollers, ScheduleReadinessConsumers(q) PROVE Reasoned'
    <2>1. UNCHANGED <<sel, hand, toPoll>> /\ pollers' \subseteq pollers
      BY <1>17 DEF ScheduleReadinessConsumers, locals
    <2>2. \A t : Scheduled("readiness", ReadyGenerations(t)).cause \in Reasons
      BY DEF Scheduled, Reasons
    <2>3. Entered
      BY <1>17, <2>2 DEF ScheduleReadinessConsumers
    <2>4. QED BY <2>1, <2>3, <1>0, <1>3, <1>4
  <1>18. CASE UNCHANGED readyVars
    BY <1>18, <1>6 DEF readyVars, vars, locals
  <1>19. QED
    BY ReadinessCases, <1>5, <1>7, <1>8, <1>9, <1>10, <1>11, <1>12, <1>13, <1>14, <1>15, <1>16,
       <1>17, <1>18 DEF PollerStep

(* What leaves the queue, the list, the exports, the entries and the       *)
(* readiness as they are, and all who look, leaves the property.           *)
LEMMA ReadyKept ==
  ASSUME NoLostReadyWakeup, Uneventful, ControlShape, UNCHANGED <<entry, generation, ready>>,
         \A q \in pollers : \/ q \in pollers' \/ q.at # "marked" \/ generation[q.task] # q.gen
                            \/ ReadyConsumers(q.task, q.cause) = {}
  PROVE  NoLostReadyWakeup'
  <1>1. \A t \in Tasks : MayBlock(t) <=> MayBlock(t)'
    BY SameBlock DEF Uneventful
  <1>2. \A t \in Tasks : Admits(t)' <=> Admits(t)
    BY DEF Admits, Current, IsReady
  <1>3. queue' = queue /\ queue \subseteq Tasks /\ \A a \in Actors : WillLook(a) => WillLook(a)'
    BY DEF Uneventful, ControlShape
  <1>4. QED BY <1>1, <1>2, <1>3 DEF NoLostReadyWakeup, ReadyConsumers

LEMMA ReadyWakeupStep ==
  ASSUME MayFail = {}, PassedOn, ReadyWakeupInv, [ReadinessNext]_readyVars
  PROVE  NoLostReadyWakeup'
  <1> USE ActorsKnown, ReadinessTasksKnown DEF ReadyWakeupInv, LiveInv
  <1>0. ASSUME NEW a \in Actors, WillLook(a)' PROVE NoLostReadyWakeup'
    BY <1>0 DEF NoLostReadyWakeup
  <1>1. ASSUME Uneventful, UNCHANGED <<entry, generation, ready, pollers>> PROVE NoLostReadyWakeup'
    BY <1>1, ReadyKept
  <1>2. CASE ScheduleInitial
    <2>1. WillLook(starter)'
      BY <1>2 DEF ScheduleInitial, ScheduleAll, Goto, WillLook, ControlShape
    <2>2. QED BY <2>1, <1>0
  <1>3. CASE ScheduleChanged
    <2>1. CASE events \cap stale = {}
      <3>1. Uneventful
        BY <1>3, <2>1 DEF ScheduleChanged, FileChange, Goto, Uneventful, WillLook, locals, ControlShape
      <3>2. entry' = entry
        BY <1>3, <2>1 DEF ScheduleChanged, Overwrite, PollShape
      <3>3. QED BY <1>3, <3>1, <3>2, <1>1 DEF ScheduleChanged
    <2>2. CASE events \cap stale # {}
      <3>1. WillLook(watcher)'
        BY <1>3, <2>2 DEF ScheduleChanged, FileChange, Goto, WillLook, ControlShape
      <3>2. QED BY <3>1, <1>0
    <2>3. QED BY <2>1, <2>2
  <1>4. ASSUME NEW t \in Watched, Modify(t), UNCHANGED readinessVars PROVE NoLostReadyWakeup'
    <2>1. Uneventful
      BY <1>4 DEF Modify, Uneventful, WillLook, locals
    <2>2. QED BY <2>1, <1>4, <1>1 DEF readinessVars
  <1>5. ASSUME NEW i \in Instances, Exit(i) PROVE NoLostReadyWakeup'
    <2>1. WillLook(i)'
      BY <1>5, RunnerAssumption DEF Exit, Goto, Set, WillLook, ControlShape, Undisturbed, Shape
    <2>2. QED BY <2>1, <1>0
  <1>6. ASSUME NEW a \in Actors, CancelPoller(a) \/ StartPolling(a) PROVE NoLostReadyWakeup'
    <2>1. UNCHANGED <<pc, sel>> /\ (todo[a] # NoTask \/ toPoll[a] # NoTask)
      BY <1>6 DEF CancelPoller, StartPolling, vars, locals
    <2>2. pc[a] = "loop" \/ sel[a] # NoTask
      BY <2>1 DEF Pending, Undisturbed, SelectedInside, Inside
    <2>3. WillLook(a)'
      BY <2>1, <2>2 DEF WillLook
    <2>4. QED BY <2>3, <1>0
  <1>7. ASSUME NEW a \in Actors, SelectReady(a) PROVE NoLostReadyWakeup'
    <2>1. PICK t \in queue : sel' = Set(sel, a, t)
      BY <1>7 DEF SelectReady, Select
    <2>2. sel'[a] # NoTask
      BY <2>1, RunnerAssumption DEF ControlShape, Set
    <2>3. QED BY <2>2, <1>0 DEF WillLook
  <1>8. ASSUME NEW a \in Actors, LeaveLoopUnready(a) PROVE NoLostReadyWakeup'
    <2>1. \A t \in queue : MayBlock(t) \/ ~Admits(t)
      BY <1>8 DEF LeaveLoopUnready
    <2>2. UNCHANGED <<queue, running, shift, exported, entry, generation, ready>>
      BY <1>8 DEF LeaveLoopUnready, data, readinessVars
    <2>3. \A t \in queue' : MayBlock(t)' \/ ~Admits(t)'
      BY <2>1, <2>2, SameBlock DEF Admits, Current, IsReady, ControlShape
    <2>4. QED BY <2>3 DEF NoLostReadyWakeup
  <1>9. ASSUME NEW a \in Actors, CheckCurrent(a) \/ SkipStale(a) PROVE NoLostReadyWakeup'
    <2>1. pc[a] = "begin" /\ (pc'[a] = "loop" \/ sel' = sel)
      BY <1>9 DEF CheckCurrent, SkipStale, Goto, vars, locals, ControlShape
    <2>2. pc'[a] = "loop" \/ sel'[a] # NoTask
      BY <2>1 DEF ControlShape, Starting
    <2>3. QED BY <2>2, <1>0 DEF WillLook
  <1>10. ASSUME NEW a \in Actors,
                \/ Begin(a) \/ AnnounceStart(a) \/ FailToPrepare(a) \/ ReleaseAndCancel(a) \/ Other(a)
         PROVE  NoLostReadyWakeup'
    <2>1. Step(a) /\ pc[a] # "loop"
      BY <1>10 DEF Begin, AnnounceStart, FailToPrepare, ReleaseAndCancel, Other, Step, CancelPrevious,
         NoPrevious, AwaitPrevious, Prepare, FailToStart, Launch, Register, Announce, BeginRemove,
         EndRemove, NothingToRemove, Release, Prune, CountRunning, CheckCompletion, SignalCompletion
    <2>2. WillLook(a)' \/ Uneventful
      BY <2>1, StepLooks
    <2>3. CASE AnnounceStart(a)
      <3>1. WillLook(a)'
        BY <2>3 DEF AnnounceStart, Announce, Goto, WillLook, ControlShape
      <3>2. QED BY <3>1, <1>0
    <2>4. CASE Begin(a) \/ FailToPrepare(a) \/ ReleaseAndCancel(a) \/ Other(a)
      <3>1. UNCHANGED <<entry, generation, ready, pollers>>
        BY <2>4 DEF Begin, FailToPrepare, ReleaseAndCancel, Other, readinessVars
      <3>2. QED BY <2>2, <3>1, <1>0, <1>1
    <2>5. QED BY <1>10, <2>3, <2>4
  <1>11. ASSUME UNCHANGED vars PROVE Uneventful
    BY <1>11 DEF vars, data, locals, Uneventful, WillLook
  <1>12. ASSUME NEW q \in pollers, Answer(q) \/ PollTimeout(q) PROVE NoLostReadyWakeup'
    <2>1. q.at = "polling" /\ UNCHANGED <<vars, entry, generation, ready>>
      BY <1>12 DEF Answer, PollTimeout
    <2>2. \A r \in pollers : r \in pollers' \/ r = q
      BY <1>12 DEF Answer, PollTimeout, Advance
    <2>3. QED BY <2>1, <2>2, <1>11, ReadyKept
  <1>13. ASSUME NEW q \in pollers, MarkReadinessReady(q) PROVE NoLostReadyWakeup'
    <2>1. q.at = "answered" /\ UNCHANGED <<vars, entry, generation>> /\ pollers' = Advance(q, "marked")
      BY <1>13 DEF MarkReadinessReady
    <2>2. CASE generation[q.task] = q.gen
      <3>1. PICK m \in pollers' : m = [q EXCEPT !.at = "marked"]
        BY <2>1 DEF Advance
      <3>2. m.at = "marked" /\ m.task = q.task /\ m.gen = q.gen /\ m.cause = q.cause
        BY <3>1 DEF PollShape, Pollers
      <3>3. q.task \in ReadinessTasks /\ q.cause \in Reasons
        BY DEF PollShape, Pollers, Reasoned
      <3>4. ReadyConsumers(q.task, q.cause) # {}
        BY <3>3 DEF ReadyConsumers, ReadinessTasks, Reasons, ShouldRun
      <3>5. generation'[m.task] = m.gen /\ ReadyConsumers(m.task, m.cause)' # {}
        BY <2>1, <2>2, <3>2, <3>4 DEF ReadyConsumers
      <3>6. QED BY <3>2, <3>5 DEF NoLostReadyWakeup
    <2>3. CASE generation[q.task] # q.gen
      <3>1. ready' = ready
        BY <1>13, <2>3 DEF MarkReadinessReady
      <3>2. \A r \in pollers : r \in pollers' \/ r.at # "marked"
        BY <2>1 DEF Advance
      <3>3. QED BY <2>1, <3>1, <3>2, <1>11, ReadyKept
    <2>4. QED BY <2>2, <2>3
  <1>14. ASSUME NEW q \in pollers, ScheduleReadinessConsumers(q) PROVE NoLostReadyWakeup'
    <2>1. CASE generation[q.task] = q.gen /\ ReadyConsumers(q.task, q.cause) # {}
      <3>1. PICK h \in Helpers : pc[h] = "idle" /\ Goto(h, "loop")
        BY <1>14, <2>1 DEF ScheduleReadinessConsumers
      <3>2. h \in Actors /\ pc'[h] = "loop"
        BY <3>1 DEF Goto, Actors, ControlShape
      <3>3. QED BY <3>2, <1>0 DEF WillLook
    <2>2. CASE ~(generation[q.task] = q.gen /\ ReadyConsumers(q.task, q.cause) # {})
      <3>1. Uneventful
        BY <1>14, <2>2 DEF ScheduleReadinessConsumers, Uneventful, WillLook, locals
      <3>2. UNCHANGED <<entry, generation, ready>> /\ pollers' = pollers \ {q}
        BY <1>14, <2>2 DEF ScheduleReadinessConsumers
      <3>3. QED BY <2>2, <3>1, <3>2, ReadyKept
    <2>3. QED BY <2>1, <2>2
  <1>15. CASE UNCHANGED readyVars
    BY <1>15, <1>1, <1>11 DEF readyVars, readinessVars
  <1>16. QED
    BY ReadinessCases, <1>2, <1>3, <1>4, <1>5, <1>6, <1>7, <1>8, <1>9, <1>10, <1>12, <1>13, <1>14,
       <1>15 DEF PollerStep

(***************************************************************************)
(* readiness.go:214-278: while a queued task could be started, its         *)
(* providers being ready, some goroutine is going to look, when no task    *)
(* fails and the readiness of providers is passed on.                      *)
(***************************************************************************)
THEOREM NoReadyWakeupLost ==
  ASSUME MayFail = {}, PassedOn
  PROVE  ReadinessSpec => []NoLostReadyWakeup
  <1>1. ReadinessInit => ReadyWakeupInv
    <2> SUFFICES ASSUME ReadinessInit PROVE ReadyWakeupInv
      OBVIOUS
    <2>1. LiveInv
      BY LiveInit
    <2>2. Undisturbed
      BY InitWakeup DEF WakeupInv, ReadinessInit
    <2>3. Reasoned
      BY ReadinessTasksKnown DEF ReadinessInit, Init, Reasoned, Unscheduled, Scheduled, Reasons
    <2>4. Pending /\ NoLostReadyWakeup
      BY DEF ReadinessInit, Init, Pending, NoLostReadyWakeup
    <2>5. QED BY <2>1, <2>2, <2>3, <2>4 DEF ReadyWakeupInv
  <1>2. ReadyWakeupInv /\ [ReadinessNext]_readyVars => ReadyWakeupInv'
    BY LiveStep, UndisturbedReady, ReasonedStep, PendingStep, ReadyWakeupStep DEF ReadyWakeupInv
  <1>3. ReadyWakeupInv => NoLostReadyWakeup
    BY DEF ReadyWakeupInv
  <1>4. QED BY <1>1, <1>2, <1>3, PTL DEF ReadinessSpec

-----------------------------------------------------------------------------
(***************************************************************************)
(* Tasks that nothing schedules again: no file is modified, as in --once,  *)
(* and no consumer is restarted when its provider has started.  Then every *)
(* task is launched at most once, whatever fails, whoever starts it and    *)
(* however fast it ends.  The argument follows a task: it is in the queue, *)
(* or in the hands of one actor, or launched, and never comes back.        *)
(***************************************************************************)
NothingRepeats ==
  /\ Once \/ Watched = {} \/ MaxChanges = 0
  /\ \A p \in Tasks : RestartedBy(p, TRUE) = {}

Removing == {"finishing", "unlisting"}

OnceShape ==
  /\ queue \subseteq Tasks /\ events = {} /\ changes \in Nat
  /\ running \in Seq(Instances) /\ shift \in 0 .. Len(running)
  /\ launched \in [Tasks -> 0 .. MaxLaunches]
  /\ pc \in [Actors -> Labels]
  /\ sel \in [Actors -> Tasks \cup {NoTask}]
  /\ peer \in [Actors -> Instances \cup {NoInstance}]

(* Before ScheduleAll nothing moves.                                       *)
BeforeStart ==
  pc[starter] = "init" =>
    /\ queue = {} /\ \A t \in Tasks : launched[t] = 0
    /\ \A a \in Actors : sel[a] = NoTask /\ pc[a] \in {"init", "idle", "none"}

(* A task is queued, held by one actor, or launched.                       *)
OneTry ==
  /\ \A t \in queue : launched[t] = 0 /\ \A a \in Actors : sel[a] # t
  /\ \A a, b \in Actors : sel[a] = sel[b] /\ sel[a] # NoTask => a = b
  /\ \A a \in Actors : pc[a] \in Starting \cup {"register", "announce"} => sel[a] # NoTask
  /\ \A a \in Actors :
       sel[a] # NoTask /\ pc[a] \notin {"register", "announce"} => launched[sel[a]] = 0
  /\ \A t \in Tasks : launched[t] <= 1

(* No task is ever started a second time.                                  *)
NeverTwice == \A t \in Tasks : launched[t] <= 1

(* The list has each instance once, and only its own actor takes it out.   *)
OnceListed ==
  /\ \A k \in DOMAIN running : running[k][2] = 1 /\ launched[running[k][1]] = 1
  /\ \A j, k \in DOMAIN running : running[j] = running[k] => j = k
  /\ \A a \in Actors : pc[a] = "register" =>
       /\ peer[a] = <<sel[a], 1>> /\ launched[sel[a]] = 1
       /\ \A k \in DOMAIN running : running[k] # peer[a]
  /\ \A a \in Actors : pc[a] \in {"run", "finish"} => a \in Instances \/ sel[a] # NoTask
  /\ \A a \in Actors : pc[a] \in Removing => shift # 0 /\ sel[a] = NoTask /\ running[shift] = a

OnceInv == OnceShape /\ BeforeStart /\ OneTry /\ Fresh /\ OnceListed /\ NoOrphan

LEMMA OnceInit == Init => OnceInv
  <1> SUFFICES ASSUME Init PROVE OnceInv
    OBVIOUS
  <1> USE ActorsKnown, RunnerAssumption DEF Init
  <1>1. running \in Seq(Instances) /\ Len(running) = 0 /\ DOMAIN running = {}
    OBVIOUS
  <1>2. \A i \in Instances : pc[i] = "none"
    <2>1. \A i \in Instances : i \in Actors /\ i # starter /\ i \notin {watcher} \cup Helpers
      BY ActorsAssumption
    <2>2. QED BY <2>1
  <1>3. OnceShape
    BY <1>1 DEF OnceShape, Labels
  <1>4. BeforeStart
    BY DEF BeforeStart
  <1>5. \A a \in Actors : pc[a] \in {"init", "idle", "none"} /\ sel[a] = NoTask
    OBVIOUS
  <1>6. OneTry
    BY <1>5 DEF OneTry, Starting
  <1>7. Fresh
    BY <1>2 DEF Fresh, Instances
  <1>8. OnceListed
    BY <1>1, <1>5 DEF OnceListed, Removing
  <1>9. NoOrphan
    BY <1>2 DEF NoOrphan
  <1>10. QED BY <1>3, <1>4, <1>6, <1>7, <1>8, <1>9 DEF OnceInv

(* What RemoveRunningTask leaves.                                          *)
LEMMA WithoutProperties ==
  ASSUME NEW S, NEW list \in Seq(S), NEW i \in 1 .. Len(list)
  PROVE  /\ Without(list, i) \in Seq(S)
         /\ Len(Without(list, i)) = Len(list) - 1
         /\ \A k \in 1 .. Len(list) - 1 :
              Without(list, i)[k] = IF k < i THEN list[k] ELSE list[k + 1]
  <1> DEFINE s1 == SubSeq(list, 1, i - 1)
             s2 == SubSeq(list, i + 1, Len(list))
  <1>0. Len(list) \in Nat /\ i \in Nat /\ i - 1 \in Int /\ i + 1 \in Int /\ \A k \in 1 .. Len(list) : list[k] \in S
    OBVIOUS
  <1>1. /\ s1 \in Seq(S) /\ Len(s1) = IF 1 <= i - 1 THEN i - 1 - 1 + 1 ELSE 0
        /\ \A k \in 1 .. i - 1 - 1 + 1 : s1[k] = list[1 + k - 1]
    BY <1>0, SubSeqProperties
  <1>2. /\ s2 \in Seq(S) /\ Len(s2) = IF i + 1 <= Len(list) THEN Len(list) - (i + 1) + 1 ELSE 0
        /\ \A k \in 1 .. Len(list) - (i + 1) + 1 : s2[k] = list[i + 1 + k - 1]
    BY <1>0, SubSeqProperties
  <1>3. Len(s1) = i - 1 /\ Len(s2) = Len(list) - i
    BY <1>0, <1>1, <1>2
  <1>4. /\ \A k \in 1 .. i - 1 : s1[k] = list[k]
        /\ \A k \in 1 .. Len(list) - i : s2[k] = list[i + k]
    BY <1>0, <1>1, <1>2
  <1> HIDE DEF s1, s2
  <1>5. /\ s1 \o s2 \in Seq(S) /\ Len(s1 \o s2) = Len(s1) + Len(s2)
        /\ \A k \in 1 .. Len(s1) + Len(s2) :
             (s1 \o s2)[k] = IF k <= Len(s1) THEN s1[k] ELSE s2[k - Len(s1)]
    BY <1>1, <1>2, ConcatProperties
  <1>6. s1 \o s2 \in Seq(S) /\ Len(s1 \o s2) = Len(list) - 1
    BY <1>0, <1>3, <1>5
  <1>7. ASSUME NEW k \in 1 .. Len(list) - 1
        PROVE  (s1 \o s2)[k] = IF k < i THEN list[k] ELSE list[k + 1]
    <2>1. CASE k < i
      BY <2>1, <1>0, <1>3, <1>4, <1>5
    <2>2. CASE ~ (k < i)
      <3>1. (s1 \o s2)[k] = s2[k - (i - 1)] /\ k - (i - 1) \in 1 .. Len(list) - i
        BY <2>2, <1>0, <1>3, <1>5
      <3>2. s2[k - (i - 1)] = list[i + (k - (i - 1))] /\ i + (k - (i - 1)) = k + 1
        BY <3>1, <1>0, <1>4
      <3>3. QED BY <2>2, <3>1, <3>2
    <2>3. QED BY <2>1, <2>2
  <1>8. QED BY <1>6, <1>7 DEF Without, s1, s2

(* What a step of an actor does not touch.                                 *)
LEMMA OnceStepBounds ==
  ASSUME NothingRepeats, OnceShape, NEW a \in Actors, Step(a)
  PROVE  /\ UNCHANGED <<events, changes>>
         /\ pc[a] \notin {"init", "idle", "none", "run", "done"}
         /\ Launch(a) \/ UNCHANGED launched
         /\ Register(a) \/ EndRemove(a) \/ UNCHANGED running
         /\ Launch(a) \/ \A b \in Actors \ {a} : pc'[b] = pc[b]
  <1> USE DEF OnceShape, Goto
  <1>1. CASE \/ Select(a) \/ LeaveLoop(a) \/ CancelPrevious(a) \/ NoPrevious(a)
            \/ AwaitPrevious(a) \/ Prepare(a)
    BY <1>1 DEF Select, LeaveLoop, CancelPrevious, NoPrevious, AwaitPrevious, Prepare, data
  <1>2. CASE FailToStart(a) \/ Launch(a) \/ Register(a) \/ Announce(a)
    BY <1>2 DEF FailToStart, Launch, Register, Announce, data
  <1>3. CASE \/ BeginRemove(a) \/ EndRemove(a) \/ NothingToRemove(a) \/ Release(a)
    BY <1>3 DEF BeginRemove, EndRemove, NothingToRemove, Release, data
  <1>4. CASE Prune(a) \/ CountRunning(a) \/ CheckCompletion(a) \/ SignalCompletion(a)
    BY <1>4 DEF Prune, CountRunning, CheckCompletion, SignalCompletion, Return, data
  <1>5. QED BY <1>1, <1>2, <1>3, <1>4 DEF Step

(* No provider's start schedules a consumer.                               *)
LEMMA AnnouncesNothing ==
  ASSUME NothingRepeats, OnceShape, OneTry, NEW a \in Actors, Announce(a)
  PROVE  queue' = queue
  <1>1. sel[a] \in Tasks
    BY DEF Announce, OneTry, OnceShape
  <1>2. RestartedBy(sel[a], changed[a]) \subseteq RestartedBy(sel[a], TRUE)
    BY DEF RestartedBy
  <1>3. RestartedBy(sel[a], changed[a]) = {}
    BY <1>1, <1>2 DEF NothingRepeats
  <1>4. QED BY <1>3 DEF Announce

(* A task in the list is there as its first instance.                      *)
LEMMA ListedOnce ==
  ASSUME OnceShape, OnceListed, NEW k \in DOMAIN running
  PROVE  running[k] = <<running[k][1], 1>> /\ running[k] \in Instances
         /\ launched[running[k][1]] = 1
  <1>1. running[k] \in Instances /\ running[k][2] = 1
    BY DEF OnceShape, OnceListed
  <1>2. \A i \in Instances : i = <<i[1], i[2]>>
    BY DEF Instances
  <1>3. QED BY <1>1, <1>2 DEF OnceListed

LEMMA OnceShapeStep ==
  ASSUME NothingRepeats, OnceShape, OneTry, OnceListed, [Next]_vars
  PROVE  OnceShape'
  <1> USE ActorsKnown, RunnerAssumption DEF OnceShape, Goto, Set
  <1>0. MaxLaunches \in Nat /\ \A i \in Instances : i[1] \in Tasks
    BY DEF Instances
  <1>1. CASE ScheduleAll
    BY <1>1 DEF ScheduleAll, locals, Labels
  <1>2. CASE FileChange
    BY <1>2 DEF FileChange
  <1>3. ASSUME NEW t \in Watched, Modify(t) PROVE OnceShape'
    BY <1>3 DEF Modify, NothingRepeats
  <1>4. ASSUME NEW i \in Instances, Exit(i) PROVE OnceShape'
    BY <1>4 DEF Exit, data, Labels
  <1>5. ASSUME NEW a \in Actors, Step(a) PROVE OnceShape'
    <2>0. UNCHANGED <<events, changes>>
      BY <1>5, OnceStepBounds
    <2>1. CASE Select(a)
      BY <2>0, <2>1 DEF Select, Labels
    <2>2. CASE LeaveLoop(a)
      BY <2>0, <2>2 DEF LeaveLoop, AfterLoop, data, locals, Labels
    <2>3. CASE CancelPrevious(a)
      <3>0. launched[sel[a]] = 0
        BY <2>3 DEF CancelPrevious, OneTry, Starting
      <3>1. ~Listed(sel[a])
        BY <3>0, ListedOnce DEF Listed, TasksIn
      <3>2. QED BY <2>3, <3>1 DEF CancelPrevious
    <2>4. CASE NoPrevious(a)
      BY <2>0, <2>4 DEF NoPrevious, data, locals, Labels
    <2>5. CASE AwaitPrevious(a)
      BY <2>0, <2>5 DEF AwaitPrevious, data, Labels
    <2>6. CASE Prepare(a)
      BY <2>0, <2>6 DEF Prepare, Labels
    <2>7. CASE FailToStart(a)
      BY <2>0, <2>7 DEF FailToStart, data, locals, Labels
    <2>8. CASE Launch(a)
      <3>1. sel[a] \in Tasks
        BY <2>8 DEF Launch, OneTry, Starting
      <3>2. launched[sel[a]] \in 0 .. MaxLaunches /\ launched[sel[a]] < MaxLaunches
        BY <2>8, <3>1 DEF Launch
      <3>3. launched[sel[a]] + 1 \in 1 .. MaxLaunches /\ <<sel[a], launched[sel[a]] + 1>> \in Instances
        BY <1>0, <3>1, <3>2 DEF Instances
      <3>4. launched' \in [Tasks -> 0 .. MaxLaunches]
        BY <1>0, <2>8, <3>3 DEF Launch
      <3>5. pc' \in [Actors -> Labels] /\ peer' \in [Actors -> Instances \cup {NoInstance}]
        BY <2>8, <3>3 DEF Launch, Labels
      <3>6. QED BY <2>0, <2>8, <3>4, <3>5 DEF Launch
    <2>9. CASE Register(a)
      <3>1. peer[a] \in Instances
        <4>1. peer[a] = <<sel[a], 1>> /\ launched[sel[a]] = 1 /\ sel[a] \in Tasks
          BY <2>9 DEF Register, OnceListed, OneTry
        <4>2. QED BY <1>0, <4>1 DEF Instances
      <3>2. running' \in Seq(Instances) /\ Len(running') = Len(running) + 1
        BY <2>9, <3>1 DEF Register
      <3>3. shift' \in 0 .. Len(running')
        BY <2>9, <3>2 DEF Register
      <3>4. QED BY <2>0, <2>9, <3>2, <3>3 DEF Register, Labels
    <2>10. CASE Announce(a)
      BY <2>0, <2>10, AnnouncesNothing DEF Announce, Labels
    <2>11. CASE BeginRemove(a)
      <3>1. PICK k \in DOMAIN running : running[k][1] = Subject(a)
        BY <2>11 DEF BeginRemove, Listed, TasksIn
      <3>2. \A j \in DOMAIN running : running[j][1] = Subject(a) => running[j] = running[k]
        BY <3>1, ListedOnce
      <3>3. \A j \in 1 .. k - 1 : j \in DOMAIN running /\ running[j][1] # Subject(a)
        BY <3>1, <3>2 DEF OnceListed
      <3>4. Position(Subject(a)) \in DOMAIN running
        BY <3>1, <3>3 DEF Position
      <3>5. shift' \in 0 .. Len(running)
        BY <2>11, <3>4 DEF BeginRemove
      <3>6. QED BY <2>0, <2>11, <3>5 DEF BeginRemove, locals, Labels
    <2>12. CASE EndRemove(a)
      <3>1. shift \in 1 .. Len(running)
        BY <2>12 DEF EndRemove, OnceListed, Removing
      <3>2. running' \in Seq(Instances) /\ Len(running') = Len(running) - 1 /\ shift' = 0
        BY <2>12, <3>1, WithoutProperties DEF EndRemove
      <3>3. shift' \in 0 .. Len(running')
        BY <3>1, <3>2
      <3>4. QED BY <2>0, <2>12, <3>2, <3>3 DEF EndRemove, Removed, Labels
    <2>13. CASE NothingToRemove(a)
      BY <2>0, <2>13 DEF NothingToRemove, Removed, data, Labels
    <2>14. CASE Release(a)
      BY <2>0, <2>14 DEF Release, locals, Labels
    <2>15. CASE Prune(a)
      BY <2>0, <2>15 DEF Prune, Return, locals, Labels
    <2>16. CASE CountRunning(a)
      BY <2>0, <2>16 DEF CountRunning, data, Labels
    <2>17. CASE CheckCompletion(a) \/ SignalCompletion(a)
      BY <2>0, <2>17 DEF CheckCompletion, SignalCompletion, Return, Labels
    <2>18. QED BY <1>5, <2>1, <2>2, <2>3, <2>4, <2>5, <2>6, <2>7, <2>8, <2>9, <2>10, <2>11,
             <2>12, <2>13, <2>14, <2>15, <2>16, <2>17 DEF Step
  <1>6. CASE UNCHANGED vars
    BY <1>6 DEF vars, data, locals
  <1>7. QED BY <1>1, <1>2, <1>3, <1>4, <1>5, <1>6 DEF Next

LEMMA BeforeStartStep ==
  ASSUME NothingRepeats, OnceShape, BeforeStart, [Next]_vars
  PROVE  BeforeStart'
  <1> USE ActorsKnown DEF OnceShape, Goto
  <1>1. CASE ScheduleAll
    BY <1>1 DEF ScheduleAll, BeforeStart
  <1>2. ASSUME NEW t \in Watched, Modify(t) PROVE BeforeStart'
    BY <1>2 DEF Modify, BeforeStart, locals
  <1>3. ASSUME NEW i \in Instances, Exit(i) PROVE BeforeStart'
    <2>1. pc[starter] # "init"
      BY <1>3 DEF Exit, BeforeStart
    <2>2. QED BY <1>3, <2>1 DEF Exit, BeforeStart
  <1>4. ASSUME NEW a \in Actors, Step(a) PROVE BeforeStart'
    <2>1. pc[starter] # "init" /\ pc[a] # "init"
      BY <1>4, OnceStepBounds DEF BeforeStart
    <2>2. pc'[starter] # "init"
      <3>1. CASE Launch(a)
        BY <2>1, <3>1 DEF Launch
      <3>2. CASE ~Launch(a) /\ starter # a
        BY <1>4, <2>1, <3>2, OnceStepBounds
      <3>3. CASE \/ Select(a) \/ LeaveLoop(a) \/ CancelPrevious(a) \/ NoPrevious(a)
                \/ AwaitPrevious(a) \/ Prepare(a) \/ FailToStart(a) \/ Register(a) \/ Announce(a)
        BY <2>1, <3>3 DEF Select, LeaveLoop, AfterLoop, CancelPrevious, NoPrevious, AwaitPrevious,
             Prepare, FailToStart, Register, Announce
      <3>4. CASE \/ BeginRemove(a) \/ EndRemove(a) \/ NothingToRemove(a) \/ Release(a)
                \/ Prune(a) \/ CountRunning(a) \/ CheckCompletion(a) \/ SignalCompletion(a)
        BY <2>1, <3>4 DEF BeginRemove, EndRemove, NothingToRemove, Removed, Release, Prune,
             CountRunning, CheckCompletion, SignalCompletion, Return
      <3>5. QED BY <1>4, <3>1, <3>2, <3>3, <3>4 DEF Step
    <2>3. QED BY <2>2 DEF BeforeStart
  <1>5. CASE FileChange \/ UNCHANGED vars
    BY <1>5 DEF FileChange, BeforeStart, vars, data, locals
  <1>6. QED BY <1>1, <1>2, <1>3, <1>4, <1>5 DEF Next

(* The instance that is launched is the first of its task, and was new.    *)
LEMMA LaunchOnce ==
  ASSUME OnceShape, OneTry, Fresh, NEW a \in Actors, Launch(a)
  PROVE  /\ pc[a] = "launch" /\ sel[a] \in Tasks /\ launched[sel[a]] = 0
         /\ launched' = [launched EXCEPT ![sel[a]] = 1]
         /\ <<sel[a], 1>> \in Instances /\ <<sel[a], 1>> \in Actors
         /\ pc[<<sel[a], 1>>] = "none" /\ a # <<sel[a], 1>>
         /\ peer' = [peer EXCEPT ![a] = <<sel[a], 1>>]
         /\ pc' = [pc EXCEPT ![a] = "register", ![<<sel[a], 1>>] = "run"]
         /\ UNCHANGED <<queue, running, shift, sel>>
  <1>1. pc[a] = "launch" /\ sel[a] \in Tasks /\ launched[sel[a]] = 0 /\ 0 < MaxLaunches
    BY DEF Launch, OneTry, Starting, OnceShape
  <1>2. launched[sel[a]] + 1 = 1
    BY <1>1
  <1>3. 1 \in 1 .. MaxLaunches /\ <<sel[a], 1>> \in Instances
    BY <1>1, RunnerAssumption DEF Instances
  <1>4. pc[<<sel[a], 1>>] = "none"
    BY <1>1, <1>3 DEF Fresh
  <1>5. QED BY <1>1, <1>2, <1>3, <1>4, ActorsKnown DEF Launch, Set

(* An actor that goes on without launching, or gives its task up.          *)
LEMMA TryEnds ==
  ASSUME OnceShape, OneTry, NEW a \in Actors,
         queue' \subseteq queue, launched' = launched,
         \A b \in Actors \ {a} : pc'[b] = pc[b] /\ sel'[b] = sel[b],
         sel'[a] \in {sel[a], NoTask},
         pc[a] \notin {"register", "announce"},
         pc'[a] \notin Starting \cup {"register", "announce"}
  PROVE  OneTry'
  <1>1. \A b \in Actors : sel'[b] \in {sel[b], NoTask}
    OBVIOUS
  <1>2. \A t \in queue' : launched'[t] = 0 /\ \A b \in Actors : sel'[b] # t
    BY <1>1, RunnerAssumption DEF OneTry, OnceShape
  <1>3. \A b, c \in Actors : sel'[b] = sel'[c] /\ sel'[b] # NoTask => b = c
    BY <1>1 DEF OneTry
  <1>4. \A b \in Actors : pc'[b] \in Starting \cup {"register", "announce"} => sel'[b] # NoTask
    BY DEF OneTry
  <1>5. \A b \in Actors :
          sel'[b] # NoTask /\ pc'[b] \notin {"register", "announce"} => launched'[sel'[b]] = 0
    BY <1>1 DEF OneTry
  <1>6. QED BY <1>2, <1>3, <1>4, <1>5 DEF OneTry

LEMMA OneTryStep ==
  ASSUME NothingRepeats, OnceShape, BeforeStart, OneTry, Fresh, [Next]_vars
  PROVE  OneTry'
  <1> USE ActorsKnown, RunnerAssumption DEF OnceShape, Goto, Set, OneTry, Starting
  <1>1. CASE ScheduleAll
    <2>1. /\ \A t \in Tasks : launched'[t] = 0 /\ launched' = launched
          /\ \A b \in Actors : sel'[b] = NoTask /\ pc'[b] \in {"loop", "init", "idle", "none"}
      BY <1>1 DEF ScheduleAll, BeforeStart, locals
    <2>2. queue' \subseteq Tasks
      BY <1>1 DEF ScheduleAll
    <2>3. QED BY <2>1, <2>2
  <1>2. CASE FileChange
    BY <1>2 DEF FileChange
  <1>3. ASSUME NEW t \in Watched, Modify(t) PROVE OneTry'
    BY <1>3 DEF Modify, locals
  <1>4. ASSUME NEW i \in Instances, Exit(i) PROVE OneTry'
    BY <1>4 DEF Exit, data
  <1>5. ASSUME NEW a \in Actors, Step(a) PROVE OneTry'
    <2>1. CASE Select(a)
      BY <2>1 DEF Select
    <2>2. CASE LeaveLoop(a)
      BY <2>2 DEF LeaveLoop, AfterLoop, data, locals
    <2>3. CASE CancelPrevious(a)
      BY <2>3 DEF CancelPrevious
    <2>4. CASE NoPrevious(a)
      BY <2>4 DEF NoPrevious, data, locals
    <2>5. CASE AwaitPrevious(a)
      BY <2>5 DEF AwaitPrevious, data
    <2>6. CASE Prepare(a)
      BY <2>6 DEF Prepare
    <2>7. CASE FailToStart(a)
      BY <2>7 DEF FailToStart, data, locals
    <2>8. CASE Launch(a)
      <3>1. /\ pc[a] = "launch" /\ sel[a] \in Tasks /\ launched[sel[a]] = 0
            /\ launched' = [launched EXCEPT ![sel[a]] = 1]
            /\ a # <<sel[a], 1>> /\ UNCHANGED <<queue, sel>>
            /\ pc' = [pc EXCEPT ![a] = "register", ![<<sel[a], 1>>] = "run"]
        BY <2>8, LaunchOnce
      <3>2. pc'[a] = "register" /\ \A b \in Actors \ {a} : pc'[b] \in {pc[b], "run"}
        BY <3>1
      <3>3. \A t \in Tasks : launched'[t] = IF t = sel[a] THEN 1 ELSE launched[t]
        BY <3>1
      <3>4. \A b \in Actors \ {a} : sel[b] # sel[a]
        BY <3>1
      <3>5. sel[a] \notin queue
        BY <3>1
      <3>6. /\ \A t \in queue' : launched'[t] = 0 /\ \A b \in Actors : sel'[b] # t
            /\ \A t \in Tasks : launched'[t] <= 1
        BY <3>1, <3>3, <3>5
      <3>7. \A b \in Actors : pc'[b] \in Starting \cup {"register", "announce"} => sel'[b] # NoTask
        BY <3>1, <3>2
      <3>8. \A b \in Actors :
              sel'[b] # NoTask /\ pc'[b] \notin {"register", "announce"} => launched'[sel'[b]] = 0
        <4> SUFFICES ASSUME NEW b \in Actors, sel[b] # NoTask, pc'[b] \notin {"register", "announce"}
                     PROVE  launched'[sel[b]] = 0
          BY <3>1
        <4>1. b # a /\ sel[b] \in Tasks /\ pc'[b] \in {pc[b], "run"}
          BY <3>2
        <4>2. CASE b = <<sel[a], 1>>
          <5>1. pc[b] = "none"
            BY <2>8, <4>2, LaunchOnce
          <5>2. QED BY <4>1, <5>1, <3>3, <3>4
        <4>3. CASE b # <<sel[a], 1>>
          BY <3>1, <3>3, <3>4, <4>1, <4>3
        <4>4. QED BY <4>2, <4>3
      <3>9. QED BY <3>1, <3>6, <3>7, <3>8
    <2>9. CASE Register(a)
      BY <2>9 DEF Register
    <2>10. CASE Announce(a)
      BY <2>10, AnnouncesNothing DEF Announce
    <2>11. CASE BeginRemove(a)
      BY <2>11 DEF BeginRemove, locals
    <2>12. CASE EndRemove(a)
      BY <2>12 DEF EndRemove, Removed
    <2>13. CASE NothingToRemove(a)
      BY <2>13 DEF NothingToRemove, Removed, data
    <2>14. CASE Release(a)
      BY <2>14 DEF Release, locals
    <2>15. CASE Prune(a)
      <3>1. queue' \subseteq queue /\ launched' = launched
        BY <2>15 DEF Prune
      <3>2. /\ pc'[a] \in {"check", "done", "loop"} /\ \A b \in Actors \ {a} : pc'[b] = pc[b]
            /\ \A b \in Actors \ {a} : sel'[b] = sel[b]
            /\ sel'[a] \in {sel[a], NoTask} /\ pc[a] = "prune"
        BY <2>15 DEF Prune, Return, locals
      <3>3. QED BY <3>1, <3>2, TryEnds
    <2>16. CASE CountRunning(a)
      BY <2>16 DEF CountRunning, data
    <2>17. CASE CheckCompletion(a) \/ SignalCompletion(a)
      <3>1. queue' = queue /\ launched' = launched
        BY <2>17 DEF CheckCompletion, SignalCompletion
      <3>2. /\ pc'[a] \in {"done", "loop"} /\ \A b \in Actors \ {a} : pc'[b] = pc[b]
            /\ \A b \in Actors \ {a} : sel'[b] = sel[b]
            /\ sel'[a] \in {sel[a], NoTask} /\ pc[a] \in {"check2", "signal"}
        BY <2>17 DEF CheckCompletion, SignalCompletion, Return
      <3>3. QED BY <3>1, <3>2, TryEnds
    <2>18. QED BY <1>5, <2>1, <2>2, <2>3, <2>4, <2>5, <2>6, <2>7, <2>8, <2>9, <2>10, <2>11,
             <2>12, <2>13, <2>14, <2>15, <2>16, <2>17 DEF Step
  <1>6. CASE UNCHANGED vars
    BY <1>6 DEF vars, data, locals
  <1>7. QED BY <1>1, <1>2, <1>3, <1>4, <1>5, <1>6 DEF Next

LEMMA FreshOnceStep ==
  ASSUME NothingRepeats, OnceShape, OneTry, Fresh, [Next]_vars
  PROVE  Fresh'
  <1> USE ActorsKnown DEF OnceShape, Goto
  <1>0. ASSUME launched' = launched, \A i \in Instances : pc[i] = "none" => pc'[i] = "none"
        PROVE  Fresh'
    BY <1>0 DEF Fresh, Instances
  <1>1. CASE ScheduleAll \/ FileChange
    BY <1>1, <1>0, ActorsAssumption DEF ScheduleAll, FileChange
  <1>2. ASSUME NEW t \in Watched, Modify(t) PROVE Fresh'
    BY <1>2, <1>0 DEF Modify
  <1>3. ASSUME NEW i \in Instances, Exit(i) PROVE Fresh'
    BY <1>3, <1>0 DEF Exit, data
  <1>4. ASSUME NEW a \in Actors, Step(a), ~Launch(a) PROVE Fresh'
    <2>1. pc[a] # "none" /\ launched' = launched /\ \A b \in Actors \ {a} : pc'[b] = pc[b]
      BY <1>4, OnceStepBounds, Zenon DEF Step
    <2>2. pc[a] = "none" \/ \A i \in Instances : pc[i] = "none" => pc'[i] = "none"
      BY <2>1
    <2>3. QED BY <2>1, <2>2, <1>0
  <1>5. ASSUME NEW a \in Actors, Launch(a) PROVE Fresh'
    <2> SUFFICES ASSUME NEW u \in Tasks, NEW k \in 1 .. MaxLaunches, k > launched'[u]
                 PROVE  pc'[<<u, k>>] = "none"
      BY DEF Fresh
    <2>1. /\ pc[a] = "launch" /\ sel[a] \in Tasks /\ launched[sel[a]] = 0
          /\ launched' = [launched EXCEPT ![sel[a]] = 1]
          /\ pc' = [pc EXCEPT ![a] = "register", ![<<sel[a], 1>>] = "run"]
      BY <1>5, LaunchOnce
    <2>2. k > launched[u] /\ (u = sel[a] => k # 1)
      BY <2>1, RunnerAssumption
    <2>3. pc[<<u, k>>] = "none" /\ <<u, k>> \in Instances
      BY <2>2 DEF Fresh, Instances
    <2>4. <<u, k>> # a /\ <<u, k>> # <<sel[a], 1>>
      BY <2>1, <2>2, <2>3
    <2>5. QED BY <2>1, <2>3, <2>4
  <1>6. CASE UNCHANGED vars
    BY <1>6, <1>0 DEF vars, data, locals
  <1>7. QED BY <1>1, <1>2, <1>3, <1>4, <1>5, <1>6 DEF Next

(* A step that leaves the list alone.                                      *)
LEMMA ListKept ==
  ASSUME OnceShape, OnceListed, NoOrphan, NEW a \in Actors,
         UNCHANGED <<running, shift, launched>>,
         \A b \in Actors \ {a} : pc'[b] = pc[b] /\ sel'[b] = sel[b] /\ peer'[b] = peer[b],
         pc[a] # "register", pc'[a] \notin Removing \cup {"register", "run"},
         pc'[a] = "finish" => a \in Instances \/ sel'[a] # NoTask
  PROVE  OnceListed' /\ NoOrphan'
  <1>1. OnceListed'
    BY DEF OnceListed
  <1>2. NoOrphan'
    <2> SUFFICES ASSUME NEW i \in Instances, pc'[i] = "run"
                 PROVE  \/ \E k \in DOMAIN running' : running'[k] = i
                        \/ \E b \in Actors : peer'[b] = i /\ pc'[b] = "register"
      BY DEF NoOrphan
    <2>1. i # a /\ pc[i] = "run"
      BY ActorsKnown
    <2>2. CASE \E k \in DOMAIN running : running[k] = i
      BY <2>2
    <2>3. ASSUME NEW b \in Actors, peer[b] = i, pc[b] = "register"
          PROVE  peer'[b] = i /\ pc'[b] = "register"
      BY <2>3
    <2>4. QED BY <2>1, <2>2, <2>3 DEF NoOrphan
  <1>3. QED BY <1>1, <1>2

LEMMA LaunchListed ==
  ASSUME OnceShape, OneTry, Fresh, OnceListed, NoOrphan, NEW a \in Actors, Launch(a)
  PROVE  OnceListed' /\ NoOrphan'
  <1> DEFINE i == <<sel[a], 1>>
  <1>1. /\ pc[a] = "launch" /\ sel[a] \in Tasks /\ launched[sel[a]] = 0
        /\ launched' = [launched EXCEPT ![sel[a]] = 1]
        /\ i \in Instances /\ i \in Actors /\ pc[i] = "none" /\ a # i
        /\ peer' = [peer EXCEPT ![a] = i]
        /\ pc' = [pc EXCEPT ![a] = "register", ![i] = "run"]
        /\ UNCHANGED <<queue, running, shift, sel>>
    BY LaunchOnce
  <1> HIDE DEF i
  <1>2. \A t \in Tasks : launched'[t] = IF t = sel[a] THEN 1 ELSE launched[t]
    BY <1>1 DEF OnceShape
  <1>3. \A b \in Actors : pc'[b] = IF b = i THEN "run" ELSE IF b = a THEN "register" ELSE pc[b]
    BY <1>1 DEF OnceShape
  <1>4. \A b \in Actors : peer'[b] = IF b = a THEN i ELSE peer[b]
    BY <1>1 DEF OnceShape
  <1>5. \A k \in DOMAIN running : running[k][1] \in Tasks /\ running[k][1] # sel[a] /\ running[k] # i
    BY <1>1, ListedOnce DEF i, Instances
  <1>6. \A k \in DOMAIN running' : running'[k][2] = 1 /\ launched'[running'[k][1]] = 1
    BY <1>1, <1>2, <1>5 DEF OnceListed
  <1>7. ASSUME NEW b \in Actors, pc'[b] = "register"
        PROVE  /\ peer'[b] = <<sel'[b], 1>> /\ launched'[sel'[b]] = 1
               /\ \A k \in DOMAIN running' : running'[k] # peer'[b]
    <2>1. CASE b = a
      BY <2>1, <1>1, <1>2, <1>4, <1>5 DEF i
    <2>2. CASE b # a
      <3>1. pc[b] = "register" /\ peer'[b] = peer[b]
        BY <2>2, <1>3, <1>4, <1>7
      <3>2. sel[b] \in Tasks /\ sel[b] # sel[a]
        BY <3>1, <2>2, <1>1 DEF OneTry, OnceShape
      <3>3. QED BY <3>1, <3>2, <1>1, <1>2 DEF OnceListed
    <2>3. QED BY <2>1, <2>2
  <1>8. \A b \in Actors : pc'[b] \in {"run", "finish"} => b \in Instances \/ sel'[b] # NoTask
    BY <1>1, <1>3 DEF OnceListed
  <1>9. \A b \in Actors : pc'[b] \in Removing => shift' # 0 /\ sel'[b] = NoTask /\ running'[shift'] = b
    BY <1>1, <1>3 DEF OnceListed, Removing
  <1>10. OnceListed'
    BY <1>1, <1>6, <1>7, <1>8, <1>9 DEF OnceListed
  <1>11. NoOrphan'
    <2> SUFFICES ASSUME NEW j \in Instances, pc'[j] = "run"
                 PROVE  \/ \E k \in DOMAIN running' : running'[k] = j
                        \/ \E b \in Actors : peer'[b] = j /\ pc'[b] = "register"
      BY DEF NoOrphan
    <2>1. CASE j = i
      BY <2>1, <1>1, <1>3, <1>4
    <2>2. CASE j # i
      <3>1. pc[j] = "run"
        BY <2>2, <1>3, ActorsKnown
      <3>2. CASE \E k \in DOMAIN running : running[k] = j
        BY <3>2, <1>1
      <3>3. ASSUME NEW b \in Actors, peer[b] = j, pc[b] = "register"
            PROVE  peer'[b] = j /\ pc'[b] = "register"
        BY <3>3, <1>1, <1>3, <1>4
      <3>4. QED BY <3>1, <3>2, <3>3 DEF NoOrphan
    <2>3. QED BY <2>1, <2>2
  <1>12. QED BY <1>10, <1>11

LEMMA RegisterListed ==
  ASSUME OnceShape, OneTry, OnceListed, NoOrphan, NEW a \in Actors, Register(a)
  PROVE  OnceListed' /\ NoOrphan'
  <1> USE DEF OnceShape
  <1>1. /\ pc[a] = "register" /\ shift = 0 /\ running' = Append(running, peer[a])
        /\ peer' = [peer EXCEPT ![a] = NoInstance] /\ pc' = [pc EXCEPT ![a] = "announce"]
        /\ UNCHANGED <<shift, launched, sel>>
    BY DEF Register, Unlocked, Goto, Set
  <1>2. /\ peer[a] = <<sel[a], 1>> /\ launched[sel[a]] = 1
        /\ \A k \in DOMAIN running : running[k] # peer[a]
    BY <1>1 DEF OnceListed
  <1>3. sel[a] \in Tasks /\ peer[a] \in Instances
    <2>1. sel[a] \in Tasks
      BY <1>1 DEF OneTry
    <2>2. 1 \in 1 .. MaxLaunches
      BY <1>2, <2>1, RunnerAssumption
    <2>3. QED BY <1>2, <2>1, <2>2 DEF Instances
  <1>4. /\ Len(running') = Len(running) + 1 /\ DOMAIN running' = 1 .. Len(running) + 1
        /\ \A k \in 1 .. Len(running) : running'[k] = running[k]
        /\ running'[Len(running) + 1] = peer[a]
        /\ Len(running) \in Nat /\ DOMAIN running = 1 .. Len(running)
    BY <1>1, <1>3
  <1>5. \A k \in DOMAIN running' : k \in DOMAIN running \/ k = Len(running) + 1
    BY <1>4
  <1>6. \A k \in DOMAIN running' : running'[k][2] = 1 /\ launched'[running'[k][1]] = 1
    BY <1>1, <1>2, <1>4, <1>5 DEF OnceListed
  <1>7. \A j, k \in DOMAIN running' : running'[j] = running'[k] => j = k
    BY <1>2, <1>4, <1>5 DEF OnceListed
  <1>8. ASSUME NEW b \in Actors, pc'[b] = "register"
        PROVE  /\ peer'[b] = <<sel'[b], 1>> /\ launched'[sel'[b]] = 1
               /\ \A k \in DOMAIN running' : running'[k] # peer'[b]
    <2>1. b # a /\ pc[b] = "register" /\ peer'[b] = peer[b]
      BY <1>1, <1>8
    <2>2. sel[b] # sel[a]
      BY <1>1, <2>1, <1>3, RunnerAssumption DEF OneTry
    <2>3. peer[b] = <<sel[b], 1>> /\ launched[sel[b]] = 1 /\ \A k \in DOMAIN running : running[k] # peer[b]
      BY <2>1 DEF OnceListed
    <2>4. peer[b] # peer[a]
      BY <2>2, <2>3, <1>2
    <2>5. QED BY <1>1, <1>4, <1>5, <2>1, <2>3, <2>4
  <1>9. \A b \in Actors : pc'[b] \in {"run", "finish"} => b \in Instances \/ sel'[b] # NoTask
    BY <1>1 DEF OnceListed
  <1>10. \A b \in Actors : pc'[b] \notin Removing
    BY <1>1 DEF OnceListed, Removing
  <1>11. OnceListed'
    BY <1>6, <1>7, <1>8, <1>9, <1>10 DEF OnceListed
  <1>12. NoOrphan'
    <2> SUFFICES ASSUME NEW j \in Instances, pc'[j] = "run"
                 PROVE  \/ \E k \in DOMAIN running' : running'[k] = j
                        \/ \E b \in Actors : peer'[b] = j /\ pc'[b] = "register"
      BY DEF NoOrphan
    <2>1. pc[j] = "run"
      BY <1>1, ActorsKnown
    <2>2. ASSUME NEW k \in DOMAIN running, running[k] = j
          PROVE  k \in DOMAIN running' /\ running'[k] = j
      BY <2>2, <1>4
    <2>3. ASSUME NEW b \in Actors, peer[b] = j, pc[b] = "register"
          PROVE  \/ \E k \in DOMAIN running' : running'[k] = j
                 \/ peer'[b] = j /\ pc'[b] = "register"
      <3>1. CASE b = a
        BY <3>1, <2>3, <1>4
      <3>2. CASE b # a
        BY <3>2, <2>3, <1>1
      <3>3. QED BY <3>1, <3>2
    <2>4. QED BY <2>1, <2>2, <2>3 DEF NoOrphan
  <1>13. QED BY <1>11, <1>12

(* An actor takes out the entry of its own process.                        *)
LEMMA BeginRemoveListed ==
  ASSUME OnceShape, OneTry, Fresh, OnceListed, NoOrphan, NEW a \in Actors, BeginRemove(a)
  PROVE  OnceListed' /\ NoOrphan'
  <1> USE DEF OnceShape
  <1>1. /\ pc[a] \in {"finish", "unlist"} /\ shift = 0 /\ Listed(Subject(a))
        /\ shift' = Position(Subject(a)) /\ UNCHANGED <<running, launched, sel, peer>>
        /\ pc' = [pc EXCEPT ![a] = IF pc[a] = "finish" THEN "finishing" ELSE "unlisting"]
    BY DEF BeginRemove, Unlocked, Goto, locals
  <1>2. PICK k \in DOMAIN running : running[k][1] = Subject(a)
    BY <1>1 DEF Listed, TasksIn
  <1>3. sel[a] = NoTask
    <2>1. CASE sel[a] # NoTask
      <3>1. launched[sel[a]] = 0 /\ Subject(a) = sel[a]
        BY <1>1, <2>1 DEF OneTry, Subject
      <3>2. QED BY <3>1, <1>2, ListedOnce
    <2>2. QED BY <2>1
  <1>4. pc[a] = "finish" /\ a \in Instances /\ Subject(a) = a[1]
    BY <1>1, <1>3 DEF OneTry, OnceListed, Starting, Subject
  <1>5. a = <<a[1], 1>>
    <2>1. a = <<a[1], a[2]>> /\ a[1] \in Tasks /\ a[2] \in 1 .. MaxLaunches
      BY <1>4 DEF Instances
    <2>2. ~ (a[2] > launched[a[1]])
      BY <2>1, <1>4 DEF Fresh
    <2>3. launched[a[1]] <= 1 /\ launched[a[1]] \in Nat /\ a[2] \in Nat /\ a[2] >= 1
      BY <2>1, RunnerAssumption DEF OneTry
    <2>4. a[2] = 1
      BY <2>2, <2>3
    <2>5. QED BY <2>1, <2>4
  <1>6. \A j \in DOMAIN running : running[j][1] = Subject(a) => running[j] = a
    BY <1>4, <1>5, ListedOnce
  <1>7. \A j \in 1 .. k - 1 : j \in DOMAIN running /\ running[j][1] # Subject(a)
    BY <1>2, <1>6 DEF OnceListed
  <1>8. Position(Subject(a)) \in DOMAIN running /\ running[Position(Subject(a))][1] = Subject(a)
    BY <1>2, <1>7 DEF Position
  <1>9. shift' # 0 /\ running'[shift'] = a
    BY <1>1, <1>6, <1>8
  <1>10. \A b \in Actors \ {a} : pc'[b] = pc[b] /\ pc[b] \notin Removing
    BY <1>1 DEF OnceListed
  <1>11. OnceListed'
    BY <1>1, <1>3, <1>4, <1>9, <1>10 DEF OnceListed, Removing
  <1>12. NoOrphan'
    BY <1>1, ActorsKnown DEF NoOrphan
  <1>13. QED BY <1>11, <1>12

LEMMA EndRemoveListed ==
  ASSUME OnceShape, OneTry, OnceListed, NoOrphan, NEW a \in Actors, EndRemove(a)
  PROVE  OnceListed' /\ NoOrphan'
  <1> USE DEF OnceShape
  <1>1. /\ pc[a] \in Removing /\ running' = Without(running, shift) /\ shift' = 0
        /\ UNCHANGED <<launched, sel, peer>>
        /\ pc'[a] \in {"prepare", "release"} /\ \A b \in Actors \ {a} : pc'[b] = pc[b]
    BY DEF EndRemove, Removing, Removed, Goto
  <1>2. shift \in 1 .. Len(running) /\ running[shift] = a
    BY <1>1 DEF OnceListed
  <1>3. /\ running' \in Seq(Instances) /\ Len(running') = Len(running) - 1
        /\ \A k \in 1 .. Len(running) - 1 :
             running'[k] = IF k < shift THEN running[k] ELSE running[k + 1]
    BY <1>1, <1>2, WithoutProperties
  <1>4. DOMAIN running' = 1 .. Len(running) - 1 /\ DOMAIN running = 1 .. Len(running) /\ Len(running) \in Nat
    BY <1>3
  <1> DEFINE Old(k) == IF k < shift THEN k ELSE k + 1
  <1>5. \A k \in DOMAIN running' : Old(k) \in DOMAIN running /\ running'[k] = running[Old(k)]
    BY <1>2, <1>3, <1>4
  <1>6. \A j, k \in DOMAIN running' : Old(j) = Old(k) => j = k
    BY <1>2, <1>4
  <1>7. ASSUME NEW k \in DOMAIN running, k # shift
        PROVE  \E m \in DOMAIN running' : Old(m) = k
    <2>1. CASE k < shift
      <3>1. k \in DOMAIN running' /\ Old(k) = k
        BY <1>2, <1>4, <2>1
      <3>2. QED BY <3>1
    <2>2. CASE k > shift
      <3>1. k - 1 \in DOMAIN running' /\ Old(k - 1) = k
        BY <1>2, <1>4, <2>2
      <3>2. QED BY <3>1
    <2>3. QED BY <1>2, <1>4, <1>7, <2>1, <2>2
  <1> HIDE DEF Old
  <1>8. /\ \A k \in DOMAIN running' : running'[k][2] = 1 /\ launched'[running'[k][1]] = 1
        /\ \A j, k \in DOMAIN running' : running'[j] = running'[k] => j = k
    BY <1>1, <1>5, <1>6 DEF OnceListed
  <1>9. \A b \in Actors : pc'[b] = "register" =>
          /\ peer'[b] = <<sel'[b], 1>> /\ launched'[sel'[b]] = 1
          /\ \A k \in DOMAIN running' : running'[k] # peer'[b]
    BY <1>1, <1>5 DEF OnceListed
  <1>10. \A b \in Actors : pc'[b] \in {"run", "finish"} => b \in Instances \/ sel'[b] # NoTask
    BY <1>1 DEF OnceListed
  <1>11. \A b \in Actors : pc'[b] \notin Removing
    BY <1>1, <1>2 DEF OnceListed, Removing
  <1>12. OnceListed'
    BY <1>8, <1>9, <1>10, <1>11 DEF OnceListed
  <1>13. NoOrphan'
    <2> SUFFICES ASSUME NEW j \in Instances, pc'[j] = "run"
                 PROVE  \/ \E k \in DOMAIN running' : running'[k] = j
                        \/ \E b \in Actors : peer'[b] = j /\ pc'[b] = "register"
      BY DEF NoOrphan
    <2>1. pc[j] = "run" /\ j # a
      BY <1>1, ActorsKnown
    <2>2. ASSUME NEW k \in DOMAIN running, running[k] = j
          PROVE  \E m \in DOMAIN running' : running'[m] = j
      <3>1. k # shift
        BY <2>1, <2>2, <1>2
      <3>2. QED BY <2>2, <3>1, <1>5, <1>7
    <2>3. ASSUME NEW b \in Actors, peer[b] = j, pc[b] = "register"
          PROVE  peer'[b] = j /\ pc'[b] = "register"
      BY <2>3, <1>1 DEF Removing
    <2>4. QED BY <2>1, <2>2, <2>3 DEF NoOrphan
  <1>14. QED BY <1>12, <1>13

LEMMA OnceListedStep ==
  ASSUME NothingRepeats, OnceShape, OneTry, Fresh, OnceListed, NoOrphan, [Next]_vars
  PROVE  OnceListed' /\ NoOrphan'
  <1> USE ActorsKnown DEF OnceShape, Goto, Set
  <1>1. CASE ScheduleAll
    <2>1. /\ UNCHANGED <<running, shift, launched, sel, peer>> /\ pc[starter] = "init"
          /\ pc'[starter] = "loop" /\ \A b \in Actors \ {starter} : pc'[b] = pc[b]
      BY <1>1 DEF ScheduleAll, locals
    <2>2. QED BY <2>1, ListKept DEF Removing
  <1>2. CASE FileChange
    BY <1>2 DEF FileChange
  <1>3. ASSUME NEW t \in Watched, Modify(t) PROVE OnceListed' /\ NoOrphan'
    BY <1>3 DEF Modify, locals, OnceListed, NoOrphan
  <1>4. ASSUME NEW i \in Instances, Exit(i) PROVE OnceListed' /\ NoOrphan'
    <2>1. /\ UNCHANGED <<running, shift, launched, sel, peer>> /\ pc[i] = "run"
          /\ pc'[i] = "finish" /\ \A b \in Actors \ {i} : pc'[b] = pc[b]
      BY <1>4 DEF Exit, data
    <2>2. QED BY <2>1, ListKept DEF Removing
  <1>5. ASSUME NEW a \in Actors, Step(a) PROVE OnceListed' /\ NoOrphan'
    <2>1. CASE Select(a) \/ LeaveLoop(a)
      <3>1. /\ UNCHANGED <<running, shift, launched, peer>> /\ pc[a] = "loop"
            /\ pc'[a] \in {"begin", "idle", "check", "signal", "done"}
            /\ \A b \in Actors \ {a} : pc'[b] = pc[b] /\ sel'[b] = sel[b]
        BY <2>1 DEF Select, LeaveLoop, AfterLoop, data, locals
      <3>2. QED BY <3>1, ListKept DEF Removing
    <2>2. CASE CancelPrevious(a) \/ NoPrevious(a) \/ AwaitPrevious(a) \/ Prepare(a)
      <3>1. /\ UNCHANGED <<running, shift, launched, sel>>
            /\ pc[a] \in {"begin", "await", "prepare"} /\ pc'[a] \in {"await", "prepare", "unlist", "launch"}
            /\ \A b \in Actors \ {a} : pc'[b] = pc[b] /\ peer'[b] = peer[b]
        BY <2>2 DEF CancelPrevious, NoPrevious, AwaitPrevious, Prepare, data, locals
      <3>2. QED BY <3>1, ListKept DEF Removing
    <2>3. CASE FailToStart(a)
      <3>1. /\ UNCHANGED <<running, shift, launched, sel, peer>>
            /\ pc[a] \in {"prepare", "launch"} /\ pc'[a] = "finish"
            /\ \A b \in Actors \ {a} : pc'[b] = pc[b]
        BY <2>3 DEF FailToStart, data, locals
      <3>2. sel'[a] # NoTask
        BY <3>1 DEF OneTry, Starting
      <3>3. QED BY <3>1, <3>2, ListKept DEF Removing
    <2>4. CASE Launch(a)
      BY <2>4, LaunchListed
    <2>5. CASE Register(a)
      BY <2>5, RegisterListed
    <2>6. CASE Announce(a) \/ NothingToRemove(a) \/ Release(a)
      <3>1. /\ UNCHANGED <<running, shift, launched, peer>>
            /\ pc[a] \in {"announce", "finish", "unlist", "release"}
            /\ pc'[a] \in {"loop", "prepare", "release", "prune"}
            /\ \A b \in Actors \ {a} : pc'[b] = pc[b] /\ sel'[b] = sel[b]
        BY <2>6 DEF Announce, NothingToRemove, Removed, Release, data, locals
      <3>2. QED BY <3>1, ListKept DEF Removing
    <2>7. CASE BeginRemove(a)
      BY <2>7, BeginRemoveListed
    <2>8. CASE EndRemove(a)
      BY <2>8, EndRemoveListed
    <2>9. CASE Prune(a) \/ CountRunning(a) \/ CheckCompletion(a) \/ SignalCompletion(a)
      <3>1. /\ UNCHANGED <<running, shift, launched, peer>>
            /\ pc[a] \in {"prune", "check", "check2", "signal"}
            /\ pc'[a] \in {"check", "check2", "done", "loop"}
            /\ \A b \in Actors \ {a} : pc'[b] = pc[b] /\ sel'[b] = sel[b]
        BY <2>9 DEF Prune, CountRunning, CheckCompletion, SignalCompletion, Return, data, locals
      <3>2. QED BY <3>1, ListKept DEF Removing
    <2>10. QED
      BY <1>5, <2>1, <2>2, <2>3, <2>4, <2>5, <2>6, <2>7, <2>8, <2>9 DEF Step
  <1>6. CASE UNCHANGED vars
    BY <1>6 DEF vars, data, locals, OnceListed, NoOrphan
  <1>7. QED BY <1>1, <1>2, <1>3, <1>4, <1>5, <1>6 DEF Next

THEOREM OnceInvHolds ==
  ASSUME NothingRepeats
  PROVE  Spec => []OnceInv
  <1>1. OnceInv /\ [Next]_vars => OnceInv'
    BY OnceShapeStep, BeforeStartStep, OneTryStep, FreshOnceStep, OnceListedStep DEF OnceInv
  <1>2. QED BY OnceInit, <1>1, PTL DEF Spec

(***************************************************************************)
(* runner.go:602-672, task.once: what is scheduled once is started at most *)
(* once, whichever goroutines find it startable at a time and whatever     *)
(* fails.  This is the safety half of EachRunsOnce.                        *)
(***************************************************************************)
THEOREM StartedAtMostOnce ==
  ASSUME NothingRepeats
  PROVE  Spec => []NeverTwice
  <1>1. OnceInv => NeverTwice
    BY DEF OnceInv, OneTry, NeverTwice
  <1>2. QED BY <1>1, OnceInvHolds, PTL

(***************************************************************************)
(* runner.go:658: without restarts no process of a task runs beside        *)
(* another one, and each is in the list that Stop and the completion check *)
(* go by, or is just being entered: RemoveRunningTask, which goes by task  *)
(* id, never takes out the entry of another instance.                      *)
(***************************************************************************)
THEOREM NoneIsLost ==
  ASSUME NothingRepeats
  PROVE  Spec => [](OneProcessPerTask /\ NoOrphan)
  <1>1. OnceInv => OneProcessPerTask /\ NoOrphan
    <2> SUFFICES ASSUME OnceInv, NEW t \in Tasks PROVE Cardinality(Live(t)) <= 1
      BY DEF OnceInv, OneProcessPerTask
    <2>1. launched[t] <= 1 /\ launched[t] \in Int
      BY RunnerAssumption DEF OnceInv, OneTry, OnceShape
    <2>2. Live(t) \subseteq {<<t, 1>>}
      BY <2>1 DEF Live
    <2>3. IsFiniteSet({<<t, 1>>}) /\ Cardinality({<<t, 1>>}) = 1
      BY FS_Singleton
    <2>4. Cardinality(Live(t)) <= Cardinality({<<t, 1>>})
      BY <2>2, <2>3, FS_Subset
    <2>5. QED BY <2>3, <2>4
  <1>2. QED BY <1>1, OnceInvHolds, PTL
=============================================================================
