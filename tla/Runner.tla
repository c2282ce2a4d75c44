------------------------------- MODULE Runner -------------------------------
(***************************************************************************)
(* The task runner (src/runner.go, with src/task/running_task.go): the     *)
(* queue of scheduled tasks, the list of running ones, and the goroutines  *)
(* that move tasks from one to the other.                                  *)
(*                                                                         *)
(* Every goroutine that can call startScheduledTasks is an actor: the one  *)
(* that runs Runner.Start, the one the watcher calls onFileChange from,    *)
(* and one per instance of a task (RunningTask.Start), whose callback      *)
(* onTaskFinished starts what became startable.  A step is what an actor   *)
(* does under one lock or between two of them; program counters are named  *)
(* after the code that comes next.                                         *)
(*                                                                         *)
(* canStartTask reads RunningTasks without RunningTaskMutex while          *)
(* RemoveRunningTask shifts it in place, so a removal takes two steps and  *)
(* a reader between them may miss an entry (Views).                        *)
(***************************************************************************)
EXTENDS Integers, Sequences, FiniteSets

CONSTANTS
  Tasks,         (* task ids                                                *)
  Continuous,    (* the continuous tasks; the others run once and exit      *)
  Dependencies,  (* [Tasks -> SUBSET Tasks]: depends-on                     *)
  Providers,     (* [Tasks -> SUBSET Tasks]: tasks whose exports it consumes *)
  OnChange,      (* [Tasks -> {"restart","auto","none"}] of the consumer;   *)
                 (* "auto" is direct consumption, which restarts it         *)
  Watched,       (* the tasks with include patterns                         *)
  Initial,       (* what shouldScheduleInitialTask selects                  *)
  MayFail,       (* tasks that may fail to start or exit with an error      *)
  Once,          (* --once mode                                             *)
  OutlivesStart, (* a process lives until its instance has been registered  *)
  MaxLaunches,   (* bound: instances per task                               *)
  MaxChanges,    (* bound: file modifications                               *)
  Helpers,       (* goroutines that only run startScheduledTasks, started   *)
                 (* where the extending modules say                         *)
  starter, watcher, NoTask, NoInstance

ASSUME RunnerAssumption ==
  /\ Continuous \subseteq Tasks /\ MayFail \subseteq Tasks
  /\ Initial \subseteq Tasks /\ Watched \subseteq Tasks
  /\ Dependencies \in [Tasks -> SUBSET Tasks]
  /\ Providers \in [Tasks -> SUBSET Continuous]
  /\ OnChange \in [Tasks -> {"restart", "auto", "none"}]
  /\ Once \in BOOLEAN /\ OutlivesStart \in BOOLEAN
  /\ MaxLaunches \in Nat \ {0} /\ MaxChanges \in Nat
  /\ NoTask \notin Tasks

(* The n-th process started for task t, and the goroutine that runs it.    *)
Instances == Tasks \X (1 .. MaxLaunches)
Actors == {starter, watcher} \cup Helpers \cup Instances

ASSUME ActorsAssumption == ({starter, watcher} \cup Helpers) \cap Instances = {}

VARIABLES
  queue,      (* the keys of ScheduledTasks                                 *)
  running,    (* RunningTasks                                               *)
  shift,      (* position RemoveRunningTask is closing, 0 when none: the    *)
              (* holder of RunningTaskMutex is then inside it               *)
  exported,   (* tasks whose serviceExports are set                         *)
  synced,     (* <<t, p>>: the last start of t used the exports p now has   *)
  stale,      (* tasks whose files changed after lastTaskStartTimes         *)
  events,     (* tasks with changes the watcher has not delivered yet       *)
  changes,    (* how many modifications there were                          *)
  launched,   (* task -> number of instances created                        *)
  cancelled,  (* instances StopGracefully was called on                     *)
  completed,  (* completionChan was written                                 *)
  pc,         (* actor -> what it does next                                 *)
  sel,        (* actor -> the task startScheduledTask works on, or NoTask   *)
  peer,       (* actor -> the instance it awaits or registers               *)
  changed,    (* actor -> exportsChanged of prepareTaskForStart             *)
  errored,    (* actor -> its onTaskFinished call has errored set           *)
  count,      (* actor -> runningCount of its own onTaskFinished            *)
  probe       (* actor -> runningCount of its checkCompletion               *)

data == <<queue, running, shift, exported, synced, stale, events, changes,
          launched, cancelled, completed>>
locals == <<sel, peer, changed, errored, count, probe>>
vars == <<data, pc, locals>>

Goto(a, l) == pc' = [pc EXCEPT ![a] = l]
Set(f, a, v) == [f EXCEPT ![a] = v]

-----------------------------------------------------------------------------
(* The list of running tasks                                               *)

TasksIn(list) == {list[i][1] : i \in DOMAIN list}
Without(list, i) == SubSeq(list, 1, i - 1) \o SubSeq(list, i + 1, Len(list))
Position(t) == CHOOSE i \in DOMAIN running :
  running[i][1] = t /\ \A j \in 1 .. i - 1 : running[j][1] # t
Unlocked == shift = 0
Listed(t) == t \in TasksIn(running)

(* What an unlocked reader may see: the list, or, during the shift, the    *)
(* list without the removed entry or without one that moved behind it.     *)
Views ==
  {running} \cup {Without(running, i) : i \in IF Unlocked THEN {} ELSE shift .. Len(running)}
MaySeeRunning(t) == \E v \in Views : t \in TasksIn(v)
MaySeeIdle(t) == \E v \in Views : t \notin TasksIn(v)

(* canStartTask, when each of its checks is lucky, and when one is not.    *)
MayStart(t) ==
  /\ t \in Continuous \/ MaySeeIdle(t)
  /\ \A d \in Dependencies[t] : d \notin queue /\ MaySeeIdle(d)
  /\ Providers[t] \subseteq exported
MayBlock(t) ==
  \/ t \notin Continuous /\ MaySeeRunning(t)
  \/ \E d \in Dependencies[t] : d \in queue \/ MaySeeRunning(d)
  \/ ~ (Providers[t] \subseteq exported)

PortTasks == UNION {Providers[t] : t \in Tasks}

(* A mutant: new exports restart only the consumers that asked for it.     *)
RestartedExplicitly(p, new) == {t \in Tasks : p \in Providers[t] /\ OnChange[t] = "restart"}

(* Consumers scheduled when p started, with new exports or with the same.  *)
RestartedBy(p, new) ==
  {t \in Tasks : p \in Providers[t] /\
     OnChange[t] \in (IF new THEN {"restart", "auto"} ELSE {"restart"})}

(* Queued tasks that consume p, directly or through queued consumers.      *)
QueuedConsumers(p) ==
  LET reach[n \in 0 .. Cardinality(Tasks)] ==
        IF n = 0 THEN {p}
        ELSE reach[n-1] \cup {t \in queue : Providers[t] \cap reach[n-1] # {}}
  IN {t \in queue : Providers[t] \cap reach[Cardinality(Tasks)] # {}}

-----------------------------------------------------------------------------
Init ==
  /\ queue = {} /\ running = << >> /\ shift = 0
  /\ exported = {} /\ synced = {}
  /\ stale = {} /\ events = {} /\ changes = 0
  /\ launched = [t \in Tasks |-> 0]
  /\ cancelled = {} /\ completed = FALSE
  /\ pc = [a \in Actors |->
       CASE a = starter -> "init"
         [] a \in {watcher} \cup Helpers -> "idle"
         [] OTHER -> "none"]
  /\ sel = [a \in Actors |-> NoTask]
  /\ peer = [a \in Actors |-> NoInstance]
  /\ changed = [a \in Actors |-> FALSE]
  /\ errored = [a \in Actors |-> FALSE]
  /\ count = [a \in Actors |-> 0]
  /\ probe = [a \in Actors |-> 0]

(* Runner.Start schedules all initial tasks.                               *)
ScheduleAll ==
  /\ pc[starter] = "init"
  /\ queue' = queue \cup Initial
  /\ Goto(starter, "loop")
  /\ UNCHANGED <<running, shift, exported, synced, stale, events, changes,
                 launched, cancelled, completed, locals>>

(* A file some task includes is written.                                   *)
Modify(t) ==
  /\ ~Once /\ changes < MaxChanges
  /\ changes' = changes + 1
  /\ stale' = stale \cup {t} /\ events' = events \cup {t}
  /\ UNCHANGED <<queue, running, shift, exported, synced, launched, cancelled,
                 completed, pc, locals>>

(* A mutant: changes of tasks that are running are taken as already built. *)
FileChangeWhenIdle ==
  LET new == {t \in events \cap stale : ~Listed(t)} IN
  /\ pc[watcher] = "idle" /\ events # {} /\ Unlocked
  /\ queue' = queue \cup new
  /\ events' = {}
  /\ Goto(watcher, IF new = {} THEN "idle" ELSE "loop")
  /\ UNCHANGED <<running, shift, exported, synced, stale, changes, launched,
                 cancelled, completed, locals>>

(* onFileChange up to scheduleTasksFromSchedulableMap: the tasks whose     *)
(* files are newer than their last start (filterRunningTasks).             *)
FileChange ==
  /\ pc[watcher] = "idle" /\ events # {} /\ Unlocked
  /\ queue' = queue \cup (events \cap stale)
  /\ events' = {}
  /\ Goto(watcher, IF events \cap stale = {} THEN "idle" ELSE "loop")
  /\ UNCHANGED <<running, shift, exported, synced, stale, changes, launched,
                 cancelled, completed, locals>>

-----------------------------------------------------------------------------
(* startScheduledTasks and startScheduledTask, run by actor a              *)

(* A mutant: the started task stays in the queue.                          *)
SelectAndKeep(a) ==
  /\ pc[a] = "loop"
  /\ \E t \in queue : MayStart(t) /\ sel' = Set(sel, a, t)
  /\ Goto(a, "begin")
  /\ UNCHANGED <<data, peer, changed, errored, count, probe>>

Select(a) ==
  /\ pc[a] = "loop"
  /\ \E t \in queue :
       /\ MayStart(t)
       /\ queue' = queue \ {t}
       /\ sel' = Set(sel, a, t)
  /\ Goto(a, "begin")
  /\ UNCHANGED <<running, shift, exported, synced, stale, events, changes, launched,
                 cancelled, completed, peer, changed, errored, count, probe>>

(* What the caller of startScheduledTasks does when the loop returns.      *)
AfterLoop(a) ==
  CASE a \in {watcher} \cup Helpers -> "idle"
    [] a = starter -> IF Once THEN "check" ELSE "done"
    [] OTHER -> IF Once THEN "signal" ELSE "done"

LeaveLoop(a) ==
  /\ pc[a] = "loop"
  /\ \A t \in queue : MayBlock(t)
  /\ Goto(a, AfterLoop(a))
  /\ UNCHANGED <<data, locals>>

(* A continuous task that is running is cancelled first.                   *)
CancelPrevious(a) ==
  /\ pc[a] = "begin" /\ sel[a] \in Continuous /\ Listed(sel[a]) /\ Unlocked
  /\ peer' = Set(peer, a, running[Position(sel[a])])
  /\ cancelled' = cancelled \cup {running[Position(sel[a])]}
  /\ Goto(a, "await")
  /\ UNCHANGED <<queue, running, shift, exported, synced, stale, events, changes,
                 launched, completed, sel, changed, errored, count, probe>>

NoPrevious(a) ==
  /\ pc[a] = "begin"
  /\ sel[a] \in Continuous => Unlocked /\ ~Listed(sel[a])
  /\ Goto(a, "prepare")
  /\ UNCHANGED <<data, locals>>

(* RunningTask.Wait: Start of the old instance has returned.               *)
AwaitPrevious(a) ==
  /\ pc[a] = "await" /\ pc[peer[a]] = "done"
  /\ Goto(a, "unlist") /\ peer' = Set(peer, a, NoInstance)
  /\ UNCHANGED <<data, sel, changed, errored, count, probe>>

(* prepareTaskForStart: environment from the providers' exports, port and  *)
(* exports of its own.                                                     *)
Prepare(a) ==
  LET t == sel[a] IN
  /\ pc[a] = "prepare" /\ Providers[t] \subseteq exported
  /\ changed' = Set(changed, a, t \in PortTasks /\ t \notin exported)
  /\ exported' = exported \cup ({t} \cap PortTasks)
  /\ synced' = (IF t \in exported THEN synced ELSE {s \in synced : s[2] # t})
               \cup ({t} \X Providers[t])
  /\ Goto(a, "launch")
  /\ UNCHANGED <<queue, running, shift, stale, events, changes, launched,
                 cancelled, completed, sel, peer, errored, count, probe>>

(* An export is missing again, no port is free, or the command or its      *)
(* directory cannot be resolved: onTaskFinished(t, true) is called inline. *)
FailToStart(a) ==
  /\ \/ pc[a] = "prepare" /\ ~ (Providers[sel[a]] \subseteq exported)
     \/ pc[a] \in {"prepare", "launch"} /\ sel[a] \in MayFail
  /\ Goto(a, "finish")
  /\ UNCHANGED <<data, locals>>

(* recordTaskStartTime and startTaskAsync: the instance exists and runs.   *)
Launch(a) ==
  LET t == sel[a]  i == <<t, launched[t] + 1>> IN
  /\ pc[a] = "launch" /\ launched[t] < MaxLaunches /\ Unlocked
  /\ launched' = [launched EXCEPT ![t] = @ + 1]
  /\ stale' = stale \ {t}
  /\ peer' = Set(peer, a, i)
  /\ pc' = [pc EXCEPT ![a] = "register", ![i] = "run"]
  /\ UNCHANGED <<queue, running, shift, exported, synced, events, changes, cancelled,
                 completed, sel, changed, errored, count, probe>>

(* onTaskStart.                                                            *)
Register(a) ==
  /\ pc[a] = "register" /\ Unlocked
  /\ running' = Append(running, peer[a])
  /\ peer' = Set(peer, a, NoInstance)
  /\ Goto(a, "announce")
  /\ UNCHANGED <<queue, shift, exported, synced, stale, events, changes, launched,
                 cancelled, completed, sel, changed, errored, count, probe>>

(* A mutant: startScheduledTasks starts one task and returns.              *)
AnnounceAndStop(a) ==
  /\ pc[a] = "announce"
  /\ queue' = queue \cup RestartedBy(sel[a], changed[a])
  /\ sel' = Set(sel, a, NoTask) /\ changed' = Set(changed, a, FALSE)
  /\ Goto(a, AfterLoop(a))
  /\ UNCHANGED <<running, shift, exported, synced, stale, events, changes, launched,
                 cancelled, completed, peer, errored, count, probe>>

(* scheduleConsumersForProvider or ...ExplicitRestartConsumers...          *)
Announce(a) ==
  /\ pc[a] = "announce"
  /\ queue' = queue \cup RestartedBy(sel[a], changed[a])
  /\ sel' = Set(sel, a, NoTask) /\ changed' = Set(changed, a, FALSE)
  /\ Goto(a, "loop")
  /\ UNCHANGED <<running, shift, exported, synced, stale, events, changes, launched,
                 cancelled, completed, peer, errored, count, probe>>

-----------------------------------------------------------------------------
(* The process of instance i ends.  A cancelled command counts as success  *)
(* (CommandWrapper.Run returns what Cancel returned).                      *)
Registered(i) == \A a \in Actors : peer[a] = i => pc[a] # "register"

Exit(i) ==
  /\ pc[i] = "run"
  /\ OutlivesStart => Registered(i)
  /\ i[1] \in Continuous => i \in cancelled \/ i[1] \in MayFail
  /\ \E e \in IF i[1] \in MayFail THEN BOOLEAN ELSE {FALSE} :
       errored' = Set(errored, i, e)
  /\ Goto(i, "finish")
  /\ UNCHANGED <<data, sel, peer, changed, count, probe>>

(* onTaskFinished of an instance is about its own task; called inline, or  *)
(* from startScheduledTask, it is about the selected one.                  *)
Subject(a) == IF sel[a] = NoTask THEN a[1] ELSE sel[a]
Failed(a) == sel[a] # NoTask \/ errored[a]

(* RemoveRunningTask, called by onTaskFinished ("finish") and by           *)
(* startScheduledTask after the wait ("unlist").                           *)
Removed(a) == IF pc[a] \in {"unlist", "unlisting"} THEN "prepare" ELSE "release"

BeginRemove(a) ==
  /\ pc[a] \in {"finish", "unlist"} /\ Unlocked /\ Listed(Subject(a))
  /\ shift' = Position(Subject(a))
  /\ Goto(a, IF pc[a] = "finish" THEN "finishing" ELSE "unlisting")
  /\ UNCHANGED <<queue, running, exported, synced, stale, events, changes, launched,
                 cancelled, completed, locals>>

(* A mutant: the count is taken too early.                                 *)
EndRemoveCountsFirst(a) ==
  /\ pc[a] \in {"finishing", "unlisting"}
  /\ running' = Without(running, shift) /\ shift' = 0
  /\ count' = IF Once /\ sel[a] = NoTask THEN Set(count, a, Len(running)) ELSE count
  /\ Goto(a, Removed(a))
  /\ UNCHANGED <<queue, exported, synced, stale, events, changes, launched,
                 cancelled, completed, sel, peer, changed, errored, probe>>

EndRemove(a) ==
  /\ pc[a] \in {"finishing", "unlisting"}
  /\ running' = Without(running, shift) /\ shift' = 0
  /\ count' = IF Once /\ sel[a] = NoTask THEN Set(count, a, Len(running')) ELSE count
  /\ Goto(a, Removed(a))
  /\ UNCHANGED <<queue, exported, synced, stale, events, changes, launched,
                 cancelled, completed, sel, peer, changed, errored, probe>>

NothingToRemove(a) ==
  /\ pc[a] \in {"finish", "unlist"} /\ Unlocked /\ ~Listed(Subject(a))
  /\ count' = IF Once /\ sel[a] = NoTask THEN Set(count, a, Len(running)) ELSE count
  /\ Goto(a, Removed(a))
  /\ UNCHANGED <<data, sel, peer, changed, errored, probe>>

(* releaseFinishedTaskPorts: without a proxy no export of the task stays.  *)
Release(a) ==
  /\ pc[a] = "release"
  /\ exported' = exported \ {Subject(a)}
  /\ Goto(a, IF Failed(a) THEN "prune" ELSE "loop")
  /\ UNCHANGED <<queue, running, shift, synced, stale, events, changes, launched,
                 cancelled, completed, locals>>

(* A mutant: Start does not close the done channel after an error.         *)
ReturnUnlessFailed(a) ==
  /\ Goto(a, IF sel[a] # NoTask THEN "loop" ELSE IF errored[a] THEN "none" ELSE "done")
  /\ sel' = Set(sel, a, NoTask) /\ changed' = Set(changed, a, FALSE)
  /\ errored' = IF sel[a] = NoTask THEN Set(errored, a, FALSE) ELSE errored
  /\ count' = IF sel[a] = NoTask THEN Set(count, a, 0) ELSE count
  /\ probe' = Set(probe, a, 0)

(* Back in the loop after an inline failure, or Start returns.             *)
Return(a) ==
  /\ Goto(a, IF sel[a] = NoTask THEN "done" ELSE "loop")
  /\ sel' = Set(sel, a, NoTask) /\ changed' = Set(changed, a, FALSE)
  /\ errored' = IF sel[a] = NoTask THEN Set(errored, a, FALSE) ELSE errored
  /\ count' = IF sel[a] = NoTask THEN Set(count, a, 0) ELSE count
  /\ probe' = Set(probe, a, 0)

(* removeScheduledConsumersForFailedProvider.                              *)
Prune(a) ==
  /\ pc[a] = "prune"
  /\ queue' = queue \ QueuedConsumers(Subject(a))
  /\ IF Once THEN Goto(a, "check") /\ UNCHANGED locals
             ELSE Return(a) /\ UNCHANGED peer
  /\ UNCHANGED <<running, shift, exported, synced, stale, events, changes, launched,
                 cancelled, completed>>

(* checkCompletion reads the two sizes under one lock after the other.     *)
CountRunning(a) ==
  /\ pc[a] = "check" /\ Unlocked
  /\ probe' = Set(probe, a, Len(running))
  /\ Goto(a, "check2")
  /\ UNCHANGED <<data, sel, peer, changed, errored, count>>

CheckCompletion(a) ==
  /\ pc[a] = "check2"
  /\ completed' = (completed \/ (probe[a] = 0 /\ queue = {}))
  /\ Return(a)
  /\ UNCHANGED <<queue, running, shift, exported, synced, stale, events, changes,
                 launched, cancelled, peer>>

(* The end of onTaskFinished in --once mode uses the count it read first.  *)
SignalCompletion(a) ==
  /\ pc[a] = "signal"
  /\ completed' = (completed \/ (count[a] = 0 /\ queue = {}))
  /\ Return(a)
  /\ UNCHANGED <<queue, running, shift, exported, synced, stale, events, changes,
                 launched, cancelled, peer>>

-----------------------------------------------------------------------------
Step(a) ==
  \/ Select(a) \/ LeaveLoop(a) \/ CancelPrevious(a) \/ NoPrevious(a)
  \/ AwaitPrevious(a) \/ Prepare(a) \/ FailToStart(a) \/ Launch(a)
  \/ Register(a) \/ Announce(a)
  \/ BeginRemove(a) \/ EndRemove(a) \/ NothingToRemove(a) \/ Release(a)
  \/ Prune(a) \/ CountRunning(a) \/ CheckCompletion(a) \/ SignalCompletion(a)

Next ==
  \/ ScheduleAll
  \/ FileChange
  \/ \E t \in Watched : Modify(t)
  \/ \E i \in Instances : Exit(i)
  \/ \E a \in Actors : Step(a)

Spec == Init /\ [][Next]_vars

(***************************************************************************)
(* Goroutines are scheduled, the watcher's timer fires, a command that     *)
(* runs once ends, and so does a cancelled one (SIGKILL after 5 seconds);  *)
(* a continuous command that is left alone need not end.                   *)
(***************************************************************************)
Fairness ==
  /\ WF_vars(ScheduleAll) /\ WF_vars(FileChange)
  /\ \A a \in Actors : WF_vars(Step(a))
  /\ \A i \in Instances :
       WF_vars(Exit(i) /\ (i[1] \notin Continuous \/ i \in cancelled))

FairSpec == Spec /\ Fairness

-----------------------------------------------------------------------------
Labels == {"init", "idle", "none", "run", "done", "loop", "begin", "await",
           "unlist", "unlisting", "prepare", "launch", "register", "announce",
           "finish", "finishing", "release", "prune", "check", "check2", "signal"}

(* The queue, the list and the actors' locals have the types of the code.  *)
TypeOK ==
  /\ queue \subseteq Tasks
  /\ running \in Seq(Instances) /\ shift \in 0 .. Len(running)
  /\ exported \subseteq Tasks /\ synced \subseteq Tasks \X Tasks
  /\ stale \subseteq Tasks /\ events \subseteq Tasks
  /\ changes \in 0 .. MaxChanges /\ launched \in [Tasks -> 0 .. MaxLaunches]
  /\ cancelled \subseteq Instances /\ completed \in BOOLEAN
  /\ pc \in [Actors -> Labels]
  /\ sel \in [Actors -> Tasks \cup {NoTask}]
  /\ peer \in [Actors -> Instances \cup {NoInstance}]
  /\ changed \in [Actors -> BOOLEAN] /\ errored \in [Actors -> BOOLEAN]
  /\ count \in [Actors -> Nat] /\ probe \in [Actors -> Nat]

(* The actors that will look at the queue again before they end.           *)
WillLook(a) ==
  \/ pc[a] \in {"init", "loop"}
  \/ sel[a] # NoTask
  \/ pc[a] \in {"finish", "finishing", "release"} /\ ~errored[a]

(***************************************************************************)
(* No lost wakeup.  There is no scheduler thread: a queued task is started *)
(* only by a goroutine that happens to run startScheduledTasks.  While a   *)
(* queued task is startable, some goroutine is still going to look.        *)
(***************************************************************************)
NoLostWakeup ==
  (\E t \in queue : ~MayBlock(t)) => \E a \in Actors : WillLook(a)

Live(t) == {i \in {t} \X (1 .. launched[t]) : pc[i] = "run"}

(***************************************************************************)
(* No task has two processes at a time: canStartTask refuses a one-time    *)
(* task that is running, startScheduledTask waits for the old instance of  *)
(* a continuous one.  This, too, fails when restarts overlap.              *)
(***************************************************************************)
OneProcessPerTask == \A t \in Tasks : Cardinality(Live(t)) <= 1

(***************************************************************************)
(* A running process is in the list that Stop, restarts and the completion *)
(* check go by, or is just being entered there: RemoveRunningTask, which   *)
(* removes by task id, never takes out the entry of another instance.  So  *)
(* it is with tasks that run once; restarts that overlap violate it.       *)
(***************************************************************************)
NoOrphan ==
  \A i \in Instances : pc[i] = "run" =>
    \/ \E k \in DOMAIN running : running[k] = i
    \/ \E a \in Actors : peer[a] = i /\ pc[a] = "register"

(* --once reports completion only when no task is queued, running or yet   *)
(* to run.                                                                 *)
CompletionSound ==
  completed => \A t \in Initial : launched[t] > 0 /\ Live(t) = {}

(* --once ends: WaitForCompletion returns.                                 *)
OnceCompletes == <>completed

(* --once runs every initial task, and none of them twice.                 *)
EachRunsOnce == <>[](\A t \in Initial : launched[t] = 1)

(***************************************************************************)
(* A modified file is built: after the modification the task is started    *)
(* again, although the change may arrive while the task is queued, being   *)
(* started, running or finishing, and may be filtered out as already seen. *)
(***************************************************************************)
ChangeEventuallyBuilt == \A t \in Watched : t \in stale ~> t \notin stale

(***************************************************************************)
(* A consumer follows its provider: when the provider comes back with new  *)
(* exports the consumer is started with them, unless they are gone again.  *)
(***************************************************************************)
ConsumersFollow ==
  \A t \in Tasks : \A q \in Providers[t] :
    (q \in exported /\ <<t, q>> \notin synced) ~>
    (q \notin exported \/ <<t, q>> \in synced)

(* "Specified tasks should be complete before this task starts."           *)
DependencyOrder ==
  [][\A t \in Tasks : launched'[t] # launched[t] =>
       \A d \in Dependencies[t] : launched[d] > 0 /\ Live(d) = {}]_vars
=============================================================================
