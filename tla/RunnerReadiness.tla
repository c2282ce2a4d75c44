-------------------------- MODULE RunnerReadiness --------------------------
(***************************************************************************)
(* Readiness (src/readiness.go): a consumer with `when: ready` starts only *)
(* after an HTTP poll of its provider has succeeded.  The runner numbers   *)
(* the generations of a provider's readiness; every poller, and every      *)
(* queue entry a poller makes, carries the generation it is about, because *)
(* the provider may be restarted at any moment.                            *)
(*                                                                         *)
(* This module adds the generations, the pollers and the causes of queue   *)
(* entries to the actions of Runner.  readinessMutex protects generations; *)
(* what needs the queue as well takes ScheduledTaskMutex first, so every   *)
(* function of readiness.go is one step.                                   *)
(***************************************************************************)
EXTENDS Runner

CONSTANTS
  ReadyOf,    (* [Tasks -> SUBSET Tasks]: providers consumed with when: ready *)
  FileCauses  (* what file changes may be to the filters of the consumers:    *)
              (* "file" when they match, "other" when they do not             *)

ASSUME ReadinessAssumption ==
  /\ ReadyOf \in [Tasks -> SUBSET Continuous]
  /\ \A t \in Tasks : ReadyOf[t] \subseteq Providers[t]
                      /\ (ReadyOf[t] # {} => OnChange[t] = "none")
  /\ FileCauses \subseteq {"file", "other"} /\ FileCauses # {}

VARIABLES
  generation, (* readinessGeneration                                        *)
  ready,    (* readinessReady                                               *)
  pollers,  (* running pollReadiness goroutines                             *)
  entry,    (* task -> cause and generations of its queue entry             *)
  hand,     (* actor -> the ScheduledTask startScheduledTask was given      *)
  checked,  (* actor -> it has passed readinessScheduleCurrent              *)
  todo,     (* actor -> the task it calls cancelReadinessPoller for next    *)
  toPoll    (* actor -> the task it calls startReadinessPolling for next    *)

readinessVars == <<generation, ready, pollers, entry, hand, checked, todo, toPoll>>
readyVars == <<vars, readinessVars>>

ReadinessTasks == UNION {ReadyOf[t] : t \in Tasks}

Scheduled(cause, gens) == [cause |-> cause, gens |-> gens]
Unscheduled == Scheduled("initial", {})
Overwrite(tasks, e) == [t \in Tasks |-> IF t \in tasks THEN e ELSE entry[t]]

IsReady(p) == generation[p] # 0 /\ ready[p] = generation[p]
(* readinessScheduleCurrent and the readiness part of consumesReady.       *)
Current(e) == \A g \in e.gens : generation[g[1]] = g[2] /\ ready[g[1]] = g[2]
Admits(t) == Current(entry[t]) /\ \A p \in ReadyOf[t] : IsReady(p)

(* A mutant: the initial start of the provider is taken as no reason.      *)
ShouldRunOnFiles(cause) == cause \in {"readiness", "file"}

(* readinessConsumerShouldRun.                                             *)
ShouldRun(cause) == cause \in {"initial", "readiness", "file"}

(* Queue entries that a poller of p made.                                  *)
MadeByPoller(p) == {t \in queue : p \in ReadyOf[t] /\ entry[t].cause = "readiness"}

-----------------------------------------------------------------------------
ReadinessInit ==
  /\ Init
  /\ generation = [p \in ReadinessTasks |-> 0] /\ ready = [p \in ReadinessTasks |-> 0]
  /\ pollers = {}
  /\ entry = [t \in Tasks |-> Unscheduled]
  /\ hand = [a \in Actors |-> Unscheduled]
  /\ checked = [a \in Actors |-> FALSE]
  /\ todo = [a \in Actors |-> NoTask]
  /\ toPoll = [a \in Actors |-> NoTask]

ScheduleInitial ==
  /\ ScheduleAll
  /\ entry' = Overwrite(Initial, Unscheduled)
  /\ UNCHANGED <<generation, ready, pollers, hand, checked, todo, toPoll>>

(* A file change replaces the entry a task has in the queue.               *)
ScheduleChanged ==
  /\ FileChange
  /\ \E c \in FileCauses : entry' = Overwrite(events \cap stale, Scheduled(c, {}))
  /\ UNCHANGED <<generation, ready, pollers, hand, checked, todo, toPoll>>

(* canStartTask asks for the readiness of the providers too.               *)
SelectReady(a) ==
  /\ Select(a) /\ Admits(sel'[a])
  /\ hand' = Set(hand, a, entry[sel'[a]])
  /\ entry' = Overwrite({sel'[a]}, Unscheduled)
  /\ UNCHANGED <<generation, ready, pollers, checked, todo, toPoll>>

LeaveLoopUnready(a) ==
  /\ pc[a] = "loop"
  /\ \A t \in queue : MayBlock(t) \/ ~Admits(t)
  /\ Goto(a, AfterLoop(a))
  /\ UNCHANGED <<data, locals, readinessVars>>

(* startScheduledTask checks again; a continuous task then cancels its own *)
(* poller, whose generation ends here.                                     *)
CheckCurrent(a) ==
  /\ pc[a] = "begin" /\ ~checked[a] /\ Current(hand[a])
  /\ checked' = Set(checked, a, TRUE)
  /\ todo' = IF sel[a] \in ReadinessTasks THEN Set(todo, a, sel[a]) ELSE todo
  /\ UNCHANGED <<vars, generation, ready, pollers, entry, hand, toPoll>>

SkipStale(a) ==
  /\ pc[a] = "begin" /\ ~checked[a] /\ ~Current(hand[a])
  /\ hand' = Set(hand, a, Unscheduled)
  /\ IF Once THEN Goto(a, "check") /\ UNCHANGED sel
             ELSE Goto(a, "loop") /\ sel' = Set(sel, a, NoTask)
  /\ UNCHANGED <<data, peer, changed, errored, count, probe,
                 generation, ready, pollers, entry, checked, todo, toPoll>>

Begin(a) ==
  /\ checked[a] /\ (CancelPrevious(a) \/ NoPrevious(a))
  /\ checked' = Set(checked, a, FALSE)
  /\ UNCHANGED <<generation, ready, pollers, entry, hand, todo, toPoll>>

AnnounceStart(a) ==
  /\ Announce(a)
  /\ entry' = Overwrite(RestartedBy(sel[a], changed[a]), Scheduled("provider", {}))
  /\ IF sel[a] \in ReadinessTasks
     THEN toPoll' = Set(toPoll, a, sel[a]) /\ UNCHANGED hand
     ELSE hand' = Set(hand, a, Unscheduled) /\ UNCHANGED toPoll
  /\ UNCHANGED <<generation, ready, pollers, checked, todo>>

(* startReadinessPolling: a new generation, polled for with the cause of   *)
(* the provider's start; without its exports there is no URL to poll.      *)
Polls(t) == {q \in pollers : q.task = t /\ q.gen = generation[t] /\ q.at = "polling"}

StartPolling(a) ==
  LET t == toPoll[a] IN
  /\ t # NoTask
  /\ IF t \in exported
     THEN /\ generation' = [generation EXCEPT ![t] = @ + 1]
          /\ ready' = [ready EXCEPT ![t] = 0]
          /\ pollers' = (pollers \ Polls(t)) \cup
               {[task |-> t, gen |-> generation'[t], cause |-> hand[a].cause, at |-> "polling"]}
     ELSE UNCHANGED <<generation, ready, pollers>>
  /\ toPoll' = Set(toPoll, a, NoTask) /\ hand' = Set(hand, a, Unscheduled)
  /\ UNCHANGED <<vars, entry, checked, todo>>

FailToPrepare(a) ==
  /\ FailToStart(a)
  /\ hand' = Set(hand, a, Unscheduled)
  /\ UNCHANGED <<generation, ready, pollers, entry, checked, todo, toPoll>>

(* onTaskFinished: the ports, then the poller of the task.                 *)
ReleaseAndCancel(a) ==
  /\ Release(a)
  /\ todo' = IF Subject(a) \in ReadinessTasks THEN Set(todo, a, Subject(a)) ELSE todo
  /\ UNCHANGED <<generation, ready, pollers, entry, hand, checked, toPoll>>

(* cancelReadinessPoller, under both locks: the generation ends, and the   *)
(* consumers its poller has queued are taken out of the queue.             *)
CancelPoller(a) ==
  LET t == todo[a] IN
  /\ t # NoTask
  /\ generation' = [generation EXCEPT ![t] = @ + 1] /\ ready' = [ready EXCEPT ![t] = 0]
  /\ pollers' = pollers \ Polls(t)
  /\ queue' = queue \ MadeByPoller(t)
  /\ entry' = Overwrite(MadeByPoller(t), Unscheduled)
  /\ todo' = Set(todo, a, NoTask)
  /\ UNCHANGED <<running, shift, exported, synced, stale, events, changes, launched,
                 cancelled, completed, pc, locals, hand, checked, toPoll>>

Other(a) ==
  /\ \/ AwaitPrevious(a) \/ Prepare(a) \/ Launch(a) \/ Register(a)
     \/ BeginRemove(a) \/ EndRemove(a) \/ NothingToRemove(a) \/ Prune(a)
     \/ CountRunning(a) \/ CheckCompletion(a) \/ SignalCompletion(a)
  /\ UNCHANGED readinessVars

ReadinessStep(a) ==
  \/ CancelPoller(a) \/ StartPolling(a)
  \/ /\ todo[a] = NoTask /\ toPoll[a] = NoTask
     /\ \/ SelectReady(a) \/ LeaveLoopUnready(a) \/ CheckCurrent(a) \/ SkipStale(a)
        \/ Begin(a) \/ AnnounceStart(a) \/ FailToPrepare(a)
        \/ ReleaseAndCancel(a) \/ Other(a)

-----------------------------------------------------------------------------
(* pollReadiness                                                           *)

Advance(q, l) == (pollers \ {q}) \cup {[q EXCEPT !.at = l]}

(* The server of the provider answers 200.                                 *)
Answer(q) ==
  /\ q.at = "polling" /\ Live(q.task) # {}
  /\ pollers' = Advance(q, "answered")
  /\ UNCHANGED <<vars, generation, ready, entry, hand, checked, todo, toPoll>>

PollTimeout(q) ==
  /\ q.at = "polling"
  /\ pollers' = pollers \ {q}
  /\ UNCHANGED <<vars, generation, ready, entry, hand, checked, todo, toPoll>>

(* A mutant: an old poller marks the provider ready as it now is.          *)
MarkWhateverRuns(q) ==
  /\ q.at = "answered"
  /\ ready' = [ready EXCEPT ![q.task] = generation[q.task]]
  /\ pollers' = Advance(q, "marked")
  /\ UNCHANGED <<vars, generation, entry, hand, checked, todo, toPoll>>

MarkReadinessReady(q) ==
  /\ q.at = "answered"
  /\ ready' = IF generation[q.task] = q.gen THEN [ready EXCEPT ![q.task] = q.gen] ELSE ready
  /\ pollers' = Advance(q, "marked")
  /\ UNCHANGED <<vars, generation, entry, hand, checked, todo, toPoll>>

(* scheduleReadinessConsumers replaces the entries of the consumers; the   *)
(* queue is then looked at by a goroutine of its own.                      *)
ReadyConsumers(p, cause) == {t \in Tasks : p \in ReadyOf[t] /\ ShouldRun(cause)}
ReadyGenerations(t) == {<<p, generation[p]>> : p \in {r \in ReadyOf[t] : IsReady(r)}}

(* A mutant: only a poller that queued something new has it looked at.     *)
ScheduleWhenNew(q) ==
  LET consumers == ReadyConsumers(q.task, q.cause) IN
  /\ q.at = "marked"
  /\ pollers' = pollers \ {q}
  /\ queue' = IF generation[q.task] = q.gen THEN queue \cup consumers ELSE queue
  /\ entry' = [t \in Tasks |-> IF t \in queue' \cap consumers
                 THEN Scheduled("readiness", ReadyGenerations(t)) ELSE entry[t]]
  /\ IF queue' = queue THEN UNCHANGED pc ELSE \E h \in Helpers : pc[h] = "idle" /\ Goto(h, "loop")
  /\ UNCHANGED <<running, shift, exported, synced, stale, events, changes, launched,
                 cancelled, completed, locals, generation, ready, hand, checked,
                 todo, toPoll>>

ScheduleReadinessConsumers(q) ==
  LET consumers == ReadyConsumers(q.task, q.cause) IN
  /\ q.at = "marked"
  /\ pollers' = pollers \ {q}
  /\ IF generation[q.task] = q.gen /\ consumers # {}
     THEN /\ queue' = queue \cup consumers
          /\ entry' = [t \in Tasks |-> IF t \in consumers
                         THEN Scheduled("readiness", ReadyGenerations(t)) ELSE entry[t]]
          /\ \E h \in Helpers : pc[h] = "idle" /\ Goto(h, "loop")
     ELSE UNCHANGED <<queue, entry, pc>>
  /\ UNCHANGED <<running, shift, exported, synced, stale, events, changes, launched,
                 cancelled, completed, locals, generation, ready, hand, checked,
                 todo, toPoll>>

PollerStep(q) == MarkReadinessReady(q) \/ ScheduleReadinessConsumers(q)

-----------------------------------------------------------------------------
ReadinessNext ==
  \/ ScheduleInitial
  \/ ScheduleChanged
  \/ \E t \in Watched : Modify(t) /\ UNCHANGED readinessVars
  \/ \E i \in Instances : Exit(i) /\ UNCHANGED readinessVars
  \/ \E a \in Actors : ReadinessStep(a)
  \/ \E q \in pollers : Answer(q) \/ PollTimeout(q) \/ PollerStep(q)

ReadinessSpec == ReadinessInit /\ [][ReadinessNext]_readyVars

(* Goroutines are scheduled and builds end; whether a server ever answers  *)
(* is up to the server.                                                    *)
FairReadinessSpec ==
  /\ ReadinessSpec
  /\ WF_readyVars(ScheduleInitial) /\ WF_readyVars(ScheduleChanged)
  /\ \A a \in Actors : WF_readyVars(ReadinessStep(a))
  /\ \A i \in Instances :
       WF_readyVars(/\ Exit(i) /\ UNCHANGED readinessVars
                    /\ i[1] \notin Continuous \/ i \in cancelled)
  /\ WF_readyVars(\E q \in pollers : PollerStep(q))

-----------------------------------------------------------------------------
Causes == {"initial", "file", "other", "provider", "readiness"}

(* Entries, generations and pollers have the types of the code.            *)
ReadinessTypeOK ==
  /\ TypeOK
  /\ generation \in [ReadinessTasks -> Nat] /\ ready \in [ReadinessTasks -> Nat]
  /\ \A q \in pollers : q.task \in ReadinessTasks /\ q.gen \in 1 .. generation[q.task]
       /\ q.cause \in Causes /\ q.at \in {"polling", "answered", "marked"}
  /\ \A t \in Tasks : entry[t].cause \in Causes
       /\ \A g \in entry[t].gens : g[1] \in ReadyOf[t]
  /\ todo \in [Actors -> ReadinessTasks \cup {NoTask}]
  /\ toPoll \in [Actors -> ReadinessTasks \cup {NoTask}]

(***************************************************************************)
(* Readiness is that of a process: when the provider's process ends, the   *)
(* goroutine that reports its end is still to cancel its readiness.        *)
(***************************************************************************)
Reporting(p) ==
  \E a \in Actors :
    \/ todo[a] = p
    \/ pc[a] \in {"finish", "finishing", "release"} /\ Subject(a) = p
ReadyIsLive ==
  \A p \in ReadinessTasks : IsReady(p) => Live(p) # {} \/ Reporting(p)

(***************************************************************************)
(* No lost wakeup with readiness: while a queued task could be started,    *)
(* its providers being ready, some goroutine is going to look.             *)
(***************************************************************************)
NoLostReadyWakeup ==
  (\E t \in queue : ~MayBlock(t) /\ Admits(t)) =>
     \/ \E a \in Actors : WillLook(a)
     \/ \E q \in pollers : q.at = "marked" /\ generation[q.task] = q.gen
                           /\ ReadyConsumers(q.task, q.cause) # {}

(* A consumer's first start: once its provider is ready it is started,     *)
(* unless the provider goes away.                                          *)
FirstReadyRun ==
  \A t \in Tasks : \A p \in ReadyOf[t] :
    (IsReady(p) /\ launched[t] = 0) ~> (~IsReady(p) \/ launched[t] > 0)

(***************************************************************************)
(* The endpoint has answered since the provider last started when the      *)
(* consumer is launched (README.md: `when: ready` waits for HTTP 200       *)
(* before the consumer starts).                                            *)
(***************************************************************************)
StartsOnReady ==
  [][\A t \in Tasks : launched'[t] # launched[t] => \A p \in ReadyOf[t] : IsReady(p)]_readyVars
=============================================================================
