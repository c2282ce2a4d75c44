------------------------------ MODULE Debounce ------------------------------
(***************************************************************************)
(* The watcher's aggregator (src/watcher/watcher.go): changes are collected *)
(* under aggregatorLock; each of them starts a goroutine that sleeps for   *)
(* the longest debounce of all tasks with pending changes and then hands   *)
(* the batch over, unless another change came in the meantime.             *)
(*                                                                         *)
(* The runner's callback runs while the lock is held, for as long as it    *)
(* takes to stop and start tasks; the goroutine that reads file system     *)
(* events waits for it.  Sleeps may end late, never early.                 *)
(***************************************************************************)
EXTENDS Integers

CONSTANTS
  Files, Tasks, Times,
  TasksOf,   (* [Files -> SUBSET Tasks]: the tasks a file matches           *)
  Wait,      (* [Tasks -> Nat]: the debounce of each task                   *)
  MaxNotes,  (* bound: changes                                              *)
  MaxTime    (* bound: the clock                                            *)

ASSUME DebounceAssumption ==
  /\ Times \subseteq Nat \ {0}
  /\ TasksOf \in [Files -> SUBSET Tasks] /\ \A f \in Files : TasksOf[f] # {}
  /\ Wait \in [Tasks -> Nat]
  /\ MaxNotes \in Nat /\ MaxTime \in Nat

VARIABLES
  now,         (* the clock                                                 *)
  aggregated,  (* file -> newest modification time, 0 when not in the batch *)
  changeId,
  timers,      (* sleeping propagateEvents goroutines                       *)
  busy,        (* a callback is running, with the lock held                 *)
  given,       (* the batch it was given                                    *)
  last         (* history: task -> when it last had a change                *)

vars == <<now, aggregated, changeId, timers, busy, given, last>>

NoFile == [f \in Files |-> 0]
Newer(m, n) == IF m > n THEN m ELSE n

(* pendingTasks and fsDebounceForTasks.                                    *)
PendingTasks(batch) == UNION {TasksOf[f] : f \in {g \in Files : batch[g] # 0}}

LongestWait(d, tasks) ==
  /\ \E t \in tasks : d = Wait[t]
  /\ \A t \in tasks : Wait[t] <= d

-----------------------------------------------------------------------------
Init ==
  /\ now = 0 /\ changeId = 0
  /\ aggregated = NoFile /\ given = NoFile
  /\ timers = {} /\ busy = FALSE
  /\ last = [t \in Tasks |-> 0]

(* The change joins the batch, and a goroutine sleeps for some of the      *)
(* tasks; the bounds leave every sleep the time to end.                    *)
Collected(f, m) == [aggregated EXCEPT ![f] = Newer(m, @)]

Collect(f, m, tasks) ==
  /\ changeId < MaxNotes /\ \A t \in Tasks : now + Wait[t] <= MaxTime
  /\ aggregated' = Collected(f, m)
  /\ changeId' = changeId + 1
  /\ \E d \in {Wait[t] : t \in tasks} :
       /\ LongestWait(d, tasks)
       /\ timers' = timers \cup {[id |-> changeId + 1, due |-> now + d]}
  /\ last' = [t \in Tasks |-> IF t \in TasksOf[f] THEN now ELSE last[t]]
  /\ UNCHANGED <<now, busy, given>>

(* Mutants: the lock is not waited for; the sleep is for the tasks of the  *)
(* new change alone.                                                       *)
NoteWithoutLock(f, m) == Collect(f, m, PendingTasks(Collected(f, m)))
NoteOwnWait(f, m) == ~busy /\ Collect(f, m, TasksOf[f])

(* addAggregatedEvent                                                      *)
Note(f, m) == ~busy /\ Collect(f, m, PendingTasks(Collected(f, m)))

(* propagateEvents: after the sleep, under the lock.                       *)
Awake(timer) == timer.due <= now /\ ~busy

Discard(timer) ==
  /\ Awake(timer) /\ timer.id # changeId
  /\ timers' = timers \ {timer}
  /\ UNCHANGED <<now, aggregated, changeId, busy, given, last>>

Propagate(timer) ==
  /\ Awake(timer) /\ timer.id = changeId
  /\ timers' = timers \ {timer}
  /\ given' = aggregated /\ busy' = TRUE
  /\ UNCHANGED <<now, aggregated, changeId, last>>

(* A mutant: the batch is kept after the callback.                         *)
PropagatedAndKept ==
  /\ busy /\ busy' = FALSE
  /\ UNCHANGED <<now, aggregated, changeId, timers, given, last>>

(* The callback has returned.                                              *)
Propagated ==
  /\ busy /\ busy' = FALSE
  /\ aggregated' = NoFile
  /\ UNCHANGED <<now, changeId, timers, given, last>>

Tick ==
  /\ now < MaxTime /\ now' = now + 1
  /\ UNCHANGED <<aggregated, changeId, timers, busy, given, last>>

Next ==
  \/ \E f \in Files, m \in Times : Note(f, m)
  \/ \E timer \in timers : Discard(timer) \/ Propagate(timer)
  \/ Propagated
  \/ Tick

Spec == Init /\ [][Next]_vars

(* Sleeps end, goroutines are scheduled, the callback returns.             *)
FairSpec ==
  /\ Spec
  /\ WF_vars(Tick) /\ WF_vars(Propagated)
  /\ WF_vars(\E timer \in timers : Discard(timer) \/ Propagate(timer))

-----------------------------------------------------------------------------
TypeOK ==
  /\ now \in Nat /\ changeId \in Nat /\ busy \in BOOLEAN
  /\ aggregated \in [Files -> Times \cup {0}]
  /\ given \in [Files -> Times \cup {0}]
  /\ timers \subseteq [id : 1 .. changeId, due : Nat]
  /\ last \in [Tasks -> 0 .. now]

(* What the runner sees of the watcher: while the callback runs, nothing   *)
(* is pending.                                                             *)
Feed == INSTANCE ChangeFeed WITH
  notes <- changeId, pending <- IF busy THEN NoFile ELSE aggregated, handed <- given

FeedSpec == Feed!Spec

(***************************************************************************)
(* Every task has been quiet for as long as it asks when its changes are   *)
(* handed over, although the batch is handed over by the goroutine of a    *)
(* change that may not concern the task (`fs-debounce` of README.md).      *)
(***************************************************************************)
Quiet == \A t \in PendingTasks(aggregated) : last[t] + Wait[t] <= now
QuietPeriod == [][~busy /\ busy' => Quiet]_vars

(***************************************************************************)
(* A batch that is not being handed over has exactly one goroutine that    *)
(* will do it: there is no other that looks at the batch.                  *)
(***************************************************************************)
OneTimerIsLeft ==
  LET current == {timer \in timers : timer.id = changeId}
      pending == ~busy /\ aggregated # NoFile
  IN /\ pending => current # {}
     /\ ~pending => current = {}
     /\ \A x, y \in timers : x.id = y.id => x = y

(* When changes stop, what was noted is handed over.                       *)
EventuallyHanded == \A f \in Files : aggregated[f] # 0 ~> aggregated[f] = 0
=============================================================================
