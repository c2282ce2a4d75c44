------------------------------ MODULE Startup -------------------------------
(***************************************************************************)
(* From the configuration to the first processes: the checks of references *)
(* between tasks (src/config/validator.go), the selection of the tasks that*)
(* start without a change (shouldScheduleInitialTask of src/runner.go) and *)
(* the start of what was selected as canStartTask allows it.               *)
(*                                                                         *)
(* Both searches are depth first; the frames of the recursion are a stack  *)
(* of tasks, each with the references it still has to follow.  The order of*)
(* references and tasks, sorted in one search and that of a list or a Go   *)
(* map in the other, is left open.                                         *)
(***************************************************************************)
EXTENDS Naturals, FiniteSets, Sequences

CONSTANTS
  TaskIDs,       (* the configured tasks                                    *)
  Unknown,       (* an identifier that no task has                          *)
  Continuous,    (* tasks of type continuous; the others are builds         *)
  Ports,         (* tasks with a port                                       *)
  Dependencies,  (* pairs: the dependencies that may be configured          *)
  Consumes       (* pairs: the consumes that may be configured              *)

ASSUME StartupAssumption ==
  /\ Unknown \notin TaskIDs
  /\ Continuous \subseteq TaskIDs /\ Ports \subseteq TaskIDs
  /\ Dependencies \cup Consumes \subseteq TaskIDs \X (TaskIDs \cup {Unknown})

VARIABLES
  phase,      (* what is done with the configuration                        *)
  deps, cons, (* the pairs that are configured                              *)
  autoStart,  (* the tasks whose auto-start is not disabled                 *)
  roots,      (* tasks the loop around the search has still to look at      *)
  stack,      (* the frames of the search                                   *)
  visiting,   (* the map of that name                                       *)
  visited,    (* validateConsumeCycles: visited; selection: memo is true    *)
  refused,    (* selection: memo is false                                   *)
  cycle,      (* the path that the validator reports                        *)
  queue,      (* ScheduledTasks                                             *)
  running     (* RunningTasks                                               *)

config == <<deps, cons, autoStart>>
search == <<roots, stack, visiting, visited, refused>>
starting == <<queue, running>>
startupVars == <<phase, config, search, cycle, starting>>

To(edges, t) == {e[2] : e \in {e \in edges : e[1] = t}}
NewSearch == roots' = TaskIDs /\ stack' = <<>> /\ visiting' = {} /\ visited' = {} /\ refused' = {}

StartupInit ==
  /\ phase = "check"
  /\ deps \in SUBSET Dependencies /\ cons \in SUBSET Consumes
  /\ autoStart \in SUBSET TaskIDs
  /\ roots = {} /\ stack = <<>> /\ visiting = {} /\ visited = {} /\ refused = {}
  /\ cycle = <<>> /\ queue = {} /\ running = {}

-----------------------------------------------------------------------------
(* The checks. *)

(* validateDependencies, validatePortConfigs and validateConsumes.         *)
References ==
  /\ \A e \in deps : e[2] \in TaskIDs
  /\ Ports \subseteq Continuous
  /\ \A e \in cons : e[2] \in Ports \ {e[1]}

Check ==
  /\ phase = "check"
  /\ phase' = IF References THEN "cycles" ELSE "rejected"
  /\ NewSearch
  /\ UNCHANGED <<config, cycle, starting>>

(* What the search looks at next: a reference of the innermost frame, or a *)
(* task of the loop.                                                       *)
Top == stack[Len(stack)]
Nexts == IF stack = <<>> THEN roots ELSE Top.todo
Followed(t) ==
  IF stack = <<>> THEN stack
  ELSE [stack EXCEPT ![Len(stack)].todo = @ \ {t}]
RootsLeft(t) == IF stack = <<>> THEN roots \ {t} ELSE roots

Descend(t, edges) ==
  /\ stack' = Append(Followed(t), [task |-> t, todo |-> To(edges, t)])
  /\ roots' = RootsLeft(t) /\ visiting' = visiting \cup {t}
  /\ UNCHANGED <<visited, refused>>

Skip(t) ==
  /\ stack' = Followed(t) /\ roots' = RootsLeft(t)
  /\ UNCHANGED <<visiting, visited, refused>>

(* A mutant: the mark of the path stays.                                   *)
LeaveMarked ==
  /\ stack # <<>> /\ Top.todo = {}
  /\ stack' = SubSeq(stack, 1, Len(stack) - 1)
  /\ visited' = visited \cup {Top.task}
  /\ UNCHANGED <<roots, visiting, refused>>

(* All references of the innermost frame are fine, and so is its task.     *)
Leave ==
  /\ stack # <<>> /\ Top.todo = {}
  /\ stack' = SubSeq(stack, 1, Len(stack) - 1)
  /\ visiting' = visiting \ {Top.task}
  /\ visited' = visited \cup {Top.task}
  /\ UNCHANGED <<roots, refused>>

-----------------------------------------------------------------------------
(* validateConsumeCycles: a consume that leads back to the path is an      *)
(* error, which is reported with the part of the path it closes.           *)

CyclePath(t) ==
  LET places == {i \in DOMAIN stack : stack[i].task = t}
      first == IF places = {} THEN 1 ELSE CHOOSE i \in places : \A j \in places : i <= j IN
  [i \in 1..(Len(stack) - first + 2) |->
    IF first + i - 1 <= Len(stack) THEN stack[first + i - 1].task ELSE t]

VisitConsume(t) ==
  /\ phase = "cycles" /\ t \in Nexts
  /\ UNCHANGED <<config, starting>>
  /\ \/ t \in visiting /\ phase' = "rejected" /\ cycle' = CyclePath(t) /\ UNCHANGED search
     \/ t \in visited \ visiting /\ Skip(t) /\ UNCHANGED <<phase, cycle>>
     \/ t \notin visited \cup visiting /\ Descend(t, cons) /\ UNCHANGED <<phase, cycle>>

LeaveConsumer == phase = "cycles" /\ Leave /\ UNCHANGED <<phase, config, cycle, starting>>

Accept ==
  /\ phase = "cycles" /\ stack = <<>> /\ roots = {}
  /\ phase' = "select" /\ NewSearch
  /\ UNCHANGED <<config, cycle, starting>>

-----------------------------------------------------------------------------
(* scheduleAllTasks *)

(* A mutant: a task of the path is not looked at again.                    *)
VerdictOfPath(t) ==
  CASE t \in visited \cup visiting -> "fine"
    [] t \in refused \/ t \notin autoStart -> "refused"
    [] OTHER -> "open"

(* A mutant: only what the task itself depends on must start by itself.    *)
NeedsDependencies == deps

(* The beginning of shouldScheduleInitialTask.                             *)
Verdict(t) ==
  CASE t \in visited -> "fine"
    [] t \in refused \/ t \notin autoStart \/ t \in visiting -> "refused"
    [] OTHER -> "open"

(* The dependencies of a task and the tasks it consumes.                   *)
Needs == deps \cup cons

(* A refusal refuses every task of the path.                               *)
Refuse(t) ==
  /\ refused' = refused \cup visiting \cup {t}
  /\ stack' = <<>> /\ visiting' = {} /\ roots' = RootsLeft(t)
  /\ UNCHANGED visited

VisitNeed(t) ==
  /\ phase = "select" /\ t \in Nexts
  /\ \/ Verdict(t) = "fine" /\ Skip(t)
     \/ Verdict(t) = "refused" /\ Refuse(t)
     \/ Verdict(t) = "open" /\ Descend(t, Needs)
  /\ UNCHANGED <<phase, config, cycle, starting>>

LeaveSelected == phase = "select" /\ Leave /\ UNCHANGED <<phase, config, cycle, starting>>

ScheduleAllTasks ==
  /\ phase = "select" /\ stack = <<>> /\ roots = {}
  /\ phase' = "run" /\ queue' = visited
  /\ UNCHANGED <<config, search, cycle, running>>

-----------------------------------------------------------------------------
(* startScheduledTasks, without failures; a provider has its exports from  *)
(* its start on.                                                           *)

CanStartTask(t) ==
  /\ t \in queue
  /\ To(deps, t) \cap (queue \cup running) = {}
  /\ To(cons, t) \subseteq running

StartTask(t) ==
  /\ phase = "run" /\ CanStartTask(t)
  /\ queue' = queue \ {t} /\ running' = running \cup {t}
  /\ UNCHANGED <<phase, config, search, cycle>>

FinishBuild(t) ==
  /\ t \in running \ Continuous /\ running' = running \ {t}
  /\ UNCHANGED <<phase, config, search, cycle, queue>>

StartupNext ==
  \/ Check \/ Accept \/ LeaveConsumer \/ ScheduleAllTasks \/ LeaveSelected
  \/ \E t \in TaskIDs :
       VisitConsume(t) \/ VisitNeed(t) \/ StartTask(t) \/ FinishBuild(t)

StartupSpec == StartupInit /\ [][StartupNext]_startupVars

(* The program goes on, and builds end.                                    *)
StartupFairness == WF_startupVars(StartupNext)

-----------------------------------------------------------------------------
(* What a task reaches along edges, by the sets that are closed under them.*)
Reached(edges, t) ==
  {u \in TaskIDs : \A C \in SUBSET TaskIDs :
     To(edges, t) \subseteq C /\ (\A v \in C : To(edges, v) \subseteq C) => u \in C}

IsCycle(path) ==
  /\ Len(path) > 1 /\ path[1] = path[Len(path)]
  /\ \A i \in 1..(Len(path) - 1) : <<path[i], path[i + 1]>> \in cons

(***************************************************************************)
(* A configuration whose references are right is rejected exactly when its *)
(* consumes have a cycle, and the path that is reported is one.            *)
(***************************************************************************)
CyclesAreExact ==
  /\ phase \in {"select", "run"} => \A t \in TaskIDs : t \notin Reached(cons, t)
  /\ phase = "rejected" /\ References => IsCycle(cycle)

(***************************************************************************)
(* The tasks that start without a change are those for which all tasks     *)
(* they need, directly or not, have auto-start and are in no cycle, and    *)
(* that have it themselves: no task waits for one that does not start.     *)
(***************************************************************************)
SelectionIsExact ==
  phase = "run" => visited =
    {t \in autoStart : \A u \in Reached(deps \cup cons, t) \cup {t} :
       u \in autoStart /\ u \notin Reached(deps \cup cons, u)}

(***************************************************************************)
(* loader.go:154: what was selected is started, each task when those it    *)
(* depends on are complete, if nothing depends on a continuous task.       *)
(***************************************************************************)
QueueDrains ==
  phase = "run" ~> queue = {}
=============================================================================
