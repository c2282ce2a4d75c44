--------------------------- MODULE ServiceExports ---------------------------
(***************************************************************************)
(* The ports, proxies and exports of services (src/runner_ports.go,        *)
(* src/proxy/manager.go), on top of the port manager.  The start of a task *)
(* collects the exports of its providers, reserves its port and that of    *)
(* its proxy, points the proxy to itself and publishes its exports; the    *)
(* end of a task takes them back.  Each access is under a mutex of its own *)
(* and is a step of its own, and between them the other tasks, and an      *)
(* older instance of the same task, take theirs.                           *)
(*                                                                         *)
(* A start is the goroutine in startScheduledTask, at most one per task at *)
(* a time; an ending is a goroutine in onTaskFinished.  An URL is its port.*)
(* Runner is about who looks at the queue: here a task that can be started *)
(* is, and a launched process is registered at once.                       *)
(***************************************************************************)
EXTENDS PortManager

CONSTANTS
  Tasks,       (* continuous tasks                                          *)
  Services,    (* those with a port                                         *)
  Exposed,     (* those with a proxy                                        *)
  ProxyOf,     (* service -> the client id of its proxy                     *)
  Uses,        (* task -> the exports it consumes, as <<service, kind>>     *)
  OnChange,    (* task -> when a change of them restarts it: "auto",        *)
               (* "restart", "none", or "direct" for mode: direct           *)
  MayFail,     (* tasks that may fail to start, crash, or exit by themselves*)
  Overtaking,  (* a start may overtake the end of an instance that crashed  *)
  OtherPorts,  (* ports that other programs bind and free                   *)
  MaxChanges   (* bound: file changes                                       *)

VARIABLES
  listening,   (* service -> the port its proxy listens on                  *)
  target,      (* service -> the port its proxy forwards to                 *)
  exports,     (* serviceExports: service -> kind -> port                   *)
  queue,       (* ScheduledTasks                                            *)
  start,       (* task -> what its startScheduledTask does next             *)
  plan,        (* task -> the locals of its startScheduledTask              *)
  process,     (* task -> its process                                       *)
  endings,     (* the goroutines in onTaskFinished                          *)
  changes

proxies == <<listening, target>>
vars == <<portVars, proxies, exports, queue, start, plan, process, endings, changes>>

Kinds == {"direct", "proxy"}

ASSUME ServicesAssumption ==
  /\ Services \subseteq Tasks /\ Exposed \subseteq Services /\ MayFail \subseteq Tasks
  /\ ProxyOf \in [Exposed -> Clients \ Services] /\ Services \subseteq Clients
  /\ \A s, t \in Exposed : ProxyOf[s] = ProxyOf[t] => s = t
  /\ Uses \in [Tasks -> SUBSET (Services \X Kinds)]
  /\ \A t \in Tasks, u \in Services \X Kinds :
       u \in Uses[t] => u[1] # t /\ (u[2] = "proxy" => u[1] \in Exposed)
  /\ OnChange \in [Tasks -> {"auto", "direct", "restart", "none"}]
  /\ Overtaking \in BOOLEAN /\ OtherPorts \subseteq Ports /\ MaxChanges \in Nat

NoExports == [k \in Kinds |-> NoPort]
Ids == 1 .. 3
NoId == 0

(* What a start works out, and what its process is then given.             *)
NoPlan == [waits |-> NoId, port |-> NoPort, proxy |-> NoPort, env |-> <<>>, changed |-> FALSE]
NoProcess == [id |-> NoId, port |-> NoPort, env |-> <<>>, cancelled |-> FALSE]

Alive(t) == process[t].id # NoId
Ending(t, i) == \E e \in endings : e.task = t /\ e.id = i
(* getRunningTask finds an instance until its onTaskFinished removes it.   *)
Listed(t, i) ==
  \/ Alive(t) /\ process[t].id = i
  \/ i # NoId /\ \E e \in endings : e.task = t /\ e.id = i /\ e.at = "unlist"
NewEnding(t, i, errored) ==
  [task |-> t, id |-> i, errored |-> errored, at |-> IF i = NoId THEN "release" ELSE "unlist"]

Goto(t, l) == start' = [start EXCEPT ![t] = l]
Provided(t) == \A u \in Uses[t] : exports[u[1]][u[2]] # NoPort

-----------------------------------------------------------------------------
Init ==
  /\ PortInit /\ bound = {}
  /\ listening = [s \in Services |-> NoPort] /\ target = [s \in Services |-> NoPort]
  /\ exports = [s \in Services |-> NoExports]
  /\ queue = Tasks
  /\ start = [t \in Tasks |-> "idle"] /\ plan = [t \in Tasks |-> NoPlan]
  /\ process = [t \in Tasks |-> NoProcess] /\ endings = {}
  /\ changes = 0

Change(t) ==
  /\ changes < MaxChanges /\ changes' = changes + 1
  /\ queue' = queue \cup {t}
  /\ UNCHANGED <<portVars, proxies, exports, start, plan, process, endings>>

(* Other programs; a port on which a proxy listens stays bound.            *)
OtherProgram ==
  /\ \E p \in OtherPorts :
       BindPort(p) \/ (FreePort(p) /\ \A s \in Services : listening[s] # p)
  /\ UNCHANGED <<proxies, exports, queue, start, plan, process, endings, changes>>

-----------------------------------------------------------------------------
(* canStartTask: the exports a task consumes are all there.                *)
Take(t) ==
  /\ start[t] = "idle" /\ t \in queue /\ Provided(t)
  /\ queue' = queue \ {t} /\ Goto(t, "replace")
  /\ UNCHANGED <<portVars, proxies, exports, plan, process, endings, changes>>

(* The running instance is cancelled, and its Start has to return.         *)
CancelPrevious(t) ==
  /\ start[t] = "replace"
  /\ \E i \in Ids :
       /\ Listed(t, i)
       /\ plan' = [plan EXCEPT ![t].waits = i]
       /\ process' = IF process[t].id = i THEN [process EXCEPT ![t].cancelled = TRUE]
                     ELSE process
  /\ Goto(t, "await")
  /\ UNCHANGED <<portVars, proxies, exports, queue, endings, changes>>

NoPrevious(t) ==
  /\ start[t] = "replace" /\ \A i \in Ids : ~Listed(t, i)
  /\ Overtaking \/ \A e \in endings : e.task # t
  /\ Goto(t, "collect")
  /\ UNCHANGED <<portVars, proxies, exports, queue, plan, process, endings, changes>>

(* A mutant: waits for the process and not for the end of its Start.       *)
AwaitProcess(t) ==
  /\ start[t] = "await" /\ process[t].id # plan[t].waits
  /\ Goto(t, "collect")
  /\ UNCHANGED <<portVars, proxies, exports, queue, plan, process, endings, changes>>

AwaitPrevious(t) ==
  /\ start[t] = "await"
  /\ process[t].id # plan[t].waits /\ ~Ending(t, plan[t].waits)
  /\ Goto(t, "collect")
  /\ UNCHANGED <<portVars, proxies, exports, queue, plan, process, endings, changes>>

(* generatedConsumerEnv                                                    *)
Collect(t) ==
  /\ start[t] = "collect" /\ Provided(t)
  /\ plan' = [plan EXCEPT ![t].env = [u \in Uses[t] |-> exports[u[1]][u[2]]]]
  /\ Goto(t, IF t \in Services THEN "assign" ELSE "launch")
  /\ UNCHANGED <<portVars, proxies, exports, queue, process, endings, changes>>

(* assignPortExports: the port of the task, then that of its proxy.        *)
AssignPort(t) ==
  /\ start[t] = "assign"
  /\ \E p \in Ports : Assign(t, p) /\ plan' = [plan EXCEPT ![t].port = p]
  /\ Goto(t, IF t \in Exposed THEN "assign proxy" ELSE "publish")
  /\ UNCHANGED <<proxies, exports, queue, process, endings, changes>>

AssignProxyPort(t) ==
  /\ start[t] = "assign proxy"
  /\ \E p \in Ports : Assign(ProxyOf[t], p) /\ plan' = [plan EXCEPT ![t].proxy = p]
  /\ Goto(t, "forward")
  /\ UNCHANGED <<proxies, exports, queue, process, endings, changes>>

(* StartOrUpdate: the proxy listens, or is moved, and forwards to the port.*)
Forward(t) ==
  /\ start[t] = "forward"
  /\ \/ listening[t] = plan[t].proxy /\ UNCHANGED <<listening, bound>>
     \/ /\ listening[t] # plan[t].proxy /\ plan[t].proxy \notin bound
        /\ listening' = [listening EXCEPT ![t] = plan[t].proxy]
        /\ bound' = (bound \ {listening[t]}) \cup {plan[t].proxy}
  /\ target' = [target EXCEPT ![t] = plan[t].port]
  /\ Goto(t, "publish")
  /\ UNCHANGED <<reservations, reservedBy, lastAssigned, exports, queue, plan, process,
                 endings, changes>>

(* setServiceExports                                                       *)
Publish(t) ==
  LET new == [direct |-> plan[t].port, proxy |-> plan[t].proxy] IN
  /\ start[t] = "publish"
  /\ exports' = [exports EXCEPT ![t] = new]
  /\ plan' = [plan EXCEPT ![t].changed = exports[t] # new]
  /\ Goto(t, "launch")
  /\ UNCHANGED <<portVars, proxies, queue, process, endings, changes>>

Launch(t) ==
  /\ start[t] = "launch"
  /\ \E i \in Ids :
       /\ ~Ending(t, i) /\ \A j \in 1 .. i - 1 : Ending(t, j)
       /\ process' = [process EXCEPT ![t] =
            [id |-> i, port |-> plan[t].port, env |-> plan[t].env, cancelled |-> FALSE]]
  /\ Goto(t, "announce")
  /\ UNCHANGED <<portVars, proxies, exports, queue, plan, endings, changes>>

(* shouldRestartOnProviderChange                                           *)
Restarted(c, s, changed) ==
  LET used == {u[2] : u \in {v \in Uses[c] : v[1] = s}} IN
  /\ used # {}
  /\ \/ OnChange[c] = "restart"
     \/ changed /\ OnChange[c] = "direct"
     \/ changed /\ OnChange[c] = "auto" /\ "direct" \in used

(* A mutant: only what a task exports under another port restarts others.  *)
AnnounceMoved(t) ==
  /\ start[t] = "announce"
  /\ queue' = queue \cup {c \in Tasks :
                Restarted(c, t, plan[t].changed /\ plan[t].port # Preferred[t])}
  /\ plan' = [plan EXCEPT ![t] = NoPlan] /\ Goto(t, "idle")
  /\ UNCHANGED <<portVars, proxies, exports, process, endings, changes>>

(* A mutant: restarts the consumers that run.                              *)
AnnounceRunning(t) ==
  /\ start[t] = "announce"
  /\ queue' = queue \cup {c \in Tasks : Alive(c) /\ Restarted(c, t, plan[t].changed)}
  /\ plan' = [plan EXCEPT ![t] = NoPlan] /\ Goto(t, "idle")
  /\ UNCHANGED <<portVars, proxies, exports, process, endings, changes>>

(* scheduleConsumersForProvider, or the one for explicit restarts only.    *)
Announce(t) ==
  /\ start[t] = "announce"
  /\ queue' = queue \cup {c \in Tasks : Restarted(c, t, plan[t].changed)}
  /\ plan' = [plan EXCEPT ![t] = NoPlan] /\ Goto(t, "idle")
  /\ UNCHANGED <<portVars, proxies, exports, process, endings, changes>>

-----------------------------------------------------------------------------
(* The ways a start fails: an export has gone again, no port is free, the  *)
(* proxy cannot listen, the command cannot be started.                     *)
NoneUsable(c) == \A p \in Candidates(c) : ~Usable(c, p)

Fails(t) ==
  /\ \/ start[t] = "collect" /\ ~Provided(t)
     \/ start[t] = "assign" /\ NoneUsable(t)
     \/ start[t] = "launch" /\ t \in MayFail
  /\ Goto(t, "failing") /\ endings' = endings \cup {NewEnding(t, NoId, TRUE)}
  /\ UNCHANGED <<portVars, proxies, exports, queue, plan, process, changes>>

ProxyFails(t) ==
  /\ \/ start[t] = "assign proxy" /\ NoneUsable(ProxyOf[t]) /\ UNCHANGED <<proxies, bound>>
     \/ /\ start[t] = "forward" /\ listening[t] # plan[t].proxy /\ plan[t].proxy \in bound
        /\ bound' = bound \ {listening[t]}
        /\ listening' = [listening EXCEPT ![t] = NoPort]
        /\ target' = [target EXCEPT ![t] = NoPort]
  /\ Goto(t, "give back")
  /\ UNCHANGED <<reservations, reservedBy, lastAssigned, exports, queue, plan, process,
                 endings, changes>>

Released(c) == IF reservations[c] = NoPort THEN UNCHANGED portVars ELSE Release(c)

GiveBack(t) ==
  /\ start[t] = "give back" /\ Released(t)
  /\ IF plan[t].proxy # NoPort
     THEN Goto(t, "give back proxy") /\ UNCHANGED endings
     ELSE Goto(t, "failing") /\ endings' = endings \cup {NewEnding(t, NoId, TRUE)}
  /\ UNCHANGED <<proxies, exports, queue, plan, process, changes>>

GiveBackProxy(t) ==
  /\ start[t] = "give back proxy" /\ Released(ProxyOf[t])
  /\ Goto(t, "failing") /\ endings' = endings \cup {NewEnding(t, NoId, TRUE)}
  /\ UNCHANGED <<proxies, exports, queue, plan, process, changes>>

Failed(t) ==
  /\ start[t] = "failing" /\ ~Ending(t, NoId)
  /\ plan' = [plan EXCEPT ![t] = NoPlan] /\ Goto(t, "idle")
  /\ UNCHANGED <<portVars, proxies, exports, queue, process, endings, changes>>

-----------------------------------------------------------------------------
(* The process ends: a cancelled one without an error, or as CommandRun    *)
(* shows also with one, which the tasks in MayFail stand for.               *)
Exit(t) ==
  /\ Alive(t) /\ (process[t].cancelled \/ t \in MayFail)
  /\ \E errored \in IF t \in MayFail THEN BOOLEAN ELSE {FALSE} :
       endings' = endings \cup {NewEnding(t, process[t].id, errored)}
  /\ process' = [process EXCEPT ![t] = NoProcess]
  /\ UNCHANGED <<portVars, proxies, exports, queue, start, plan, changes>>

(* onTaskFinished, step by step; without an error it ends after the exports*)
(* and otherwise with the consumers in the queue.                          *)
Following(e) == CASE e.at = "unlist" -> "release" [] e.at = "release" -> "retarget"
              [] e.at = "retarget" -> "clear" [] OTHER -> "prune"

Advance(e) ==
  endings' = (endings \ {e}) \cup
    (IF e.at = "prune" \/ (e.at = "clear" /\ ~e.errored) THEN {}
     ELSE {[e EXCEPT !.at = Following(e)]})

Unlist(e) ==
  /\ e.at = "unlist" /\ Advance(e)
  /\ UNCHANGED <<portVars, proxies, exports, queue, start, plan, process, changes>>

(* releaseFinishedTaskPorts                                                *)
ReleasePort(e) ==
  /\ e.at = "release" /\ Advance(e)
  /\ IF e.task \in Services THEN Released(e.task) ELSE UNCHANGED portVars
  /\ UNCHANGED <<proxies, exports, queue, start, plan, process, changes>>

(* Mutants: only a failed service loses its target; its proxy is closed.   *)
RetargetFailed(e) ==
  /\ e.at = "retarget" /\ Advance(e)
  /\ target' = [s \in Services |-> IF s = e.task /\ e.errored THEN NoPort ELSE target[s]]
  /\ UNCHANGED <<portVars, listening, exports, queue, start, plan, process, changes>>
RetargetClosing(e) ==
  /\ e.at = "retarget" /\ Advance(e)
  /\ listening' = [s \in Services |-> IF s = e.task THEN NoPort ELSE listening[s]]
  /\ target' = [s \in Services |-> IF s = e.task THEN NoPort ELSE target[s]]
  /\ UNCHANGED <<portVars, exports, queue, start, plan, process, changes>>

Retarget(e) ==
  /\ e.at = "retarget" /\ Advance(e)
  /\ target' = [s \in Services |-> IF s = e.task THEN NoPort ELSE target[s]]
  /\ UNCHANGED <<portVars, listening, exports, queue, start, plan, process, changes>>

ClearExports(e) ==
  /\ e.at = "clear" /\ Advance(e)
  /\ exports' = [s \in Services |->
       IF s # e.task THEN exports[s]
       ELSE IF e.errored THEN NoExports ELSE [exports[s] EXCEPT !["direct"] = NoPort]]
  /\ UNCHANGED <<portVars, proxies, queue, start, plan, process, changes>>

(* removeScheduledConsumersForFailedProvider: the queued tasks that consume*)
(* it, or one of them: the least set with all queued consumers of its own. *)
Providers(c) == {u[1] : u \in Uses[c]}
QueuedConsumers(t) ==
  {c \in queue : \A C \in SUBSET queue :
     (\A q \in queue : Providers(q) \cap (C \cup {t}) # {} => q \in C) => c \in C}

Prune(e) ==
  /\ e.at = "prune" /\ Advance(e)
  /\ queue' = queue \ QueuedConsumers(e.task)
  /\ UNCHANGED <<portVars, proxies, exports, start, plan, process, changes>>

-----------------------------------------------------------------------------
StartStep(t) ==
  \/ Take(t) \/ CancelPrevious(t) \/ NoPrevious(t) \/ AwaitPrevious(t)
  \/ Collect(t) \/ AssignPort(t) \/ AssignProxyPort(t) \/ Forward(t) \/ Publish(t)
  \/ Launch(t) \/ Announce(t)
  \/ Fails(t) \/ ProxyFails(t) \/ GiveBack(t) \/ GiveBackProxy(t) \/ Failed(t)

EndStep(e) ==
  Unlist(e) \/ ReleasePort(e) \/ Retarget(e) \/ ClearExports(e) \/ Prune(e)

Next ==
  \/ OtherProgram
  \/ \E t \in Tasks : Change(t) \/ StartStep(t) \/ Exit(t)
  \/ \E e \in endings : EndStep(e)

Spec == Init /\ [][Next]_vars

(* Goroutines are scheduled and cancelled processes end.  Services need not*)
(* fail, and other programs do what they like.  One condition for all      *)
(* goroutines is enough: none of them takes infinitely many steps.         *)
FairSpec ==
  /\ Spec
  /\ WF_vars(\/ \E t \in Tasks : StartStep(t) \/ (process[t].cancelled /\ Exit(t))
             \/ \E e \in endings : EndStep(e))

-----------------------------------------------------------------------------
Labels == {"idle", "replace", "await", "collect", "assign", "assign proxy", "forward",
           "publish", "launch", "announce", "give back", "give back proxy", "failing"}
PortOrNone == Ports \cup {NoPort}

(* The types of the variables.                                            *)
TypeOK ==
  /\ PortTypeOK
  /\ {listening, target} \subseteq [Services -> PortOrNone]
  /\ exports \in [Services -> [Kinds -> PortOrNone]]
  /\ queue \subseteq Tasks /\ start \in [Tasks -> Labels]
  /\ \A t \in Tasks : plan[t].waits \in Ids \cup {NoId} /\ process[t].id \in Ids \cup {NoId}
  /\ \A e \in endings : e.at \in {"unlist", "release", "retarget", "clear", "prune"}

(***************************************************************************)
(* A service that runs has what it was given: its port is reserved for it, *)
(* its proxy forwards to it and its exports are its own.                   *)
(***************************************************************************)
RunningIsServed ==
  \A s \in Services : Alive(s) =>
    /\ reservations[s] = process[s].port
    /\ exports[s].direct = process[s].port
    /\ s \in Exposed => listening[s] # NoPort /\ target[s] = process[s].port

(***************************************************************************)
(* A proxy never forwards to a port that another service has been given:   *)
(* it loses its target before or at the end of the reservation, or its     *)
(* owner is just about to take it away.                                    *)
(***************************************************************************)
ProxyForwardsHome ==
  \A s \in Services : target[s] # NoPort =>
    \/ reservations[s] = target[s]
    \/ \E e \in endings : e.task = s /\ e.at = "retarget"

(* "This lets a frontend use one stable URL" (README.md:214): what a       *)
(* consumer was given as the URL of a proxy is where that proxy listens,   *)
(* through all restarts of the service.                                    *)
ProxyUrlIsStable ==
  \A c \in Tasks : Alive(c) => \A u \in Uses[c] :
    u[2] = "proxy" => process[c].env[u] = listening[u[1]]

(***************************************************************************)
(* "it restarts on backend port changes" (README.md:249): a consumer that  *)
(* runs with a port its provider no longer has is in the queue, about to   *)
(* be replaced, or to be put there by the provider's start.  That holds    *)
(* for a consumer of one provider that consumes nothing itself: the failure*)
(* of a second one, or of one behind it, takes it from the queue (README). *)
(***************************************************************************)
Outdated(c, u) ==
  /\ Alive(c) /\ u[2] = "direct" /\ OnChange[c] # "none"
  /\ exports[u[1]].direct \notin {NoPort, process[c].env[u]}
IsReplaced(c) ==
  \A u \in Uses[c] : Outdated(c, u) =>
    \/ c \in queue \/ start[c] \in {"replace", "await"}
    \/ start[u[1]] \in {"launch", "announce", "failing"}
StaleIsReplaced == \A c \in Tasks : IsReplaced(c)

(***************************************************************************)
(* "Consumer tasks wait until provider exports are available"              *)
(* (README.md:249): while its providers stay up, a consumer that cannot    *)
(* fail, for lack of a port either, comes up.                              *)
(***************************************************************************)
Consumers == {c \in Tasks \ (MayFail \cup Services) : Uses[c] # {}}
Up(c) == \A s \in Providers(c) : Alive(s)
ConsumersComeUp == \A c \in Consumers : Up(c) ~> (Alive(c) \/ ~Up(c))

(* The same for those that use a direct export of each of their providers. *)
DirectConsumersComeUp ==
  \A c \in Consumers :
    (\A s \in Providers(c) : <<s, "direct">> \in Uses[c] /\ OnChange[c] # "none")
    => (Up(c) ~> (Alive(c) \/ ~Up(c)))
=============================================================================
