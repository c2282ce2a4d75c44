----------------------------- MODULE CommandRun -----------------------------
(***************************************************************************)
(* One RunningTask: the loop of Start over its commands, CommandWrapper.Run*)
(* with its goroutine that waits for the process, CancelProcess on Unix,   *)
(* and the process group of each command.                                  *)
(*                                                                         *)
(* os/exec is external.  Its Start refuses a context that is done and makes*)
(* a goroutine that calls the same CancelProcess as Run when the context   *)
(* ends ("exec" below); its Wait reaps the leader of the group and then    *)
(* waits for that goroutine.                                               *)
(*                                                                         *)
(* A process is a pair of a command and its place in the group: the leader *)
(* or one descendant of it.  There is no clock: the 5 s between SIGTERM and*)
(* SIGKILL are longer than whatever obeys SIGTERM takes to end.            *)
(***************************************************************************)
EXTENDS Naturals, FiniteSets

CONSTANTS
  Last,     (* the number of commands of the task                           *)
  Exits,    (* commands that may end by themselves                          *)
  Forks,    (* commands that may have a descendant                          *)
  Ignores   (* processes that may ignore SIGTERM                            *)

Commands == 1..Last
Leader(c) == <<c, "leader">>
Child(c) == <<c, "child">>
Group(c) == {Leader(c), Child(c)}
Processes == UNION {Group(c) : c \in Commands}
Cancellers == {"run", "exec"}

ASSUME CommandAssumption ==
  /\ Last \in Nat \ {0}
  /\ Exits \subseteq Commands /\ Forks \subseteq Commands
  /\ Ignores \subseteq Processes

VARIABLES
  ctxDone,   (* RunningTask.ctx is done                                     *)
  pc,        (* where Start is                                              *)
  cmd,       (* the command of its loop that was begun last                 *)
  errored,   (* what onTaskFinished is told                                 *)
  canceller, (* where the two callers of CancelProcess for cmd are          *)
  wait,      (* where the goroutine of Run that waits for cmd is            *)
  failed,    (* whether it sends an error                                   *)
  succeeded, (* commands whose leader ended with status 0                   *)
  born, alive, zombie, termed, killed, deaf
             (* processes: ever started; running; dead and not reaped; sent *)
             (* SIGTERM; sent SIGKILL; ignoring SIGTERM                     *)

taskVars == <<ctxDone, pc, cmd, errored>>
runVars == <<canceller, wait, failed>>
processVars == <<succeeded, born, alive, zombie, termed, killed, deaf>>
vars == <<taskVars, runVars, processVars>>

Init ==
  /\ ctxDone = FALSE /\ cmd = 0
  /\ errored \in BOOLEAN /\ pc = IF errored THEN "finish" ELSE "next"
  /\ canceller = [who \in Cancellers |-> "none"]
  /\ wait = "none" /\ failed = FALSE
  /\ succeeded = {}
  /\ born = {} /\ alive = {} /\ zombie = {} /\ termed = {} /\ killed = {} /\ deaf = {}

-----------------------------------------------------------------------------
(* Start and Run. *)

(* RunningTask.StopGracefully.                                             *)
StopGracefully ==
  /\ ~ctxDone /\ ctxDone' = TRUE
  /\ UNCHANGED <<pc, cmd, errored, runVars, processVars>>

Finish(e) == pc' = "finish" /\ errored' = e

(* The loop breaks off without an error when the context is done.          *)
BeginQuietly ==
  /\ pc = "next" /\ cmd < Last
  /\ \/ ~ctxDone /\ cmd' = cmd + 1 /\ pc' = "launch" /\ UNCHANGED errored
     \/ ctxDone /\ Finish(FALSE) /\ UNCHANGED cmd
  /\ UNCHANGED <<ctxDone, runVars, processVars>>

(* The next command of the loop, unless os/exec refuses to start it.       *)
Begin ==
  /\ pc = "next" /\ cmd < Last
  /\ \/ ~ctxDone /\ cmd' = cmd + 1 /\ pc' = "launch" /\ UNCHANGED errored
     \/ ctxDone /\ Finish(TRUE) /\ UNCHANGED cmd
  /\ UNCHANGED <<ctxDone, runVars, processVars>>

(* The leader of a new group and the two goroutines that wait for it.      *)
Launch ==
  /\ pc = "launch" /\ pc' = "select"
  /\ alive' = alive \cup {Leader(cmd)} /\ born' = born \cup {Leader(cmd)}
  /\ deaf' \in {deaf, deaf \cup (Ignores \cap {Leader(cmd)})}
  /\ wait' = "process" /\ failed' = FALSE
  /\ canceller' = [canceller EXCEPT !["exec"] = "watch"]
  /\ UNCHANGED <<ctxDone, cmd, errored, succeeded, zombie, termed, killed>>

LaunchFails ==
  /\ pc = "launch" /\ Finish(TRUE)
  /\ UNCHANGED <<ctxDone, cmd, runVars, processVars>>

(* The select of Run: the result of the wait, or the end of the context.   *)
Received ==
  /\ pc = "select" /\ wait = "send" /\ wait' = "none"
  /\ IF failed THEN Finish(TRUE) ELSE pc' = "next" /\ UNCHANGED errored
  /\ UNCHANGED <<ctxDone, cmd, canceller, failed, processVars>>

CtxDone ==
  /\ pc = "select" /\ ctxDone /\ pc' = "cancel"
  /\ canceller' = [canceller EXCEPT !["run"] = "getpgid"]
  /\ UNCHANGED <<ctxDone, cmd, errored, wait, failed, processVars>>

(* Run returns what its call of CancelProcess returns; the goroutine that  *)
(* waits for the process is left behind.                                   *)
CancelReturns ==
  /\ pc = "cancel"
  /\ \/ canceller["run"] = "nil" /\ pc' = "next" /\ UNCHANGED errored
     \/ canceller["run"] = "gone" /\ Finish(TRUE)
  /\ UNCHANGED <<ctxDone, cmd, runVars, processVars>>

AllDone ==
  /\ pc = "next" /\ cmd = Last /\ Finish(FALSE)
  /\ UNCHANGED <<ctxDone, cmd, runVars, processVars>>

(* After the callback: cancel and close(done).                             *)
Close ==
  /\ pc = "finish" /\ pc' = "done" /\ ctxDone' = TRUE
  /\ UNCHANGED <<cmd, errored, runVars, processVars>>

-----------------------------------------------------------------------------
(* CancelProcess, as Run and os/exec call it. *)

Remaining == (alive \cup zombie) \cap Group(cmd)
To(who, state) == canceller' = [canceller EXCEPT ![who] = state]

Watch ==
  /\ canceller["exec"] = "watch" /\ ctxDone
  /\ To("exec", "getpgid")
  /\ UNCHANGED <<taskVars, wait, failed, processVars>>

(* CancelProcess without the polling.                                      *)
TerminateAndReturn(who) ==
  /\ canceller[who] = "term"
  /\ To(who, "nil")
  /\ termed' = termed \cup (alive \cap Group(cmd))
  /\ UNCHANGED <<taskVars, wait, failed, succeeded, born, alive, zombie, killed, deaf>>

(* Getpgid fails once the leader is reaped; Kill then finds it gone too.   *)
Getpgid(who) ==
  /\ canceller[who] = "getpgid"
  /\ To(who, IF Leader(cmd) \in Remaining THEN "term" ELSE "gone")
  /\ UNCHANGED <<taskVars, wait, failed, processVars>>

Terminate(who) ==
  /\ canceller[who] = "term"
  /\ To(who, IF Remaining = {} THEN "nil" ELSE "poll")
  /\ termed' = termed \cup (alive \cap Group(cmd))
  /\ UNCHANGED <<taskVars, wait, failed, succeeded, born, alive, zombie, killed, deaf>>

PollGone(who) ==
  /\ canceller[who] = "poll" /\ Remaining = {}
  /\ To(who, "nil")
  /\ UNCHANGED <<taskVars, wait, failed, processVars>>

(* SIGKILL to the process instead of its group.                            *)
EscalateLeader(who) ==
  /\ canceller[who] = "poll"
  /\ Remaining # {} /\ Remaining \subseteq alive
  /\ Remaining \cap termed \subseteq deaf
  /\ To(who, "nil")
  /\ killed' = killed \cup (Remaining \cap {Leader(cmd)})
  /\ UNCHANGED <<taskVars, wait, failed, succeeded, born, alive, zombie, termed, deaf>>

(* The grace period is over when only those are left whom SIGTERM does not *)
(* end.                                                                    *)
Escalate(who) ==
  /\ canceller[who] = "poll"
  /\ Remaining # {} /\ Remaining \subseteq alive
  /\ Remaining \cap termed \subseteq deaf
  /\ To(who, "nil")
  /\ killed' = killed \cup Remaining
  /\ UNCHANGED <<taskVars, wait, failed, succeeded, born, alive, zombie, termed, deaf>>

-----------------------------------------------------------------------------
(* The goroutine that waits for the process, and os/exec's Wait. *)

Reap ==
  /\ wait = "process" /\ Leader(cmd) \in zombie
  /\ wait' = "watcher" /\ zombie' = zombie \ {Leader(cmd)}
  /\ failed' = (cmd \notin succeeded)
  /\ UNCHANGED <<taskVars, canceller, succeeded, born, alive, termed, killed, deaf>>

(* The error of the context counts unless the cancellation came too late.  *)
Collect ==
  /\ wait = "watcher" /\ canceller["exec"] \in {"watch", "nil", "gone"}
  /\ wait' = "send"
  /\ failed' = (failed \/ canceller["exec"] = "nil")
  /\ To("exec", "none")
  /\ UNCHANGED <<taskVars, processVars>>

-----------------------------------------------------------------------------
(* The processes. *)

Fork ==
  /\ cmd \in Forks /\ Leader(cmd) \in alive \ killed /\ Child(cmd) \notin born
  /\ born' = born \cup {Child(cmd)}
  /\ alive' = alive \cup {Child(cmd)}
  /\ deaf' \in {deaf, deaf \cup (Ignores \cap {Child(cmd)})}
  /\ UNCHANGED <<taskVars, runVars, succeeded, zombie, termed, killed>>

(* A leader stays a zombie until it is reaped; init reaps the others.      *)
Dies(p) ==
  /\ p \in alive /\ alive' = alive \ {p}
  /\ zombie' = zombie \cup ({p} \cap {Leader(cmd)})
  /\ UNCHANGED <<taskVars, runVars, born, termed, killed, deaf>>

Exit(c, p) ==
  /\ p = Child(c) \/ c \in Exits
  /\ Dies(p)
  /\ succeeded' \in {succeeded, succeeded \cup {d \in {c} : p = Leader(c)}}

(* Who obeys SIGTERM may clean up and end with status 0.                   *)
Obey(c, p) ==
  /\ p \in termed \ deaf
  /\ Dies(p)
  /\ succeeded' \in {succeeded, succeeded \cup {d \in {c} : p = Leader(c)}}

Killed(p) ==
  /\ p \in killed
  /\ Dies(p)
  /\ UNCHANGED succeeded

-----------------------------------------------------------------------------
StartStep == Begin \/ Launch \/ Received \/ CtxDone \/ CancelReturns \/ AllDone \/ Close
CancelStep(who) == Getpgid(who) \/ Terminate(who) \/ PollGone(who) \/ Escalate(who)
SignalStep(c, p) == Obey(c, p) \/ Killed(p)

Next ==
  \/ StopGracefully
  \/ StartStep \/ LaunchFails
  \/ Watch \/ \E who \in Cancellers : CancelStep(who)
  \/ Reap \/ Collect
  \/ Fork
  \/ \E c \in Commands : \E p \in Group(c) : Exit(c, p) \/ SignalStep(c, p)

Spec == Init /\ [][Next]_vars

(* The goroutines go on, and a signal that ends a process does so.  Nobody *)
(* has to stop the task, and no process has to end by itself.              *)
FairSpec ==
  /\ Spec
  /\ WF_vars(StartStep) /\ WF_vars(Reap) /\ WF_vars(Collect) /\ WF_vars(Watch)
  /\ \A who \in Cancellers : WF_vars(CancelStep(who))
  /\ \A c \in Commands : \A p \in Group(c) : WF_vars(SignalStep(c, p))

-----------------------------------------------------------------------------
(* The types of the variables; only a process that was started is          *)
(* signalled, and a canceller works only for a command that was begun.     *)
TypeOK ==
  /\ ctxDone \in BOOLEAN /\ errored \in BOOLEAN /\ failed \in BOOLEAN
  /\ cmd \in 0..Last
  /\ pc \in {"next", "launch", "select", "cancel", "finish", "done"}
  /\ canceller \in [Cancellers ->
       {"none", "watch", "getpgid", "term", "poll", "nil", "gone"}]
  /\ wait \in {"none", "process", "watcher", "send"}
  /\ succeeded \subseteq Commands
  /\ \A s \in {born, alive, zombie, termed, killed, deaf} : s \subseteq Processes

(* running_task.go:34: done is closed when all processes have exited.  It  *)
(* is true of the leaders that obey SIGTERM, whatever the interleaving of  *)
(* the two cancellers, the reaping and the next command.  A start that was *)
(* under way when the context ended counts as earlier than the end.        *)
Promise == INSTANCE TaskProcess WITH
  live <- {c \in Commands : Leader(c) \in (alive \cup zombie) \ deaf},
  cancelled <- ctxDone /\ pc # "launch",
  ended <- pc = "done"
TaskPromise == Promise!Spec

(* process_unix.go:26-32: a task that is stopped ends, and so do, in the   *)
(* end, all processes of its groups: the descendants, those that ignore    *)
(* SIGTERM, and the one that was being started when the task was stopped.  *)
CancelCleansUp == ctxDone ~> (pc = "done" /\ alive = {} /\ zombie = {})

(* A task is reported as successful only when all its commands were begun  *)
(* and all but the last one ended with status 0.  The last one may have    *)
(* been cancelled, which Run reports as success.                           *)
SuccessMeansAllRan ==
  pc = "done" /\ ~errored => cmd = Last /\ 1..(Last - 1) \subseteq succeeded

(* running_task.go:236: Wait returns when all processes have been reaped.  *)
(* It is not so once a process ignores SIGTERM, since nobody waits after   *)
(* SIGKILL, nor when a leader ends before its descendants.                 *)
EndedMeansReaped == pc = "done" => alive = {} /\ zombie = {}
=============================================================================
