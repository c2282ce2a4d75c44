-------------------------- MODULE CommandRunProofs --------------------------
(***************************************************************************)
(* A task keeps what the runner takes it for, whatever the number of its   *)
(* commands and whichever of its processes fork, exit and ignore SIGTERM;  *)
(* and it reports a success only when all of its commands were run.        *)
(*                                                                         *)
(* The state of both cancellers is about the command that was begun last.  *)
(* It may be, since a command is begun only while the context is not done, *)
(* and then the one before has ended by its own and been received: nothing *)
(* of its leader is left and nobody has begun to cancel it.                *)
(***************************************************************************)
EXTENDS CommandRun, TLAPS

LeaderUp(c) == Leader(c) \in alive \cup zombie

PcTypes == {"next", "launch", "select", "cancel", "finish", "done"}
CancellerTypes == {"none", "watch", "getpgid", "term", "poll", "nil", "gone"}

RunTypes ==
  /\ ctxDone \in BOOLEAN /\ cmd \in 0..Last /\ pc \in PcTypes
  /\ canceller \in [Cancellers -> CancellerTypes]

(* The only leader there may be is that of cmd, while Run waits for it.    *)
OneLeader ==
  /\ \A c \in Commands : LeaderUp(c) => c = cmd /\ wait = "process"
  /\ \A c \in Commands : ~(Leader(c) \in alive /\ Leader(c) \in zombie)

(* Between two commands nobody waits, and Run cancels only what it has     *)
(* begun to wait for.                                                      *)
Between ==
  /\ pc = "launch" \/ (pc = "next" /\ ~ctxDone) => wait = "none"
  /\ canceller["run"] # "none" => ctxDone
  /\ pc \in {"launch", "select"} => canceller["run"] = "none"
  /\ pc = "launch" => cmd \in Commands

(* Once Run has returned, or CancelProcess to it, a leader that is left    *)
(* ignores SIGTERM; the poll in between is for one that was sent it.       *)
LeaderGone == \A c \in Commands : LeaderUp(c) => Leader(c) \in deaf
GoneInv ==
  /\ pc \in {"next", "launch", "finish", "done"} \/ canceller["run"] \in {"nil", "gone"}
       => LeaderGone
  /\ canceller["run"] = "poll" => \A c \in Commands : Leader(c) \in alive => Leader(c) \in termed

RunInv == RunTypes /\ OneLeader /\ Between /\ GoneInv

(* The commands before the one that was begun last have ended well, and    *)
(* that one has when Run passed on to the next.                            *)
SuccessInv ==
  /\ \A c \in Commands : c < cmd => c \in succeeded
  /\ wait \in {"watcher", "send"} /\ ~failed => cmd \in succeeded
  /\ pc = "next" /\ ~ctxDone /\ cmd # 0 => cmd \in succeeded
  /\ pc \in {"finish", "done"} /\ ~errored => cmd = Last

-----------------------------------------------------------------------------
LEMMA LeadersDiffer ==
  \A c, d \in Commands : (Leader(c) = Leader(d) <=> c = d) /\ Leader(c) # Child(d)
  BY DEF Leader, Child

LEMMA InitRun == Init => RunInv /\ SuccessInv
<1> SUFFICES ASSUME Init PROVE RunInv /\ SuccessInv OBVIOUS
<1> USE DEF Init
<1>1. pc \in {"next", "finish"} /\ (pc = "finish" => errored) OBVIOUS
<1>2. canceller["run"] = "none" BY DEF Cancellers
<1>3. RunTypes
  <2>1. "none" \in CancellerTypes BY DEF CancellerTypes
  <2>2. canceller \in [Cancellers -> CancellerTypes] BY <2>1
  <2>3. cmd \in 0..Last BY CommandAssumption
  <2>4. QED BY <1>1, <2>2, <2>3 DEF RunTypes, PcTypes
<1>4. OneLeader /\ LeaderGone BY DEF OneLeader, LeaderGone, LeaderUp
<1>5. Between BY <1>1, <1>2 DEF Between
<1>6. GoneInv BY <1>2, <1>4 DEF GoneInv
<1>7. SuccessInv BY <1>1 DEF SuccessInv, Commands
<1>8. QED BY <1>3, <1>4, <1>5, <1>6, <1>7 DEF RunInv

(* Whichever process dies, no leader comes up by it.                       *)
LEMMA DiesKeepsLeaders ==
  ASSUME RunInv, NEW c \in Commands, NEW p \in Group(c), Dies(p)
  PROVE  /\ OneLeader'
         /\ LeaderGone => LeaderGone'
         /\ \A d \in Commands : Leader(d) \in alive' => Leader(d) \in alive
<1>1. p \in {Leader(c), Child(c)} /\ p \in alive
  BY DEF Group, Dies
<1>2. \A d \in Commands : Leader(d) \in alive' => Leader(d) \in alive
  BY DEF Dies
<1>3. \A d \in Commands : Leader(d) \in zombie' => Leader(d) \in zombie \/ p = Leader(d)
  BY DEF Dies
<1>4. \A d \in Commands : LeaderUp(d)' => LeaderUp(d)
  BY <1>1, <1>2, <1>3 DEF LeaderUp
<1>5. OneLeader'
  <2>1. UNCHANGED <<cmd, wait>> BY DEF Dies, taskVars, runVars
  <2>2. \A d \in Commands : LeaderUp(d)' => d = cmd' /\ wait' = "process"
    BY <1>4, <2>1 DEF RunInv, OneLeader
  <2>3. \A d \in Commands : ~(Leader(d) \in alive' /\ Leader(d) \in zombie')
    BY <1>1, <1>2, <1>3 DEF Dies, RunInv, OneLeader
  <2>4. QED BY <2>2, <2>3 DEF OneLeader
<1>6. LeaderGone => LeaderGone'
  BY <1>4 DEF LeaderGone, Dies
<1>7. QED BY <1>2, <1>5, <1>6

LEMMA DiesKeepsRun ==
  ASSUME RunInv, NEW c \in Commands, NEW p \in Group(c), Dies(p)
  PROVE  RunInv'
<1>1. UNCHANGED <<ctxDone, cmd, pc, canceller, wait, termed>>
  BY DEF Dies, taskVars, runVars
<1>2. GoneInv'
  BY <1>1, DiesKeepsLeaders DEF RunInv, GoneInv
<1>3. RunTypes' /\ Between' BY <1>1 DEF RunInv, RunTypes, Between
<1>4. QED BY <1>2, <1>3, DiesKeepsLeaders DEF RunInv

(* A canceller changes no leader, but what it has done depends on them.    *)
LEMMA CancelKeepsRun ==
  ASSUME RunInv, NEW who \in Cancellers, CancelStep(who)
  PROVE  RunInv'
<1> USE DEF RunInv
<1> DEFINE up == {c \in Commands : LeaderUp(c)}
<1>1. UNCHANGED <<ctxDone, cmd, pc, wait, alive, zombie, deaf>>
  BY DEF CancelStep, Getpgid, Terminate, PollGone, Escalate, To, taskVars, processVars
<1>2. OneLeader' /\ (LeaderGone => LeaderGone')
  BY <1>1 DEF OneLeader, LeaderGone, LeaderUp
<1>3. /\ canceller[who] # "none"
      /\ \A other \in Cancellers \ {who} : canceller'[other] = canceller[other]
      /\ canceller'[who] \in {"term", "gone", "nil", "poll"}
      /\ canceller' \in [Cancellers -> CancellerTypes]
  BY DEF CancelStep, Getpgid, Terminate, PollGone, Escalate, To, RunTypes, CancellerTypes
<1>4. RunTypes' BY <1>1, <1>3 DEF RunTypes
<1>5. Between'
  <2>1. canceller'["run"] # "none" => canceller["run"] # "none"
    BY <1>3 DEF Cancellers
  <2>2. QED BY <1>1, <2>1 DEF Between
<1>6. termed \subseteq termed'
  BY DEF CancelStep, Getpgid, Terminate, PollGone, Escalate, processVars
<1>7. CASE who = "exec"
  <2>1. canceller'["run"] = canceller["run"] BY <1>3, <1>7 DEF Cancellers
  <2>2. QED BY <1>1, <1>2, <1>4, <1>5, <1>6, <2>1 DEF GoneInv
<1>8. CASE who = "run"
  <2>1. \A c \in Commands : LeaderUp(c) => c = cmd /\ Leader(c) \in Remaining
    BY DEF OneLeader, LeaderUp, Remaining, Group
  <2>2. canceller'["run"] \in {"nil", "gone"} => LeaderGone
    <3>1. CASE Getpgid("run")
      BY <3>1, <2>1, <1>8 DEF Getpgid, To, LeaderGone, RunTypes
    <3>2. CASE Terminate("run")
      BY <3>2, <2>1, <1>8 DEF Terminate, To, LeaderGone, RunTypes
    <3>3. CASE PollGone("run")
      BY <3>3, <2>1 DEF PollGone, LeaderGone
    <3>4. CASE Escalate("run")
      <4>1. ASSUME NEW c \in Commands, LeaderUp(c) PROVE Leader(c) \in deaf
        <5>1. Leader(c) \in Remaining /\ Leader(c) \in alive
          BY <4>1, <2>1, <3>4 DEF Escalate
        <5>2. Leader(c) \in termed
          BY <5>1, <3>4 DEF Escalate, GoneInv
        <5>3. QED BY <5>1, <5>2, <3>4 DEF Escalate
      <4>2. QED BY <4>1 DEF LeaderGone
    <3>5. QED BY <3>1, <3>2, <3>3, <3>4, <1>8 DEF CancelStep
  <2>3. canceller'["run"] = "poll" =>
          \A c \in Commands : Leader(c) \in alive => Leader(c) \in termed'
    <3>1. SUFFICES ASSUME canceller'["run"] = "poll", NEW c \in Commands, Leader(c) \in alive
                   PROVE  Leader(c) \in termed'
      OBVIOUS
    <3>2. Terminate("run")
      BY <3>1, <1>8 DEF CancelStep, Getpgid, Terminate, PollGone, Escalate, To, RunTypes
    <3>3. Leader(c) \in Group(cmd)
      BY <3>1, <2>1 DEF LeaderUp, Remaining
    <3>4. QED BY <3>1, <3>2, <3>3 DEF Terminate
  <2>4. GoneInv'
    BY <1>1, <1>2, <2>2, <2>3 DEF GoneInv
  <2>5. QED BY <1>2, <1>4, <1>5, <2>4
<1>9. QED BY <1>7, <1>8 DEF Cancellers

LEMMA RunKept == RunInv /\ [Next]_vars => RunInv'
<1> SUFFICES ASSUME RunInv, [Next]_vars PROVE RunInv' OBVIOUS
<1> USE DEF RunInv
<1>1. CASE UNCHANGED vars
  BY <1>1 DEF vars, taskVars, runVars, processVars, RunTypes, OneLeader, Between, GoneInv,
     LeaderGone, LeaderUp
<1>2. ASSUME UNCHANGED <<alive, zombie, deaf>>, UNCHANGED <<cmd, wait>>
      PROVE  OneLeader' /\ (LeaderGone => LeaderGone')
  BY <1>2 DEF OneLeader, LeaderGone, LeaderUp
<1>3. CASE StopGracefully
  <2>1. UNCHANGED <<pc, cmd, canceller, wait, alive, zombie, deaf, termed>> /\ ctxDone' = TRUE
    BY <1>3 DEF StopGracefully, runVars, processVars
  <2>2. QED BY <1>2, <2>1 DEF RunTypes, Between, GoneInv
<1>4. CASE Begin
  <2>1. UNCHANGED <<ctxDone, wait, canceller, alive, zombie, deaf, termed>> /\ pc = "next"
    BY <1>4 DEF Begin, runVars, processVars
  <2>2. CASE ctxDone
    <3>1. pc' = "finish" /\ cmd' = cmd BY <1>4, <2>2 DEF Begin, Finish
    <3>2. QED BY <1>2, <2>1, <2>2, <3>1 DEF RunTypes, PcTypes, Between, GoneInv
  <2>3. CASE ~ctxDone
    <3>1. pc' = "launch" /\ cmd' = cmd + 1 /\ cmd < Last BY <1>4, <2>3 DEF Begin
    <3>2. cmd' \in Commands /\ cmd' \in 0..Last
      BY <3>1, CommandAssumption DEF RunTypes, Commands
    <3>3. wait = "none" /\ canceller["run"] = "none" BY <2>1, <2>3 DEF Between
    <3>4. \A c \in Commands : ~LeaderUp(c) BY <3>3 DEF OneLeader
    <3>5. OneLeader' /\ LeaderGone' BY <2>1, <3>4 DEF OneLeader, LeaderGone, LeaderUp
    <3>6. QED BY <2>1, <3>1, <3>2, <3>3, <3>5 DEF RunTypes, PcTypes, Between, GoneInv
  <2>4. QED BY <2>2, <2>3
<1>5. CASE Launch
  <2>1. /\ UNCHANGED <<ctxDone, cmd, zombie, termed>> /\ pc = "launch" /\ pc' = "select"
        /\ wait' = "process" /\ canceller' = [canceller EXCEPT !["exec"] = "watch"]
        /\ alive' = alive \cup {Leader(cmd)}
    BY <1>5 DEF Launch
  <2>2. canceller'["run"] = "none" /\ canceller' \in [Cancellers -> CancellerTypes]
    BY <2>1 DEF Between, RunTypes, Cancellers, CancellerTypes
  <2>3. cmd \in Commands /\ \A c \in Commands : ~LeaderUp(c)
    BY <2>1 DEF OneLeader, Between
  <2>4. OneLeader'
    BY <2>1, <2>3, LeadersDiffer DEF OneLeader, LeaderUp
  <2>5. QED BY <2>1, <2>2, <2>4 DEF RunTypes, PcTypes, Between, GoneInv
<1>6. CASE LaunchFails
  <2>1. /\ UNCHANGED <<ctxDone, cmd, wait, canceller, alive, zombie, deaf, termed>>
        /\ pc = "launch" /\ pc' = "finish"
    BY <1>6 DEF LaunchFails, Finish, runVars, processVars
  <2>2. QED BY <1>2, <2>1 DEF RunTypes, PcTypes, Between, GoneInv
<1>7. CASE Received
  <2>1. /\ UNCHANGED <<ctxDone, cmd, canceller, alive, zombie, deaf, termed>>
        /\ pc = "select" /\ wait = "send" /\ wait' = "none" /\ pc' \in {"next", "finish"}
    BY <1>7 DEF Received, Finish, processVars
  <2>2. \A c \in Commands : ~LeaderUp(c) BY <2>1 DEF OneLeader
  <2>3. OneLeader' /\ LeaderGone' BY <2>1, <2>2 DEF OneLeader, LeaderGone, LeaderUp
  <2>4. QED BY <2>1, <2>3 DEF RunTypes, PcTypes, Between, GoneInv
<1>8. CASE CtxDone
  <2>1. /\ UNCHANGED <<ctxDone, cmd, wait, alive, zombie, deaf, termed>>
        /\ pc = "select" /\ pc' = "cancel" /\ ctxDone
        /\ canceller' = [canceller EXCEPT !["run"] = "getpgid"]
    BY <1>8 DEF CtxDone, processVars
  <2>2. canceller'["run"] = "getpgid" /\ canceller' \in [Cancellers -> CancellerTypes]
    BY <2>1 DEF RunTypes, Cancellers, CancellerTypes
  <2>3. QED BY <1>2, <2>1, <2>2 DEF RunTypes, PcTypes, Between, GoneInv
<1>9. CASE CancelReturns
  <2>1. /\ UNCHANGED <<ctxDone, cmd, wait, canceller, alive, zombie, deaf, termed>>
        /\ canceller["run"] \in {"nil", "gone"} /\ pc' \in {"next", "finish"}
    BY <1>9 DEF CancelReturns, Finish, runVars, processVars
  <2>2. ctxDone /\ LeaderGone BY <2>1 DEF Between, GoneInv
  <2>3. QED BY <1>2, <2>1, <2>2 DEF RunTypes, PcTypes, Between, GoneInv
<1>10. CASE AllDone \/ Close
  <2>1. /\ UNCHANGED <<cmd, wait, canceller, alive, zombie, deaf, termed>>
        /\ pc \in {"next", "finish"} /\ pc' \in {"finish", "done"}
    BY <1>10 DEF AllDone, Close, Finish, runVars, processVars
  <2>2. ctxDone' \in BOOLEAN /\ (ctxDone => ctxDone')
    BY <1>10 DEF AllDone, Close, RunTypes
  <2>3. QED BY <1>2, <2>1, <2>2 DEF RunTypes, PcTypes, Between, GoneInv
<1>11. CASE Watch
  <2>1. /\ UNCHANGED <<ctxDone, pc, cmd, wait, alive, zombie, deaf, termed>>
        /\ canceller' = [canceller EXCEPT !["exec"] = "getpgid"]
    BY <1>11 DEF Watch, To, taskVars, processVars
  <2>2. canceller'["run"] = canceller["run"] /\ canceller' \in [Cancellers -> CancellerTypes]
    BY <2>1 DEF RunTypes, Cancellers, CancellerTypes
  <2>3. QED BY <1>2, <2>1, <2>2 DEF RunTypes, Between, GoneInv
<1>12. CASE \E who \in Cancellers : CancelStep(who) BY <1>12, CancelKeepsRun
<1>13. CASE Reap
  <2>1. /\ UNCHANGED <<ctxDone, pc, cmd, canceller, alive, deaf, termed>>
        /\ wait = "process" /\ wait' = "watcher" /\ Leader(cmd) \in zombie
        /\ zombie' = zombie \ {Leader(cmd)}
    BY <1>13 DEF Reap, taskVars
  <2>2. \A c \in Commands : LeaderUp(c) => Leader(c) = Leader(cmd) BY DEF OneLeader
  <2>3. \A c \in Commands : ~LeaderUp(c)'
    BY <2>1, <2>2 DEF LeaderUp, OneLeader
  <2>4. OneLeader' /\ LeaderGone' BY <2>1, <2>3 DEF OneLeader, LeaderGone, LeaderUp
  <2>5. QED BY <2>1, <2>4 DEF RunTypes, Between, GoneInv
<1>14. CASE Collect
  <2>1. /\ UNCHANGED <<ctxDone, pc, cmd, alive, zombie, deaf, termed>>
        /\ wait = "watcher" /\ wait' = "send"
        /\ canceller' = [canceller EXCEPT !["exec"] = "none"]
    BY <1>14 DEF Collect, To, taskVars, processVars
  <2>2. canceller'["run"] = canceller["run"] /\ canceller' \in [Cancellers -> CancellerTypes]
    BY <2>1 DEF RunTypes, Cancellers, CancellerTypes
  <2>3. \A c \in Commands : ~LeaderUp(c) BY <2>1 DEF OneLeader
  <2>4. OneLeader' /\ LeaderGone' BY <2>1, <2>3 DEF OneLeader, LeaderGone, LeaderUp
  <2>5. QED BY <2>1, <2>2, <2>4 DEF RunTypes, Between, GoneInv
<1>15. CASE Fork
  <2>1. /\ UNCHANGED <<ctxDone, pc, cmd, wait, canceller, zombie, termed>> /\ cmd \in Commands
        /\ alive' = alive \cup {Child(cmd)} /\ deaf \subseteq deaf'
    BY <1>15, CommandAssumption DEF Fork, taskVars, runVars
  <2>2. \A c \in Commands : Leader(c) \in alive' <=> Leader(c) \in alive
    BY <2>1, LeadersDiffer
  <2>3. OneLeader' /\ (LeaderGone => LeaderGone')
    BY <2>1, <2>2 DEF OneLeader, LeaderGone, LeaderUp
  <2>4. QED BY <2>1, <2>2, <2>3 DEF RunTypes, Between, GoneInv
<1>16. CASE \E c \in Commands : \E p \in Group(c) : Exit(c, p) \/ SignalStep(c, p)
  BY <1>16, DiesKeepsRun DEF Exit, SignalStep, Obey, Killed
<1>17. QED
  BY <1>1, <1>3, <1>4, <1>5, <1>6, <1>7, <1>8, <1>9, <1>10, <1>11, <1>12, <1>13, <1>14,
     <1>15, <1>16 DEF Next, StartStep

-----------------------------------------------------------------------------
(* What a task does, as the runner sees it.                                *)

Live == {c \in Commands : Leader(c) \in (alive \cup zombie) \ deaf}
Cancelled == ctxDone /\ pc # "launch"
Ended == pc = "done"

(* The three that the mapping goes by stay as they are.                    *)
Same == Live' = Live /\ (Cancelled' <=> Cancelled) /\ (Ended' <=> Ended)

LEMMA SameStutters == Same => UNCHANGED Promise!taskVars
  BY DEF Same, Promise!taskVars, Live, Cancelled, Ended

LEMMA Refines == RunInv /\ [Next]_vars => [Promise!Next]_Promise!taskVars
<1> SUFFICES ASSUME RunInv, [Next]_vars PROVE [Promise!Next]_Promise!taskVars OBVIOUS
<1> USE DEF RunInv
<1>1. CASE UNCHANGED vars
  BY <1>1 DEF vars, taskVars, processVars, Promise!taskVars
<1>2. ASSUME UNCHANGED <<alive, zombie, deaf>> PROVE Live' = Live
  BY <1>2 DEF Live
<1>3. CASE StopGracefully
  <2>1. UNCHANGED <<pc, alive, zombie, deaf>> /\ ctxDone' = TRUE /\ ~ctxDone
    BY <1>3 DEF StopGracefully, processVars
  <2>2. CASE pc = "launch" BY <1>2, <2>1, <2>2, SameStutters DEF Same, Cancelled, Ended
  <2>3. CASE pc # "launch"
    <3>1. Promise!Cancel BY <1>2, <2>1, <2>3 DEF Promise!Cancel, Live
    <3>2. QED BY <3>1 DEF Promise!Next
  <2>4. QED BY <2>2, <2>3
<1>4. CASE Begin
  BY <1>2, <1>4, SameStutters DEF Begin, Finish, processVars, Same, Cancelled, Ended
<1>5. CASE Launch
  <2>1. /\ UNCHANGED <<ctxDone, zombie>> /\ pc = "launch" /\ pc' = "select"
        /\ alive' = alive \cup {Leader(cmd)}
        /\ deaf' \in {deaf, deaf \cup (Ignores \cap {Leader(cmd)})}
    BY <1>5 DEF Launch
  <2>2. cmd \in Commands /\ \A c \in Commands : ~LeaderUp(c)
    BY <2>1 DEF OneLeader, Between
  <2>3. Live = {} BY <2>2 DEF Live, LeaderUp
  <2>4. \A c \in Commands \ {cmd} : c \notin Live'
    BY <2>1, <2>2, LeadersDiffer DEF Live, LeaderUp
  <2>5. CASE Leader(cmd) \in deaf'
    <3>1. Live' = {} BY <2>4, <2>5 DEF Live
    <3>2. CASE ctxDone
      <4>1. Promise!Cancel BY <2>1, <2>3, <3>1, <3>2 DEF Promise!Cancel, Live
      <4>2. QED BY <4>1 DEF Promise!Next
    <3>3. CASE ~ctxDone
      BY <2>1, <2>3, <3>1, <3>3, SameStutters DEF Same, Cancelled, Ended
    <3>4. QED BY <3>2, <3>3
  <2>6. CASE Leader(cmd) \notin deaf'
    <3>1. Live' = {cmd} BY <2>1, <2>2, <2>4, <2>6 DEF Live
    <3>2. Promise!Launch(cmd) BY <2>1, <2>3, <3>1 DEF Promise!Launch, Live, RunTypes
    <3>3. QED BY <2>2, <3>2 DEF Promise!Next
  <2>7. QED BY <2>5, <2>6
<1>6. CASE LaunchFails
  <2>1. UNCHANGED <<ctxDone, alive, zombie, deaf>> /\ pc = "launch" /\ pc' = "finish"
    BY <1>6 DEF LaunchFails, Finish, processVars
  <2>2. CASE ctxDone
    <3>1. Promise!Cancel BY <1>2, <2>1, <2>2 DEF Promise!Cancel, Live
    <3>2. QED BY <3>1 DEF Promise!Next
  <2>3. CASE ~ctxDone BY <1>2, <2>1, <2>3, SameStutters DEF Same, Cancelled, Ended
  <2>4. QED BY <2>2, <2>3
<1>7. CASE Received \/ CtxDone \/ CancelReturns \/ AllDone
  <2>1. UNCHANGED <<ctxDone, alive, zombie, deaf>> /\ pc \in {"select", "cancel", "next"}
        /\ pc' \in {"next", "finish", "cancel"}
    BY <1>7 DEF Received, CtxDone, CancelReturns, AllDone, Finish, processVars
  <2>2. QED BY <1>2, <2>1, SameStutters DEF Same, Cancelled, Ended
<1>8. CASE Close
  <2>1. /\ UNCHANGED <<alive, zombie, deaf>> /\ pc = "finish" /\ pc' = "done"
        /\ ctxDone' = TRUE
    BY <1>8 DEF Close, processVars
  <2>2. Live = {} BY <2>1 DEF GoneInv, LeaderGone, LeaderUp, Live
  <2>3. Promise!End BY <1>2, <2>1, <2>2 DEF Promise!End, Live
  <2>4. QED BY <2>3 DEF Promise!Next
<1>9. CASE Watch \/ Collect \/ \E who \in Cancellers : CancelStep(who)
  <2>1. UNCHANGED <<ctxDone, pc, alive, zombie, deaf>>
    BY <1>9 DEF Watch, Collect, CancelStep, Getpgid, Terminate, PollGone, Escalate, taskVars,
       processVars
  <2>2. QED BY <1>2, <2>1, SameStutters DEF Same, Cancelled, Ended
<1>10. CASE Reap
  <2>1. /\ UNCHANGED <<ctxDone, pc, alive, deaf>> /\ Leader(cmd) \in zombie
        /\ zombie' = zombie \ {Leader(cmd)}
    BY <1>10 DEF Reap, taskVars
  <2>2. \A c \in Commands : LeaderUp(c) => Leader(c) = Leader(cmd) BY DEF OneLeader
  <2>3. Live' = {} BY <2>1, <2>2 DEF LeaderUp, OneLeader, Live
  <2>4. CASE Live = {} BY <2>1, <2>3, <2>4, SameStutters DEF Same, Cancelled, Ended
  <2>5. CASE Live # {}
    <3>1. Promise!Reap BY <2>1, <2>3, <2>5 DEF Promise!Reap, Live
    <3>2. QED BY <3>1 DEF Promise!Next
  <2>6. QED BY <2>4, <2>5
<1>11. CASE Fork
  <2>1. /\ UNCHANGED <<ctxDone, pc, zombie>> /\ cmd \in Commands
        /\ alive' = alive \cup {Child(cmd)}
        /\ deaf' \in {deaf, deaf \cup (Ignores \cap {Child(cmd)})}
    BY <1>11, CommandAssumption DEF Fork, taskVars
  <2>2. \A c \in Commands : /\ (Leader(c) \in alive') <=> (Leader(c) \in alive)
                            /\ (Leader(c) \in deaf') <=> (Leader(c) \in deaf)
    BY <2>1, LeadersDiffer
  <2>3. Live' = Live BY <2>1, <2>2 DEF Live
  <2>4. QED BY <2>1, <2>3, SameStutters DEF Same, Cancelled, Ended
<1>12. CASE \E c \in Commands : \E p \in Group(c) : Exit(c, p) \/ SignalStep(c, p)
  <2>1. PICK c \in Commands : \E p \in Group(c) : Dies(p)
    BY <1>12 DEF Exit, SignalStep, Obey, Killed
  <2>2. UNCHANGED <<ctxDone, pc, cmd, deaf>> BY <2>1 DEF Dies, taskVars
  <2>3. \A d \in Commands : LeaderUp(d)' <=> LeaderUp(d)
    <3>1. ASSUME NEW d \in Commands PROVE LeaderUp(d) => LeaderUp(d)'
      BY <2>1, <3>1 DEF Dies, LeaderUp, OneLeader
    <3>2. ASSUME NEW d \in Commands PROVE LeaderUp(d)' => LeaderUp(d)
      BY <2>1, <3>2 DEF Dies, LeaderUp
    <3>3. QED BY <3>1, <3>2
  <2>4. Live' = Live BY <2>2, <2>3 DEF Live, LeaderUp
  <2>5. QED BY <2>2, <2>4, SameStutters DEF Same, Cancelled, Ended
<1>13. QED
  BY <1>1, <1>3, <1>4, <1>5, <1>6, <1>7, <1>8, <1>9, <1>10, <1>11, <1>12 DEF Next, StartStep

-----------------------------------------------------------------------------
(* What a successful task has run.                                         *)
LEMMA SuccessKept == RunInv /\ SuccessInv /\ [Next]_vars => SuccessInv'
<1> SUFFICES ASSUME RunInv, SuccessInv, [Next]_vars PROVE SuccessInv' OBVIOUS
<1> USE DEF SuccessInv
<1>1. succeeded \subseteq succeeded'
  BY DEF Next, vars, processVars, StopGracefully, StartStep, Begin, Launch, Received, CtxDone,
     CancelReturns, AllDone, Close, LaunchFails, Watch, CancelStep, Getpgid, Terminate, PollGone,
     Escalate, Reap, Collect, Fork, Exit, SignalStep, Obey, Killed
<1>2. ASSUME UNCHANGED <<pc, cmd, errored, wait, failed>>, ctxDone => ctxDone'
      PROVE  SuccessInv'
  BY <1>1, <1>2
<1>3. ctxDone => ctxDone'
  BY DEF Next, vars, taskVars, StopGracefully, StartStep, Begin, Launch, Received, CtxDone,
     CancelReturns, AllDone, Close, LaunchFails, Watch, CancelStep, Getpgid, Terminate, PollGone,
     Escalate, Reap, Collect, Fork, Exit, SignalStep, Obey, Killed, Dies
<1>4. CASE UNCHANGED vars BY <1>2, <1>4 DEF vars, taskVars, runVars
<1>5. CASE StopGracefully BY <1>2, <1>3, <1>5 DEF StopGracefully, runVars
<1>6. CASE Begin
  <2>1. UNCHANGED <<wait, failed>> /\ pc = "next" BY <1>6 DEF Begin, runVars
  <2>2. CASE ctxDone
    <3>1. pc' = "finish" /\ errored' = TRUE /\ cmd' = cmd /\ ctxDone'
      BY <1>3, <1>6, <2>2 DEF Begin, Finish
    <3>2. QED BY <1>1, <2>1, <3>1
  <2>3. CASE ~ctxDone
    <3>1. pc' = "launch" /\ cmd' = cmd + 1 BY <1>6, <2>3 DEF Begin
    <3>2. wait' = "none" BY <2>1, <2>3 DEF RunInv, Between
    <3>3. ASSUME NEW c \in Commands, c < cmd' PROVE c \in succeeded
      <4>1. cmd \in Nat /\ c \in Nat /\ c # 0
        BY CommandAssumption DEF RunInv, RunTypes, Commands
      <4>2. c < cmd \/ (c = cmd /\ cmd # 0) BY <3>1, <3>3, <4>1
      <4>3. QED BY <2>1, <2>3, <4>2
    <3>4. QED BY <1>1, <3>1, <3>2, <3>3
  <2>4. QED BY <2>2, <2>3
<1>7. CASE Launch
  BY <1>1, <1>7 DEF Launch
<1>8. CASE LaunchFails
  BY <1>1, <1>8 DEF LaunchFails, Finish, runVars
<1>9. CASE Received
  <2>1. UNCHANGED <<cmd, failed>> /\ wait = "send" /\ wait' = "none"
    BY <1>9 DEF Received
  <2>2. CASE failed
    BY <1>1, <1>9, <2>1, <2>2 DEF Received, Finish
  <2>3. CASE ~failed
    <3>1. pc' = "next" /\ cmd \in succeeded BY <1>9, <2>1, <2>3 DEF Received
    <3>2. QED BY <1>1, <2>1, <3>1
  <2>4. QED BY <2>2, <2>3
<1>10. CASE CtxDone BY <1>1, <1>10 DEF CtxDone
<1>11. CASE CancelReturns
  <2>1. UNCHANGED <<cmd, wait, failed, ctxDone>> /\ ctxDone
    BY <1>11 DEF CancelReturns, runVars, RunInv, Between
  <2>2. pc' = "next" \/ (pc' = "finish" /\ errored' = TRUE)
    BY <1>11 DEF CancelReturns, Finish
  <2>3. QED BY <1>1, <2>1, <2>2
<1>12. CASE AllDone
  BY <1>1, <1>12 DEF AllDone, Finish, runVars
<1>13. CASE Close
  BY <1>1, <1>13 DEF Close, runVars
<1>14. CASE Watch \/ \E who \in Cancellers : CancelStep(who)
  <2>1. UNCHANGED <<pc, cmd, errored, wait, failed>>
    BY <1>14 DEF Watch, CancelStep, Getpgid, Terminate, PollGone, Escalate, taskVars
  <2>2. QED BY <1>2, <1>3, <2>1
<1>15. CASE Reap
  <2>1. UNCHANGED taskVars /\ wait' = "watcher" /\ failed' = (cmd \notin succeeded)
    BY <1>15 DEF Reap
  <2>2. QED BY <1>1, <2>1 DEF taskVars
<1>16. CASE Collect
  <2>1. UNCHANGED taskVars /\ wait = "watcher" /\ wait' = "send" /\ (~failed' => ~failed)
    BY <1>16 DEF Collect
  <2>2. QED BY <1>1, <2>1 DEF taskVars
<1>17. CASE Fork \/ \E c \in Commands : \E p \in Group(c) : Exit(c, p) \/ SignalStep(c, p)
  <2>1. UNCHANGED <<pc, cmd, errored, wait, failed>>
    BY <1>17 DEF Fork, Exit, SignalStep, Obey, Killed, Dies, taskVars, runVars
  <2>2. QED BY <1>2, <1>3, <2>1
<1>18. QED
  BY <1>4, <1>5, <1>6, <1>7, <1>8, <1>9, <1>10, <1>11, <1>12, <1>13, <1>14, <1>15, <1>16,
     <1>17 DEF Next, StartStep

-----------------------------------------------------------------------------
(* Run and os/exec cancel the same group while it is reaped, and leave     *)
(* nothing for the next command to trip over.                              *)
THEOREM RunInvHolds == Spec => [](RunInv /\ SuccessInv)
<1>1. QED BY InitRun, RunKept, SuccessKept, PTL DEF Spec

(* The loop of Start over CommandWrapper.Run implements TaskProcess: one   *)
(* command at a time, none begun after the cancellation, none left that    *)
(* obeys SIGTERM once done is closed.                                      *)
THEOREM ImplementsPromise == Spec => TaskPromise
<1>1. Init => Promise!Init
  BY DEF Init, Promise!Init
<1>2. QED BY <1>1, Refines, RunInvHolds, PTL DEF Spec, TaskPromise, Promise!Spec

(* onTaskFinished is told of no error only when every command was run and  *)
(* all but the last ended well.                                            *)
THEOREM SuccessIsReal == Spec => []SuccessMeansAllRan
<1>1. RunInv /\ SuccessInv => SuccessMeansAllRan
  <2> SUFFICES ASSUME RunInv, SuccessInv, pc = "done", ~errored
               PROVE  cmd = Last /\ 1..(Last - 1) \subseteq succeeded
    BY DEF SuccessMeansAllRan
  <2>1. cmd = Last BY DEF SuccessInv
  <2>2. \A c \in 1..(Last - 1) : c \in Commands /\ c < cmd
    BY <2>1, CommandAssumption DEF Commands
  <2>3. QED BY <2>1, <2>2 DEF SuccessInv
<1>2. QED BY <1>1, RunInvHolds, PTL
=============================================================================
