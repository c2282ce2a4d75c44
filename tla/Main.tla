-------------------------------- MODULE Main --------------------------------
(***************************************************************************)
(* main of src/main.go in watch mode: how a signal or a shutdown request   *)
(* reaches Runner.Stop, from the wait for the instance lock to the end of  *)
(* the process.                                                            *)
(*                                                                         *)
(* signalContextForMode is called twice, 1 for the wait for the lock and 2 *)
(* for the run.  Each call makes a channel of one signal and a goroutine   *)
(* that cancels a context; while neither channel is registered, a signal   *)
(* ends the process.  Tasks and Stop are those of RunnerStop.              *)
(***************************************************************************)
EXTENDS RunnerStop

CONSTANTS
  Prompt,      (* the goroutine that has received a signal cancels before   *)
               (* main looks at the context                                 *)
  MaxSignals   (* bound: signals                                            *)

Channels == {1, 2}

ASSUME MainAssumption == Prompt \in BOOLEAN /\ MaxSignals \in Nat

VARIABLES
  main,      (* where main is                                               *)
  notified,  (* the channel that is registered for signals, or 0            *)
  pending,   (* the channels with a signal in them                          *)
  listener,  (* channel -> where its goroutine is                           *)
  closed,    (* channels whose stopped is closed                            *)
  ctxDone,   (* channels whose context is done: acquireCtx, runSignalCtx    *)
  watchDone, (* watchCtx is done                                            *)
  begun,     (* the goroutine of Runner.Start was started                   *)
  arrived,   (* signals so far                                              *)
  early      (* one of them was caught while main waited for the lock       *)

signalVars == <<notified, pending, listener, closed, ctxDone, arrived, early>>
mainVars == <<main, watchDone, begun, signalVars>>

MainInit ==
  /\ StopInit
  /\ main = "acquire" /\ notified = 1
  /\ pending = {} /\ closed = {} /\ ctxDone = {}
  /\ listener = [c \in Channels |-> IF c = 1 THEN "select" ELSE "none"]
  /\ watchDone = FALSE /\ begun = FALSE
  /\ arrived = 0 /\ early = FALSE

Alive == main \notin {"exited", "killed"}

-----------------------------------------------------------------------------
(* Signals *)

(* A channel that is full drops the signal; without one the process ends.  *)
Signal ==
  /\ Alive /\ arrived < MaxSignals /\ arrived' = arrived + 1
  /\ early' = (early \/ notified = 1)
  /\ IF notified = 0
     THEN main' = "killed" /\ UNCHANGED pending
     ELSE pending' = pending \cup {notified} /\ UNCHANGED main
  /\ UNCHANGED <<allVars, watchDone, begun, notified, listener, closed, ctxDone>>

Receive(c) ==
  /\ Alive /\ listener[c] = "select" /\ c \in pending
  /\ pending' = pending \ {c}
  /\ listener' = [listener EXCEPT ![c] = "received"]
  /\ UNCHANGED <<allVars, main, watchDone, begun, notified, closed, ctxDone, arrived, early>>

CancelContext(c) ==
  /\ Alive /\ listener[c] = "received"
  /\ listener' = [listener EXCEPT ![c] = "done"]
  /\ ctxDone' = ctxDone \cup {c}
  /\ UNCHANGED <<allVars, main, watchDone, begun, notified, pending, closed, arrived, early>>

Dismiss(c) ==
  /\ Alive /\ listener[c] = "select" /\ c \in closed
  /\ listener' = [listener EXCEPT ![c] = "done"]
  /\ UNCHANGED <<allVars, main, watchDone, begun, notified, pending, closed, ctxDone,
                 arrived, early>>

(* The monitor of the guard has found a request of a new process.          *)
ShutdownRequest ==
  /\ Alive /\ main \notin {"acquire", "monitor"} /\ ~watchDone
  /\ watchDone' = TRUE
  /\ UNCHANGED <<allVars, main, begun, signalVars>>

(* cancelWhenDone                                                          *)
Relay ==
  /\ Alive /\ 2 \in ctxDone /\ ~watchDone
  /\ watchDone' = TRUE
  /\ UNCHANGED <<allVars, main, begun, signalVars>>

-----------------------------------------------------------------------------
(* The goroutine of main *)

Go(from, to) == main = from /\ main' = to

Acquire ==
  /\ Go("acquire", "monitor")
  /\ UNCHANGED <<allVars, watchDone, begun, signalVars>>

(* The context is done, another process owns the lock, or a call failed.   *)
FailToAcquire ==
  /\ Go("acquire", "exited")
  /\ UNCHANGED <<allVars, watchDone, begun, signalVars>>

StartMonitor ==
  /\ Go("monitor", "unregister")
  /\ UNCHANGED <<allVars, watchDone, begun, signalVars>>

(* stopAcquireSignals: signal.Stop, a last look at the channel, close.     *)
Unregister ==
  /\ Go("unregister", "drain") /\ notified' = 0
  /\ UNCHANGED <<allVars, watchDone, begun, pending, listener, closed, ctxDone, arrived, early>>

(* A mutant: the channel is not looked at again.                           *)
DrainNothing ==
  /\ Go("drain", "close")
  /\ UNCHANGED <<allVars, watchDone, begun, signalVars>>

Drain ==
  /\ Go("drain", "close")
  /\ pending' = pending \ {1}
  /\ ctxDone' = ctxDone \cup (pending \cap {1})
  /\ UNCHANGED <<allVars, watchDone, begun, notified, listener, closed, arrived, early>>

Close ==
  /\ Go("close", "check") /\ closed' = closed \cup {1}
  /\ UNCHANGED <<allVars, watchDone, begun, notified, pending, listener, ctxDone, arrived, early>>

CheckAcquireContext ==
  /\ Go("check", "register")
  /\ Prompt => listener[1] # "received"
  /\ watchDone' = (watchDone \/ 1 \in ctxDone)
  /\ UNCHANGED <<allVars, begun, signalVars>>

Register2 ==
  /\ Go("register", "start") /\ notified' = 2
  /\ listener' = [listener EXCEPT ![2] = "select"]
  /\ UNCHANGED <<allVars, watchDone, begun, pending, closed, ctxDone, arrived, early>>

StartRunner ==
  /\ Go("start", "wait") /\ begun' = ~watchDone
  /\ UNCHANGED <<allVars, watchDone, signalVars>>

(* A mutant: main waits for the context of the signals.                    *)
BeginStopOnSignal ==
  /\ Go("wait", "stop") /\ 2 \in ctxDone
  /\ Shutdown
  /\ UNCHANGED <<watchDone, begun, signalVars>>

BeginStop ==
  /\ Go("wait", "stop") /\ watchDone
  /\ Shutdown
  /\ UNCHANGED <<watchDone, begun, signalVars>>

(* Stop has returned; the deferred calls release the lock.                 *)
Finish ==
  /\ Go("stop", "exited") /\ stopping = "stopped"
  /\ UNCHANGED <<allVars, watchDone, begun, signalVars>>

MainStep ==
  \/ Acquire \/ FailToAcquire \/ StartMonitor \/ Unregister \/ Drain \/ Close
  \/ CheckAcquireContext \/ Register2 \/ StartRunner \/ BeginStop \/ Finish

-----------------------------------------------------------------------------
(* The goroutines of the runner run from StartRunner to the end of main.   *)
RunnerStep == Alive /\ begun /\ Run /\ UNCHANGED mainVars

StopStep ==
  /\ main = "stop"
  /\ SignalNext \/ AllSignalled \/ WaitNext \/ Waited \/ AllWaited
  /\ UNCHANGED mainVars

MainNext ==
  \/ Signal \/ ShutdownRequest \/ Relay
  \/ \E c \in Channels : Receive(c) \/ CancelContext(c) \/ Dismiss(c)
  \/ MainStep \/ RunnerStep \/ StopStep

everything == <<allVars, mainVars>>

MainSpec == MainInit /\ [][MainNext]_everything

(* All goroutines are scheduled; Acquire ends (InstanceGuard); signals and *)
(* shutdown requests need not come.                                        *)
FairMainSpec ==
  /\ MainSpec
  /\ WF_everything(MainStep) /\ WF_everything(StopStep) /\ WF_everything(Relay)
  /\ WF_everything(RunnerStep /\ UNCHANGED changes)
  /\ \A c \in Channels :
       WF_everything(Receive(c) \/ CancelContext(c) \/ Dismiss(c))

-----------------------------------------------------------------------------
(* The variables of main have the types of the code.                       *)
MainTypeOK ==
  /\ StopTypeOK
  /\ main \in {"acquire", "monitor", "unregister", "drain", "close", "check",
               "register", "start", "wait", "stop", "exited", "killed"}
  /\ notified \in {0} \cup Channels
  /\ \A s \in {pending, closed, ctxDone} : s \subseteq Channels
  /\ listener \in [Channels -> {"none", "select", "received", "done"}]
  /\ {watchDone, begun, early} \subseteq BOOLEAN /\ arrived \in 0 .. MaxSignals

(***************************************************************************)
(* A signal ends the program, whenever it comes: while main waits for the  *)
(* lock, while it changes from one channel to the other, during the run or *)
(* when it is stopping already.                                            *)
(***************************************************************************)
SignalStops == arrived > 0 ~> ~Alive

(***************************************************************************)
(* main.go:88: who interrupts asynk while it waits for the lock does not   *)
(* see any task started, even when the lock is acquired at the same time.  *)
(***************************************************************************)
EarlySignalStartsNothing == early => \A t \in Tasks : launched[t] = 0
=============================================================================
