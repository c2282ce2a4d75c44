----------------------------- MODULE RunnerStop -----------------------------
(***************************************************************************)
(* Runner.Stop (src/runner.go:212) walking the list of running tasks while *)
(* the goroutines of Runner go on changing it: main.go calls Stop when a   *)
(* signal or a shutdown request arrives, and the process ends when Stop    *)
(* returns (main.go:98-101).                                               *)
(*                                                                         *)
(* stopRunningTasks takes no lock.  Each of its two loops evaluates the    *)
(* slice header once and reads the elements of the array behind it, which  *)
(* RemoveRunningTask shifts in place and onTaskStart appends to.           *)
(***************************************************************************)
EXTENDS Runner

CONSTANT Settled  (* the request comes when every goroutine is at rest      *)

ASSUME StopAssumption == Settled \in BOOLEAN

VARIABLES
  stopping,  (* "off", "signal", "wait", "stopped": where Stop is           *)
  slots,     (* the array elements its current loop ranges over             *)
  shared,    (* that array is still the one of RunningTasks                 *)
  at,        (* index of the loop                                           *)
  waitingFor (* the instance whose Wait it is in, or NoInstance             *)

stopVars == <<stopping, slots, shared, at, waitingFor>>
allVars == <<vars, stopVars>>

StopInit ==
  /\ Init
  /\ stopping = "off" /\ slots = << >> /\ shared = TRUE
  /\ at = 1 /\ waitingFor = NoInstance

(* The array changes under the loop with the list: a removal moves the     *)
(* later elements one slot down, an append writes the slot behind the last *)
(* element.  An append beyond the range of the loop may move the list to a *)
(* larger array; the loop then goes on reading the old one.                *)
SlotsFollow ==
  LET removal == Len(running') < Len(running)
      append == Len(running') > Len(running)
      After(k) ==
        CASE removal /\ shift <= k /\ k < Len(running) ->
               IF k \in 1 .. Len(slots) - 1 THEN slots[k + 1] ELSE running[k + 1]
          [] append /\ k = Len(running') -> running'[k]
          [] OTHER -> slots[k]
  IN /\ slots' = IF shared THEN [k \in DOMAIN slots |-> After(k)] ELSE slots
     /\ IF append /\ Len(running') > Len(slots) /\ stopping # "off"
        THEN shared' \in {shared, FALSE}
        ELSE UNCHANGED shared

(* The runner goes on.  The watcher is closed by Stop: no new changes, but *)
(* the debounce timers that are already running still fire.                *)
Run ==
  /\ stopping # "stopped"
  /\ Next
  /\ stopping # "off" => UNCHANGED changes
  /\ SlotsFollow
  /\ UNCHANGED <<stopping, at, waitingFor>>

AtRest == \A a \in Actors : pc[a] \in {"none", "idle", "run", "done"}

(* Stop begins: the first loop ranges over the list as it is now.          *)
Shutdown ==
  /\ stopping = "off" /\ ~Once
  /\ Settled => AtRest /\ queue = {}
  /\ stopping' = "signal" /\ slots' = running /\ shared' = TRUE /\ at' = 1
  /\ UNCHANGED <<vars, waitingFor>>

(* RunningTask.StopGracefully for the next element.                        *)
SignalNext ==
  /\ stopping = "signal" /\ at <= Len(slots)
  /\ cancelled' = cancelled \cup {slots[at]}
  /\ at' = at + 1
  /\ UNCHANGED <<queue, running, shift, exported, synced, stale, events, changes,
                 launched, completed, pc, locals, stopping, slots,
                 shared, waitingFor>>

(* The second loop ranges over the list as it has become.                  *)
AllSignalled ==
  /\ stopping = "signal" /\ at > Len(slots)
  /\ stopping' = "wait" /\ slots' = running /\ shared' = TRUE /\ at' = 1
  /\ UNCHANGED <<vars, waitingFor>>

(* The loop reads the next element and blocks in its Wait.                 *)
WaitNext ==
  /\ stopping = "wait" /\ waitingFor = NoInstance /\ at <= Len(slots)
  /\ waitingFor' = slots[at] /\ at' = at + 1
  /\ UNCHANGED <<vars, stopping, slots, shared>>

Waited ==
  /\ waitingFor # NoInstance /\ pc[waitingFor] = "done"
  /\ waitingFor' = NoInstance
  /\ UNCHANGED <<vars, stopping, slots, shared, at>>

AllWaited ==
  /\ stopping = "wait" /\ waitingFor = NoInstance /\ at > Len(slots)
  /\ stopping' = "stopped"
  /\ UNCHANGED <<vars, slots, shared, at, waitingFor>>

Stop == Shutdown \/ SignalNext \/ AllSignalled \/ WaitNext \/ Waited \/ AllWaited

StopNext == Run \/ Stop

StopSpec == StopInit /\ [][StopNext]_allVars

-----------------------------------------------------------------------------
(* The loop variables of Stop have the types of the code.                  *)
StopTypeOK ==
  /\ TypeOK
  /\ stopping \in {"off", "signal", "wait", "stopped"}
  /\ slots \in Seq(Instances) /\ shared \in BOOLEAN /\ at \in 1 .. Len(slots) + 1
  /\ waitingFor \in Instances \cup {NoInstance}

(***************************************************************************)
(* When Stop has returned, and asynk exits, no process it started runs on: *)
(* "This ensures processes are fully reaped before we return".             *)
(***************************************************************************)
StoppedMeansStopped ==
  stopping = "stopped" => \A i \in Instances : pc[i] # "run"

(* Stop returns: it never waits for an instance that nobody stops.         *)
StopReturns == stopping = "signal" ~> stopping = "stopped"
=============================================================================
