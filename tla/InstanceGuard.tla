--------------------------- MODULE InstanceGuard ---------------------------
(***************************************************************************)
(* The instance guard (src/instance/guard.go): asynk processes started for *)
(* the same configuration directory agree through one lock directory.  A   *)
(* process makes the directory, then writes owner.json into it; another    *)
(* one reads the owner, probes whether it lives, and is refused, removes   *)
(* the stale lock, or asks the owner through shutdown.json to stop.        *)
(*                                                                         *)
(* Every system call is a step of its own.  RemoveAll takes two: it        *)
(* unlinks the files, then the directory, which fails when a file has been *)
(* written into it meanwhile.  os.WriteFile of owner.json takes two: it    *)
(* opens an empty file, then writes to it, even if it has been unlinked.   *)
(* A member of Procs is one process: a pid with its start time.            *)
(***************************************************************************)
EXTENDS Integers, FiniteSets

CONSTANTS
  Procs,   (* asynk processes, each started at most once                    *)
  Policy,  (* "block" or "replace"; with "allow" there is no guard          *)
  Exits,   (* processes that the user stops, or interrupts while they wait  *)
  Faults,  (* "crash": processes are killed; "slow": a process takes longer *)
           (* than ownerCreateTimeout to write its owner or to remove the   *)
           (* directory; "disk": writing the owner fails; "coarse": a file's  *)
           (* time is the last tick of the kernel's clock, before now()     *)
  missing, (* no owner.json                                                 *)
  empty,   (* owner.json is opened but not written: malformed               *)
  none     (* no shutdown.json                                              *)

ASSUME GuardAssumption ==
  /\ Policy \in {"block", "replace"} /\ Exits \subseteq Procs
  /\ Faults \subseteq {"crash", "slow", "disk", "coarse"}
  /\ missing # empty /\ {missing, empty, none} \cap Procs = {}

VARIABLES
  dir,      (* the lock directory exists                                    *)
  owner,    (* content of owner.json                                        *)
  request,  (* the token in shutdown.json                                   *)
  writers,  (* processes with the present owner.json open for writing       *)
  ignored,  (* processes whose shutdownModTime covers the present request   *)
  pc,       (* process -> the call it makes next                            *)
  saw,      (* process -> the owner data it goes by; itself in its Release  *)
  busy      (* process -> who was at work in the directory when it began    *)
            (* to wait for an owner                                         *)

vars == <<dir, owner, request, writers, ignored, pc, saw, busy>>

Goto(p, l) == pc' = [pc EXCEPT ![p] = l]

Gone == {"ended", "refused", "crashed"}
Alive(p) == pc[p] \notin Gone \cup {"off"}
Creating(p) == pc[p] \in {"open", "write"}
AtWork(p) == Creating(p) \/ pc[p] \in {"clear", "rmdir"}
(* Acquire has returned the guard and main has not released it.            *)
Owning(p) == pc[p] \in {"own", "run", "stop"}

-----------------------------------------------------------------------------
Init ==
  /\ dir = FALSE /\ owner = missing /\ request = none
  /\ writers = {} /\ ignored = {}
  /\ pc = [p \in Procs |-> "off"]
  /\ saw = [p \in Procs |-> missing]
  /\ busy = [p \in Procs |-> {}]

Start(p) ==
  /\ pc[p] = "off" /\ Goto(p, "create")
  /\ UNCHANGED <<dir, owner, request, writers, ignored, saw, busy>>

(* A mutant: MkdirAll, which succeeds when the directory exists.           *)
TryCreateAll(p) ==
  /\ pc[p] = "create"
  /\ dir' = TRUE
  /\ Goto(p, "open")
  /\ UNCHANGED <<owner, request, writers, ignored, saw, busy>>

(* tryCreate: Mkdir succeeds for one process only.                         *)
TryCreate(p) ==
  /\ pc[p] = "create"
  /\ dir' = TRUE
  /\ Goto(p, IF dir THEN "read" ELSE "open")
  /\ UNCHANGED <<owner, request, writers, ignored, saw, busy>>

OpenOwner(p) ==
  /\ pc[p] = "open" /\ dir
  /\ owner' = empty /\ writers' = writers \cup {p}
  /\ Goto(p, "write")
  /\ UNCHANGED <<dir, request, ignored, saw, busy>>

(* What is written to an unlinked file is lost, without an error.          *)
WriteOwner(p) ==
  /\ pc[p] = "write"
  /\ owner' = IF p \in writers THEN p ELSE owner
  /\ writers' = writers \ {p}
  /\ Goto(p, "own")
  /\ UNCHANGED <<dir, request, ignored, saw, busy>>

(* The directory is gone or the disk is full: RemoveAll, then an error.    *)
FailToWrite(p) ==
  /\ \/ pc[p] = "open" /\ ~dir
     \/ Creating(p) /\ "disk" \in Faults
  /\ saw' = [saw EXCEPT ![p] = p]
  /\ writers' = writers \ {p}
  /\ Goto(p, "clear")
  /\ UNCHANGED <<dir, owner, request, ignored, busy>>

(* readOwnerData after Mkdir failed.                                       *)
ReadOwner(p) ==
  /\ pc[p] = "read"
  /\ IF owner \in Procs
     THEN /\ saw' = [saw EXCEPT ![p] = owner] /\ Goto(p, "probe")
          /\ UNCHANGED busy
     ELSE /\ busy' = [busy EXCEPT ![p] = {q \in Procs : AtWork(q)}]
          /\ Goto(p, "wait") /\ UNCHANGED saw
  /\ UNCHANGED <<dir, owner, request, writers, ignored>>

(* A mutant: a missing owner is waited for without a timeout.              *)
MalformedTimeout(p) ==
  /\ pc[p] = "wait" /\ owner = empty
  /\ "slow" \in Faults \/ \A q \in busy[p] : ~AtWork(q)
  /\ saw' = [saw EXCEPT ![p] = owner]
  /\ busy' = [busy EXCEPT ![p] = {}]
  /\ Goto(p, "compare")
  /\ UNCHANGED <<dir, owner, request, writers, ignored>>

(* waitForOwnerData polls the path, whether the directory is still there   *)
(* or not, and gives up after ownerCreateTimeout.                          *)
OwnerAppears(p) ==
  /\ pc[p] = "wait" /\ owner \in Procs
  /\ busy' = [busy EXCEPT ![p] = {}]
  /\ Goto(p, "create")
  /\ UNCHANGED <<dir, owner, request, writers, ignored, saw>>

OwnerTimeout(p) ==
  /\ pc[p] = "wait" /\ owner \notin Procs
  /\ "slow" \in Faults \/ \A q \in busy[p] : ~AtWork(q)
  /\ saw' = [saw EXCEPT ![p] = owner]
  /\ busy' = [busy EXCEPT ![p] = {}]
  /\ Goto(p, "compare")
  /\ UNCHANGED <<dir, owner, request, writers, ignored>>

(* ProcessProbe.Status: dead or stale, or the process that wrote the owner.*)
Probe(p) ==
  /\ pc[p] = "probe"
  /\ Goto(p, IF ~Alive(saw[p]) THEN "compare"
             ELSE IF Policy = "block" THEN "refused" ELSE "ask")
  /\ UNCHANGED <<dir, owner, request, writers, ignored, saw, busy>>

(* A mutant: a missing owner.json always counts as a change.               *)
UnchangedOwner(p) == owner = saw[p] /\ owner # missing

(* removeStaleLockIfUnchanged reads the owner again.  A missing file was   *)
(* read as nil, which as a string equals the content of an empty file.     *)
Unchanged(p) == owner = saw[p] \/ (saw[p] = missing /\ owner = empty)

CompareOwner(p) ==
  /\ pc[p] = "compare"
  /\ Goto(p, IF Unchanged(p) THEN "clear" ELSE "create")
  /\ UNCHANGED <<dir, owner, request, writers, ignored, saw, busy>>

(* RemoveAll of the lock directory: the files, then the directory.         *)
RemoveFiles(p) ==
  /\ pc[p] = "clear"
  /\ owner' = missing /\ request' = none /\ writers' = {}
  /\ Goto(p, "rmdir")
  /\ UNCHANGED <<dir, ignored, saw, busy>>

RemoveDir(p) ==
  LET removed == owner = missing /\ request = none IN
  /\ pc[p] = "rmdir"
  /\ dir' = (dir /\ ~removed)
  /\ Goto(p, IF removed /\ saw[p] # p THEN "create" ELSE "ended")
  /\ UNCHANGED <<owner, request, writers, ignored, saw, busy>>

(* requestShutdown writes to the path in the lock directory, whoever has   *)
(* the directory by then.                                                  *)
RequestShutdown(p) ==
  /\ pc[p] = "ask"
  /\ IF dir THEN request' = saw[p] /\ ignored' = {} /\ Goto(p, "await")
            ELSE Goto(p, "create") /\ UNCHANGED <<request, ignored>>
  /\ UNCHANGED <<dir, owner, writers, saw, busy>>

(* waitForReleaseOrOwnerChange, then another round of Acquire.             *)
OwnerGone(p) ==
  /\ pc[p] = "await"
  /\ ~dir \/ owner \in Procs \ {saw[p]}
  /\ Goto(p, "create")
  /\ UNCHANGED <<dir, owner, request, writers, ignored, saw, busy>>

(* A mutant: after the timeout the lock is taken by force.                 *)
ReplaceTimeoutForces(p) ==
  /\ pc[p] = "await" /\ dir /\ owner \notin Procs \ {saw[p]}
  /\ Goto(p, "compare")
  /\ UNCHANGED <<dir, owner, request, writers, ignored, saw, busy>>

ReplaceTimeout(p) ==
  /\ pc[p] = "await" /\ dir /\ owner \notin Procs \ {saw[p]}
  /\ Goto(p, "refused")
  /\ UNCHANGED <<dir, owner, request, writers, ignored, saw, busy>>

(* The context is cancelled while Acquire loops or waits.                  *)
Interrupt(p) ==
  /\ p \in Exits /\ pc[p] \in {"create", "wait", "ask", "await"}
  /\ Goto(p, "ended")
  /\ busy' = [busy EXCEPT ![p] = {}]
  /\ UNCHANGED <<dir, owner, request, writers, ignored, saw>>

(* A mutant: every request that is there already is taken as seen.         *)
StartMonitorLate(p) ==
  /\ pc[p] = "own"
  /\ ignored' = IF request # none THEN ignored \cup {p} ELSE ignored
  /\ Goto(p, "run")
  /\ UNCHANGED <<dir, owner, request, writers, saw, busy>>

(* StartShutdownMonitor takes a request that is there already as seen when *)
(* its file is older than acquiredAt.  The file cannot be older unless its *)
(* time is coarse.                                                         *)
StartMonitor(p) ==
  /\ pc[p] = "own"
  /\ \/ UNCHANGED ignored
     \/ "coarse" \in Faults /\ request # none /\ ignored' = ignored \cup {p}
  /\ Goto(p, "run")
  /\ UNCHANGED <<dir, owner, request, writers, saw, busy>>

(* shutdownRequested: the monitor cancels main's context.                  *)
ShutdownRequested(p) ==
  /\ pc[p] = "run" /\ request = p /\ p \notin ignored
  /\ Goto(p, "stop")
  /\ UNCHANGED <<dir, owner, request, writers, ignored, saw, busy>>

UserStops(p) ==
  /\ p \in Exits /\ pc[p] = "run"
  /\ Goto(p, "stop")
  /\ UNCHANGED <<dir, owner, request, writers, ignored, saw, busy>>

(* Release, after Runner.Stop: remove the lock if it is still its own.     *)
Release(p) ==
  /\ pc[p] = "stop"
  /\ IF owner = p
     THEN saw' = [saw EXCEPT ![p] = p] /\ Goto(p, "clear")
     ELSE Goto(p, "ended") /\ UNCHANGED saw
  /\ UNCHANGED <<dir, owner, request, writers, ignored, busy>>

Crash(p) ==
  /\ "crash" \in Faults /\ Alive(p)
  /\ writers' = writers \ {p}
  /\ busy' = [busy EXCEPT ![p] = {}]
  /\ Goto(p, "crashed")
  /\ UNCHANGED <<dir, owner, request, ignored, saw>>

-----------------------------------------------------------------------------
Step(p) ==
  \/ TryCreate(p) \/ OpenOwner(p) \/ WriteOwner(p) \/ FailToWrite(p)
  \/ ReadOwner(p) \/ OwnerAppears(p) \/ OwnerTimeout(p) \/ Probe(p)
  \/ CompareOwner(p) \/ RemoveFiles(p) \/ RemoveDir(p)
  \/ RequestShutdown(p) \/ OwnerGone(p) \/ ReplaceTimeout(p)
  \/ StartMonitor(p) \/ ShutdownRequested(p) \/ Release(p)

Next == \E p \in Procs :
  Start(p) \/ Step(p) \/ Interrupt(p) \/ UserStops(p) \/ Crash(p)

Spec == Init /\ [][Next]_vars

(* A live process goes on: the polls and timeouts are timers, and Stop     *)
(* returns.  When it is started, stopped or killed is up to the user.      *)
FairSpec == Spec /\ \A p \in Procs : WF_vars(Step(p))

-----------------------------------------------------------------------------
Labels == {"off", "create", "open", "write", "read", "wait", "probe", "compare",
           "clear", "rmdir", "ask", "await", "own", "run", "stop"} \cup Gone

(* The lock directory and the processes' locals have the types of the code;*)
(* without the directory there are no files in it.                         *)
TypeOK ==
  /\ dir \in BOOLEAN
  /\ owner \in Procs \cup {missing, empty} /\ request \in Procs \cup {none}
  /\ ~dir => owner = missing /\ request = none
  /\ writers \subseteq Procs /\ ignored \subseteq Procs
  /\ pc \in [Procs -> Labels]
  /\ saw \in [Procs -> Procs \cup {missing, empty}]
  /\ busy \in [Procs -> SUBSET Procs]

(***************************************************************************)
(* One configuration directory has one running asynk (README.md:143): no   *)
(* two processes hold the guard at a time.                                 *)
(***************************************************************************)
MutualExclusion == \A p, q \in Procs : Owning(p) /\ Owning(q) => p = q

(***************************************************************************)
(* The lock of a running process stays what it wrote: nobody removes the   *)
(* directory or writes another owner into it, so that it can still be      *)
(* found, refused to others and asked to stop.                             *)
(***************************************************************************)
LockIntact == \A p \in Procs : Owning(p) => dir /\ owner = p

(***************************************************************************)
(* A lock left by a killed process, whatever it was doing, blocks nobody:  *)
(* a process that is the only one alive when it (re)tries acquires it. Only  *)
(* its user or its disk can keep it from that.                             *)
(***************************************************************************)
Alone(p) == \A q \in Procs \ {p} : pc[q] \in Gone
AloneAcquires ==
  \A p \in Procs : pc[p] = "create" /\ Alone(p) ~>
    \/ pc[p] \in {"own", "crashed"}
    \/ pc[p] = "ended" /\ (p \in Exits \/ "disk" \in Faults)

(* Acquire comes back to everybody: with the guard, refused or interrupted.*)
AcquireEnds ==
  \A p \in Procs : pc[p] = "create" ~> Owning(p) \/ pc[p] \in Gone

(***************************************************************************)
(* A shutdown request for the running process is obeyed, whenever it was   *)
(* written after the process had acquired the lock.                        *)
(***************************************************************************)
AskedStops ==
  \A p \in Procs : request = p /\ pc[p] \in {"own", "run"} ~> pc[p] \notin {"own", "run"}

(***************************************************************************)
(* Acquire refuses because of a process that still runs: "if it does not   *)
(* exit in time, the new process exits" (README.md:143).                   *)
(***************************************************************************)
RefusedByLiveOwner ==
  [][\A p \in Procs : pc[p] # "refused" /\ pc'[p] = "refused" => Alive(saw[p])]_vars
=============================================================================
