------------------------ MODULE InstanceGuardProofs ------------------------
(***************************************************************************)
(* However many asynk processes start at the same time, one of them gets   *)
(* the guard, as long as none is stopped or killed and each writes its     *)
(* owner within ownerCreateTimeout.  The assumptions are needed: the runs  *)
(* GuardThree and GuardTakeover show what happens without them.            *)
(***************************************************************************)
EXTENDS InstanceGuard, TLAPS

Calm == Policy = "block" /\ Exits = {} /\ Faults = {}

(* The process whose Mkdir succeeded.                                      *)
Holds(p) == Creating(p) \/ pc[p] \in {"own", "run"}

CalmTypes ==
  /\ dir \in BOOLEAN /\ request = none
  /\ owner \in Procs \cup {missing, empty}
  /\ pc \in [Procs -> {"off", "create", "open", "write", "read", "wait",
                       "probe", "own", "run", "refused"}]
  /\ saw \in [Procs -> Procs \cup {missing, empty}]
  /\ busy \in [Procs -> SUBSET Procs]

OneHolder == \A p, q \in Procs : Holds(p) /\ Holds(q) => p = q

(* The directory exists exactly while a process holds it.                  *)
DirHeld == dir <=> \E p \in Procs : Holds(p)

(* What owner.json says of the process that holds the directory.           *)
OwnerWritten ==
  /\ \A p \in Procs : owner = p <=> pc[p] \in {"own", "run"}
  /\ \A p \in Procs : pc[p] = "write" => p \in writers

(* Whoever waits for an owner waits for one that is being written or there,*)
(* whoever probes one probes the holder.                                   *)
WaitersServed ==
  \A p \in Procs :
    /\ pc[p] = "wait" => \E q \in busy[p] : Holds(q)
    /\ pc[p] = "read" => dir
    /\ pc[p] = "probe" => saw[p] \in Procs /\ pc[saw[p]] \in {"own", "run"}

CalmInv == CalmTypes /\ OneHolder /\ DirHeld /\ OwnerWritten /\ WaitersServed

-----------------------------------------------------------------------------
LEMMA InitCalm == Init => CalmInv
  BY GuardAssumption DEF Init, CalmInv, CalmTypes, OneHolder, DirHeld,
     OwnerWritten, WaitersServed, Holds, Creating

(* A step that leaves the lock alone and moves p to a call that holds no   *)
(* lock, from one that holds none.                                         *)
LEMMA Bystander ==
  ASSUME CalmInv, NEW p \in Procs, ~Holds(p),
         UNCHANGED <<dir, owner, request, writers>>,
         NEW l \in {"create", "read", "wait", "probe", "refused"},
         pc' = [pc EXCEPT ![p] = l],
         saw' \in [Procs -> Procs \cup {missing, empty}],
         busy' \in [Procs -> SUBSET Procs],
         \A q \in Procs \ {p} : saw'[q] = saw[q] /\ busy'[q] = busy[q],
         l = "wait" => \E q \in busy'[p] : Holds(q),
         l = "read" => dir,
         l = "probe" => saw'[p] \in Procs /\ pc[saw'[p]] \in {"own", "run"}
  PROVE  CalmInv'
<1> USE DEF CalmInv, CalmTypes, Holds, Creating
<1>1. \A q \in Procs : Holds(q)' = Holds(q)
  OBVIOUS
<1>2. \A q \in Procs : (pc[q] \in {"own", "run"}) <=> (pc'[q] \in {"own", "run"})
  OBVIOUS
<1>3. CalmTypes'
  OBVIOUS
<1>4. OneHolder' /\ DirHeld'
  BY <1>1 DEF OneHolder, DirHeld
<1>5. OwnerWritten'
  BY <1>2 DEF OwnerWritten
<1>6. WaitersServed'
  BY <1>1, <1>2 DEF WaitersServed
<1> QED
  BY <1>3, <1>4, <1>5, <1>6

(* A step of the holder p that goes on holding the lock.                   *)
LEMMA HolderStep ==
  ASSUME CalmInv, NEW p \in Procs, Holds(p),
         NEW l \in {"write", "own", "run"}, pc' = [pc EXCEPT ![p] = l],
         owner' = IF l = "write" THEN empty ELSE p,
         l = "write" => p \in writers' /\ pc[p] = "open",
         UNCHANGED <<dir, request, saw, busy>>
  PROVE  CalmInv'
<1> USE GuardAssumption DEF CalmInv, CalmTypes, Holds, Creating
<1>1. \A q \in Procs : Holds(q)' = Holds(q)
  OBVIOUS
<1>2. \A q \in Procs \ {p} : ~Holds(q)
  BY DEF OneHolder
<1>3. CalmTypes'
  OBVIOUS
<1>4. OneHolder' /\ DirHeld'
  BY <1>1 DEF OneHolder, DirHeld
<1>5. OwnerWritten'
  BY <1>2 DEF OwnerWritten
<1>6. \A q \in Procs : pc[q] \in {"own", "run"} => pc'[q] \in {"own", "run"}
  OBVIOUS
<1>7. WaitersServed'
  BY <1>1, <1>6 DEF WaitersServed
<1> QED
  BY <1>3, <1>4, <1>5, <1>7

(* Mkdir succeeds: there was no holder.                                    *)
LEMMA MakesDirectory ==
  ASSUME CalmInv, NEW p \in Procs, TryCreate(p), ~dir
  PROVE  CalmInv'
<1> USE DEF CalmInv, CalmTypes, Holds, Creating
<1>1. \A q \in Procs : ~Holds(q)
  BY DEF DirHeld
<1>2. pc' = [pc EXCEPT ![p] = "open"] /\ dir'
  BY DEF TryCreate, Goto
<1>3. \A q \in Procs : Holds(q)' <=> q = p
  BY <1>1, <1>2
<1>4. CalmTypes'
  BY <1>2 DEF TryCreate
<1>5. OneHolder' /\ DirHeld'
  BY <1>2, <1>3 DEF OneHolder, DirHeld
<1>6. OwnerWritten'
  BY <1>1, <1>2 DEF OwnerWritten, TryCreate
<1>7. WaitersServed'
  BY <1>1, <1>2 DEF WaitersServed, TryCreate
<1> QED
  BY <1>4, <1>5, <1>6, <1>7

(* The timeout cannot strike: what the process waits for is at work, or    *)
(* the owner is there.                                                     *)
LEMMA NoOwnerTimeout ==
  ASSUME CalmInv, Calm, NEW p \in Procs, OwnerTimeout(p)
  PROVE  FALSE
<1>1. PICK q \in busy[p] : Holds(q)
  BY DEF CalmInv, WaitersServed, OwnerTimeout
<1>2. q \in Procs
  BY <1>1 DEF CalmInv, CalmTypes
<1>3. CASE Creating(q)
  BY <1>3, <1>1 DEF OwnerTimeout, Calm, AtWork
<1>4. CASE pc[q] \in {"own", "run"}
  BY <1>4, <1>2 DEF CalmInv, OwnerWritten, OwnerTimeout
<1> QED
  BY <1>1, <1>3, <1>4 DEF Holds

-----------------------------------------------------------------------------
LEMMA StepCalm ==
  ASSUME CalmInv, Calm, [Next]_vars
  PROVE  CalmInv'
<1> USE DEF Calm
<1>1. CASE UNCHANGED vars
  BY <1>1 DEF vars, CalmInv, CalmTypes, OneHolder, DirHeld, OwnerWritten,
              WaitersServed, Holds, Creating
<1>2. SUFFICES ASSUME NEW p \in Procs,
                      Start(p) \/ Step(p) \/ Interrupt(p) \/ UserStops(p) \/ Crash(p)
               PROVE  CalmInv'
  BY <1>1 DEF Next
<1>t. pc[p] \in {"off", "create", "open", "write", "read", "wait", "probe",
                 "own", "run", "refused"}
  BY DEF CalmInv, CalmTypes
<1>3. CASE Start(p)
  <2>1. ~Holds(p) /\ pc' = [pc EXCEPT ![p] = "create"]
    BY <1>3 DEF Start, Holds, Creating, Goto
  <2> QED
    BY <1>3, <2>1, Bystander DEF Start, CalmInv, CalmTypes
<1>4. CASE TryCreate(p)
  <2>1. CASE ~dir
    BY <1>4, <2>1, MakesDirectory
  <2>2. CASE dir
    <3>1. ~Holds(p) /\ pc' = [pc EXCEPT ![p] = "read"] /\ dir' = dir
      BY <1>4, <2>2 DEF TryCreate, Holds, Creating, Goto, CalmInv, CalmTypes
    <3> QED
      BY <1>4, <2>2, <3>1, Bystander DEF TryCreate, CalmInv, CalmTypes
  <2> QED
    BY <2>1, <2>2
<1>5. CASE OpenOwner(p)
  <2>1. Holds(p) /\ pc' = [pc EXCEPT ![p] = "write"]
    BY <1>5 DEF OpenOwner, Holds, Creating, Goto
  <2> QED
    BY <1>5, <2>1, HolderStep DEF OpenOwner
<1>6. CASE WriteOwner(p)
  <2>1. Holds(p) /\ pc' = [pc EXCEPT ![p] = "own"] /\ owner' = p
    BY <1>6 DEF WriteOwner, Holds, Creating, Goto, CalmInv, OwnerWritten
  <2> QED
    BY <1>6, <2>1, HolderStep DEF WriteOwner
<1>7. CASE FailToWrite(p)
  BY <1>7 DEF FailToWrite, CalmInv, DirHeld, Holds, Creating
<1>8. CASE ReadOwner(p)
  <2>0. ~Holds(p)
    BY <1>8 DEF ReadOwner, Holds, Creating
  <2>1. CASE owner \in Procs
    <3>1. pc' = [pc EXCEPT ![p] = "probe"] /\ saw' = [saw EXCEPT ![p] = owner]
      BY <1>8, <2>1 DEF ReadOwner, Goto
    <3>2. pc[owner] \in {"own", "run"}
      BY <2>1 DEF CalmInv, OwnerWritten
    <3>3. saw'[p] = owner
      BY <3>1 DEF CalmInv, CalmTypes
    <3> QED
      BY <1>8, <2>0, <2>1, <3>1, <3>2, <3>3, Bystander
      DEF ReadOwner, CalmInv, CalmTypes
  <2>2. CASE owner \notin Procs
    <3>1. /\ pc' = [pc EXCEPT ![p] = "wait"] /\ UNCHANGED saw
          /\ busy' = [busy EXCEPT ![p] = {q \in Procs : AtWork(q)}]
      BY <1>8, <2>2 DEF ReadOwner, Goto
    <3>2. PICK h \in Procs : Holds(h)
      BY <1>8 DEF ReadOwner, CalmInv, WaitersServed, DirHeld
    <3>3. h \in busy'[p]
      BY <2>2, <3>1, <3>2 DEF CalmInv, CalmTypes, OwnerWritten, Holds, AtWork
    <3> QED
      BY <1>8, <2>0, <3>1, <3>2, <3>3, Bystander DEF ReadOwner, CalmInv, CalmTypes
  <2> QED
    BY <2>1, <2>2
<1>9. CASE OwnerAppears(p)
  <2>1. ~Holds(p) /\ pc' = [pc EXCEPT ![p] = "create"]
    BY <1>9 DEF OwnerAppears, Holds, Creating, Goto
  <2> QED
    BY <1>9, <2>1, Bystander DEF OwnerAppears, CalmInv, CalmTypes
<1>10. CASE OwnerTimeout(p)
  BY <1>10, NoOwnerTimeout
<1>11. CASE Probe(p)
  <2>1. Alive(saw[p])
    BY <1>11 DEF Probe, CalmInv, WaitersServed, Alive, Gone
  <2>2. ~Holds(p) /\ pc' = [pc EXCEPT ![p] = "refused"]
    BY <1>11, <2>1 DEF Probe, Holds, Creating, Goto
  <2> QED
    BY <1>11, <2>2, Bystander DEF Probe, CalmInv, CalmTypes
<1>12. CASE StartMonitor(p)
  <2>1. Holds(p) /\ pc' = [pc EXCEPT ![p] = "run"] /\ owner = p
    BY <1>12 DEF StartMonitor, Holds, Goto, CalmInv, OwnerWritten
  <2> QED
    BY <1>12, <2>1, HolderStep DEF StartMonitor
<1>13. CASE ShutdownRequested(p)
  BY <1>13, GuardAssumption DEF ShutdownRequested, CalmInv, CalmTypes
<1>14. CASE \/ CompareOwner(p) \/ RemoveFiles(p) \/ RemoveDir(p) \/ RequestShutdown(p)
            \/ OwnerGone(p) \/ ReplaceTimeout(p) \/ Release(p)
  BY <1>14, <1>t DEF CompareOwner, RemoveFiles, RemoveDir, RequestShutdown,
     OwnerGone, ReplaceTimeout, Release
<1>15. CASE Interrupt(p) \/ UserStops(p) \/ Crash(p)
  BY <1>15 DEF Interrupt, UserStops, Crash
<1> QED
  BY <1>2, <1>3, <1>4, <1>5, <1>6, <1>7, <1>8, <1>9, <1>10, <1>11, <1>12, <1>13,
     <1>14, <1>15 DEF Step

LEMMA CalmImplies == CalmInv => MutualExclusion /\ LockIntact
<1> SUFFICES ASSUME CalmInv PROVE MutualExclusion /\ LockIntact
  OBVIOUS
<1>1. \A p \in Procs : Owning(p) => pc[p] \in {"own", "run"}
  BY DEF Owning, CalmInv, CalmTypes
<1> QED
  BY <1>1 DEF MutualExclusion, LockIntact, CalmInv, OneHolder, DirHeld, OwnerWritten, Holds

-----------------------------------------------------------------------------
(* The guard excludes: of any number of processes that start together, at  *)
(* most one comes out of Acquire with the guard.                           *)
THEOREM StartExcludes == ASSUME Calm PROVE Spec => []MutualExclusion
<1>1. Init => CalmInv
  BY InitCalm
<1>2. CalmInv /\ [Next]_vars => CalmInv'
  BY StepCalm
<1>3. CalmInv => MutualExclusion
  BY CalmImplies
<1> QED
  BY <1>1, <1>2, <1>3, PTL DEF Spec

(* And the lock it holds keeps naming it: none of those that wait for an   *)
(* owner ever removes the directory.                                       *)
THEOREM StartKeepsLock == ASSUME Calm PROVE Spec => []LockIntact
<1>1. Init => CalmInv
  BY InitCalm
<1>2. CalmInv /\ [Next]_vars => CalmInv'
  BY StepCalm
<1>3. CalmInv => LockIntact
  BY CalmImplies
<1> QED
  BY <1>1, <1>2, <1>3, PTL DEF Spec
=============================================================================
