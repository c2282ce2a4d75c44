--------------------------- MODULE SelectionProofs ---------------------------
(***************************************************************************)
(* What is selected, for any configuration, batch of changes and set of    *)
(* outputs: which configurations are rejected and which tasks start without*)
(* a change (Startup), which tasks a batch schedules (ChangeFilter), and   *)
(* which output a clean-up keeps (CleanUp).  The three have no state in    *)
(* common; each has a part of its own below.                               *)
(***************************************************************************)
EXTENDS Startup, ChangeFilter, CleanUp, SequenceTheorems, WellFoundedInduction, TLAPS

(***************************************************************************)
(*                               Startup                                   *)
(*                                                                         *)
(* Both searches keep the same things in step.  The frames are a path of   *)
(* different tasks, each of which is reached from those below it.  What is *)
(* done is closed under the references, and nothing in it is in a cycle.   *)
(* Every task is done, refused, on the path or still to be looked at.  So a*)
(* reference back to the path closes a cycle, and when both loops have     *)
(* ended no task is left that was never looked at.                         *)
(*                                                                         *)
(* Reached is defined by the sets that are closed under the edges and not  *)
(* by recursion; all that is needed of it are the next three facts.        *)
(***************************************************************************)

(* Reachability.                                                           *)

LEMMA ReachedFirst ==
  ASSUME NEW E, NEW t, NEW u \in To(E, t), u \in TaskIDs
  PROVE  u \in Reached(E, t)
  BY DEF Reached

LEMMA ReachedOn ==
  ASSUME NEW E, NEW t, NEW u \in Reached(E, t), NEW v \in Reached(E, u)
  PROVE  v \in Reached(E, t)
  <1>1. v \in TaskIDs
    BY DEF Reached
  <1>2. ASSUME NEW C \in SUBSET TaskIDs, To(E, t) \subseteq C, \A w \in C : To(E, w) \subseteq C
        PROVE  v \in C
    <2>1. u \in C
      BY <1>2 DEF Reached
    <2>2. To(E, u) \subseteq C
      BY <1>2, <2>1
    <2>3. QED BY <1>2, <2>2 DEF Reached
  <1>3. QED BY <1>1, <1>2 DEF Reached

LEMMA ReachedWithin ==
  ASSUME NEW E, NEW t, NEW C \in SUBSET TaskIDs, To(E, t) \subseteq C,
         \A w \in C : To(E, w) \subseteq C
  PROVE  Reached(E, t) \subseteq C
  BY DEF Reached

-----------------------------------------------------------------------------
(* The search.                                                             *)

(* What the search under way follows.                                      *)
Edges == IF phase = "select" THEN Needs ELSE cons
Frames == [task : TaskIDs, todo : SUBSET TaskIDs]
Depths == 1 .. Len(stack)

(* The frames are a path of different tasks; a reference of a frame is     *)
(* done, still to be followed, or the next frame.                          *)
PathInv ==
  /\ stack \in Seq(Frames) /\ roots \subseteq TaskIDs
  /\ visiting = {stack[i].task : i \in Depths}
  /\ \A i, j \in Depths : stack[i].task = stack[j].task => i = j
  /\ \A i \in Depths :
       /\ stack[i].task \notin visited
       /\ stack[i].todo \subseteq To(Edges, stack[i].task)
       /\ \A u \in To(Edges, stack[i].task) :
            u \in visited \/ u \in stack[i].todo \/ (i + 1 \in Depths /\ stack[i + 1].task = u)
       /\ i + 1 \in Depths => stack[i + 1].task \in To(Edges, stack[i].task)
  /\ \A i, j \in Depths : i < j => stack[j].task \in Reached(Edges, stack[i].task)

(* The tasks that are done are closed under the references, without cycle. *)
DoneInv ==
  /\ visited \subseteq TaskIDs
  /\ \A v \in visited : To(Edges, v) \subseteq visited /\ v \notin Reached(Edges, v)

CoveredInv == TaskIDs \subseteq roots \cup visited \cup refused \cup visiting

SearchInv == PathInv /\ DoneInv /\ CoveredInv
Inside == Edges \subseteq TaskIDs \X TaskIDs

LEMMA SearchStarts == ASSUME NewSearch PROVE SearchInv'
  BY DEF NewSearch, SearchInv, PathInv, DoneInv, CoveredInv, Depths

LEMMA FollowedIs ==
  ASSUME stack \in Seq(Frames), NEW t
  PROVE  /\ Followed(t) \in Seq(Frames) /\ Len(Followed(t)) = Len(stack)
         /\ \A i \in Depths : /\ Followed(t)[i].task = stack[i].task
                              /\ Followed(t)[i].todo = IF i = Len(stack) THEN stack[i].todo \ {t}
                                                       ELSE stack[i].todo
  <1>1. CASE stack = <<>>
    BY <1>1 DEF Followed, Depths
  <1>2. CASE stack # <<>>
    <2> DEFINE n == Len(stack)
               f == [stack[n] EXCEPT !.todo = @ \ {t}]
    <2>1. n \in Nat /\ n \in Depths /\ \A i \in Depths : stack[i] \in Frames
      BY <1>2 DEF Depths
    <2>2. f \in Frames /\ f.task = stack[n].task /\ f.todo = stack[n].todo \ {t}
      BY <2>1 DEF Frames
    <2>3. Followed(t) = [stack EXCEPT ![n] = f]
      BY <1>2 DEF Followed
    <2> HIDE DEF f
    <2>4. Followed(t) \in Seq(Frames) /\ Len(Followed(t)) = n
      BY <2>1, <2>2, <2>3 DEF Depths
    <2>5. \A i \in Depths : Followed(t)[i] = IF i = n THEN f ELSE stack[i]
      BY <2>3 DEF Depths
    <2>6. QED BY <2>2, <2>4, <2>5
  <1>3. QED BY <1>1, <1>2

(* Where a reference of the innermost frame leads.                         *)
LEMMA NextIs ==
  ASSUME PathInv, NEW t \in Nexts
  PROVE  /\ t \in TaskIDs
         /\ stack = <<>> => t \in roots
         /\ stack # <<>> => /\ Len(stack) \in Depths
                            /\ t \in To(Edges, stack[Len(stack)].task)
         /\ \A i \in Depths : t \in Reached(Edges, stack[i].task)
  <1>1. CASE stack = <<>>
    BY <1>1 DEF PathInv, Nexts, Depths
  <1>2. CASE stack # <<>>
    <2>1. Len(stack) \in Depths /\ Len(stack) \in Nat /\ \A i \in Depths : i <= Len(stack) /\ i \in Nat
      BY <1>2 DEF PathInv, Depths
    <2>2. stack[Len(stack)] \in Frames /\ t \in stack[Len(stack)].todo
      BY <1>2, <2>1 DEF PathInv, Nexts, Top, Depths
    <2>3. t \in TaskIDs /\ t \in To(Edges, stack[Len(stack)].task)
      BY <2>1, <2>2 DEF PathInv, Frames
    <2>4. t \in Reached(Edges, stack[Len(stack)].task)
      BY <2>3, ReachedFirst
    <2>5. ASSUME NEW i \in Depths, i # Len(stack) PROVE t \in Reached(Edges, stack[i].task)
      <3>1. i < Len(stack)
        BY <2>1, <2>5
      <3>2. stack[Len(stack)].task \in Reached(Edges, stack[i].task)
        BY <2>1, <3>1 DEF PathInv
      <3>3. QED BY <3>2, <2>4, ReachedOn
    <2>6. QED BY <1>2, <2>1, <2>3, <2>4, <2>5
  <1>3. QED BY <1>1, <1>2

LEMMA DescendKeeps ==
  ASSUME SearchInv, Inside, Edges' = Edges, NEW t \in Nexts, t \notin visited \cup visiting,
         Descend(t, Edges)
  PROVE  SearchInv'
  <1> DEFINE n == Len(stack)
             f == [task |-> t, todo |-> To(Edges, t)]
             s == Followed(t)
  <1>1. n \in Nat /\ PathInv /\ DoneInv /\ CoveredInv
    BY DEF SearchInv, PathInv
  <1>2. f \in Frames /\ f.task = t /\ f.todo = To(Edges, t) /\ t \in TaskIDs
    BY <1>1, NextIs DEF Frames, Inside, To
  <1>3. /\ s \in Seq(Frames) /\ Len(s) = n
        /\ \A i \in 1 .. n : /\ s[i].task = stack[i].task
                             /\ s[i].todo = IF i = n THEN stack[i].todo \ {t} ELSE stack[i].todo
    BY <1>1, FollowedIs DEF PathInv, Depths
  <1>4. /\ stack' = Append(s, f) /\ visiting' = visiting \cup {t}
        /\ UNCHANGED <<visited, refused>> /\ roots' = RootsLeft(t)
    BY DEF Descend
  <1> HIDE DEF f, s
  <1>5. /\ stack' \in Seq(Frames) /\ Len(stack') = n + 1 /\ stack'[n + 1] = f
        /\ \A i \in 1 .. n : stack'[i] = s[i]
    BY <1>1, <1>2, <1>3, <1>4
  <1>6. \A i \in 1 .. n + 1 : i = n + 1 \/ i \in 1 .. n
    BY <1>1
  <1>7. /\ \A i \in 1 .. n : /\ stack'[i].task = stack[i].task
                             /\ stack'[i].todo = IF i = n THEN stack[i].todo \ {t} ELSE stack[i].todo
        /\ stack'[n + 1].task = t /\ stack'[n + 1].todo = To(Edges, t)
    BY <1>2, <1>3, <1>5
  <1>8. Depths = 1 .. n /\ Depths' = 1 .. n + 1
    BY <1>5 DEF Depths
  <1>9. stack # <<>> => n \in 1 .. n /\ t \in To(Edges, stack[n].task)
    BY <1>1, <1>8, NextIs
  <1>10. \A i \in 1 .. n : stack[i].task # t
    BY <1>1, <1>8 DEF PathInv
  <1>11. visiting' = {stack'[i].task : i \in 1 .. n + 1}
    <2>1. visiting = {stack[i].task : i \in 1 .. n}
      BY <1>1, <1>8 DEF PathInv
    <2>2. 1 .. n \subseteq 1 .. n + 1 /\ n + 1 \in 1 .. n + 1
      BY <1>1
    <2>3. \A i \in 1 .. n + 1 : stack'[i].task \in visiting'
      BY <2>1, <1>4, <1>6, <1>7
    <2>4. \A v \in visiting' : \E i \in 1 .. n + 1 : v = stack'[i].task
      <3> TAKE v \in visiting'
      <3>1. CASE v = t
        BY <3>1, <2>2, <1>7
      <3>2. CASE v \in visiting
        <4>1. PICK i \in 1 .. n : v = stack[i].task
          BY <3>2, <2>1
        <4>2. QED BY <4>1, <2>2, <1>7
      <3>3. QED BY <3>1, <3>2, <1>4
    <2>5. QED BY <2>3, <2>4
  <1>12. \A i, j \in 1 .. n + 1 : stack'[i].task = stack'[j].task => i = j
    <2>1. \A i, j \in 1 .. n : stack'[i].task = stack'[j].task => i = j
      BY <1>1, <1>7, <1>8 DEF PathInv
    <2>2. \A i \in 1 .. n : stack'[i].task # stack'[n + 1].task
      BY <1>7, <1>10
    <2>3. QED BY <2>1, <2>2, <1>6
  <1>13. ASSUME NEW i \in 1 .. n + 1
         PROVE  /\ stack'[i].task \notin visited
                /\ stack'[i].todo \subseteq To(Edges, stack'[i].task)
                /\ \A u \in To(Edges, stack'[i].task) :
                     \/ u \in visited \/ u \in stack'[i].todo
                     \/ i + 1 \in 1 .. n + 1 /\ stack'[i + 1].task = u
                /\ i + 1 \in 1 .. n + 1 => stack'[i + 1].task \in To(Edges, stack'[i].task)
    <2>1. CASE i = n + 1
      BY <2>1, <1>1, <1>7
    <2>2. CASE i = n /\ i \in 1 .. n
      <3>1. stack # <<>>
        BY <2>2
      <3>2. i + 1 \notin 1 .. n /\ i + 1 = n + 1 /\ n + 1 \in 1 .. n + 1
        BY <2>2, <1>1
      <3>3. \A u \in To(Edges, stack[i].task) : u \in visited \/ u \in stack[i].todo
        BY <2>2, <3>2, <1>1, <1>8 DEF PathInv
      <3>4. stack[i].task \notin visited /\ stack[i].todo \subseteq To(Edges, stack[i].task)
        BY <2>2, <1>1, <1>8 DEF PathInv
      <3>5. stack'[i].task = stack[i].task /\ stack'[i].todo = stack[i].todo \ {t} /\ stack'[i + 1].task = t
        BY <2>2, <3>2, <1>7
      <3>6. QED BY <2>2, <3>1, <3>2, <3>3, <3>4, <3>5, <1>9
    <2>3. CASE i # n /\ i \in 1 .. n
      <3>1. i + 1 \in 1 .. n /\ i + 1 \in 1 .. n + 1
        BY <2>3, <1>1
      <3>2. stack'[i].task = stack[i].task /\ stack'[i].todo = stack[i].todo
            /\ stack'[i + 1].task = stack[i + 1].task
        BY <2>3, <3>1, <1>7
      <3>3. QED BY <2>3, <3>1, <3>2, <1>1, <1>8 DEF PathInv
    <2>4. QED BY <2>1, <2>2, <2>3, <1>6
  <1>14. ASSUME NEW i \in 1 .. n + 1, NEW j \in 1 .. n + 1, i < j
         PROVE  stack'[j].task \in Reached(Edges, stack'[i].task)
    <2>1. i \in 1 .. n
      BY <1>14, <1>1
    <2>2. CASE j = n + 1
      BY <2>1, <2>2, <1>1, <1>7, <1>8, NextIs
    <2>3. CASE j \in 1 .. n
      BY <2>1, <2>3, <1>14, <1>1, <1>7, <1>8 DEF PathInv
    <2>4. QED BY <2>2, <2>3, <1>6
  <1>15. roots' \subseteq TaskIDs /\ TaskIDs \subseteq roots' \cup visited \cup refused \cup visiting'
    BY <1>1, <1>4 DEF RootsLeft, PathInv, CoveredInv
  <1>16. PathInv'
    BY <1>4, <1>5, <1>8, <1>11, <1>12, <1>13, <1>14, <1>15 DEF PathInv
  <1>17. DoneInv' /\ CoveredInv'
    BY <1>1, <1>4, <1>15 DEF DoneInv, CoveredInv
  <1>18. QED BY <1>16, <1>17 DEF SearchInv

LEMMA SkipKeeps ==
  ASSUME SearchInv, Edges' = Edges, NEW t \in visited, Skip(t)
  PROVE  SearchInv'
  <1> DEFINE n == Len(stack)
  <1>1. n \in Nat /\ PathInv /\ DoneInv /\ CoveredInv
    BY DEF SearchInv, PathInv
  <1>2. stack' = Followed(t) /\ UNCHANGED <<visiting, visited, refused>> /\ roots' = RootsLeft(t)
    BY DEF Skip
  <1>3. /\ stack' \in Seq(Frames) /\ Len(stack') = n
        /\ \A i \in 1 .. n : /\ stack'[i].task = stack[i].task
                             /\ stack'[i].todo = IF i = n THEN stack[i].todo \ {t} ELSE stack[i].todo
    BY <1>1, <1>2, FollowedIs DEF PathInv, Depths
  <1>4. Depths = 1 .. n /\ Depths' = 1 .. n
    BY <1>3 DEF Depths
  <1>5. roots' \subseteq TaskIDs /\ TaskIDs \subseteq roots' \cup visited \cup refused \cup visiting
    BY <1>1, <1>2 DEF RootsLeft, PathInv, CoveredInv
  <1>6. \A i \in Depths : /\ stack'[i].todo \subseteq stack[i].todo
                          /\ stack[i].todo \subseteq stack'[i].todo \cup visited
    BY <1>3, <1>4
  <1>7. \A i \in Depths :
          /\ stack'[i].task \notin visited
          /\ stack'[i].todo \subseteq To(Edges, stack'[i].task)
          /\ \A u \in To(Edges, stack'[i].task) :
               u \in visited \/ u \in stack'[i].todo \/ (i + 1 \in Depths /\ stack'[i + 1].task = u)
          /\ i + 1 \in Depths => stack'[i + 1].task \in To(Edges, stack'[i].task)
    <2> SUFFICES ASSUME NEW i \in Depths
                 PROVE  /\ stack'[i].task \notin visited
                        /\ stack'[i].todo \subseteq To(Edges, stack'[i].task)
                        /\ \A u \in To(Edges, stack'[i].task) :
                             \/ u \in visited \/ u \in stack'[i].todo
                             \/ i + 1 \in Depths /\ stack'[i + 1].task = u
                        /\ i + 1 \in Depths => stack'[i + 1].task \in To(Edges, stack'[i].task)
      OBVIOUS
    <2>1. stack'[i].task = stack[i].task
          /\ (i + 1 \in Depths => stack'[i + 1].task = stack[i + 1].task)
      BY <1>3, <1>4
    <2>2. /\ stack[i].task \notin visited
          /\ stack[i].todo \subseteq To(Edges, stack[i].task)
          /\ \A u \in To(Edges, stack[i].task) :
               u \in visited \/ u \in stack[i].todo \/ (i + 1 \in Depths /\ stack[i + 1].task = u)
          /\ i + 1 \in Depths => stack[i + 1].task \in To(Edges, stack[i].task)
      BY <1>1 DEF PathInv
    <2>3. QED BY <2>1, <2>2, <1>6
  <1>8. visiting = {stack'[i].task : i \in Depths}
    <2>1. visiting = {stack[i].task : i \in Depths}
      BY <1>1 DEF PathInv
    <2>2. \A i \in Depths : stack'[i].task = stack[i].task
      BY <1>3, <1>4
    <2>3. \A v : v \in visiting <=> \E i \in Depths : v = stack'[i].task
      BY <2>1, <2>2
    <2>4. QED BY <2>3
  <1>9. /\ \A i, j \in Depths : stack'[i].task = stack'[j].task => i = j
        /\ \A i, j \in Depths : i < j => stack'[j].task \in Reached(Edges, stack'[i].task)
    BY <1>1, <1>3, <1>4 DEF PathInv
  <1>10. PathInv'
    BY <1>2, <1>3, <1>4, <1>5, <1>7, <1>8, <1>9 DEF PathInv
  <1>11. DoneInv' /\ CoveredInv'
    BY <1>1, <1>2, <1>5 DEF DoneInv, CoveredInv
  <1>12. QED BY <1>10, <1>11 DEF SearchInv

LEMMA LeaveKeeps ==
  ASSUME SearchInv, Edges' = Edges, Leave
  PROVE  SearchInv'
  <1> DEFINE n == Len(stack)
             m == n - 1
             done == stack[n].task
  <1>1. n \in Nat /\ PathInv /\ DoneInv /\ CoveredInv /\ stack # <<>>
    BY DEF SearchInv, PathInv, Leave
  <1>2. /\ m \in Nat /\ n \in 1 .. n /\ Depths = 1 .. n
        /\ \A i \in 1 .. n : i \in 1 .. m \/ i = n
        /\ \A i \in 1 .. m : i \in 1 .. n /\ i # n
    BY <1>1 DEF Depths, PathInv
  <1>3. /\ stack[n].todo = {} /\ stack' = SubSeq(stack, 1, m)
        /\ visited' = visited \cup {done} /\ visiting' = visiting \ {done}
        /\ UNCHANGED <<roots, refused>>
    BY DEF Leave, Top
  <1>4. /\ stack' \in Seq(Frames) /\ Len(stack') = m /\ \A i \in 1 .. m : stack'[i] = stack[i]
    <2>1. \A i \in 1 .. m : stack[i] \in Frames
      BY <1>1, <1>2 DEF PathInv
    <2>2. /\ SubSeq(stack, 1, m) \in Seq(Frames)
          /\ Len(SubSeq(stack, 1, m)) = IF 1 <= m THEN m - 1 + 1 ELSE 0
          /\ \A i \in 1 .. m - 1 + 1 : SubSeq(stack, 1, m)[i] = stack[1 + i - 1]
      BY <2>1, <1>2, SubSeqProperties
    <2> HIDE DEF m
    <2>3. m - 1 + 1 = m
      BY <1>2
    <2>4. ~ (1 <= m) => m = 0
      BY <1>2
    <2>5. \A i \in 1 .. m : 1 + i - 1 = i
      BY <1>2
    <2>6. Len(SubSeq(stack, 1, m)) = m
      BY <2>2, <2>3, <2>4
    <2>7. \A i \in 1 .. m : SubSeq(stack, 1, m)[i] = stack[i]
      BY <2>2, <2>3, <2>5
    <2>8. QED BY <2>2, <2>6, <2>7, <1>3
  <1>5. Depths' = 1 .. m
    BY <1>4 DEF Depths
  <1>6. done \in TaskIDs /\ done \notin visited /\ To(Edges, done) \subseteq visited
    <2>1. stack[n] \in Frames /\ n + 1 \notin 1 .. n
      BY <1>1, <1>2 DEF PathInv
    <2>2. QED BY <2>1, <1>1, <1>2, <1>3 DEF PathInv, Frames
  <1>7. done \notin Reached(Edges, done)
    BY <1>1, <1>6, ReachedWithin DEF DoneInv
  <1>8. DoneInv'
    BY <1>1, <1>3, <1>6, <1>7 DEF DoneInv
  <1>9. \A i \in 1 .. m : stack[i].task # done
    BY <1>1, <1>2 DEF PathInv
  <1>10. visiting' = {stack'[i].task : i \in 1 .. m}
    <2>1. visiting = {stack[i].task : i \in 1 .. n}
      BY <1>1, <1>2 DEF PathInv
    <2>2. \A i \in 1 .. m : stack'[i].task \in visiting'
      BY <2>1, <1>2, <1>3, <1>4, <1>9
    <2>3. \A v \in visiting' : \E i \in 1 .. m : v = stack'[i].task
      <3> TAKE v \in visiting'
      <3>1. PICK i \in 1 .. n : v = stack[i].task
        BY <2>1, <1>3
      <3>2. i \in 1 .. m
        BY <3>1, <1>2, <1>3
      <3>3. QED BY <3>1, <3>2, <1>4
    <2>4. QED BY <2>2, <2>3
  <1>11. ASSUME NEW i \in 1 .. m
         PROVE  /\ stack'[i].task \notin visited'
                /\ stack'[i].todo \subseteq To(Edges, stack'[i].task)
                /\ \A u \in To(Edges, stack'[i].task) :
                     \/ u \in visited' \/ u \in stack'[i].todo
                     \/ i + 1 \in 1 .. m /\ stack'[i + 1].task = u
                /\ i + 1 \in 1 .. m => stack'[i + 1].task \in To(Edges, stack'[i].task)
    <2>1. stack'[i] = stack[i] /\ i \in Depths
      BY <1>2, <1>4
    <2>2. stack[i].task \notin visited'
      BY <2>1, <1>1, <1>3, <1>9 DEF PathInv
    <2>3. stack[i].todo \subseteq To(Edges, stack[i].task)
      BY <2>1, <1>1 DEF PathInv
    <2>4. ASSUME NEW u \in To(Edges, stack[i].task), u \notin visited', u \notin stack[i].todo
          PROVE  i + 1 \in 1 .. m /\ stack'[i + 1].task = u
      <3>1. i + 1 \in Depths /\ stack[i + 1].task = u
        BY <2>1, <2>4, <1>1, <1>3 DEF PathInv
      <3>2. i + 1 # n
        BY <2>4, <3>1, <1>3
      <3>3. QED BY <3>1, <3>2, <1>2, <1>4
    <2>5. ASSUME i + 1 \in 1 .. m PROVE stack'[i + 1].task \in To(Edges, stack[i].task)
      <3>1. stack'[i + 1] = stack[i + 1] /\ i + 1 \in Depths
        BY <2>5, <1>2, <1>4
      <3>2. QED BY <2>1, <3>1, <1>1 DEF PathInv
    <2>6. QED BY <2>1, <2>2, <2>3, <2>4, <2>5
  <1>12. /\ \A i, j \in 1 .. m : stack'[i].task = stack'[j].task => i = j
         /\ \A i, j \in 1 .. m : i < j => stack'[j].task \in Reached(Edges, stack'[i].task)
    BY <1>1, <1>2, <1>4 DEF PathInv
  <1>13. PathInv'
    BY <1>1, <1>3, <1>4, <1>5, <1>10, <1>11, <1>12 DEF PathInv
  <1>14. CoveredInv'
    BY <1>1, <1>3 DEF CoveredInv
  <1>15. QED BY <1>8, <1>13, <1>14 DEF SearchInv

-----------------------------------------------------------------------------
(* The path that is reported.                                              *)

(* A consume of the innermost frame that is on the path closes a cycle.    *)
LEMMA ReportedIsCycle ==
  ASSUME PathInv, Inside, phase = "cycles", NEW t \in Nexts, t \in visiting
  PROVE  IsCycle(CyclePath(t))
  <1> DEFINE n == Len(stack)
  <1>1. Edges = cons
    BY DEF Edges
  <1>2. PICK k \in Depths : stack[k].task = t
    BY DEF PathInv
  <1>3. stack # <<>> /\ n \in Nat /\ k \in 1 .. n /\ k \in Nat /\ Depths = 1 .. n /\ DOMAIN stack = 1 .. n
    BY <1>2 DEF PathInv, Depths
  <1>4. {i \in DOMAIN stack : stack[i].task = t} = {k}
    BY <1>2, <1>3 DEF PathInv
  <1> DEFINE places == {i \in DOMAIN stack : stack[i].task = t}
             first == IF places = {} THEN 1 ELSE CHOOSE i \in places : \A j \in places : i <= j
  <1>5. first = k
    <2>1. places = {k}
      BY <1>4
    <2>2. k \in places /\ \A j \in places : k <= j
      BY <2>1, <1>3
    <2> HIDE DEF places
    <2>3. (CHOOSE i \in places : \A j \in places : i <= j) \in places
      BY <2>2
    <2>4. QED BY <2>1, <2>2, <2>3
  <1> DEFINE l == n - k + 2
             path == [i \in 1 .. l |-> IF k + i - 1 <= n THEN stack[k + i - 1].task ELSE t]
  <1>6. CyclePath(t) = path
    <2>1. CyclePath(t) = [i \in 1 .. (n - first + 2) |->
                           IF first + i - 1 <= n THEN stack[first + i - 1].task ELSE t]
      BY DEF CyclePath
    <2> HIDE DEF first
    <2>2. QED BY <2>1, <1>5
  <1>7. l \in Nat /\ l > 1
    BY <1>3
  <1>8. Len(path) = l
    BY <1>7
  <1>9. path[1] = t
    BY <1>2, <1>3, <1>7
  <1>10. path[l] = t
    <2>1. ~ (k + l - 1 <= n) /\ l \in 1 .. l
      BY <1>3, <1>7
    <2>2. QED BY <2>1
  <1>11. ASSUME NEW i \in 1 .. (l - 1)
         PROVE  <<path[i], path[i + 1]>> \in cons
    <2> DEFINE j == k + i - 1
    <2>1. i \in 1 .. l /\ i + 1 \in 1 .. l /\ j \in 1 .. n /\ j \in Nat /\ k + (i + 1) - 1 = j + 1
      BY <1>3, <1>7
    <2>2. path[i] = stack[j].task
      BY <2>1
    <2>3. path[i + 1] = IF j + 1 <= n THEN stack[j + 1].task ELSE t
      BY <2>1
    <2> HIDE DEF j, path
    <2>4. path[i + 1] \in To(cons, stack[j].task)
      <3>1. CASE j + 1 <= n
        <4>1. j + 1 \in Depths /\ j \in Depths
          BY <3>1, <2>1, <1>3
        <4>2. QED BY <3>1, <4>1, <2>3, <1>1 DEF PathInv
      <3>2. CASE ~ (j + 1 <= n)
        <4>1. j \in 1 .. n /\ j \in Nat /\ n \in Nat
          BY <2>1, <1>3
        <4> HIDE DEF n
        <4>2. j = n
          BY <3>2, <4>1
        <4> USE DEF n
        <4>3. QED BY <3>2, <4>2, <2>3, <1>1, <1>3, NextIs
      <3>3. QED BY <3>1, <3>2
    <2>5. \A e \in cons : e = <<e[1], e[2]>>
      BY <1>1 DEF Inside
    <2>6. QED BY <2>2, <2>4, <2>5 DEF To
  <1> HIDE DEF path, l
  <1>12. QED BY <1>6, <1>7, <1>8, <1>9, <1>10, <1>11 DEF IsCycle

-----------------------------------------------------------------------------
(* The selection.                                                          *)

(* The tasks SelectionIsExact names.                                       *)
Startable ==
  {t \in autoStart : \A u \in Reached(Needs, t) \cup {t} :
     u \in autoStart /\ u \notin Reached(Needs, u)}

SelectInv == visited \cup visiting \subseteq autoStart /\ refused \cap Startable = {}

(* What a task that can start needs can start.                            *)
LEMMA StartableOn ==
  ASSUME NEW v \in Startable, NEW t \in Reached(Needs, v)
  PROVE  t \in Startable
  <1>1. \A u \in Reached(Needs, t) : u \in Reached(Needs, v)
    BY ReachedOn
  <1>2. \A u \in Reached(Needs, v) : u \in autoStart /\ u \notin Reached(Needs, u)
    BY DEF Startable
  <1>3. QED BY <1>1, <1>2 DEF Startable

(* A refusal: every task of the path needs the refused one, or is in the   *)
(* cycle it closes.                                                        *)
LEMMA RefuseKeeps ==
  ASSUME SearchInv, SelectInv, phase = "select", UNCHANGED <<phase, config>>,
         NEW t \in Nexts, Verdict(t) = "refused", Refuse(t)
  PROVE  SearchInv' /\ SelectInv'
  <1>1. PathInv /\ DoneInv /\ CoveredInv /\ Edges = Needs
    BY DEF SearchInv, Edges
  <1>2. Edges' = Edges /\ Startable' = Startable /\ autoStart' = autoStart
    BY DEF Edges, Startable, Needs, config, Reached, To
  <1>3. /\ refused' = refused \cup visiting \cup {t} /\ stack' = <<>> /\ visiting' = {}
        /\ roots' = RootsLeft(t) /\ visited' = visited
    BY DEF Refuse
  <1>4. t \in refused \/ t \notin autoStart \/ t \in visiting
    BY DEF Verdict
  <1>5. t \notin Startable
    <2>1. CASE t \in visiting
      <3>1. PICK i \in Depths : stack[i].task = t
        BY <2>1, <1>1 DEF PathInv
      <3>2. t \in Reached(Needs, t)
        BY <3>1, <1>1, NextIs
      <3>3. QED BY <3>2 DEF Startable
    <2>2. CASE t \in refused \/ t \notin autoStart
      BY <2>2 DEF SelectInv, Startable
    <2>3. QED BY <2>1, <2>2, <1>4
  <1>6. ASSUME NEW v \in visiting PROVE v \notin Startable
    <2>1. PICK i \in Depths : stack[i].task = v
      BY <1>1 DEF PathInv
    <2>2. t \in Reached(Needs, v)
      BY <2>1, <1>1, NextIs
    <2>3. QED BY <2>2, <1>5, StartableOn
  <1>7. SelectInv'
    BY <1>2, <1>3, <1>5, <1>6 DEF SelectInv
  <1>8. PathInv'
    <2>1. roots' \subseteq TaskIDs
      BY <1>1, <1>3 DEF PathInv, RootsLeft
    <2>2. Depths' = {} /\ stack' \in Seq(Frames)
      BY <1>3 DEF Depths
    <2>3. QED BY <2>1, <2>2, <1>3 DEF PathInv
  <1>9. CoveredInv' /\ DoneInv'
    BY <1>1, <1>2, <1>3 DEF CoveredInv, DoneInv, RootsLeft
  <1>10. QED BY <1>7, <1>8, <1>9 DEF SearchInv

-----------------------------------------------------------------------------
(* The invariant.                                                          *)

Configured ==
  /\ phase \in {"check", "rejected", "cycles", "select", "run"}
  /\ deps \subseteq Dependencies /\ cons \subseteq Consumes /\ autoStart \subseteq TaskIDs
  /\ phase \in {"cycles", "select", "run"} => References

StartupInv ==
  /\ Configured
  /\ phase = "cycles" => SearchInv /\ refused = {}
  /\ phase = "select" => SearchInv /\ SelectInv
  /\ CyclesAreExact
  /\ SelectionIsExact

LEMMA ReferencesInside ==
  ASSUME Configured, phase \in {"cycles", "select", "run"} PROVE Inside
  BY StartupAssumption DEF Configured, References, Inside, Edges, Needs

LEMMA StartupStarts == StartupInit => StartupInv
  BY DEF StartupInit, StartupInv, Configured, CyclesAreExact, SelectionIsExact

(* What is left when both loops have ended.                                *)
LEMMA SearchEnds ==
  ASSUME SearchInv, stack = <<>>, roots = {}
  PROVE  visiting = {} /\ TaskIDs \subseteq visited \cup refused
  <1>1. Depths = {}
    BY DEF Depths
  <1>2. QED BY <1>1 DEF SearchInv, PathInv, CoveredInv

(* The selection ends with the tasks that can start.                       *)
LEMMA SelectedIsStartable ==
  ASSUME Configured, SearchInv, SelectInv, phase = "select", stack = <<>>, roots = {}
  PROVE  visited = Startable
  <1>1. Edges = Needs /\ DoneInv
    BY DEF Edges, SearchInv
  <1>2. ASSUME NEW t \in visited PROVE t \in Startable
    <2>1. Reached(Needs, t) \subseteq visited
      BY <1>1, ReachedWithin DEF DoneInv
    <2>2. QED BY <2>1, <1>1 DEF Startable, SelectInv, DoneInv
  <1>3. ASSUME NEW t \in Startable PROVE t \in visited
    BY SearchEnds DEF SelectInv, Startable, Configured
  <1>4. QED BY <1>2, <1>3

LEMMA StartupGoesOn == StartupInv /\ [StartupNext]_startupVars => StartupInv'
  <1> SUFFICES ASSUME StartupInv, [StartupNext]_startupVars PROVE StartupInv'
    OBVIOUS
  <1>0. ASSUME UNCHANGED <<deps, cons, autoStart>>
        PROVE  /\ References' = References /\ Needs' = Needs
               /\ Startable' = Startable
               /\ (phase' = phase => Edges' = Edges)
    BY <1>0 DEF References, Needs, Startable, Edges, Reached, To
  <1>1. CASE Check
    <2>1. UNCHANGED <<deps, cons, autoStart>> /\ cycle' = cycle /\ NewSearch /\ phase = "check"
          /\ phase' = IF References THEN "cycles" ELSE "rejected"
      BY <1>1 DEF Check, config
    <2>2. Configured'
      BY <2>1, <1>0 DEF StartupInv, Configured
    <2>3. SearchInv' /\ refused' = {}
      BY <2>1, SearchStarts DEF NewSearch
    <2>4. CyclesAreExact' /\ SelectionIsExact'
      BY <2>1, <1>0 DEF CyclesAreExact, SelectionIsExact
    <2>5. QED BY <2>1, <2>2, <2>3, <2>4 DEF StartupInv
  <1>2. CASE Accept
    <2>1. /\ UNCHANGED <<deps, cons, autoStart>> /\ NewSearch
          /\ phase = "cycles" /\ phase' = "select" /\ stack = <<>> /\ roots = {}
      BY <1>2 DEF Accept, config
    <2>2. Configured'
      BY <2>1, <1>0 DEF StartupInv, Configured
    <2>3. SearchInv'
      BY <2>1, SearchStarts
    <2>4. SelectInv'
      BY <2>1 DEF SelectInv, NewSearch
    <2>5. \A t \in TaskIDs : t \in visited
      BY <2>1, SearchEnds DEF StartupInv
    <2>6. \A t \in TaskIDs : t \notin Reached(cons, t)
      BY <2>1, <2>5 DEF StartupInv, SearchInv, DoneInv, Edges
    <2>7. CyclesAreExact' /\ SelectionIsExact'
      BY <2>1, <2>6 DEF CyclesAreExact, SelectionIsExact
    <2>8. QED BY <2>1, <2>2, <2>3, <2>4, <2>7 DEF StartupInv
  <1>3. CASE LeaveConsumer
    <2>1. /\ UNCHANGED <<phase, deps, cons, autoStart, cycle>> /\ phase = "cycles"
          /\ Leave /\ refused' = refused
      BY <1>3 DEF LeaveConsumer, config, Leave
    <2>2. Configured'
      BY <2>1, <1>0 DEF StartupInv, Configured
    <2>3. SearchInv'
      BY <2>1, <1>0, LeaveKeeps DEF StartupInv
    <2>4. CyclesAreExact' /\ SelectionIsExact'
      BY <2>1 DEF CyclesAreExact, SelectionIsExact
    <2>5. QED BY <2>1, <2>2, <2>3, <2>4 DEF StartupInv
  <1>4. CASE LeaveSelected
    <2>1. /\ UNCHANGED <<phase, deps, cons, autoStart, cycle>> /\ phase = "select"
          /\ Leave /\ refused' = refused
      BY <1>4 DEF LeaveSelected, config, Leave
    <2>2. Configured'
      BY <2>1, <1>0 DEF StartupInv, Configured
    <2>3. SearchInv'
      BY <2>1, <1>0, LeaveKeeps DEF StartupInv
    <2>4. SelectInv'
      <3>1. SearchInv /\ SelectInv
        BY <2>1 DEF StartupInv
      <3>2. stack # <<>> /\ Len(stack) \in Depths
        BY <3>1, <2>1 DEF SearchInv, PathInv, Depths, Leave
      <3>3. Top.task \in visiting
        BY <3>1, <3>2 DEF SearchInv, PathInv, Top
      <3>4. visited' = visited \cup {Top.task} /\ visiting' = visiting \ {Top.task}
        BY <2>1 DEF Leave
      <3>5. QED BY <3>1, <3>3, <3>4, <2>1, <1>0 DEF SelectInv
    <2>5. CyclesAreExact' /\ SelectionIsExact'
      BY <2>1, <1>0 DEF CyclesAreExact, SelectionIsExact, StartupInv
    <2>6. QED BY <2>1, <2>2, <2>3, <2>4, <2>5 DEF StartupInv
  <1>5. CASE ScheduleAllTasks
    <2>1. /\ UNCHANGED <<deps, cons, autoStart, cycle, visited>>
          /\ phase = "select" /\ phase' = "run" /\ stack = <<>> /\ roots = {}
      BY <1>5 DEF ScheduleAllTasks, config, search
    <2>2. Configured'
      BY <2>1, <1>0 DEF StartupInv, Configured
    <2>3. visited' = Startable'
      BY <2>1, <1>0, SelectedIsStartable DEF StartupInv
    <2>4. CyclesAreExact' /\ SelectionIsExact'
      BY <2>1, <2>3 DEF CyclesAreExact, SelectionIsExact, StartupInv, Startable, Needs
    <2>5. QED BY <2>1, <2>2, <2>4 DEF StartupInv
  <1>6. ASSUME NEW t \in TaskIDs, VisitConsume(t) PROVE StartupInv'
    <2>1. UNCHANGED <<deps, cons, autoStart>> /\ phase = "cycles" /\ t \in Nexts
      BY <1>6 DEF VisitConsume, config
    <2>2. SearchInv /\ PathInv /\ refused = {} /\ Inside /\ Edges = cons
      BY <2>1, ReferencesInside DEF StartupInv, SearchInv, Edges
    <2>3. CASE t \in visiting /\ phase' = "rejected" /\ cycle' = CyclePath(t) /\ UNCHANGED search
      <3>1. Configured'
        BY <2>1, <2>3, <1>0 DEF StartupInv, Configured
      <3>2. IsCycle(CyclePath(t))
        BY <2>1, <2>2, <2>3, ReportedIsCycle
      <3>3. IsCycle(cycle)'
        BY <3>2, <2>1, <2>3 DEF IsCycle
      <3>4. CyclesAreExact' /\ SelectionIsExact'
        BY <3>3, <2>3 DEF CyclesAreExact, SelectionIsExact
      <3>5. QED BY <3>1, <3>4, <2>3 DEF StartupInv
    <2>4. CASE t \in visited \ visiting /\ Skip(t) /\ UNCHANGED <<phase, cycle>>
      <3>1. Configured'
        BY <2>1, <2>4, <1>0 DEF StartupInv, Configured
      <3>2. SearchInv'
        BY <2>1, <2>2, <2>4, <1>0, SkipKeeps
      <3>3. refused' = {}
        BY <2>2, <2>4 DEF Skip
      <3>4. CyclesAreExact' /\ SelectionIsExact'
        BY <2>1, <2>4 DEF CyclesAreExact, SelectionIsExact
      <3>5. QED BY <3>1, <3>2, <3>3, <3>4, <2>1, <2>4 DEF StartupInv
    <2>5. CASE t \notin visited \cup visiting /\ Descend(t, cons) /\ UNCHANGED <<phase, cycle>>
      <3>1. Configured'
        BY <2>1, <2>5, <1>0 DEF StartupInv, Configured
      <3>2. SearchInv'
        BY <2>1, <2>2, <2>5, <1>0, DescendKeeps
      <3>3. refused' = {}
        BY <2>2, <2>5 DEF Descend
      <3>4. CyclesAreExact' /\ SelectionIsExact'
        BY <2>1, <2>5 DEF CyclesAreExact, SelectionIsExact
      <3>5. QED BY <3>1, <3>2, <3>3, <3>4, <2>1, <2>5 DEF StartupInv
    <2>6. QED BY <1>6, <2>3, <2>4, <2>5 DEF VisitConsume
  <1>7. ASSUME NEW t \in TaskIDs, VisitNeed(t) PROVE StartupInv'
    <2>1. UNCHANGED <<phase, deps, cons, autoStart, cycle>> /\ phase = "select" /\ t \in Nexts
      BY <1>7 DEF VisitNeed, config
    <2>2. SearchInv /\ SelectInv /\ Inside /\ Edges = Needs /\ Edges' = Edges
      BY <2>1, <1>0, ReferencesInside DEF StartupInv, Edges
    <2>3. Configured' /\ CyclesAreExact' /\ SelectionIsExact'
      BY <2>1, <1>0 DEF StartupInv, Configured, CyclesAreExact, SelectionIsExact
    <2>4. CASE Verdict(t) = "fine" /\ Skip(t)
      <3>1. t \in visited
        BY <2>4 DEF Verdict
      <3>2. SearchInv'
        BY <2>2, <2>4, <3>1, SkipKeeps
      <3>3. SelectInv'
        BY <2>1, <2>2, <2>4, <1>0 DEF Skip, SelectInv
      <3>4. QED BY <2>1, <2>3, <3>2, <3>3 DEF StartupInv
    <2>5. CASE Verdict(t) = "refused" /\ Refuse(t)
      <3>1. SearchInv' /\ SelectInv'
        BY <2>1, <2>2, <2>5, RefuseKeeps DEF config
      <3>2. QED BY <2>1, <2>3, <3>1 DEF StartupInv
    <2>6. CASE Verdict(t) = "open" /\ Descend(t, Needs)
      <3>1. t \notin visited \cup visiting /\ t \in autoStart
        BY <2>6 DEF Verdict
      <3>2. Descend(t, Edges)
        BY <2>2, <2>6 DEF Descend
      <3>3. SearchInv'
        BY <2>1, <2>2, <3>1, <3>2, DescendKeeps
      <3>4. SelectInv'
        BY <2>1, <2>2, <2>6, <3>1, <1>0 DEF Descend, SelectInv
      <3>5. QED BY <2>1, <2>3, <3>3, <3>4 DEF StartupInv
    <2>7. QED BY <1>7, <2>4, <2>5, <2>6 DEF VisitNeed
  <1>8. ASSUME UNCHANGED <<phase, deps, cons, autoStart, cycle, visited>>,
               UNCHANGED <<roots, stack, visiting, refused>>
        PROVE  StartupInv'
    <2>1. Configured' /\ SelectionIsExact'
      BY <1>8, <1>0 DEF StartupInv, Configured, SelectionIsExact
    <2>2. IsCycle(cycle)' <=> IsCycle(cycle)
      BY <1>8 DEF IsCycle
    <2>3. CyclesAreExact'
      BY <1>8, <1>0, <2>2 DEF StartupInv, CyclesAreExact
    <2>4. (SearchInv' <=> SearchInv) /\ (SelectInv' <=> SelectInv)
      BY <1>8, <1>0 DEF SearchInv, SelectInv, PathInv, DoneInv, CoveredInv, Depths
    <2>5. QED BY <2>1, <2>3, <2>4, <1>8 DEF StartupInv
  <1>9. ASSUME NEW t \in TaskIDs, StartTask(t) \/ FinishBuild(t) PROVE StartupInv'
    BY <1>8, <1>9 DEF StartTask, FinishBuild, config, search
  <1>10. CASE UNCHANGED startupVars
    BY <1>8, <1>10 DEF startupVars, config, search
  <1>11. QED BY <1>1, <1>2, <1>3, <1>4, <1>5, <1>6, <1>7, <1>9, <1>10 DEF StartupNext

(***************************************************************************)
(* validateConsumeCycles and shouldScheduleInitialTask keep their marks,   *)
(* their path and what they have left in step, whatever is configured.     *)
(***************************************************************************)
THEOREM StartupInvHolds == StartupSpec => []StartupInv
  BY StartupStarts, StartupGoesOn, PTL DEF StartupSpec

(***************************************************************************)
(* For every configuration whose references are right: validateConsumes    *)
(* rejects it only with a path that is a cycle of consumes, and goes on    *)
(* only when there is none.                                                *)
(***************************************************************************)
THEOREM CyclesExact == StartupSpec => []CyclesAreExact
  <1>1. StartupInv => CyclesAreExact
    BY DEF StartupInv
  <1>2. QED BY <1>1, StartupInvHolds, PTL

(***************************************************************************)
(* For every configuration, cycles of dependencies included, and every     *)
(* order in which its maps are gone through: what scheduleAllTasks selects *)
(* is what can start.                                                      *)
(***************************************************************************)
THEOREM SelectionExact == StartupSpec => []SelectionIsExact
  <1>1. StartupInv => SelectionIsExact
    BY DEF StartupInv
  <1>2. QED BY <1>1, StartupInvHolds, PTL

-----------------------------------------------------------------------------
(***************************************************************************)
(*                             ChangeFilter                                *)
(*                                                                         *)
(* After any part of the directories, a task was found when one of its     *)
(* changes is in that part, and its time is that of the newest of them.    *)
(***************************************************************************)

(* What findTasksAffectedByFileChanges has seen of the changes of a task.  *)
Looked(t) == {f \in Changed \cap Includes[t] : DirOf[f] \notin left}

FilterTypes ==
  /\ batch \in [Files -> 0 .. MaxTime] /\ started \in [Tasks -> 0 .. MaxTime]
  /\ time \in [Tasks -> 0 .. MaxTime] /\ found \subseteq Tasks

(* A task is found when a change of its was seen, with the newest of them. *)
Merged(t) ==
  /\ t \in found <=> Looked(t) # {}
  /\ time[t] = 0 \/ \E f \in Looked(t) : time[t] = batch[f]
  /\ \A f \in Looked(t) : batch[f] <= time[t]

FilterInv ==
  /\ FilterTypes
  /\ \A t \in Tasks : Merged(t)
  /\ kept.done => ~MoreToFind /\ kept.tasks = {t \in found : started[t] <= time[t]}

(* Numbers up to a bound have a greatest.                                  *)
LEMMA Greatest ==
  ASSUME NEW N \in Nat, NEW S \in SUBSET (0 .. N), S # {}
  PROVE  \E n \in S : \A m \in S : m <= n
  <1> DEFINE T == {k \in Nat : \E n \in S : k = N - n}
             R == OpToRel(<, Nat)
  <1>1. T \subseteq Nat /\ T # {}
    <2>1. PICK n \in S : n \in 0 .. N
      OBVIOUS
    <2>2. N - n \in T
      BY <2>1
    <2>3. QED BY <2>2
  <1>2. \A x, y \in Nat : <<x, y>> \in R <=> x < y
    BY DEF OpToRel
  <1>3. IsWellFoundedOn(R, Nat)
    BY NatLessThanWellFounded
  <1> HIDE DEF T, R
  <1>4. PICK x \in T : \A y \in T : ~ (<<y, x>> \in R)
    BY <1>1, <1>3, WFMin
  <1>5. \A y \in T : ~ (y < x)
    BY <1>1, <1>2, <1>4
  <1>6. PICK n \in S : x = N - n
    BY <1>4 DEF T
  <1>7. \A m \in S : m <= n
    <2> TAKE m \in S
    <2>1. N - m \in T /\ N - m \in Nat
      BY DEF T
    <2>2. ~ (N - m < N - n)
      BY <1>5, <1>6, <2>1
    <2>3. QED BY <2>2
  <1>8. QED BY <1>7

(* Newest is the latest of a time and the modification times of files.     *)
LEMMA NewestIs ==
  ASSUME FilterTypes, NEW S \in SUBSET Files, NEW t \in 0 .. MaxTime
  PROVE  /\ Newest(S, t) \in 0 .. MaxTime
         /\ Newest(S, t) = t \/ \E f \in S : Newest(S, t) = batch[f]
         /\ t <= Newest(S, t) /\ \A f \in S : batch[f] <= Newest(S, t)
  <1> DEFINE times == {t} \cup {batch[f] : f \in S}
             Is(n) == /\ n = t \/ \E f \in S : n = batch[f]
                      /\ t <= n /\ \A f \in S : batch[f] <= n
  <1>1. times \in SUBSET (0 .. MaxTime) /\ times # {}
    BY DEF FilterTypes
  <1>2. PICK n \in times : \A m \in times : m <= n
    BY <1>1, Greatest, FilterAssumption
  <1>3. n \in 0 .. MaxTime /\ Is(n)
    BY <1>1, <1>2
  <1>4. Newest(S, t) = CHOOSE k \in 0 .. MaxTime : Is(k)
    BY DEF Newest
  <1> HIDE DEF Is
  <1>5. Newest(S, t) \in 0 .. MaxTime /\ Is(Newest(S, t))
    BY <1>3, <1>4
  <1>6. QED BY <1>5 DEF Is

LEMMA FilterStarts == FilterInit => FilterInv
  <1> SUFFICES ASSUME FilterInit PROVE FilterInv
    OBVIOUS
  <1>1. FilterTypes
    BY FilterAssumption DEF FilterInit, FilterTypes
  <1>2. ASSUME NEW t \in Tasks PROVE Looked(t) = {}
    BY DEF FilterInit, Looked
  <1>3. \A t \in Tasks : Merged(t)
    BY <1>2 DEF FilterInit, Merged
  <1>4. QED BY <1>1, <1>3 DEF FilterInv, FilterInit

LEMMA FilterGoesOn ==
  ASSUME FilterInv, [FilterNext]_filterVars
  PROVE  FilterInv'
  <1>1. CASE UNCHANGED filterVars
    BY <1>1 DEF filterVars, FilterInv, FilterTypes, Merged, Looked, Changed, MoreToFind
  <1>2. CASE FilterRunningTasks
    BY <1>2 DEF FilterRunningTasks, FilterInv, FilterTypes, Merged, Looked, Changed, MoreToFind
  <1>3. ASSUME NEW d \in left, ProcessEventTasks(d) PROVE FilterInv'
    <2>1. UNCHANGED <<batch, started, kept>> /\ MoreToFind /\ left' = left \ {d}
      BY <1>3 DEF ProcessEventTasks
    <2>2. ~kept.done
      BY <2>1 DEF FilterInv
    <2>3. ASSUME NEW t \in Tasks
          PROVE  /\ Newest(Matches(t, d), time[t]) \in 0 .. MaxTime
                 /\ time'[t] = Newest(Matches(t, d), time[t])
                 /\ Merged(t)'
      <3>1. Matches(t, d) \in SUBSET Files /\ time[t] \in 0 .. MaxTime
        BY DEF Matches, Changed, FilterInv, FilterTypes
      <3>2. time'[t] = Newest(Matches(t, d), time[t])
        BY <1>3 DEF ProcessEventTasks
      <3>3. Looked(t)' = Looked(t) \cup Matches(t, d)
        BY <2>1 DEF Looked, Matches, Changed
      <3>4. t \in found' <=> t \in found \/ Matches(t, d) # {}
        BY <1>3 DEF ProcessEventTasks
      <3>5. /\ time'[t] \in 0 .. MaxTime
            /\ time'[t] = time[t] \/ \E f \in Matches(t, d) : time'[t] = batch[f]
            /\ time[t] <= time'[t] /\ \A f \in Matches(t, d) : batch[f] <= time'[t]
        BY <3>1, <3>2, NewestIs DEF FilterInv
      <3>6. Merged(t) /\ \A f \in Looked(t) : batch[f] \in 0 .. MaxTime
        BY DEF FilterInv, FilterTypes, Looked, Changed
      <3>7. \A f \in Looked(t) : batch[f] <= time'[t]
        BY <3>1, <3>5, <3>6 DEF Merged
      <3>8. Merged(t)'
        BY <2>1, <3>3, <3>4, <3>5, <3>6, <3>7 DEF Merged
      <3>9. QED BY <3>2, <3>5, <3>8
    <2>4. FilterTypes'
      <3>1. time' = [t \in Tasks |-> Newest(Matches(t, d), time[t])]
            /\ found' = found \cup {t \in Tasks : Matches(t, d) # {}}
        BY <1>3 DEF ProcessEventTasks
      <3>2. QED BY <2>1, <2>3, <3>1 DEF FilterInv, FilterTypes
    <2>5. QED BY <2>1, <2>2, <2>3, <2>4 DEF FilterInv
  <1>4. QED BY <1>1, <1>2, <1>3 DEF FilterNext

(***************************************************************************)
(* findTasksAffectedByFileChanges merges right, for any number of tasks,   *)
(* files and directories and any order of them.                            *)
(***************************************************************************)
THEOREM FilterInvHolds == FilterSpec => []FilterInv
  BY FilterStarts, FilterGoesOn, PTL DEF FilterSpec

(***************************************************************************)
(* A changed file that the task includes and that is not older than its    *)
(* last start.                                                             *)
(***************************************************************************)
ChangedSinceStart(t) == \E f \in Changed \cap Includes[t] : started[t] <= batch[f]

LEMMA KeptHaveChanged ==
  ASSUME FilterInv, kept.done, NEW t \in kept.tasks
  PROVE  t \in Tasks /\ ChangedSinceStart(t)
  <1>1. t \in Tasks /\ t \in found /\ started[t] <= time[t] /\ Merged(t)
    BY DEF FilterInv, FilterTypes
  <1>2. PICK f \in Looked(t) : TRUE
    BY <1>1 DEF Merged
  <1>3. batch[f] # 0 /\ batch[f] \in Nat /\ time[t] \in Nat /\ batch[f] <= time[t]
    BY <1>1, <1>2 DEF Merged, Looked, Changed, FilterInv, FilterTypes
  <1>4. time[t] # 0
    BY <1>3
  <1>5. PICK g \in Looked(t) : time[t] = batch[g]
    BY <1>1, <1>4 DEF Merged
  <1>6. QED BY <1>1, <1>5 DEF Looked, ChangedSinceStart

(***************************************************************************)
(* One half of FilterIsExact, for every configuration: onFileChange        *)
(* schedules no task without such a file.                                  *)
(***************************************************************************)
THEOREM NoneWithoutChange ==
  FilterSpec => [](kept.done => \A t \in kept.tasks : ChangedSinceStart(t))
  <1>1. FilterInv => (kept.done => \A t \in kept.tasks : ChangedSinceStart(t))
    BY KeptHaveChanged
  <1>2. QED BY <1>1, FilterInvHolds, PTL

(***************************************************************************)
(* The other half, for every configuration, when the loop has gone through *)
(* all directories.  It ends as soon as every task has been found, and     *)
(* newer changes in the directories that are left are not merged: a task   *)
(* that was started after the older ones may then be missing.              *)
(***************************************************************************)
THEOREM ExactAtTheEnd == FilterSpec => [](left = {} => FilterIsExact)
  <1>1. FilterInv => (left = {} => FilterIsExact)
    <2> SUFFICES ASSUME FilterInv, kept.done, left = {}
                 PROVE  kept.tasks = {t \in Tasks : ChangedSinceStart(t)}
      BY DEF FilterIsExact, ChangedSinceStart
    <2>1. ASSUME NEW t \in Tasks, ChangedSinceStart(t) PROVE t \in kept.tasks
      <3>1. PICK f \in Changed \cap Includes[t] : started[t] <= batch[f]
        BY <2>1 DEF ChangedSinceStart
      <3>2. f \in Looked(t)
        BY <3>1 DEF Looked
      <3>3. t \in found /\ batch[f] <= time[t]
        BY <3>2 DEF FilterInv, Merged
      <3>4. started[t] \in Nat /\ batch[f] \in Nat /\ time[t] \in Nat
        BY <3>1 DEF FilterInv, FilterTypes, Changed
      <3>5. started[t] <= time[t]
        BY <3>1, <3>3, <3>4
      <3>6. QED BY <3>3, <3>5 DEF FilterInv
    <2>2. QED BY <2>1, KeptHaveChanged
  <1>2. QED BY <1>1, FilterInvHolds, PTL

(***************************************************************************)
(* With a task that includes no file, as one that only builds at the start *)
(* has none, the loop never ends early, and what is scheduled is exact.    *)
(***************************************************************************)
THEOREM FilterExact ==
  ASSUME \E t \in Tasks : Includes[t] = {}
  PROVE  FilterSpec => []FilterIsExact
  <1>1. FilterInv => (~ kept.done \/ left = {})
    <2> SUFFICES ASSUME FilterInv, kept.done PROVE left = {}
      OBVIOUS
    <2>1. PICK u \in Tasks : Includes[u] = {}
      OBVIOUS
    <2>2. u \notin found
      BY <2>1 DEF FilterInv, Merged, Looked
    <2>3. QED BY <2>1, <2>2 DEF FilterInv, MoreToFind
  <1>2. (~ kept.done) => FilterIsExact
    BY DEF FilterIsExact
  <1>3. QED BY <1>1, <1>2, FilterInvHolds, ExactAtTheEnd, PTL

-----------------------------------------------------------------------------
(***************************************************************************)
(*                               CleanUp                                   *)
(*                                                                         *)
(* The newest output survives, for any number of goroutines that clean up  *)
(* at a time and of outputs, each of which is written once.                *)
(*                                                                         *)
(* The file a goroutine keeps may be deleted by another one before it      *)
(* deletes the rest of its list.  But the other one deletes it for a       *)
(* better one, and "better" is an order: whatever is on a list to be       *)
(* deleted, or has been seen in a walk and is gone, has a better file      *)
(* that is still there.                                                    *)
(***************************************************************************)

(* What RemoveNewestFile prefers: newer, or as new and earlier in the walk *)
Better(g, f) ==
  \/ written[g] > written[f]
  \/ written[g] = written[f] /\ Order[g] < Order[f]

Outdone(f) == \E g \in exists : Better(g, f)

CleanUpTypes ==
  /\ written \in [Outputs -> Nat] /\ clock \in Nat \ {0}
  /\ exists \subseteq Outputs /\ \A f \in exists : written[f] > 0
  /\ cleaner \in [Cleaners -> [at : {"build", "walk", "delete", "done"},
                               left : SUBSET Outputs, found : [Outputs -> Nat]]]

(* What goroutine c has found is as it was, and may be gone for a better;  *)
(* what it is going to delete is outdone.                                  *)
FoundInv(c) == \A f \in Outputs : cleaner[c].found[f] > 0 =>
  cleaner[c].found[f] = written[f] /\ (f \in exists \/ Outdone(f))
DoomedInv(c) == cleaner[c].at = "delete" =>
  \A f \in cleaner[c].left : written[f] > 0 /\ Outdone(f)

KeepInv == CleanUpTypes /\ \A c \in Cleaners : FoundInv(c) /\ DoomedInv(c)

LEMMA BetterIsTransitive ==
  ASSUME CleanUpTypes, NEW f \in Outputs, NEW g \in Outputs, NEW h \in Outputs,
         Better(h, g), Better(g, f)
  PROVE  Better(h, f)
  BY CleanUpAssumption DEF CleanUpTypes, Better

LEMMA InitKeep == CleanUpInit => KeepInv
  BY DEF CleanUpInit, KeepInv, CleanUpTypes, FoundInv, DoomedInv, At, NotFound

(* A write neither hides a better file nor touches what has been found,    *)
(* because the file it makes is new.                                       *)
LEMMA WriteKeeps ==
  ASSUME ~InPlace, KeepInv, NEW f \in Outputs, WriteOutput(f)
  PROVE  KeepInv'
  <1> USE DEF KeepInv, WriteOutput
  <1>1. CleanUpTypes'
    BY DEF CleanUpTypes
  <1>2. \A g, h \in Outputs : g # f /\ h # f /\ Better(g, h) => Better(g, h)'
    BY DEF CleanUpTypes, Better
  <1>3. \A h \in Outputs : h # f /\ Outdone(h) => Outdone(h)'
    BY <1>2 DEF CleanUpTypes, Outdone
  <1>4. ASSUME NEW c \in Cleaners PROVE FoundInv(c)' /\ DoomedInv(c)'
    <2>1. cleaner[c].found[f] = 0 /\ (cleaner[c].at = "delete" => f \notin cleaner[c].left)
      BY DEF CleanUpTypes, FoundInv, DoomedInv
    <2>2. FoundInv(c)'
      BY <2>1, <1>3 DEF CleanUpTypes, FoundInv
    <2>3. DoomedInv(c)'
      BY <2>1, <1>3 DEF CleanUpTypes, DoomedInv
    <2>4. QED BY <2>2, <2>3
  <1>5. QED BY <1>1, <1>4

(* What was outdone by the deleted file is outdone by what outdoes that.   *)
LEMMA DeletionIsOutdone ==
  ASSUME CleanUpTypes, NEW f \in Outputs, Outdone(f), exists' = exists \ {f}, UNCHANGED written,
         NEW h \in Outputs, Outdone(h)
  PROVE  Outdone(h)'
  <1>1. PICK g \in exists : Better(g, h)
    BY DEF Outdone
  <1>2. PICK e \in exists : Better(e, f)
    BY DEF Outdone
  <1>3. e # f
    BY <1>2, CleanUpAssumption DEF Better, CleanUpTypes
  <1>4. CASE g # f
    BY <1>1, <1>4 DEF Outdone, Better
  <1>5. CASE g = f
    BY <1>1, <1>2, <1>3, <1>5, BetterIsTransitive DEF CleanUpTypes, Outdone, Better
  <1>6. QED BY <1>4, <1>5

(* What is on a list to be deleted is outdone at that time.                *)
LEMMA DoomedIsOutdone ==
  ASSUME KeepInv, NEW c \in Cleaners, cleaner[c].at = "delete", NEW f \in cleaner[c].left
  PROVE  f \in Outputs /\ written[f] > 0 /\ Outdone(f)
  BY DEF KeepInv, CleanUpTypes, DoomedInv

LEMMA DeleteKeeps ==
  ASSUME KeepInv, NEW c \in Cleaners, DeleteNext(c)
  PROVE  KeepInv'
  <1>1. PICK f \in Outputs :
          /\ f \in cleaner[c].left /\ exists' = exists \ {f}
          /\ LET rest == cleaner[c].left \ {f} IN
             Go(c, At(IF rest = {} THEN "done" ELSE "delete", rest, NotFound))
    BY DEF DeleteNext, IsFirst
  <1>2. cleaner[c].at = "delete" /\ UNCHANGED <<written, clock>>
    BY DEF DeleteNext
  <1>3. Outdone(f)
    BY <1>1, <1>2, DoomedIsOutdone
  <1>4. \A h \in Outputs : Outdone(h) => Outdone(h)'
    BY <1>1, <1>2, <1>3, DeletionIsOutdone DEF KeepInv
  <1>5. CleanUpTypes'
    BY <1>1, <1>2 DEF KeepInv, CleanUpTypes, Go, At, NotFound
  <1>6. ASSUME NEW d \in Cleaners PROVE FoundInv(d)' /\ DoomedInv(d)'
    <2>1. CASE d = c
      BY <2>1, <1>1, <1>2, <1>4, DoomedIsOutdone
         DEF KeepInv, CleanUpTypes, FoundInv, DoomedInv, Go, At, NotFound
    <2>2. CASE d # c
      <3>1. UNCHANGED cleaner[d]
        BY <2>2, <1>1 DEF KeepInv, CleanUpTypes, Go
      <3>2. FoundInv(d)'
        BY <3>1, <1>1, <1>2, <1>3, <1>4 DEF KeepInv, CleanUpTypes, FoundInv
      <3>3. DoomedInv(d)'
        BY <3>1, <1>2, <1>4 DEF KeepInv, CleanUpTypes, DoomedInv
      <3>4. QED BY <3>2, <3>3
    <2>3. QED BY <2>1, <2>2
  <1>7. QED BY <1>5, <1>6 DEF KeepInv

(* A goroutine that only looks changes nothing for the others.             *)
LEMMA OthersKeep ==
  ASSUME KeepInv, NEW c \in Cleaners, UNCHANGED <<written, exists, clock>>,
         NEW step \in [at : {"build", "walk", "delete", "done"},
                       left : SUBSET Outputs, found : [Outputs -> Nat]],
         Go(c, step),
         \A f \in Outputs : step.found[f] > 0 =>
           step.found[f] = written[f] /\ (f \in exists \/ Outdone(f)),
         step.at = "delete" => \A f \in step.left : written[f] > 0 /\ Outdone(f)
  PROVE  KeepInv'
  BY DEF KeepInv, CleanUpTypes, FoundInv, DoomedInv, Outdone, Better, Go

LEMMA ReadKeeps ==
  ASSUME KeepInv, NEW c \in Cleaners, ReadNames(c)
  PROVE  KeepInv'
  <1>1. At("walk", exists, NotFound) \in
          [at : {"build", "walk", "delete", "done"}, left : SUBSET Outputs, found : [Outputs -> Nat]]
    BY DEF KeepInv, CleanUpTypes, At, NotFound
  <1>2. QED BY <1>1, OthersKeep DEF ReadNames, At, NotFound

LEMMA VisitKeeps ==
  ASSUME KeepInv, NEW c \in Cleaners, VisitFile(c)
  PROVE  KeepInv'
  <1> DEFINE here == cleaner[c]
  <1> DEFINE Steps == [at : {"build", "walk", "delete", "done"},
                       left : SUBSET Outputs, found : [Outputs -> Nat]]
  <1>1. here \in Steps /\ FoundInv(c) /\ written \in [Outputs -> Nat]
    BY DEF KeepInv, CleanUpTypes
  <1>2. PICK f \in Outputs :
          Go(c, IF f \in exists
                THEN At("walk", here.left \ {f}, [here.found EXCEPT ![f] = written[f]])
                ELSE At("done", {}, NotFound))
    BY DEF VisitFile
  <1>3. UNCHANGED <<written, exists, clock>>
    BY DEF VisitFile
  <1>4. CASE f \in exists
    <2> DEFINE step == At("walk", here.left \ {f}, [here.found EXCEPT ![f] = written[f]])
    <2>1. step \in Steps /\ step.at = "walk"
      BY <1>1 DEF At
    <2>2. ASSUME NEW g \in Outputs, step.found[g] > 0
          PROVE  step.found[g] = written[g] /\ (g \in exists \/ Outdone(g))
      BY <2>2, <1>1, <1>4 DEF FoundInv, At
    <2>3. Go(c, step)
      BY <1>2, <1>4
    <2> HIDE DEF step
    <2>4. QED BY <2>1, <2>2, <2>3, <1>3, OthersKeep
  <1>5. CASE f \notin exists
    <2>1. At("done", {}, NotFound) \in Steps
      BY DEF At, NotFound
    <2>2. QED BY <2>1, <1>2, <1>3, <1>5, OthersKeep DEF At, NotFound
  <1>6. QED BY <1>4, <1>5

(* The newest of the files found is better than the others, and is there   *)
(* or outdone itself.                                                      *)
LEMMA ChoiceKeeps ==
  ASSUME KeepInv, NEW c \in Cleaners, KeepNewest(c)
  PROVE  KeepInv'
  <1> DEFINE seen == cleaner[c].found
  <1> DEFINE matched == {f \in Outputs : seen[f] > 0}
  <1> DEFINE Steps == [at : {"build", "walk", "delete", "done"},
                       left : SUBSET Outputs, found : [Outputs -> Nat]]
  <1>1. UNCHANGED <<written, exists, clock>> /\ CleanUpTypes /\ FoundInv(c)
    BY DEF KeepNewest, KeepInv
  <1>2. CASE Go(c, At("done", {}, NotFound))
    <2>1. At("done", {}, NotFound) \in Steps
      BY DEF At, NotFound
    <2>2. QED BY <2>1, <1>1, <1>2, OthersKeep DEF At, NotFound
  <1>3. CASE \E f \in Outputs :
              IsNewest(f, matched, seen) /\ Go(c, At("delete", matched \ {f}, NotFound))
    <2>1. PICK f \in Outputs :
            IsNewest(f, matched, seen) /\ Go(c, At("delete", matched \ {f}, NotFound))
      BY <1>3
    <2>2. ASSUME NEW h \in matched \ {f} PROVE written[h] > 0 /\ Outdone(h)
      <3>1. seen[h] = written[h] /\ seen[f] = written[f] /\ (f \in exists \/ Outdone(f))
            /\ h \in Outputs /\ written[h] > 0
        BY <2>1, <1>1 DEF IsNewest, FoundInv
      <3>2. Better(f, h)
        <4>1. seen[h] < seen[f] \/ (seen[h] = seen[f] /\ Order[f] <= Order[h])
          BY <2>1 DEF IsNewest
        <4>2. Order[f] # Order[h] /\ Order[f] \in Nat /\ Order[h] \in Nat
          BY <3>1, CleanUpAssumption
        <4>3. written[f] \in Nat /\ written[h] \in Nat
          BY <3>1, <1>1 DEF CleanUpTypes
        <4>4. written[h] < written[f] \/ (written[h] = written[f] /\ Order[f] <= Order[h])
          BY <4>1, <3>1
        <4>5. QED BY <4>2, <4>3, <4>4 DEF Better
      <3>3. CASE f \in exists
        BY <3>1, <3>2, <3>3 DEF Outdone
      <3>4. CASE Outdone(f)
        <4>1. PICK g \in exists : Better(g, f)
          BY <3>4 DEF Outdone
        <4>2. Better(g, h)
          BY <4>1, <3>1, <3>2, <1>1, BetterIsTransitive DEF CleanUpTypes
        <4>3. QED BY <4>1, <4>2, <3>1 DEF Outdone
      <3>5. QED BY <3>1, <3>3, <3>4
    <2> DEFINE step == At("delete", matched \ {f}, NotFound)
    <2>3. step \in Steps /\ step.left = matched \ {f} /\ step.found = NotFound
      BY DEF At, NotFound
    <2>4. Go(c, step)
      BY <2>1
    <2>5. \A g \in Outputs : NotFound[g] = 0
      BY DEF NotFound
    <2> HIDE DEF step
    <2>6. QED BY <2>2, <2>3, <2>4, <2>5, <1>1, OthersKeep
  <1>4. QED BY <1>2, <1>3 DEF KeepNewest

LEMMA StepKeep ==
  ASSUME ~InPlace, KeepInv, [CleanUpNext]_cleanUpVars
  PROVE  KeepInv'
  <1>1. CASE UNCHANGED cleanUpVars
    BY <1>1 DEF cleanUpVars, KeepInv, CleanUpTypes, FoundInv, DoomedInv, Outdone, Better
  <1>2. QED BY <1>1, WriteKeeps, ReadKeeps, VisitKeeps, ChoiceKeeps, DeleteKeeps DEF CleanUpNext

(* The invariant: what will be deleted is outdone by a file that is there. *)
THEOREM KeepInvHolds == ASSUME ~InPlace PROVE CleanUpSpec => []KeepInv
  BY InitKeep, StepKeep, PTL DEF CleanUpSpec

(***************************************************************************)
(* A file is deleted only while one that is as new stays: the latest       *)
(* output survives every interleaving of clean-ups.                        *)
(***************************************************************************)
THEOREM LatestIsKept == ASSUME ~InPlace PROVE CleanUpSpec => NewestSurvives
  <1> DEFINE Spared == \A f \in exists \ exists' : \E g \in exists' : written[g] >= written[f]
  <1>1. ASSUME KeepInv, CleanUpNext PROVE Spared
    <2>1. ASSUME NEW f \in Outputs, WriteOutput(f) PROVE Spared
      BY <2>1 DEF WriteOutput
    <2>2. ASSUME NEW c \in Cleaners, ReadNames(c) \/ VisitFile(c) \/ KeepNewest(c) PROVE Spared
      BY <2>2 DEF ReadNames, VisitFile, KeepNewest
    <2>3. ASSUME NEW c \in Cleaners, DeleteNext(c) PROVE Spared
      <3>1. PICK f \in Outputs : f \in cleaner[c].left /\ exists' = exists \ {f}
        BY <2>3 DEF DeleteNext, IsFirst
      <3>2. PICK g \in exists : Better(g, f)
        BY <3>1, <2>3, <1>1, DoomedIsOutdone DEF DeleteNext, Outdone
      <3>3. g # f /\ written[g] >= written[f]
        BY <3>1, <3>2, <1>1, CleanUpAssumption DEF Better, KeepInv, CleanUpTypes
      <3>4. QED BY <3>1, <3>2, <3>3
    <2>4. QED BY <1>1, <2>1, <2>2, <2>3 DEF CleanUpNext
  <1>2. ASSUME UNCHANGED cleanUpVars PROVE Spared
    BY <1>2 DEF cleanUpVars
  <1>3. KeepInv /\ [CleanUpNext]_cleanUpVars => [Spared]_cleanUpVars
    BY <1>1, <1>2
  <1>4. QED BY <1>3, KeepInvHolds, PTL DEF CleanUpSpec, NewestSurvives
==============================================================================
