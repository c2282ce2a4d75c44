--------------------------- MODULE DiscoveryProofs ---------------------------
(***************************************************************************)
(* What the watcher follows of the file tree, for any tree, patterns and   *)
(* number of changes.                                                      *)
(*                                                                         *)
(* Everything that exists and is not watched or noted yet is ahead of a    *)
(* walk, or below a directory whose creation fsnotify has still to report. *)
(* A change that no event reports would be in a directory that is not      *)
(* watched yet, and in a moved tree nothing changes before it is.          *)
(***************************************************************************)
EXTENDS Discovery, SequenceTheorems, TLAPS

-----------------------------------------------------------------------------
(* Paths.  A set with the parents of all that is in it has all above.      *)
LEMMA AboveLeast ==
  ASSUME NEW S \in SUBSET Paths, \A p \in S : Parent[p] \in S, NEW p \in S
  PROVE  Above[p] \subseteq S
  BY DEF Above, Upward

LEMMA AboveSteps ==
  ASSUME NEW p \in Paths
  PROVE  /\ p \in Above[p] /\ Above[p] \subseteq Paths
         /\ \A q \in Above[p] : Parent[q] \in Above[p]
         /\ \A q \in Above[p] : Above[q] \subseteq Above[p]
  <1>1. p \in Above[p] /\ Above[p] \subseteq Paths
    BY DEF Above, Upward
  <1>2. \A q \in Above[p] : Parent[q] \in Above[p]
    BY WatchPlanAssumption DEF Above, Upward, Paths
  <1>3. \A q \in Above[p] : Above[q] \subseteq Above[p]
    BY <1>1, <1>2, AboveLeast
  <1>4. QED BY <1>1, <1>2, <1>3

(* A path, and what is above its parent.                                   *)
LEMMA AboveParent ==
  ASSUME NEW p \in Paths
  PROVE  Parent[p] \in Dirs /\ Above[p] = {p} \cup Above[Parent[p]]
  <1>1. Parent[p] \in Dirs /\ Parent[p] \in Paths
    BY WatchPlanAssumption DEF Paths
  <1> DEFINE S == {p} \cup Above[Parent[p]]
  <1>2. S \in SUBSET Paths /\ Parent[p] \in S
    BY <1>1, AboveSteps
  <1>3. \A q \in S : Parent[q] \in S
    BY <1>1, <1>2, AboveSteps
  <1>4. Above[p] \subseteq S
    BY <1>2, <1>3, AboveLeast
  <1>5. S \subseteq Above[p]
    BY AboveSteps
  <1>6. QED BY <1>1, <1>4, <1>5

LEMMA AboveRoot == Root \in Paths /\ Above[Root] = {Root}
  <1>1. Root \in Paths /\ {Root} \in SUBSET Paths /\ \A p \in {Root} : Parent[p] \in {Root}
    BY WatchPlanAssumption DEF Paths
  <1>2. Above[Root] \subseteq {Root}
    BY <1>1, AboveLeast
  <1>3. QED BY <1>1, <1>2, AboveSteps

(* What is above a path are directories.                                   *)
LEMMA AboveDirs ==
  ASSUME NEW p \in Paths
  PROVE  /\ Above[p] \subseteq {p} \cup Dirs /\ Root \in Above[p]
         /\ p \in Dirs => Above[p] \subseteq Dirs
  <1>1. \A q \in {p} \cup Dirs : Parent[q] \in {p} \cup Dirs
    BY WatchPlanAssumption DEF Paths
  <1>2. Above[p] \subseteq {p} \cup Dirs
    BY <1>1, AboveLeast DEF Paths
  <1>3. QED BY <1>2, WatchPlanAssumption DEF Within

(* Below a directory the way to a path goes on with one in it.             *)
LEMMA NextBelow ==
  ASSUME NEW p \in Paths, NEW d \in Above[p], d # p
  PROVE  \E c \in Above[p] : Parent[c] = d /\ c # d
  <1> SUFFICES ASSUME \A c \in Above[p] : Parent[c] = d => c = d PROVE FALSE
    OBVIOUS
  <1> DEFINE S == {q \in Above[p] : d \in Above[q] /\ q # d}
  <1>1. p \in S /\ S \in SUBSET Paths
    BY AboveSteps
  <1>2. ASSUME NEW q \in S PROVE Parent[q] \in S
    <2>1. q \in Paths /\ q \in Above[p] /\ d \in Above[q] /\ q # d
      BY AboveSteps
    <2>2. d \in Above[Parent[q]]
      BY <2>1, AboveParent
    <2>3. Parent[q] \in Above[p]
      BY <2>1, AboveSteps
    <2>4. QED BY <2>1, <2>2, <2>3
  <1>3. Above[p] \subseteq S
    BY <1>1, <1>2, AboveLeast
  <1>4. QED BY <1>3

(* Of two directories above a path one is above the other.                 *)
LEMMA AboveChain ==
  ASSUME NEW p \in Paths, NEW d \in Above[p], NEW e \in Above[p]
  PROVE  d \in Above[e] \/ e \in Above[d]
  <1> DEFINE S == {q \in Above[p] : d \in Above[q] \/ q \in Above[d]}
  <1>1. p \in S /\ S \in SUBSET Paths
    BY AboveSteps
  <1>2. ASSUME NEW q \in S PROVE Parent[q] \in S
    <2>1. q \in Paths /\ q \in Above[p] /\ d \in Paths /\ Parent[q] \in Above[p]
      BY AboveSteps
    <2>2. CASE q \in Above[d]
      BY <2>1, <2>2, AboveSteps
    <2>3. CASE d \in Above[q] /\ d # q
      BY <2>1, <2>3, AboveParent
    <2>4. CASE d = q
      BY <2>1, <2>4, AboveSteps
    <2>5. QED BY <2>2, <2>3, <2>4
  <1>3. Above[p] \subseteq S
    BY <1>1, <1>2, AboveLeast
  <1>4. QED BY <1>3

(* A path has a nearest existing directory, as the working directory does. *)
LEMMA NearestExists ==
  ASSUME NEW d \in Paths, NEW T \in SUBSET Dirs, Root \in T
  PROVE  nearestExistingDirectory(d, T) \in Above[d] \cap T
  <1> DEFINE Has(q) == \E e \in Above[q] \cap T : Above[q] \cap T \subseteq Above[e]
             S == {q \in Paths : ~Has(q)}
  <1>1. ASSUME NEW q \in S PROVE Parent[q] \in S
    <2>1. q \in Paths /\ Parent[q] \in Paths /\ Above[q] = {q} \cup Above[Parent[q]]
      BY AboveParent DEF Paths
    <2>2. q \notin T
      <3>1. q \in Above[q] /\ Above[q] \cap T \subseteq Above[q]
        BY <2>1, AboveSteps
      <3>2. QED BY <3>1
    <2>3. Above[q] \cap T = Above[Parent[q]] \cap T
      BY <2>1, <2>2
    <2>4. QED BY <2>1, <2>3
  <1>2. Root \notin S
    BY AboveRoot
  <1>3. Root \in Above[d]
    BY AboveDirs
  <1>4. d \notin S
    <2>1. ASSUME d \in S PROVE FALSE
      <3>1. Above[d] \subseteq S
        BY <1>1, <2>1, AboveLeast
      <3>2. QED BY <1>2, <1>3, <3>1
    <2>2. QED BY <2>1
  <1>5. Has(d)
    BY <1>4
  <1>6. QED BY <1>5 DEF nearestExistingDirectory

-----------------------------------------------------------------------------
(* What is in a sequence, whatever its order.                              *)
Elems(s) == {s[i] : i \in 1 .. Len(s)}

LEMMA ElemsEmpty == Elems(<< >>) = {}
  BY DEF Elems

LEMMA ElemsFirst ==
  ASSUME NEW S, NEW s \in Seq(S), s # << >>
  PROVE  /\ s[1] \in S /\ Head(s) = s[1] /\ Tail(s) \in Seq(S)
         /\ Elems(s) = {s[1]} \cup Elems(Tail(s)) /\ Elems(s) \subseteq S
  <1>1. Len(s) \in Nat /\ Len(s) >= 1 /\ Head(s) = s[1] /\ s[1] \in S /\ Tail(s) \in Seq(S)
    OBVIOUS
  <1>2. Len(Tail(s)) = Len(s) - 1 /\ \A i \in 1 .. Len(s) - 1 : Tail(s)[i] = s[i + 1]
    BY <1>1
  <1>3. ASSUME NEW x \in Elems(s) PROVE x \in {s[1]} \cup Elems(Tail(s))
    <2>1. PICK i \in 1 .. Len(s) : x = s[i]
      BY DEF Elems
    <2>2. CASE i = 1
      BY <2>1, <2>2
    <2>3. CASE i # 1
      <3>1. i - 1 \in 1 .. Len(Tail(s)) /\ Tail(s)[i - 1] = s[(i - 1) + 1] /\ (i - 1) + 1 = i
        BY <1>1, <1>2, <2>3
      <3>2. QED BY <2>1, <3>1 DEF Elems
    <2>4. QED BY <2>2, <2>3
  <1>4. ASSUME NEW x \in {s[1]} \cup Elems(Tail(s)) PROVE x \in Elems(s)
    <2>1. CASE x = s[1]
      BY <1>1, <2>1 DEF Elems
    <2>2. CASE x \in Elems(Tail(s))
      <3>1. PICK i \in 1 .. Len(Tail(s)) : x = Tail(s)[i]
        BY <2>2 DEF Elems
      <3>2. i + 1 \in 1 .. Len(s) /\ x = s[i + 1]
        BY <1>1, <1>2, <3>1
      <3>3. QED BY <3>2 DEF Elems
    <2>3. QED BY <2>1, <2>2
  <1>5. Elems(s) \subseteq S
    BY DEF Elems
  <1>6. QED BY <1>1, <1>3, <1>4, <1>5

LEMMA ElemsReplaced ==
  ASSUME NEW S, NEW s \in Seq(S), s # << >>, NEW x \in S
  PROVE  /\ [s EXCEPT ![1] = x] \in Seq(S) /\ [s EXCEPT ![1] = x] # << >>
         /\ [s EXCEPT ![1] = x][1] = x
         /\ Elems([s EXCEPT ![1] = x]) = {x} \cup Elems(Tail(s))
  <1> DEFINE r == [s EXCEPT ![1] = x]
  <1>1. r \in Seq(S) /\ Len(r) = Len(s) /\ r # << >> /\ r[1] = x
    OBVIOUS
  <1>2. Tail(r) = Tail(s)
    <2>1. Tail(r) \in Seq(S) /\ Tail(s) \in Seq(S) /\ Len(Tail(r)) = Len(Tail(s))
      BY <1>1
    <2>2. \A i \in 1 .. Len(Tail(s)) : Tail(r)[i] = Tail(s)[i]
      BY <1>1
    <2>3. QED BY <2>1, <2>2, SeqEqual
  <1>3. Elems(r) = {r[1]} \cup Elems(Tail(r))
    BY <1>1, ElemsFirst
  <1>4. QED BY <1>1, <1>2, <1>3

LEMMA ElemsPushed ==
  ASSUME NEW S, NEW s \in Seq(S), NEW x \in S
  PROVE  <<x>> \o s \in Seq(S) /\ Elems(<<x>> \o s) = {x} \cup Elems(s)
  <1> DEFINE r == <<x>> \o s
  <1>1. r \in Seq(S) /\ r # << >> /\ r[1] = x
    OBVIOUS
  <1>2. Tail(r) = s
    OBVIOUS
  <1>3. Elems(r) = {r[1]} \cup Elems(Tail(r))
    BY <1>1, ElemsFirst
  <1>4. QED BY <1>1, <1>2, <1>3

LEMMA ElemsAppended ==
  ASSUME NEW S, NEW s \in Seq(S), NEW x \in S
  PROVE  Append(s, x) \in Seq(S) /\ Elems(Append(s, x)) = Elems(s) \cup {x}
  <1> DEFINE r == Append(s, x)
  <1>1. /\ r \in Seq(S) /\ Len(r) = Len(s) + 1 /\ Len(s) \in Nat /\ r[Len(s) + 1] = x
        /\ \A i \in 1 .. Len(s) : r[i] = s[i]
    OBVIOUS
  <1>2. 1 .. Len(r) = 1 .. Len(s) \cup {Len(s) + 1}
    BY <1>1
  <1>3. QED BY <1>1, <1>2 DEF Elems

-----------------------------------------------------------------------------
(* Types; todo holds what its phase is about.                              *)
Stamps == 0 .. MaxOps + 1
Events == [op : {"create", "write", "remove"}, path : Paths]
Frames == [dir : Dirs, tasks : SUBSET Tasks, names : SUBSET Paths,
           at : {"read", "visit", "next"}]
Seeds == UNION {{t} \X Include[t] : t \in Tasks}
Here == tree \cup Existing

Typing ==
  /\ tree \subseteq Dirs /\ content \in [Files -> Stamps] /\ ops \in 0 .. MaxOps
  /\ kernel \in Seq(Events)
  /\ known \in [Dirs -> SUBSET Tasks] /\ watched \subseteq {d \in Dirs : known[d] # {}}
  /\ phase \in {"match", "seed", "add", "watch"}
  /\ walk \in Seq(Frames) /\ noted \in [Tasks -> [Files -> Stamps]]
TodoTyping ==
  /\ phase \in {"match", "watch"} => todo = {}
  /\ phase = "seed" => todo \subseteq Seeds
  /\ phase = "add" => todo \subseteq {d \in Dirs : known[d] # {}}
TypeInv == Typing /\ TodoTyping

(* The frame on top when its names are read, it is visited, or a name of it*)
(* is taken.                                                               *)
ReadTop == [Top EXCEPT !.names = Children(Top.dir), !.at = "visit"]
VisitedTop == [Top EXCEPT !.at = "next"]
LeftTop(p) == [Top EXCEPT !.names = @ \ {p}]

LEMMA TopOfWalk ==
  ASSUME Typing, walk # << >>
  PROVE  /\ Top \in Frames /\ Top \in Elems(walk) /\ Tail(walk) \in Seq(Frames)
         /\ Elems(walk) = {Top} \cup Elems(Tail(walk)) /\ Elems(walk) \subseteq Frames
         /\ Elems(Tail(walk)) \subseteq Elems(walk)
  <1>1. walk \in Seq(Frames)
    BY DEF Typing
  <1>2. QED BY <1>1, ElemsFirst DEF Top

LEMMA ReadTopIs ==
  ASSUME Typing, walk # << >>
  PROVE  /\ ReadTop \in Frames /\ ReadTop.dir = Top.dir /\ ReadTop.tasks = Top.tasks
         /\ ReadTop.names = Children(Top.dir) /\ ReadTop.at = "visit"
  <1>1. Top \in Frames
    BY TopOfWalk
  <1>2. Children(Top.dir) \subseteq Paths
    BY DEF Children, Existing, Typing, Paths
  <1>3. QED BY <1>1, <1>2 DEF ReadTop, Frames

LEMMA VisitedTopIs ==
  ASSUME Typing, walk # << >>
  PROVE  /\ VisitedTop \in Frames /\ VisitedTop.dir = Top.dir /\ VisitedTop.tasks = Top.tasks
         /\ VisitedTop.names = Top.names /\ VisitedTop.at = "next"
  <1>1. Top \in Frames
    BY TopOfWalk
  <1>2. QED BY <1>1 DEF VisitedTop, Frames

LEMMA LeftTopIs ==
  ASSUME Typing, walk # << >>, NEW p \in Paths
  PROVE  /\ LeftTop(p) \in Frames /\ LeftTop(p).dir = Top.dir /\ LeftTop(p).tasks = Top.tasks
         /\ LeftTop(p).names = Top.names \ {p} /\ LeftTop(p).at = Top.at
  <1>1. Top \in Frames
    BY TopOfWalk
  <1>2. QED BY <1>1 DEF LeftTop, Frames

LEMMA FrameIs ==
  ASSUME NEW d \in Dirs, NEW tasks \in SUBSET Tasks
  PROVE  /\ Frame(d, tasks) \in Frames /\ Frame(d, tasks).dir = d
         /\ Frame(d, tasks).tasks = tasks /\ Frame(d, tasks).names = {}
         /\ Frame(d, tasks).at = "read"
  BY DEF Frame, Frames

(* What is left of a walk after each of its steps.                         *)
LEMMA ReadNamesWalk ==
  ASSUME Typing, ReadNames
  PROVE  /\ walk # << >> /\ Top.at = "read" /\ walk' \in Seq(Frames)
         /\ Top.dir \in tree => Elems(walk') = {ReadTop} \cup Elems(Tail(walk))
         /\ Top.dir \notin tree => walk' \in {<< >>, Tail(walk)}
         /\ Top.dir \notin tree /\ phase = "watch" => walk' = Tail(walk)
  <1>1. walk # << >> /\ Top.at = "read" /\ walk \in Seq(Frames)
    BY DEF ReadNames, Typing
  <1>2. Top.dir \in tree => walk' = [walk EXCEPT ![1] = ReadTop]
    BY DEF ReadNames, ReadTop, Top
  <1>3. Top.dir \notin tree => walk' \in {<< >>, Tail(walk)}
    BY DEF ReadNames
  <1>4. Top.dir \notin tree /\ phase = "watch" => walk' = Tail(walk)
    BY DEF ReadNames
  <1>5. Top.dir \in tree => walk' \in Seq(Frames) /\ Elems(walk') = {ReadTop} \cup Elems(Tail(walk))
    BY <1>1, <1>2, ReadTopIs, ElemsReplaced
  <1>6. Top.dir \notin tree => walk' \in Seq(Frames)
    <2>1. << >> \in Seq(Frames) /\ Tail(walk) \in Seq(Frames)
      BY <1>1, TopOfWalk
    <2>2. QED BY <1>3, <2>1
  <1>7. QED BY <1>1, <1>3, <1>4, <1>5, <1>6

LEMMA VisitWalk ==
  ASSUME Typing, walk # << >>, walk' = [walk EXCEPT ![1].at = "next"]
  PROVE  walk' \in Seq(Frames) /\ Elems(walk') = {VisitedTop} \cup Elems(Tail(walk))
  <1>1. walk \in Seq(Frames)
    BY DEF Typing
  <1>2. walk' = [walk EXCEPT ![1] = VisitedTop]
    BY DEF VisitedTop, Top
  <1>3. VisitedTop \in Frames
    BY VisitedTopIs
  <1>4. /\ [walk EXCEPT ![1] = VisitedTop] \in Seq(Frames)
        /\ Elems([walk EXCEPT ![1] = VisitedTop]) = {VisitedTop} \cup Elems(Tail(walk))
    BY <1>1, <1>3, ElemsReplaced
  <1>5. QED BY <1>2, <1>4

LEMMA NextWalk ==
  ASSUME Typing, walk # << >>, NEW p \in Paths
  PROVE  LET rest == [walk EXCEPT ![1].names = @ \ {p}] IN
         /\ rest \in Seq(Frames) /\ Elems(rest) = {LeftTop(p)} \cup Elems(Tail(walk))
         /\ p \in tree => \A tasks \in SUBSET Tasks :
              /\ <<Frame(p, tasks)>> \o rest \in Seq(Frames)
              /\ Elems(<<Frame(p, tasks)>> \o rest)
                   = {Frame(p, tasks), LeftTop(p)} \cup Elems(Tail(walk))
  <1> DEFINE rest == [walk EXCEPT ![1].names = @ \ {p}]
  <1>1. walk \in Seq(Frames)
    BY DEF Typing
  <1>2. rest = [walk EXCEPT ![1] = LeftTop(p)]
    BY DEF LeftTop, Top
  <1>3. rest \in Seq(Frames) /\ Elems(rest) = {LeftTop(p)} \cup Elems(Tail(walk))
    BY <1>1, <1>2, LeftTopIs, ElemsReplaced
  <1> HIDE DEF rest
  <1>4. ASSUME p \in tree, NEW tasks \in SUBSET Tasks
        PROVE  /\ <<Frame(p, tasks)>> \o rest \in Seq(Frames)
               /\ Elems(<<Frame(p, tasks)>> \o rest)
                    = {Frame(p, tasks), LeftTop(p)} \cup Elems(Tail(walk))
    <2>1. Frame(p, tasks) \in Frames
      BY <1>4, FrameIs DEF Typing
    <2>2. QED BY <1>3, <2>1, ElemsPushed
  <1>5. QED BY <1>3, <1>4 DEF rest

(* The map only grows, in the directories and by the tasks it is given.    *)
LEMMA MapGrows ==
  ASSUME Typing, NEW dirs, NEW tasks \in SUBSET Tasks,
         known' = updateWatchable(known, dirs, tasks)
  PROVE  /\ known' \in [Dirs -> SUBSET Tasks]
         /\ \A d \in Dirs : known'[d] = IF d \in dirs THEN known[d] \cup tasks ELSE known[d]
         /\ \A d \in Dirs : known[d] \subseteq known'[d]
  <1>1. known \in [Dirs -> SUBSET Tasks]
    BY DEF Typing
  <1>2. QED BY <1>1 DEF updateWatchable

LEMMA MatchingTasks == \A p : getMatchingTasks(p) \in SUBSET Tasks
  BY DEF getMatchingTasks

LEMMA CreatedTasks ==
  ASSUME NEW d, NEW tasks \in SUBSET Tasks
  PROVE  taskIdsForCreatedDirectory(d, tasks) \in SUBSET tasks
  BY DEF taskIdsForCreatedDirectory

(* What a change of the tree makes fsnotify report.                        *)
LEMMA Reported ==
  ASSUME Typing, NEW op \in {"create", "write", "remove"}, NEW p \in Paths, Report(op, p)
  PROVE  /\ kernel' \in Seq(Events) /\ Elems(kernel) \subseteq Elems(kernel')
         /\ Parent[p] \in watched => Event(op, p) \in Elems(kernel')
         /\ Elems(kernel') \subseteq Elems(kernel) \cup {Event(op, p)}
         /\ Event(op, p).op = op /\ Event(op, p).path = p
         /\ Parent[p] \notin watched => Elems(kernel') = Elems(kernel)
  <1>1. Event(op, p) \in Events /\ Event(op, p).op = op /\ Event(op, p).path = p
    BY DEF Event, Events
  <1>2. kernel \in Seq(Events)
    BY DEF Typing
  <1>3. CASE Parent[p] \in watched
    <2>1. kernel' = Append(kernel, Event(op, p))
      BY <1>3 DEF Report
    <2>2. kernel' \in Seq(Events) /\ Elems(kernel') = Elems(kernel) \cup {Event(op, p)}
      BY <1>1, <1>2, <2>1, ElemsAppended
    <2>3. QED BY <1>1, <1>3, <2>2
  <1>4. CASE Parent[p] \notin watched
    BY <1>1, <1>2, <1>4 DEF Report
  <1>5. QED BY <1>3, <1>4

(* The event that is handled, and the others.                              *)
LEMMA Handled ==
  ASSUME Typing, Handle
  PROVE  /\ Head(kernel) \in Events /\ Head(kernel) \in Elems(kernel)
         /\ kernel' \in Seq(Events) /\ Elems(kernel) = {Head(kernel)} \cup Elems(kernel')
  <1>1. kernel \in Seq(Events) /\ kernel # << >> /\ kernel' = Tail(kernel)
    BY DEF Typing, Handle
  <1>2. QED BY <1>1, ElemsFirst

LEMMA EventsTyped == Typing => Elems(kernel) \subseteq Events
  <1>1. kernel \in Seq(Events) => Elems(kernel) \subseteq Events
    BY DEF Elems
  <1>2. QED BY <1>1 DEF Typing

LEMMA NoticeTyping ==
  ASSUME Typing, NEW f, NEW tasks, NoticeFor(f, tasks)
  PROVE  noted' \in [Tasks -> [Files -> Stamps]]
  <1>1. \A t \in Tasks : noted[t] \in [Files -> Stamps]
    BY DEF Typing
  <1>2. f \in Files => content[f] \in Stamps
    BY DEF Typing
  <1>3. f \in Files => \A t \in Tasks : [noted[t] EXCEPT ![f] = content[f]] \in [Files -> Stamps]
    BY <1>1, <1>2
  <1>4. QED BY <1>1, <1>3 DEF NoticeFor

-----------------------------------------------------------------------------
World ==
  \/ \E f \in Files : Write(f) \/ Delete(f)
  \/ \E d \in Dirs : Leave(d) \/ \E parts \in SUBSET Below(d) : Arrive(d, parts)

LEMMA WorldTyping ==
  ASSUME TypeInv, World
  PROVE  TypeInv'
  <1> USE DEF TypeInv
  <1>0. MaxOps \in Nat /\ ops \in Nat /\ content \in [Files -> Stamps] /\ 0 \in Stamps
    BY DiscoveryAssumption DEF Typing, Stamps
  <1>1. UNCHANGED <<known, phase, todo, walk, noted>> /\ watched' \subseteq watched
    BY DEF World, Write, Delete, Arrive, Leave, starting
  <1>2. TodoTyping'
    BY <1>1 DEF TodoTyping
  <1>3. ASSUME ops < MaxOps PROVE Stamp \in Stamps
    BY <1>0, <1>3 DEF Stamp, Stamps
  <1>4. ops' \in 0 .. MaxOps /\ Stamp \in Stamps
    <2>1. ops' = ops + 1 /\ ops < MaxOps
      BY DEF World, Write, Delete, Arrive, Leave, MayChangeIn
    <2>2. QED BY <1>0, <1>3, <2>1
  <1>5. /\ tree' \subseteq Dirs /\ content' \in [Files -> Stamps] /\ kernel' \in Seq(Events)
    <2>1. ASSUME NEW f \in Files, Write(f) \/ Delete(f)
          PROVE  /\ tree' \subseteq Dirs /\ content' \in [Files -> Stamps]
                 /\ kernel' \in Seq(Events)
      <3>1. kernel' \in Seq(Events)
        BY <2>1, Reported DEF Write, Delete, Paths
      <3>2. QED BY <1>0, <1>4, <2>1, <3>1 DEF Write, Delete, Typing
    <2>2. ASSUME NEW d \in Dirs, Leave(d)
          PROVE  /\ tree' \subseteq Dirs /\ content' \in [Files -> Stamps]
                 /\ kernel' \in Seq(Events)
      <3>1. kernel' \in Seq(Events)
        BY <2>2, Reported DEF Leave, Paths
      <3>2. QED BY <1>0, <2>2, <3>1 DEF Leave, Typing
    <2>3. ASSUME NEW d \in Dirs, NEW parts \in SUBSET Below(d), Arrive(d, parts)
          PROVE  /\ tree' \subseteq Dirs /\ content' \in [Files -> Stamps]
                 /\ kernel' \in Seq(Events)
      <3>1. kernel' \in Seq(Events)
        BY <2>3, Reported DEF Arrive, Paths
      <3>2. QED BY <1>0, <1>4, <2>3, <3>1 DEF Arrive, Typing
    <2>4. QED BY <2>1, <2>2, <2>3 DEF World
  <1>6. QED BY <1>1, <1>2, <1>4, <1>5 DEF Typing

LEMMA WalkTyping ==
  ASSUME TypeInv, ReadNames \/ MatchDirectory \/ MatchNext \/ Visit \/ VisitNext \/ EndOfDirectory
  PROVE  TypeInv'
  <1> USE DEF TypeInv
  <1>1. UNCHANGED <<tree, content, ops, kernel, phase, todo>> /\ walk # << >> /\ Top \in Frames
    BY TopOfWalk DEF ReadNames, MatchDirectory, MatchNext, Visit, VisitNext, EndOfDirectory,
                     world, starting
  <1>2. Tail(walk) \in Seq(Frames) /\ << >> \in Seq(Frames) /\ Top.tasks \in SUBSET Tasks
        /\ Top.dir \in Dirs
    BY <1>1, TopOfWalk DEF Frames
  <1>3. walk' \in Seq(Frames)
    <2>1. CASE ReadNames
      BY <2>1, ReadNamesWalk
    <2>2. CASE MatchDirectory \/ Visit
      BY <1>1, <1>2, <2>2, VisitWalk DEF MatchDirectory, Visit
    <2>3. CASE MatchNext \/ VisitNext
      <3>1. PICK p \in Top.names :
              walk' \in {[walk EXCEPT ![1].names = @ \ {p}], << >>} \/
              (p \in tree /\ \E tasks \in SUBSET Tasks :
                 walk' = <<Frame(p, tasks)>> \o [walk EXCEPT ![1].names = @ \ {p}])
        BY <1>2, <2>3 DEF MatchNext, VisitNext
      <3>2. p \in Paths
        BY <1>1 DEF Frames
      <3>3. QED BY <1>1, <1>2, <3>1, <3>2, NextWalk
    <2>4. CASE EndOfDirectory
      BY <1>2, <2>4 DEF EndOfDirectory
    <2>5. QED BY <2>1, <2>2, <2>3, <2>4
  <1>4. /\ known' \in [Dirs -> SUBSET Tasks] /\ \A d \in Dirs : known[d] \subseteq known'[d]
        /\ watched' \subseteq {d \in Dirs : known'[d] # {}}
    <2>1. CASE MatchDirectory \/ MatchNext
      <3>1. known' = known \/ \E d, p : known' = WithAncestors(known, d, getMatchingTasks(p))
        BY <2>1 DEF MatchDirectory, MatchNext
      <3>2. /\ known' \in [Dirs -> SUBSET Tasks]
            /\ \A d \in Dirs : known[d] \subseteq known'[d]
        <4>1. CASE known' = known
          BY <4>1 DEF Typing
        <4>2. CASE known' # known
          <5>1. PICK d, p : known' = updateWatchable(known, Above[d], getMatchingTasks(p))
            BY <3>1, <4>2 DEF WithAncestors
          <5>2. getMatchingTasks(p) \in SUBSET Tasks
            BY MatchingTasks
          <5>3. QED BY <5>1, <5>2, MapGrows
        <4>3. QED BY <4>1, <4>2
      <3>3. QED BY <2>1, <3>2 DEF MatchDirectory, MatchNext, Typing
    <2>2. CASE Visit
      <3> DEFINE tasks == taskIdsForCreatedDirectory(Top.dir, Top.tasks)
      <3>1. tasks \in SUBSET Tasks
        BY <1>2, CreatedTasks
      <3>2. \/ UNCHANGED <<known, watched>>
            \/ /\ tasks # {} /\ known' = updateWatchable(known, {Top.dir}, tasks)
               /\ watched' = watched \cup ({Top.dir} \cap tree)
        BY <2>2 DEF Visit
      <3> HIDE DEF tasks
      <3>3. CASE UNCHANGED <<known, watched>>
        BY <3>3 DEF Typing
      <3>4. CASE /\ tasks # {} /\ known' = updateWatchable(known, {Top.dir}, tasks)
                 /\ watched' = watched \cup ({Top.dir} \cap tree)
        <4>1. /\ known' \in [Dirs -> SUBSET Tasks]
              /\ \A d \in Dirs : known'[d]
                   = IF d \in {Top.dir} THEN known[d] \cup tasks ELSE known[d]
              /\ \A d \in Dirs : known[d] \subseteq known'[d]
          BY <3>1, <3>4, MapGrows
        <4>2. QED BY <1>2, <3>4, <4>1 DEF Typing
      <3>5. QED BY <3>2, <3>3, <3>4
    <2>3. CASE UNCHANGED <<known, watched>>
      BY <2>3 DEF Typing
    <2>4. QED BY <2>1, <2>2, <2>3 DEF ReadNames, VisitNext, EndOfDirectory
  <1>5. noted' \in [Tasks -> [Files -> Stamps]]
    BY NoticeTyping
       DEF ReadNames, MatchDirectory, MatchNext, Visit, VisitNext, EndOfDirectory, Typing, Notice
  <1>6. TodoTyping'
    BY <1>1, <1>4 DEF TodoTyping, Typing
  <1>7. QED BY <1>1, <1>3, <1>4, <1>5, <1>6 DEF Typing

LEMMA PhaseTyping ==
  ASSUME TypeInv, EndOfMatching \/ SeedRoot \/ EndOfSeeding \/ AddDirectory \/ EndOfAdding
  PROVE  TypeInv'
  <1> USE DEF TypeInv
  <1>1. CASE EndOfMatching
    BY <1>1 DEF EndOfMatching, Typing, TodoTyping, world, Seeds
  <1>2. CASE SeedRoot
    <2>1. PICK seed \in todo :
            LET near == nearestExistingDirectory(includeRootFromPattern(seed[2]), tree) IN
            todo' = todo \ {seed} /\ known' \in {known, WithAncestors(known, near, {seed[1]})}
      BY <1>2 DEF SeedRoot
    <2>2. seed[1] \in Tasks
      BY <1>2 DEF SeedRoot, TodoTyping, Seeds
    <2>3. known' \in [Dirs -> SUBSET Tasks] /\ \A d \in Dirs : known[d] \subseteq known'[d]
      <3>1. CASE known' = known
        BY <3>1 DEF Typing
      <3>2. CASE known' # known
        <4>1. PICK dirs : known' = updateWatchable(known, dirs, {seed[1]})
          BY <2>1, <3>2 DEF WithAncestors
        <4>2. QED BY <2>2, <4>1, MapGrows
      <3>3. QED BY <3>1, <3>2
    <2>4. QED BY <1>2, <2>1, <2>3 DEF SeedRoot, Typing, TodoTyping, world
  <1>3. CASE EndOfSeeding
    BY <1>3 DEF EndOfSeeding, Typing, TodoTyping, world
  <1>4. CASE AddDirectory
    BY <1>4 DEF AddDirectory, Typing, TodoTyping, world
  <1>5. CASE EndOfAdding
    BY <1>5 DEF EndOfAdding, Typing, TodoTyping, world
  <1>6. QED BY <1>1, <1>2, <1>3, <1>4, <1>5

LEMMA HandleTyping ==
  ASSUME TypeInv, Handle
  PROVE  TypeInv'
  <1> USE DEF TypeInv
  <1> DEFINE p == Head(kernel).path
             tasks == taskIdsForCreatedDirectory(p, known[Parent[p]])
  <1>1. UNCHANGED <<tree, content, ops, watched, known, phase, todo>> /\ kernel' \in Seq(Events)
    BY Handled DEF Handle, world, starting
  <1>2. Parent[p] \in Dirs
    BY Handled, AboveParent DEF Events
  <1>3. tasks \in SUBSET Tasks
    BY <1>2, CreatedTasks DEF Typing
  <1>4. walk' = walk \/ (p \in tree /\ walk' = <<Frame(p, tasks)>>)
    BY DEF Handle
  <1> HIDE DEF tasks
  <1>5. walk' \in Seq(Frames)
    <2>1. p \in tree => Frame(p, tasks) \in Frames
      BY <1>3, FrameIs DEF Typing
    <2>2. CASE walk' = walk
      BY <2>2 DEF Typing
    <2>3. CASE p \in tree /\ walk' = <<Frame(p, tasks)>>
      BY <2>1, <2>3
    <2>4. QED BY <1>4, <2>2, <2>3
  <1>6. noted' \in [Tasks -> [Files -> Stamps]]
    <2>1. UNCHANGED noted \/ \E f, ts : NoticeFor(f, ts)
      BY DEF Handle, Notice, NoticeRemoval
    <2>2. QED BY <2>1, NoticeTyping DEF Typing
  <1>7. QED BY <1>1, <1>5, <1>6 DEF Typing, TodoTyping

Walking == ReadNames \/ MatchDirectory \/ MatchNext \/ Visit \/ VisitNext \/ EndOfDirectory
Starting == EndOfMatching \/ SeedRoot \/ EndOfSeeding \/ AddDirectory \/ EndOfAdding

LEMMA NextIs == Next <=> World \/ Walking \/ Starting \/ Handle
  BY DEF Next, World, Walking, Starting

LEMMA StepTyping == TypeInv /\ [Next]_vars => TypeInv'
  <1>1. TypeInv /\ UNCHANGED vars => TypeInv'
    BY DEF TypeInv, Typing, TodoTyping, vars, world, starting
  <1>2. QED
    BY <1>1, NextIs, WorldTyping, WalkTyping, PhaseTyping, HandleTyping DEF Walking, Starting

LEMMA InitTyping == Init => TypeInv
  <1> SUFFICES ASSUME Init PROVE TypeInv
    OBVIOUS
  <1>1. Frame(Root, Tasks) \in Frames
    BY FrameIs, WatchPlanAssumption
  <1>2. walk \in Seq(Frames)
    BY <1>1 DEF Init
  <1>3. 0 \in Stamps /\ 1 \in Stamps
    BY DiscoveryAssumption DEF Stamps
  <1>4. QED BY <1>2, <1>3, DiscoveryAssumption DEF Init, TypeInv, Typing, TodoTyping

THEOREM TypeInvHolds == Spec => []TypeInv
  BY InitTyping, StepTyping, PTL DEF Spec

(* Every variable has its type.                                            *)
THEOREM Typed == Spec => []TypeOK
  <1>1. TypeInv => TypeOK
    BY DEF TypeInv, Typing, TypeOK, Stamps, Events, Frames
  <1>2. QED BY <1>1, TypeInvHolds, PTL

-----------------------------------------------------------------------------
(* What is on the walk after a step, and what the step does to the rest.   *)
LEMMA MatchDirectorySteps ==
  ASSUME Typing, MatchDirectory
  PROVE  /\ phase = "match" /\ Top.at = "visit" /\ walk # << >>
         /\ \/ globallyExcluded(Top.dir) /\ walk' = Tail(walk) /\ known' = known
            \/ /\ ~globallyExcluded(Top.dir)
               /\ Elems(walk') = {VisitedTop} \cup Elems(Tail(walk))
               /\ known' = updateWatchable(known, Above[Top.dir], getMatchingTasks(Top.dir))
  <1>1. CASE globallyExcluded(Top.dir)
    BY <1>1 DEF MatchDirectory
  <1>2. CASE ~globallyExcluded(Top.dir)
    <2>1. walk # << >> /\ walk' = [walk EXCEPT ![1].at = "next"]
      BY <1>2 DEF MatchDirectory
    <2>2. Elems(walk') = {VisitedTop} \cup Elems(Tail(walk))
      BY <2>1, VisitWalk
    <2>3. QED BY <1>2, <2>2 DEF MatchDirectory, WithAncestors
  <1>3. QED BY <1>1, <1>2

LEMMA MatchNextSteps ==
  ASSUME Typing, MatchNext
  PROVE  /\ phase = "match" /\ Top.at = "next" /\ walk # << >>
         /\ \E p \in Top.names \cap Paths :
              \/ /\ p \in tree /\ known' = known
                 /\ Elems(walk') = {Frame(p, Tasks), LeftTop(p)} \cup Elems(Tail(walk))
              \/ /\ p \in Existing /\ p \notin tree
                 /\ Elems(walk') = {LeftTop(p)} \cup Elems(Tail(walk))
                 /\ known' = updateWatchable(known, Above[Parent[p]], getMatchingTasks(p))
              \/ p \notin Here /\ walk' = << >> /\ known' = known
  <1>0. walk # << >> /\ Top \in Frames /\ phase = "match" /\ Top.at = "next"
    BY TopOfWalk DEF MatchNext
  <1>1. PICK p \in Top.names :
          /\ walk' = CASE p \in tree -> <<Frame(p, Tasks)>> \o [walk EXCEPT ![1].names = @ \ {p}]
                       [] p \in Existing -> [walk EXCEPT ![1].names = @ \ {p}]
                       [] OTHER -> << >>
          /\ known' = IF p \in Existing
                      THEN WithAncestors(known, Parent[p], getMatchingTasks(p)) ELSE known
    BY DEF MatchNext
  <1>2. p \in Paths
    BY <1>0 DEF Frames
  <1>3. p \in tree => p \notin Existing
    BY WatchPlanAssumption DEF Existing, Typing
  <1>4. CASE p \in tree
    <2>1. walk' = <<Frame(p, Tasks)>> \o [walk EXCEPT ![1].names = @ \ {p}]
      BY <1>1, <1>3, <1>4
    <2>2. Elems(walk') = {Frame(p, Tasks), LeftTop(p)} \cup Elems(Tail(walk))
      BY <1>0, <1>2, <1>4, <2>1, NextWalk
    <2>3. known' = known
      BY <1>1, <1>3, <1>4
    <2>4. QED BY <1>0, <1>2, <1>4, <2>2, <2>3
  <1>5. CASE p \notin tree /\ p \in Existing
    <2>1. walk' = [walk EXCEPT ![1].names = @ \ {p}]
      BY <1>1, <1>5
    <2>2. Elems(walk') = {LeftTop(p)} \cup Elems(Tail(walk))
      BY <1>0, <1>2, <2>1, NextWalk
    <2>3. known' = updateWatchable(known, Above[Parent[p]], getMatchingTasks(p))
      BY <1>1, <1>5 DEF WithAncestors
    <2>4. QED BY <1>0, <1>2, <1>5, <2>2, <2>3
  <1>6. CASE p \notin tree /\ p \notin Existing
    BY <1>0, <1>1, <1>2, <1>6 DEF Here
  <1>7. QED BY <1>4, <1>5, <1>6

LEMMA VisitSteps ==
  ASSUME Typing, Visit
  PROVE  LET tasks == taskIdsForCreatedDirectory(Top.dir, Top.tasks) IN
         /\ phase = "watch" /\ Top.at = "visit" /\ walk # << >> /\ tasks \in SUBSET Tasks
         /\ \/ /\ globallyExcluded(Top.dir) \/ tasks = {}
               /\ walk' = Tail(walk) /\ known' = known /\ watched' = watched
            \/ /\ ~globallyExcluded(Top.dir) /\ tasks # {}
               /\ Elems(walk') = {VisitedTop} \cup Elems(Tail(walk))
               /\ known' = updateWatchable(known, {Top.dir}, tasks)
               /\ watched' = watched \cup ({Top.dir} \cap tree)
  <1> DEFINE tasks == taskIdsForCreatedDirectory(Top.dir, Top.tasks)
  <1>0. phase = "watch" /\ Top.at = "visit" /\ walk # << >>
    BY DEF Visit
  <1>1. tasks \in SUBSET Tasks
    <2>1. Top.tasks \in SUBSET Tasks
      BY <1>0, TopOfWalk DEF Frames
    <2>2. QED BY <2>1, CreatedTasks
  <1>2. CASE globallyExcluded(Top.dir) \/ tasks = {}
    BY <1>0, <1>1, <1>2 DEF Visit
  <1>3. CASE ~(globallyExcluded(Top.dir) \/ tasks = {})
    <2>1. /\ walk' = [walk EXCEPT ![1].at = "next"]
          /\ known' = updateWatchable(known, {Top.dir}, tasks)
          /\ watched' = watched \cup ({Top.dir} \cap tree)
      BY <1>3 DEF Visit
    <2>2. Elems(walk') = {VisitedTop} \cup Elems(Tail(walk))
      BY <1>0, <2>1, VisitWalk
    <2>3. QED BY <1>0, <1>1, <1>3, <2>1, <2>2
  <1>4. QED BY <1>2, <1>3

LEMMA VisitNextSteps ==
  ASSUME Typing, VisitNext
  PROVE  /\ phase = "watch" /\ Top.at = "next" /\ walk # << >> /\ Top.tasks \in SUBSET Tasks
         /\ \E p \in Top.names \cap Paths :
              /\ p \in tree =>
                   Elems(walk') = {Frame(p, Top.tasks), LeftTop(p)} \cup Elems(Tail(walk))
              /\ p \notin tree => Elems(walk') = {LeftTop(p)} \cup Elems(Tail(walk))
              /\ IF p \in Existing THEN Notice(p) ELSE UNCHANGED noted
  <1>0. /\ walk # << >> /\ Top \in Frames /\ phase = "watch" /\ Top.at = "next"
        /\ Top.tasks \in SUBSET Tasks
    BY TopOfWalk DEF VisitNext, Frames
  <1>1. PICK p \in Top.names :
          /\ walk' = IF p \in tree
                     THEN <<Frame(p, Top.tasks)>> \o [walk EXCEPT ![1].names = @ \ {p}]
                     ELSE [walk EXCEPT ![1].names = @ \ {p}]
          /\ IF p \in Existing THEN Notice(p) ELSE UNCHANGED noted
    BY DEF VisitNext
  <1>2. p \in Paths
    BY <1>0 DEF Frames
  <1>3. ASSUME p \in tree
        PROVE  Elems(walk') = {Frame(p, Top.tasks), LeftTop(p)} \cup Elems(Tail(walk))
    BY <1>0, <1>1, <1>2, <1>3, NextWalk
  <1>4. ASSUME p \notin tree PROVE Elems(walk') = {LeftTop(p)} \cup Elems(Tail(walk))
    BY <1>0, <1>1, <1>2, <1>4, NextWalk
  <1>5. QED BY <1>0, <1>1, <1>2, <1>3, <1>4

LEMMA EndOfDirectorySteps ==
  ASSUME Typing, EndOfDirectory
  PROVE  walk # << >> /\ Top.at = "next" /\ Top.names = {} /\ walk' = Tail(walk)
  BY DEF EndOfDirectory

LEMMA HandleSteps ==
  ASSUME Typing, Handle
  PROVE  LET p == Head(kernel).path
             tasks == taskIdsForCreatedDirectory(p, known[Parent[p]]) IN
         /\ phase = "watch" /\ walk = << >> /\ Elems(walk) = {}
         /\ p \in Paths /\ Parent[p] \in Dirs /\ tasks \in SUBSET known[Parent[p]]
         /\ tasks \in SUBSET Tasks
         /\ \/ /\ p \in tree /\ Head(kernel).op = "create"
               /\ ~globallyExcluded(p) /\ tasks # {}
               /\ Elems(walk') = {Frame(p, tasks)} /\ walk' # << >>
            \/ /\ ~(/\ p \in tree /\ Head(kernel).op = "create"
                    /\ ~globallyExcluded(p) /\ tasks # {})
               /\ Elems(walk') = {} /\ walk' = walk
  <1> DEFINE p == Head(kernel).path
             tasks == taskIdsForCreatedDirectory(p, known[Parent[p]])
  <1>1. p \in Paths /\ Parent[p] \in Dirs
    BY Handled, AboveParent DEF Events
  <1>2. tasks \in SUBSET known[Parent[p]] /\ tasks \in SUBSET Tasks
    BY <1>1, CreatedTasks DEF Typing
  <1>3. /\ phase = "watch" /\ walk = << >>
        /\ walk' = IF p \in tree /\ Head(kernel).op = "create" /\ ~globallyExcluded(p) /\ tasks # {}
                   THEN <<Frame(p, tasks)>> ELSE walk
    BY DEF Handle
  <1> HIDE DEF tasks, p
  <1>4. Elems(walk) = {}
    BY <1>3, ElemsEmpty
  <1>5. Elems(<<Frame(p, tasks)>>) = {Frame(p, tasks)} /\ <<Frame(p, tasks)>> # << >>
    <2>1. Len(<<Frame(p, tasks)>>) = 1 /\ <<Frame(p, tasks)>>[1] = Frame(p, tasks)
      OBVIOUS
    <2>2. QED BY <2>1 DEF Elems
  <1>6. QED BY <1>1, <1>2, <1>3, <1>4, <1>5 DEF tasks, p

-----------------------------------------------------------------------------
(* What exists is in a directory that exists.                              *)
TreeInv == Root \in tree /\ \A p \in Here : Parent[p] \in tree

LEMMA HereTyped == Typing => Here \subseteq Paths /\ \A p \in Paths : Parent[p] \in Dirs
  BY WatchPlanAssumption DEF Typing, Here, Existing, Paths

LEMMA TreeInit == Init => TreeInv
  <1> SUFFICES ASSUME Init PROVE TreeInv
    OBVIOUS
  <1>1. PICK paths \in StartTrees :
          tree = paths \cap Dirs /\ content = [f \in Files |-> IF f \in paths THEN 1 ELSE 0]
    BY DEF Init
  <1>2. Root \in paths /\ \A p \in paths : p \in Paths /\ Parent[p] \in paths /\ Parent[p] \in Dirs
    BY DiscoveryAssumption, WatchPlanAssumption
  <1>3. Existing \subseteq paths
    BY <1>1 DEF Existing
  <1>4. QED BY <1>1, <1>2, <1>3, WatchPlanAssumption DEF TreeInv, Here

(* A file or directory that a change of the tree adds.                     *)
LEMMA WorldTree ==
  ASSUME TypeInv, TreeInv, World
  PROVE  TreeInv'
  <1>0. TypeInv' /\ Typing
    BY WorldTyping DEF TypeInv
  <1>1. ASSUME NEW f \in Files, Write(f) PROVE TreeInv'
    <2>1. Parent[f] \in tree /\ tree' = tree /\ Here' \subseteq Here \cup {f}
      BY <1>0, <1>1 DEF Write, MayChangeIn, Here, Existing, Typing
    <2>2. QED BY <2>1 DEF TreeInv
  <1>2. ASSUME NEW f \in Files, Delete(f) PROVE TreeInv'
    <2>1. tree' = tree /\ Here' \subseteq Here
      BY <1>0, <1>2 DEF Delete, Here, Existing, Typing
    <2>2. QED BY <2>1 DEF TreeInv
  <1>3. ASSUME NEW d \in Dirs, NEW parts \in SUBSET Below(d), Arrive(d, parts) PROVE TreeInv'
    <2>1. /\ Parent[d] \in tree /\ tree' = tree \cup {d} \cup (parts \cap Dirs)
          /\ Here' \subseteq Here \cup {d} \cup parts
          /\ \A p \in parts : Parent[p] \in parts \cup {d}
      BY <1>0, <1>3 DEF Arrive, MayChangeIn, Here, Existing, Typing
    <2>2. \A p \in parts : Parent[p] \in Dirs
      BY HereTyped, <1>0 DEF Below
    <2>3. QED BY <2>1, <2>2 DEF TreeInv
  <1>4. ASSUME NEW d \in Dirs, Leave(d) PROVE TreeInv'
    <2>1. d # Root /\ tree' = tree \ ({d} \cup Below(d))
      BY <1>4 DEF Leave
    <2>2. Here' = Here \ ({d} \cup Below(d))
      <3>1. d \notin Existing
        BY <1>0, WatchPlanAssumption DEF Existing
      <3>2. Existing' = Existing \ Below(d)
        BY <1>0, <1>4 DEF Leave, Existing, Typing
      <3>3. QED BY <2>1, <3>1, <3>2 DEF Here
    <2>3. Root \notin Below(d)
      BY <2>1, AboveRoot DEF Below, Within
    <2>4. ASSUME NEW p \in Here' PROVE Parent[p] \notin {d} \cup Below(d)
      <3>1. p \in Paths /\ p # d /\ ~Within(d, p)
        BY <1>0, <2>2, <2>4, HereTyped DEF Below
      <3>2. d \notin Above[Parent[p]]
        BY <3>1, AboveParent DEF Within
      <3>3. d \in Above[d]
        BY AboveSteps DEF Paths
      <3>4. QED BY <3>2, <3>3 DEF Below, Within
    <2>5. QED BY <2>1, <2>2, <2>3, <2>4 DEF TreeInv
  <1>5. QED BY <1>1, <1>2, <1>3, <1>4 DEF World

(* The names of a frame are of files and directories in its directory; no  *)
(* walk is under way while the roots are seeded and directories added.     *)
FramesInv ==
  /\ \A F \in Elems(walk) : \A p \in F.names : Parent[p] = F.dir
  /\ phase \in {"seed", "add"} => walk = << >>

LEMMA WalkFrames ==
  ASSUME TypeInv, FramesInv, Walking
  PROVE  FramesInv'
  <1> USE DEF TypeInv
  <1>1. walk # << >> /\ phase' = phase /\ phase \in {"match", "watch"}
    BY DEF Walking, ReadNames, MatchDirectory, MatchNext, Visit, VisitNext, EndOfDirectory,
           FramesInv, starting, Typing
  <1> DEFINE Good(F) == \A p \in F.names : Parent[p] = F.dir
  <1>2. Good(Top) /\ \A F \in Elems(Tail(walk)) : Good(F)
    BY <1>1, TopOfWalk DEF FramesInv
  <1>3. Good(ReadTop) /\ Good(VisitedTop) /\ \A p \in Paths : Good(LeftTop(p))
    BY <1>1, <1>2, ReadTopIs, VisitedTopIs, LeftTopIs DEF Children
  <1>4. \A d \in Dirs, ts \in SUBSET Tasks : Good(Frame(d, ts))
    BY FrameIs
  <1> HIDE DEF Good
  <1>5. CASE ReadNames
    BY <1>2, <1>3, <1>5, ReadNamesWalk, ElemsEmpty, <1>1 DEF FramesInv, Good
  <1>6. CASE MatchDirectory
    BY <1>2, <1>3, <1>6, MatchDirectorySteps, <1>1 DEF FramesInv, Good
  <1>7. CASE MatchNext
    <2>1. \A F \in Elems(walk') : Good(F)
      BY <1>2, <1>3, <1>4, <1>7, MatchNextSteps, ElemsEmpty DEF Typing
    <2>2. QED BY <1>1, <2>1 DEF FramesInv, Good
  <1>8. CASE Visit
    BY <1>2, <1>3, <1>8, VisitSteps, <1>1 DEF FramesInv, Good
  <1>9. CASE VisitNext
    <2>1. \A F \in Elems(walk') : Good(F)
      BY <1>2, <1>3, <1>4, <1>9, VisitNextSteps DEF Typing
    <2>2. QED BY <1>1, <2>1 DEF FramesInv, Good
  <1>10. CASE EndOfDirectory
    BY <1>2, <1>10, EndOfDirectorySteps, <1>1 DEF FramesInv, Good
  <1>11. QED BY <1>5, <1>6, <1>7, <1>8, <1>9, <1>10 DEF Walking

LEMMA StepFrames == TypeInv /\ FramesInv /\ [Next]_vars => FramesInv'
  <1> SUFFICES ASSUME TypeInv, FramesInv, [Next]_vars PROVE FramesInv'
    OBVIOUS
  <1>1. CASE UNCHANGED vars
    BY <1>1 DEF FramesInv, vars, starting
  <1>2. CASE World
    BY <1>2 DEF World, Write, Delete, Arrive, Leave, FramesInv, starting
  <1>3. CASE Starting
    <2>1. walk' = walk /\ (phase' # phase => walk = << >>)
      BY <1>3 DEF Starting, EndOfMatching, SeedRoot, EndOfSeeding, AddDirectory, EndOfAdding,
                  FramesInv
    <2>2. QED BY <2>1 DEF FramesInv
  <1>4. CASE Handle
    <2>1. phase' = phase /\ phase = "watch"
      BY <1>4 DEF Handle, starting
    <2>2. \A F \in Elems(walk') : F.names = {}
      <3>1. Typing
        BY DEF TypeInv
      <3>2. \A d, ts : Frame(d, ts).names = {}
        BY DEF Frame
      <3>3. QED BY <1>4, <3>1, <3>2, HandleSteps
    <2>3. QED BY <2>1, <2>2 DEF FramesInv
  <1>5. QED BY <1>1, <1>2, <1>3, <1>4, NextIs, WalkFrames

LEMMA InitFrames == Init => FramesInv
  <1> SUFFICES ASSUME Init PROVE FramesInv
    OBVIOUS
  <1>1. Frame(Root, Tasks).names = {}
    BY DEF Frame
  <1>2. Elems(<<Frame(Root, Tasks)>>) = {Frame(Root, Tasks)}
    BY DEF Elems
  <1>3. QED BY <1>1, <1>2 DEF FramesInv, Init

LEMMA StepTree == TypeInv /\ TreeInv /\ [Next]_vars => TreeInv'
  <1> SUFFICES ASSUME TypeInv, TreeInv, [Next]_vars PROVE TreeInv'
    OBVIOUS
  <1>1. CASE UNCHANGED <<tree, content>>
    BY <1>1 DEF TreeInv, Here, Existing
  <1>2. CASE World
    BY <1>2, WorldTree
  <1>3. CASE Walking \/ Starting \/ Handle
    <2>1. UNCHANGED <<tree, content>>
      BY <1>3 DEF Walking, Starting, ReadNames, MatchDirectory, MatchNext, Visit, VisitNext,
                  EndOfDirectory, EndOfMatching, SeedRoot, EndOfSeeding, AddDirectory,
                  EndOfAdding, Handle, world
    <2>2. QED BY <1>1, <2>1
  <1>4. QED BY <1>1, <1>2, <1>3, NextIs DEF vars, world

(* shared.exclude.  A walk goes into a directory only after the function   *)
(* for it found that it is not excluded; an event comes from a directory   *)
(* in the map; a seeded directory is above the root of an include.         *)
ParentsOutside(d) == \A e \in Above[d] \ {d} : ~globallyExcluded(e)
OutsideInv ==
  /\ \A d \in Dirs : known[d] # {} => OutsideShared(d)
  /\ \A F \in Elems(walk) : ParentsOutside(F.dir) /\ (F.at = "next" => OutsideShared(F.dir))

LEMMA OutsideAbove ==
  ASSUME NEW d \in Paths, OutsideShared(d)
  PROVE  /\ \A e \in Above[d] : OutsideShared(e)
         /\ \A p \in Paths : Parent[p] = d => ParentsOutside(p)
  <1>1. \A e \in Above[d] : OutsideShared(e)
    BY AboveSteps DEF OutsideShared
  <1>2. ASSUME NEW p \in Paths, Parent[p] = d PROVE ParentsOutside(p)
    <2>1. d \in Dirs /\ Above[p] = {p} \cup Above[d] /\ Above[d] \subseteq Dirs
      BY <1>2, AboveParent, AboveDirs
    <2>2. QED BY <2>1 DEF ParentsOutside, OutsideShared
  <1>3. QED BY <1>1, <1>2

LEMMA VisitedOutside ==
  ASSUME NEW d \in Dirs, ParentsOutside(d), ~globallyExcluded(d)
  PROVE  OutsideShared(d)
  BY DEF ParentsOutside, OutsideShared

LEMMA KnownOutside ==
  ASSUME Typing, OutsideInv, NEW dirs, NEW tasks \in SUBSET Tasks,
         known' = updateWatchable(known, dirs, tasks), \A d \in dirs : OutsideShared(d)
  PROVE  \A d \in Dirs : known'[d] # {} => OutsideShared(d)
  <1>1. \A d \in Dirs : known'[d] = IF d \in dirs THEN known[d] \cup tasks ELSE known[d]
    BY MapGrows
  <1>2. QED BY <1>1 DEF OutsideInv

LEMMA WalkOutside ==
  ASSUME TypeInv, FramesInv, OutsideInv, Walking
  PROVE  OutsideInv'
  <1> USE DEF TypeInv
  <1>1. walk # << >>
    BY DEF Walking, ReadNames, MatchDirectory, MatchNext, Visit, VisitNext, EndOfDirectory
  <1> DEFINE Good(F) == ParentsOutside(F.dir) /\ (F.at = "next" => OutsideShared(F.dir))
             InMap == \A d \in Dirs : known'[d] # {} => OutsideShared(d)
  <1>2. Good(Top) /\ \A F \in Elems(Tail(walk)) : Good(F)
    BY <1>1, TopOfWalk DEF OutsideInv
  <1>3. Top \in Frames /\ Top.dir \in Dirs /\ Top.dir \in Paths
    BY <1>1, TopOfWalk DEF Frames, Paths
  <1>4. Good(ReadTop)
    BY <1>1, <1>2, ReadTopIs
  <1>5. ASSUME NEW p \in Paths PROVE Good(LeftTop(p))
    BY <1>1, <1>2, LeftTopIs
  <1>6. ASSUME Top.at = "visit", ~globallyExcluded(Top.dir)
        PROVE  Good(VisitedTop) /\ OutsideShared(Top.dir)
    BY <1>1, <1>2, <1>3, <1>6, VisitedTopIs, VisitedOutside
  <1>7. ASSUME Top.at = "next", NEW p \in Top.names \cap Paths, p \in tree, NEW ts \in SUBSET Tasks
        PROVE  Good(Frame(p, ts))
    <2>1. OutsideShared(Top.dir) /\ Parent[p] = Top.dir
      BY <1>1, <1>2, <1>7, TopOfWalk DEF FramesInv
    <2>2. ParentsOutside(p)
      BY <1>3, <2>1, OutsideAbove
    <2>3. QED BY <1>7, <2>2, FrameIs DEF Typing
  <1>8. (\A F \in Elems(walk') : Good(F)) /\ InMap => OutsideInv'
    BY DEF OutsideInv, ParentsOutside, OutsideShared
  <1>9. UNCHANGED known => InMap
    BY DEF OutsideInv
  <1> HIDE DEF Good
  <1>10. CASE ReadNames
    <2>1. \A F \in Elems(walk') : Good(F)
      BY <1>2, <1>4, <1>10, ReadNamesWalk, ElemsEmpty
    <2>2. QED BY <1>8, <1>9, <1>10, <2>1 DEF ReadNames
  <1>11. CASE MatchDirectory
    <2>1. \A F \in Elems(walk') : Good(F)
      BY <1>2, <1>6, <1>11, MatchDirectorySteps
    <2>2. InMap
      <3>1. CASE known' = known
        BY <1>9, <3>1
      <3>2. CASE known' # known
        <4>1. /\ ~globallyExcluded(Top.dir) /\ Top.at = "visit"
              /\ known' = updateWatchable(known, Above[Top.dir], getMatchingTasks(Top.dir))
          BY <1>11, <3>2, MatchDirectorySteps
        <4>2. \A e \in Above[Top.dir] : OutsideShared(e)
          BY <1>3, <1>6, <4>1, OutsideAbove
        <4>3. getMatchingTasks(Top.dir) \in SUBSET Tasks
          BY MatchingTasks
        <4>4. QED BY <4>1, <4>2, <4>3, KnownOutside
      <3>3. QED BY <3>1, <3>2
    <2>3. QED BY <1>8, <2>1, <2>2
  <1>12. CASE MatchNext
    <2>1. \A F \in Elems(walk') : Good(F)
      BY <1>2, <1>5, <1>7, <1>12, MatchNextSteps, ElemsEmpty
    <2>2. InMap
      <3>1. CASE known' = known
        BY <1>9, <3>1
      <3>2. CASE known' # known
        <4>1. PICK p \in Top.names \cap Paths :
                known' = updateWatchable(known, Above[Parent[p]], getMatchingTasks(p))
          BY <1>12, <3>2, MatchNextSteps
        <4>2. OutsideShared(Top.dir) /\ Parent[p] = Top.dir
          BY <1>1, <1>2, <1>12, TopOfWalk, MatchNextSteps DEF FramesInv, Good
        <4>3. \A e \in Above[Parent[p]] : OutsideShared(e)
          BY <1>3, <4>2, OutsideAbove
        <4>4. getMatchingTasks(p) \in SUBSET Tasks
          BY MatchingTasks
        <4>5. QED BY <4>1, <4>3, <4>4, KnownOutside
      <3>3. QED BY <3>1, <3>2
    <2>3. QED BY <1>8, <2>1, <2>2
  <1>13. CASE Visit
    <2>1. \A F \in Elems(walk') : Good(F)
      BY <1>2, <1>6, <1>13, VisitSteps
    <2>2. InMap
      <3>1. CASE known' = known
        BY <1>9, <3>1
      <3>2. CASE known' # known
        <4>1. PICK ts \in SUBSET Tasks :
                /\ ~globallyExcluded(Top.dir) /\ Top.at = "visit"
                /\ known' = updateWatchable(known, {Top.dir}, ts)
          BY <1>13, <3>2, VisitSteps
        <4>2. \A e \in {Top.dir} : OutsideShared(e)
          BY <1>6, <4>1
        <4>3. QED BY <4>1, <4>2, KnownOutside
      <3>3. QED BY <3>1, <3>2
    <2>3. QED BY <1>8, <2>1, <2>2
  <1>14. CASE VisitNext
    <2>1. \A F \in Elems(walk') : Good(F)
      BY <1>2, <1>5, <1>7, <1>14, VisitNextSteps
    <2>2. QED BY <1>8, <1>9, <1>14, <2>1 DEF VisitNext
  <1>15. CASE EndOfDirectory
    <2>1. \A F \in Elems(walk') : Good(F)
      BY <1>2, <1>15, EndOfDirectorySteps
    <2>2. QED BY <1>8, <1>9, <1>15, <2>1 DEF EndOfDirectory
  <1>16. QED BY <1>10, <1>11, <1>12, <1>13, <1>14, <1>15 DEF Walking

LEMMA SeedOutside ==
  ASSUME TypeInv, TreeInv, OutsideInv, RootsOutside, SeedRoot
  PROVE  OutsideInv'
  <1> USE DEF TypeInv
  <1> DEFINE root(g) == includeRootFromPattern(g)
             near(g) == nearestExistingDirectory(root(g), tree)
  <1>1. PICK seed \in todo :
          known' = IF globallyExcluded(root(seed[2])) \/ globallyExcluded(near(seed[2]))
                   THEN known ELSE WithAncestors(known, near(seed[2]), {seed[1]})
    BY DEF SeedRoot
  <1>2. PICK t \in Tasks : seed[1] = t /\ seed[2] \in Include[t]
    BY DEF SeedRoot, TodoTyping, Seeds
  <1>3. CASE known' = known
    BY <1>3 DEF OutsideInv, SeedRoot
  <1>4. CASE known' # known
    <2>1. ~globallyExcluded(root(seed[2])) /\ known' = WithAncestors(known, near(seed[2]), {t})
      BY <1>1, <1>2, <1>4
    <2>2. OutsideShared(root(seed[2]))
      BY <1>2, <2>1 DEF RootsOutside
    <2>3. root(seed[2]) \in Paths
      BY <1>2, WatchPlanAssumption DEF includeRootFromPattern, Pattern, Paths
    <2> HIDE DEF root
    <2>4. near(seed[2]) \in Above[root(seed[2])] \cap tree
      BY <2>3, NearestExists DEF TreeInv, Typing
    <2>5. OutsideShared(near(seed[2])) /\ near(seed[2]) \in Paths
      BY <2>2, <2>3, <2>4, OutsideAbove DEF Typing, Paths
    <2>6. \A e \in Above[near(seed[2])] : OutsideShared(e)
      BY <2>5, OutsideAbove
    <2> HIDE DEF near
    <2>7. \A d \in Dirs : known'[d] # {} => OutsideShared(d)
      <3>1. known' = updateWatchable(known, Above[near(seed[2])], {t})
        BY <2>1 DEF WithAncestors
      <3>2. {t} \in SUBSET Tasks
        OBVIOUS
      <3>3. QED BY <2>6, <3>1, <3>2, KnownOutside
    <2>8. QED BY <2>7 DEF OutsideInv, SeedRoot
  <1>5. QED BY <1>3, <1>4

LEMMA HandleOutside ==
  ASSUME TypeInv, OutsideInv, Handle
  PROVE  OutsideInv'
  <1> USE DEF TypeInv
  <1> DEFINE p == Head(kernel).path
             tasks == taskIdsForCreatedDirectory(p, known[Parent[p]])
  <1>1. /\ p \in Paths /\ Parent[p] \in Dirs /\ tasks \in SUBSET known[Parent[p]]
        /\ tasks \in SUBSET Tasks
        /\ \/ p \in tree /\ tasks # {} /\ Elems(walk') = {Frame(p, tasks)}
           \/ Elems(walk') = {}
    BY HandleSteps
  <1> HIDE DEF p, tasks
  <1>2. ASSUME p \in tree, tasks # {}
        PROVE  ParentsOutside(Frame(p, tasks).dir) /\ Frame(p, tasks).at # "next"
    <2>1. OutsideShared(Parent[p])
      BY <1>1, <1>2 DEF OutsideInv
    <2>2. ParentsOutside(p)
      BY <1>1, <2>1, OutsideAbove DEF Paths
    <2>3. QED BY <1>1, <1>2, <2>2, FrameIs DEF Typing
  <1>3. \A F \in Elems(walk') : ParentsOutside(F.dir) /\ (F.at = "next" => OutsideShared(F.dir))
    BY <1>1, <1>2
  <1>4. QED BY <1>3 DEF OutsideInv, Handle

LEMMA StepOutside ==
  ASSUME RootsOutside, TypeInv, TreeInv, FramesInv, OutsideInv, [Next]_vars
  PROVE  OutsideInv'
  <1>1. CASE UNCHANGED <<known, walk>>
    BY <1>1 DEF OutsideInv
  <1>2. UNCHANGED vars \/ World \/ EndOfMatching \/ EndOfSeeding \/ AddDirectory \/ EndOfAdding
          => UNCHANGED <<known, walk>>
    BY DEF vars, World, Write, Delete, Arrive, Leave, EndOfMatching, EndOfSeeding, AddDirectory,
           EndOfAdding
  <1>3. QED BY <1>1, <1>2, NextIs, WalkOutside, SeedOutside, HandleOutside DEF Starting

LEMMA InitOutside == Init => OutsideInv
  <1> SUFFICES ASSUME Init PROVE OutsideInv
    OBVIOUS
  <1>1. Elems(walk) = {Frame(Root, Tasks)}
    BY DEF Elems, Init
  <1>2. Frame(Root, Tasks).dir = Root /\ Frame(Root, Tasks).at = "read"
    BY DEF Frame
  <1>3. QED BY <1>1, <1>2, AboveRoot DEF OutsideInv, ParentsOutside, Init

TreeWalkInv == TypeInv /\ TreeInv /\ FramesInv

THEOREM TreeWalkInvHolds == Spec => []TreeWalkInv
  <1>1. Init => TreeWalkInv
    BY InitTyping, TreeInit, InitFrames DEF TreeWalkInv
  <1>2. TreeWalkInv /\ [Next]_vars => TreeWalkInv'
    BY StepTyping, StepTree, StepFrames DEF TreeWalkInv
  <1>3. QED BY <1>1, <1>2, PTL DEF Spec

(* Whatever happens to the tree and whenever, no directory in the map is   *)
(* one of shared.exclude, or in one.                                       *)
THEOREM OutsideInvHolds ==
  ASSUME RootsOutside
  PROVE  Spec => []OutsideInv
  <1>1. Init => OutsideInv
    BY InitOutside
  <1>2. TreeWalkInv /\ OutsideInv /\ [Next]_vars => OutsideInv'
    BY StepOutside, RootsOutside DEF TreeWalkInv
  <1>3. QED BY <1>1, <1>2, TreeWalkInvHolds, PTL DEF Spec

(* ExcludedUnwatched, from the map: a watched directory is in it.          *)
THEOREM ExcludedNeverWatched ==
  ASSUME RootsOutside
  PROVE  Spec => []ExcludedUnwatched
  <1>1. TreeWalkInv /\ OutsideInv => ExcludedUnwatched
    BY DEF TreeWalkInv, TypeInv, Typing, OutsideInv, ExcludedUnwatched
  <1>2. QED BY <1>1, TreeWalkInvHolds, OutsideInvHolds, PTL

-----------------------------------------------------------------------------
(* What a frame of a walk is still to come to: before its names are read   *)
(* all that is below its directory, then the directory itself and what is  *)
(* below the names left.                                                   *)
AheadIn(F, p) ==
  \/ F.at = "read" /\ Within(F.dir, p)
  \/ F.at = "visit" /\ F.dir = p
  \/ F.at \in {"visit", "next"} /\ \E c \in F.names : Within(c, p)
Ahead(p) == \E F \in Elems(walk) : AheadIn(F, p)

LEMMA AboveHere ==
  ASSUME Typing, TreeInv, NEW p \in Here
  PROVE  Above[p] \subseteq Here /\ Above[p] \cap Dirs \subseteq tree /\ Parent[p] \in tree
  <1>1. Here \in SUBSET Paths /\ \A q \in Here : Parent[q] \in Here
    BY HereTyped DEF TreeInv, Here
  <1>2. Above[p] \subseteq Here
    BY <1>1, AboveLeast
  <1>3. Here \cap Dirs \subseteq tree
    BY WatchPlanAssumption DEF Here, Existing
  <1>4. QED BY <1>2, <1>3 DEF TreeInv

LEMMA NothingAhead == walk = << >> => \A p : ~Ahead(p)
  BY ElemsEmpty DEF Ahead

(* Nothing that exists is lost when names are read.                        *)
LEMMA ReadAhead ==
  ASSUME Typing, TreeInv, ReadNames, phase = "watch" \/ Top.dir \in tree,
         NEW p \in Here, Ahead(p)
  PROVE  Ahead(p)'
  <1>1. walk # << >> /\ Top.at = "read" /\ Top.dir \in Dirs
    BY ReadNamesWalk, TopOfWalk DEF Frames
  <1>2. p \in Paths /\ Above[p] \subseteq Here /\ Above[p] \cap Dirs \subseteq tree
    BY AboveHere, HereTyped
  <1>3. ASSUME NEW F \in Elems(Tail(walk)), AheadIn(F, p), Elems(Tail(walk)) \subseteq Elems(walk')
        PROVE  Ahead(p)'
    BY <1>3 DEF Ahead
  <1>4. PICK F \in Elems(walk) : AheadIn(F, p)
    BY DEF Ahead
  <1>5. F = Top \/ F \in Elems(Tail(walk))
    BY <1>1, <1>4, TopOfWalk
  <1>6. CASE Top.dir \in tree
    <2>1. Elems(walk') = {ReadTop} \cup Elems(Tail(walk))
      BY <1>6, ReadNamesWalk
    <2>2. /\ ReadTop.dir = Top.dir /\ ReadTop.names = Children(Top.dir) /\ ReadTop.at = "visit"
      BY <1>1, ReadTopIs
    <2>3. CASE F = Top
      <3>1. Within(Top.dir, p)
        BY <1>1, <1>4, <2>3 DEF AheadIn
      <3>2. CASE Top.dir = p
        <4>1. AheadIn(ReadTop, p)
          BY <2>2, <3>2 DEF AheadIn
        <4>2. QED BY <2>1, <4>1 DEF Ahead
      <3>3. CASE Top.dir # p
        <4>1. PICK c \in Above[p] : Parent[c] = Top.dir /\ c # Top.dir
          BY <1>2, <3>1, <3>3, NextBelow DEF Within
        <4>2. c \in Children(Top.dir)
          BY <1>2, <4>1 DEF Children, Here
        <4>3. AheadIn(ReadTop, p)
          BY <2>2, <4>1, <4>2 DEF AheadIn, Within
        <4>4. QED BY <2>1, <4>3 DEF Ahead
      <3>4. QED BY <3>2, <3>3
    <2>4. QED BY <1>3, <1>4, <1>5, <2>1, <2>3
  <1>7. CASE Top.dir \notin tree
    <2>1. walk' = Tail(walk)
      BY <1>7, ReadNamesWalk
    <2>2. F # Top
      BY <1>1, <1>2, <1>4, <1>7 DEF AheadIn, Within
    <2>3. QED BY <1>3, <1>4, <1>5, <2>1, <2>2
  <1>8. QED BY <1>6, <1>7

(* A directory that is visited is all that its frame leaves behind; one    *)
(* that is skipped takes all below it.                                     *)
LEMMA VisitAhead ==
  ASSUME Typing, FramesInv, walk # << >>, Top.at = "visit", NEW p \in Paths, Ahead(p)
  PROVE  /\ Elems(walk') = {VisitedTop} \cup Elems(Tail(walk)) => Ahead(p)' \/ p = Top.dir
         /\ walk' = Tail(walk) => Ahead(p)' \/ Within(Top.dir, p)
  <1>1. /\ Elems(walk) = {Top} \cup Elems(Tail(walk)) /\ Top \in Frames
        /\ \A c \in Top.names : Parent[c] = Top.dir
    BY TopOfWalk DEF FramesInv
  <1>2. VisitedTop.names = Top.names /\ VisitedTop.at = "next"
    BY VisitedTopIs
  <1>3. PICK F \in Elems(walk) : AheadIn(F, p)
    BY DEF Ahead
  <1>4. CASE F \in Elems(Tail(walk))
    BY <1>3, <1>4 DEF Ahead
  <1>5. CASE p = Top.dir
    BY <1>5, AboveSteps DEF Within
  <1>6. CASE F = Top /\ p # Top.dir
    <2>1. PICK c \in Top.names : Within(c, p)
      BY <1>3, <1>6 DEF AheadIn
    <2>2. AheadIn(VisitedTop, p)
      BY <1>2, <2>1 DEF AheadIn
    <2>3. Within(Top.dir, p)
      BY <1>1, <2>1, AboveSteps DEF Within
    <2>4. QED BY <2>2, <2>3 DEF Ahead
  <1>7. QED BY <1>1, <1>3, <1>4, <1>5, <1>6

(* A name that is taken is a directory that a frame is made for, or a file.*)
LEMMA NextAhead ==
  ASSUME Typing, TreeInv, walk # << >>, Top.at = "next", NEW n \in Top.names \cap Paths,
         NEW ts \in SUBSET Tasks,
         n \in tree => Elems(walk') = {Frame(n, ts), LeftTop(n)} \cup Elems(Tail(walk)),
         n \notin tree => Elems(walk') = {LeftTop(n)} \cup Elems(Tail(walk)),
         NEW p \in Here, Ahead(p)
  PROVE  Ahead(p)' \/ (p = n /\ n \in Existing /\ n \notin tree)
  <1>1. Elems(walk) = {Top} \cup Elems(Tail(walk))
    BY TopOfWalk
  <1>2. LeftTop(n).names = Top.names \ {n} /\ LeftTop(n).at = "next"
    BY LeftTopIs
  <1>3. p \in Paths /\ Above[p] \subseteq Here /\ Above[p] \cap Dirs \subseteq tree
    BY AboveHere, HereTyped
  <1>4. PICK F \in Elems(walk) : AheadIn(F, p)
    BY DEF Ahead
  <1>5. Elems(Tail(walk)) \subseteq Elems(walk') /\ LeftTop(n) \in Elems(walk')
    OBVIOUS
  <1>6. CASE F \in Elems(Tail(walk))
    BY <1>4, <1>5, <1>6 DEF Ahead
  <1>7. CASE F = Top
    <2>1. PICK c \in Top.names : Within(c, p)
      BY <1>4, <1>7 DEF AheadIn
    <2>2. CASE c # n
      <3>1. AheadIn(LeftTop(n), p)
        BY <1>2, <2>1, <2>2 DEF AheadIn
      <3>2. QED BY <1>5, <3>1 DEF Ahead
    <2>3. CASE c = n /\ n \in tree
      <3>1. AheadIn(Frame(n, ts), p)
        BY <2>1, <2>3, FrameIs DEF AheadIn, Typing
      <3>2. QED BY <2>3, <3>1 DEF Ahead
    <2>4. CASE c = n /\ n \notin tree
      <3>1. n \in Here /\ n \notin Dirs
        BY <1>3, <2>1, <2>4 DEF Within
      <3>2. n = p
        BY <1>3, <2>1, <2>4, <3>1, AboveDirs DEF Within
      <3>3. QED BY <2>4, <3>1, <3>2 DEF Here
    <2>5. QED BY <2>2, <2>3, <2>4
  <1>8. QED BY <1>1, <1>4, <1>6, <1>7

LEMMA EndAhead ==
  ASSUME Typing, EndOfDirectory, NEW p, Ahead(p)
  PROVE  Ahead(p)'
  <1>1. /\ walk # << >> /\ walk' = Tail(walk) /\ Top.at = "next" /\ Top.names = {}
    BY DEF EndOfDirectory
  <1>2. Elems(walk) = {Top} \cup Elems(Tail(walk))
    BY <1>1, TopOfWalk
  <1>3. ~AheadIn(Top, p)
    BY <1>1 DEF AheadIn
  <1>4. QED BY <1>1, <1>2, <1>3 DEF Ahead

-----------------------------------------------------------------------------
(* The directories that may hold files of a task: with one, those above    *)
(* it; the task can match them all.                                        *)
LEMMA InputHolding ==
  ASSUME NEW t \in Tasks, NEW f \in Inputs(t)
  PROVE  /\ f \in Files /\ f \in Paths /\ f \notin Dirs /\ t \in getMatchingTasks(f)
         /\ Above[f] \cap Dirs \subseteq Holding(t)
         /\ Parent[f] \in Holding(t) /\ Above[Parent[f]] \subseteq Holding(t)
  <1>1. /\ f \in Files /\ f \in Paths /\ f \notin Dirs /\ t \in getMatchingTasks(f)
    BY WatchPlanAssumption DEF Inputs, Paths
  <1>2. Above[f] \cap Dirs \subseteq Holding(t)
    BY DEF Holding, Within
  <1>3. Above[Parent[f]] \subseteq Above[f] \cap Dirs /\ Parent[f] \in Above[Parent[f]]
    BY <1>1, AboveParent, AboveDirs, AboveSteps DEF Paths
  <1>4. QED BY <1>1, <1>2, <1>3

LEMMA RootOfMatch ==
  ASSUME NEW t \in Tasks, NEW g \in Include[t], NEW f \in Files, Matches(g, f)
  PROVE  includeRootFromPattern(g) \in Above[f]
  <1>1. g \in Pattern /\ f \in Paths
    BY WatchPlanAssumption DEF Paths
  <1>2. f \in Above[f] /\ Parent[f] \in Above[f]
    BY <1>1, AboveSteps
  <1>3. QED BY <1>1, <1>2 DEF Matches, includeRootFromPattern, Pattern, Below, Within

LEMMA HoldingFacts ==
  ASSUME NEW t \in Tasks, NEW d \in Holding(t)
  PROVE  /\ d \in Dirs /\ d \in Paths /\ ~globallyExcluded(d)
         /\ Above[d] \subseteq Holding(t) /\ Parent[d] \in Holding(t)
         /\ ExcludesNoInputs => taskCanMatchDirectory(t, d)
  <1>1. PICK f \in Inputs(t) : d \in Above[f]
    BY DEF Holding, Within
  <1>2. d \in Dirs /\ d \in Paths /\ f \in Files /\ f \in Paths
    BY <1>1, InputHolding DEF Holding, Paths
  <1>3. ~globallyExcluded(d)
    BY <1>1, <1>2 DEF Inputs, OutsideShared
  <1>4. Above[d] \subseteq Above[f] /\ Above[d] \subseteq Dirs /\ Parent[d] \in Above[d]
    BY <1>1, <1>2, AboveSteps, AboveDirs
  <1>5. Above[d] \subseteq Holding(t)
    BY <1>4, InputHolding
  <1>6. ASSUME ExcludesNoInputs PROVE taskCanMatchDirectory(t, d)
    <2>1. PICK g \in Include[t] : Matches(g, f)
      BY InputHolding DEF getMatchingTasks, AnyMatches
    <2>2. includeRootFromPattern(g) \in Above[f]
      BY <1>2, <2>1, RootOfMatch
    <2>3. Within(includeRootFromPattern(g), d) \/ Within(d, includeRootFromPattern(g))
      BY <1>1, <1>2, <2>2, AboveChain DEF Within
    <2>4. ~directoryExcluded(d, Exclude[t])
      BY <1>6 DEF ExcludesNoInputs
    <2>5. QED BY <2>3, <2>4 DEF taskCanMatchDirectory
  <1>7. QED BY <1>2, <1>3, <1>4, <1>5, <1>6

-----------------------------------------------------------------------------
(* The start, in a tree that does not change before the watcher is up:     *)
(* what exists outside shared.exclude is ahead of the walk, or its         *)
(* directories are in the map for the tasks that match it; an include that *)
(* is seeded has its nearest directory there, and those above.             *)
KnownFor(p) == \A d \in Above[p] \cap Dirs : getMatchingTasks(p) \subseteq known[d]
Seeded(t, g) ==
  LET root == includeRootFromPattern(g)
      near == nearestExistingDirectory(root, tree)
  IN globallyExcluded(root) \/ globallyExcluded(near) \/ \A d \in Above[near] : t \in known[d]

StartTree == Here \in StartTrees /\ kernel = << >> /\ \A d \in Dirs : known[d] # {} => d \in tree
StartWalk ==
  /\ \A F \in Elems(walk) : F.dir \in tree /\ F.names \subseteq Here
  /\ \A p \in Here : OutsideShared(p) => Ahead(p) \/ KnownFor(p)
StartSeeds ==
  /\ phase = "seed" => \A t \in Tasks : \A g \in Include[t] : <<t, g>> \in todo \/ Seeded(t, g)
  /\ phase = "add" => \A t \in Tasks : \A g \in Include[t] : Seeded(t, g)
  /\ phase = "add" => \A d \in Dirs : known[d] # {} => d \in todo \cup watched
StartInv == phase # "watch" => StartTree /\ StartWalk /\ StartSeeds

Grows == \A d \in Dirs : known[d] \subseteq known'[d]

LEMMA KnownForGrows ==
  ASSUME NEW p, KnownFor(p), Grows
  PROVE  KnownFor(p)'
  BY DEF KnownFor, Grows

LEMMA NearestHere ==
  ASSUME Typing, TreeInv, NEW t \in Tasks, NEW g \in Include[t]
  PROVE  LET near == nearestExistingDirectory(includeRootFromPattern(g), tree) IN
         /\ near \in tree /\ near \in Paths /\ near \in Here
         /\ Above[near] \subseteq tree /\ Above[near] \subseteq Dirs
  <1> DEFINE root == includeRootFromPattern(g)
             near == nearestExistingDirectory(root, tree)
  <1>1. root \in Paths
    BY WatchPlanAssumption DEF includeRootFromPattern, Pattern, Paths
  <1> HIDE DEF root
  <1>2. near \in tree
    BY <1>1, NearestExists DEF TreeInv, Typing
  <1> HIDE DEF near
  <1>3. near \in Dirs /\ near \in Paths /\ near \in Here
    BY <1>2 DEF Typing, Paths, Here
  <1>4. Above[near] \subseteq Dirs /\ Above[near] \cap Dirs \subseteq tree
    BY <1>3, AboveDirs, AboveHere
  <1>5. QED BY <1>2, <1>3, <1>4 DEF near, root

LEMMA SeededGrows ==
  ASSUME Typing, TreeInv, NEW t \in Tasks, NEW g \in Include[t], Seeded(t, g), Grows,
         UNCHANGED tree
  PROVE  Seeded(t, g)'
  BY NearestHere DEF Seeded, Grows

LEMMA StartInit == Init => StartInv
  <1> SUFFICES ASSUME Init PROVE StartTree /\ StartWalk /\ StartSeeds
    BY DEF StartInv
  <1>1. PICK paths \in StartTrees :
          tree = paths \cap Dirs /\ content = [f \in Files |-> IF f \in paths THEN 1 ELSE 0]
    BY DEF Init
  <1>2. paths \subseteq Paths
    BY DiscoveryAssumption
  <1>3. Here = paths
    BY <1>1, <1>2 DEF Here, Existing, Paths
  <1>4. Elems(walk) = {Frame(Root, Tasks)} /\ Root \in tree
    BY TreeInit DEF Init, Elems, TreeInv
  <1>5. Frame(Root, Tasks).dir = Root /\ Frame(Root, Tasks).names = {} /\ Frame(Root, Tasks).at = "read"
    BY DEF Frame
  <1>6. \A p \in Here : Ahead(p)
    BY <1>2, <1>3, <1>4, <1>5, AboveDirs DEF Ahead, AheadIn, Within
  <1>7. StartTree
    BY <1>1, <1>3 DEF StartTree, Init
  <1>8. StartWalk
    BY <1>4, <1>5, <1>6 DEF StartWalk
  <1>9. QED BY <1>7, <1>8 DEF StartSeeds, Init

LEMMA NoWorldEarly ==
  ASSUME ~Early, phase # "watch", World
  PROVE  FALSE
  BY DEF World, Write, Delete, Arrive, Leave, MayChangeIn

(* The frames and names of a walk in a tree that stays.                    *)
LEMMA MatchingWalk ==
  ASSUME TypeInv, TreeInv, FramesInv, StartInv, phase = "match", Walking
  PROVE  \A F \in Elems(walk') : F.dir \in tree /\ F.names \subseteq Here
  <1> USE DEF TypeInv
  <1>1. walk # << >>
    BY DEF Walking, ReadNames, MatchDirectory, MatchNext, Visit, VisitNext, EndOfDirectory
  <1> DEFINE Good(F) == F.dir \in tree /\ F.names \subseteq Here
  <1>2. Good(Top) /\ \A F \in Elems(Tail(walk)) : Good(F)
    BY <1>1, TopOfWalk DEF StartInv, StartWalk
  <1>3. Good(ReadTop) /\ Good(VisitedTop) /\ \A p \in Paths : Good(LeftTop(p))
    BY <1>1, <1>2, ReadTopIs, VisitedTopIs, LeftTopIs DEF Children, Here
  <1>4. \A d \in tree, ts \in SUBSET Tasks : Good(Frame(d, ts))
    BY FrameIs DEF Typing
  <1> HIDE DEF Good
  <1>5. CASE ReadNames
    BY <1>2, <1>3, <1>5, ReadNamesWalk, ElemsEmpty DEF Good
  <1>6. CASE MatchDirectory
    BY <1>2, <1>3, <1>6, MatchDirectorySteps DEF Good
  <1>7. CASE MatchNext
    <2>1. \A F \in Elems(walk') : Good(F)
      BY <1>2, <1>3, <1>4, <1>7, MatchNextSteps, ElemsEmpty
    <2>2. QED BY <2>1 DEF Good
  <1>8. CASE EndOfDirectory
    BY <1>2, <1>8, EndOfDirectorySteps DEF Good
  <1>9. QED BY <1>5, <1>6, <1>7, <1>8 DEF Walking, Visit, VisitNext

LEMMA MatchingKnown ==
  ASSUME TypeInv, TreeInv, FramesInv, StartInv, phase = "match", Walking
  PROVE  Grows /\ \A d \in Dirs : known'[d] # {} => d \in tree
  <1> USE DEF TypeInv
  <1>1. walk # << >>
    BY DEF Walking, ReadNames, MatchDirectory, MatchNext, Visit, VisitNext, EndOfDirectory
  <1>2. \A d \in Dirs : known[d] # {} => d \in tree
    BY DEF StartInv, StartTree
  <1>3. CASE known' = known
    BY <1>2, <1>3 DEF Grows
  <1>4. CASE known' # known
    <2>1. PICK d \in tree, ts \in SUBSET Tasks : known' = updateWatchable(known, Above[d], ts)
      <3>1. Top.dir \in tree /\ Top.names \subseteq Here
        BY <1>1, TopOfWalk DEF StartInv, StartWalk
      <3>2. CASE MatchDirectory
        BY <1>4, <3>1, <3>2, MatchDirectorySteps, MatchingTasks
      <3>3. CASE MatchNext
        <4>1. PICK p \in Top.names :
                known' = updateWatchable(known, Above[Parent[p]], getMatchingTasks(p))
          BY <1>4, <3>3, MatchNextSteps
        <4>2. Parent[p] \in tree
          BY <3>1, <4>1 DEF TreeInv
        <4>3. QED BY <4>1, <4>2, MatchingTasks
      <3>4. QED
        BY <1>4, <3>2, <3>3 DEF Walking, ReadNames, Visit, VisitNext, EndOfDirectory
    <2>2. Above[d] \subseteq tree
      BY <2>1, AboveHere, AboveDirs DEF Here, Typing, Paths
    <2>3. Grows /\ \A e \in Dirs : known'[e] = IF e \in Above[d] THEN known[e] \cup ts ELSE known[e]
      BY <2>1, MapGrows DEF Grows
    <2>4. QED BY <1>2, <2>2, <2>3
  <1>5. QED BY <1>3, <1>4

LEMMA MatchingAhead ==
  ASSUME TypeInv, TreeInv, FramesInv, StartInv, phase = "match", Walking,
         NEW p \in Here, OutsideShared(p)
  PROVE  Ahead(p)' \/ KnownFor(p)'
  <1> USE DEF TypeInv
  <1>1. walk # << >> /\ Top.dir \in tree /\ Top.names \subseteq Here
    <2>1. walk # << >>
      BY DEF Walking, ReadNames, MatchDirectory, MatchNext, Visit, VisitNext, EndOfDirectory
    <2>2. QED BY <2>1, TopOfWalk DEF StartInv, StartWalk
  <1>2. p \in Paths
    BY HereTyped
  <1>3. Grows
    BY MatchingKnown
  <1>4. CASE KnownFor(p)
    BY <1>3, <1>4, KnownForGrows
  <1>5. CASE Ahead(p)
    <2>1. CASE ReadNames
      BY <1>1, <1>5, <2>1, ReadAhead
    <2>2. CASE MatchDirectory
      <3>1. /\ walk # << >> /\ Top.at = "visit"
            /\ \/ globallyExcluded(Top.dir) /\ walk' = Tail(walk)
               \/ /\ Elems(walk') = {VisitedTop} \cup Elems(Tail(walk))
                  /\ known' = updateWatchable(known, Above[Top.dir], getMatchingTasks(Top.dir))
        BY <2>2, MatchDirectorySteps
      <3>2. CASE globallyExcluded(Top.dir) /\ walk' = Tail(walk)
        <4>1. ~Within(Top.dir, p)
          BY <1>1, <3>2 DEF OutsideShared, Within, Typing
        <4>2. QED BY <1>2, <1>5, <3>1, <3>2, <4>1, VisitAhead
      <3>3. CASE /\ Elems(walk') = {VisitedTop} \cup Elems(Tail(walk))
                 /\ known' = updateWatchable(known, Above[Top.dir], getMatchingTasks(Top.dir))
        <4>1. CASE p = Top.dir
          <5>1. getMatchingTasks(p) \in SUBSET Tasks
            BY MatchingTasks
          <5>2. \A d \in Dirs :
                  known'[d] = IF d \in Above[p] THEN known[d] \cup getMatchingTasks(p) ELSE known[d]
            BY <3>3, <4>1, <5>1, MapGrows
          <5>3. QED BY <5>2 DEF KnownFor
        <4>2. CASE p # Top.dir
          BY <1>2, <1>5, <3>1, <3>3, <4>2, VisitAhead
        <4>3. QED BY <4>1, <4>2
      <3>4. QED BY <3>1, <3>2, <3>3
    <2>3. CASE MatchNext
      <3>1. PICK n \in Top.names \cap Paths :
              \/ /\ n \in tree
                 /\ Elems(walk') = {Frame(n, Tasks), LeftTop(n)} \cup Elems(Tail(walk))
              \/ /\ n \in Existing /\ n \notin tree
                 /\ Elems(walk') = {LeftTop(n)} \cup Elems(Tail(walk))
                 /\ known' = updateWatchable(known, Above[Parent[n]], getMatchingTasks(n))
        BY <1>1, <2>3, MatchNextSteps
      <3>2. CASE p = n /\ n \in Existing /\ n \notin tree
        <4>1. getMatchingTasks(n) \in SUBSET Tasks
          BY MatchingTasks
        <4>2. \A d \in Dirs : known'[d]
                = IF d \in Above[Parent[n]] THEN known[d] \cup getMatchingTasks(n) ELSE known[d]
          BY <3>1, <3>2, <4>1, MapGrows
        <4>3. Above[n] \cap Dirs \subseteq Above[Parent[n]]
          BY <3>2, AboveParent, WatchPlanAssumption DEF Existing
        <4>4. QED BY <3>2, <4>2, <4>3 DEF KnownFor
      <3>3. CASE ~(p = n /\ n \in Existing /\ n \notin tree)
        <4>1. Top.at = "next" /\ Tasks \in SUBSET Tasks
          BY <2>3, MatchNextSteps
        <4>2. QED BY <1>1, <1>5, <3>1, <3>3, <4>1, NextAhead
      <3>4. QED BY <3>2, <3>3
    <2>4. CASE EndOfDirectory
      BY <1>5, <2>4, EndAhead
    <2>5. QED BY <2>1, <2>2, <2>3, <2>4 DEF Walking, Visit, VisitNext
  <1>6. QED BY <1>4, <1>5 DEF StartInv, StartWalk

LEMMA MatchingStart ==
  ASSUME TypeInv, TreeInv, FramesInv, StartInv, phase = "match", Walking
  PROVE  StartInv'
  <1>1. UNCHANGED <<tree, content, kernel, phase, todo>>
    BY DEF Walking, ReadNames, MatchDirectory, MatchNext, Visit, VisitNext, EndOfDirectory,
           world, starting
  <1>2. Here' = Here
    BY <1>1 DEF Here, Existing
  <1>3. StartTree'
    BY <1>1, <1>2, MatchingKnown DEF StartInv, StartTree
  <1>4. StartWalk'
    BY <1>1, <1>2, MatchingWalk, MatchingAhead DEF StartWalk, OutsideShared
  <1>5. StartSeeds'
    BY <1>1 DEF StartSeeds
  <1>6. QED BY <1>3, <1>4, <1>5 DEF StartInv

(* The steps after the walk, which only put directories into the map.      *)
LEMMA AfterMatching ==
  ASSUME TypeInv, TreeInv, FramesInv, StartInv, Starting, ~EndOfAdding,
         \A d \in Dirs : known'[d] # {} => d \in tree, Grows, StartSeeds'
  PROVE  StartInv'
  <1>1. UNCHANGED <<tree, content, kernel, walk>> /\ phase # "watch"
    BY DEF Starting, EndOfMatching, SeedRoot, EndOfSeeding, AddDirectory, EndOfAdding, world
  <1>2. Here' = Here
    BY <1>1 DEF Here, Existing
  <1>3. StartTree'
    BY <1>1, <1>2 DEF StartInv, StartTree
  <1>4. ASSUME NEW p \in Here, Ahead(p) \/ KnownFor(p) PROVE Ahead(p)' \/ KnownFor(p)'
    BY <1>1, <1>4, KnownForGrows DEF Ahead
  <1>5. StartWalk'
    BY <1>1, <1>2, <1>4 DEF StartInv, StartWalk, OutsideShared
  <1>6. QED BY <1>3, <1>5 DEF StartInv

LEMMA SeedingStart ==
  ASSUME TypeInv, TreeInv, FramesInv, StartInv, SeedRoot
  PROVE  StartInv'
  <1> USE DEF TypeInv
  <1> DEFINE root(g) == includeRootFromPattern(g)
             near(g) == nearestExistingDirectory(root(g), tree)
  <1>1. phase = "seed" /\ phase' = "seed" /\ UNCHANGED <<tree, content>>
    BY DEF SeedRoot, world
  <1>2. PICK seed \in todo :
          /\ todo' = todo \ {seed}
          /\ known' = IF globallyExcluded(root(seed[2])) \/ globallyExcluded(near(seed[2]))
                      THEN known ELSE WithAncestors(known, near(seed[2]), {seed[1]})
    BY DEF SeedRoot
  <1>3. PICK t \in Tasks : \E h \in Include[t] : seed = <<t, h>>
    BY <1>1, <1>2 DEF TodoTyping, Seeds
  <1>4. PICK g \in Include[t] : seed = <<t, g>>
    BY <1>3
  <1>5. near(g) \in tree /\ near(g) \in Paths /\ Above[near(g)] \subseteq tree
        /\ Above[near(g)] \subseteq Dirs
    BY NearestHere
  <1>6. CASE globallyExcluded(root(g)) \/ globallyExcluded(near(g))
    <2>1. known' = known
      BY <1>2, <1>4, <1>6
    <2>2. Grows /\ \A d \in Dirs : known'[d] # {} => d \in tree
      BY <1>1, <2>1 DEF Grows, StartInv, StartTree
    <2>3. Seeded(t, g)'
      BY <1>1, <1>6 DEF Seeded
    <2>4. QED BY <2>2, <2>3, <1>1, <1>2, <1>4, AfterMatching, SeededGrows
              DEF Starting, StartInv, StartSeeds, EndOfAdding
  <1>7. CASE ~(globallyExcluded(root(g)) \/ globallyExcluded(near(g)))
    <2>1. known' = updateWatchable(known, Above[near(g)], {t}) /\ {t} \in SUBSET Tasks
      BY <1>2, <1>4, <1>7 DEF WithAncestors
    <2> HIDE DEF near
    <2>2. /\ Grows
          /\ \A d \in Dirs : known'[d] = IF d \in Above[near(g)] THEN known[d] \cup {t} ELSE known[d]
      BY <2>1, MapGrows DEF Grows
    <2>3. \A d \in Dirs : known'[d] # {} => d \in tree
      BY <1>1, <1>5, <2>2 DEF StartInv, StartTree
    <2>4. Seeded(t, g)'
      <3>1. \A d \in Above[near(g)] : t \in known'[d]
        BY <1>5, <2>2
      <3>2. QED BY <1>1, <3>1 DEF Seeded, near
    <2>5. QED BY <2>2, <2>3, <2>4, <1>1, <1>2, <1>4, AfterMatching, SeededGrows
              DEF Starting, StartInv, StartSeeds, EndOfAdding
  <1>8. QED BY <1>6, <1>7

LEMMA StartingStart ==
  ASSUME TypeInv, TreeInv, FramesInv, StartInv, Starting
  PROVE  StartInv'
  <1> USE DEF TypeInv
  <1>1. CASE EndOfMatching
    <2>1. /\ phase = "match" /\ phase' = "seed" /\ todo' = Seeds /\ known' = known
      BY <1>1 DEF EndOfMatching, Seeds
    <2>2. StartSeeds'
      BY <2>1 DEF StartSeeds, Seeds
    <2>3. Grows /\ \A d \in Dirs : known'[d] # {} => d \in tree
      BY <2>1 DEF Grows, StartInv, StartTree
    <2>4. ~EndOfAdding
      BY <2>1 DEF EndOfAdding
    <2>5. QED BY <2>2, <2>3, <2>4, AfterMatching
  <1>2. CASE SeedRoot
    BY <1>2, SeedingStart
  <1>3. CASE EndOfSeeding
    <2>1. /\ phase = "seed" /\ todo = {} /\ phase' = "add" /\ todo' = {d \in Dirs : known[d] # {}}
          /\ known' = known /\ UNCHANGED <<tree, watched>>
      BY <1>3 DEF EndOfSeeding, world
    <2>2. Grows /\ \A d \in Dirs : known'[d] # {} => d \in tree
      BY <2>1 DEF Grows, StartInv, StartTree
    <2>3. \A t \in Tasks : \A g \in Include[t] : Seeded(t, g)'
      BY <2>1, <2>2, SeededGrows DEF StartInv, StartSeeds
    <2>4. StartSeeds'
      BY <2>1, <2>3 DEF StartSeeds
    <2>5. ~EndOfAdding
      BY <2>1 DEF EndOfAdding
    <2>6. QED BY <2>2, <2>4, <2>5, AfterMatching
  <1>4. CASE AddDirectory
    <2>1. PICK d \in todo :
            /\ todo' = IF d \in tree THEN todo \ {d} ELSE {}
            /\ watched' = watched \cup ({d} \cap tree)
      BY <1>4 DEF AddDirectory
    <2>2. phase = "add" /\ phase' = "add" /\ known' = known /\ UNCHANGED tree
      BY <1>4 DEF AddDirectory, world
    <2>3. d \in tree
      BY <2>1, <2>2 DEF TodoTyping, StartInv, StartTree
    <2>4. Grows /\ \A e \in Dirs : known'[e] # {} => e \in tree
      BY <2>2 DEF Grows, StartInv, StartTree
    <2>5. \A t \in Tasks : \A g \in Include[t] : Seeded(t, g)'
      BY <2>2, <2>4, SeededGrows DEF StartInv, StartSeeds
    <2>6. \A e \in Dirs : known'[e] # {} => e \in todo' \cup watched'
      BY <2>1, <2>2, <2>3 DEF StartInv, StartSeeds
    <2>7. StartSeeds'
      BY <2>2, <2>5, <2>6 DEF StartSeeds
    <2>8. CASE EndOfAdding
      BY <1>4, <2>2, <2>8 DEF EndOfAdding
    <2>9. CASE ~EndOfAdding
      BY <1>4, <2>4, <2>7, <2>9, AfterMatching DEF Starting
    <2>10. QED BY <2>8, <2>9
  <1>5. CASE EndOfAdding
    BY <1>5 DEF EndOfAdding, StartInv
  <1>6. QED BY <1>1, <1>2, <1>3, <1>4, <1>5 DEF Starting

LEMMA StepStart ==
  ASSUME ~Early, TypeInv, TreeInv, FramesInv, StartInv, [Next]_vars
  PROVE  StartInv'
  <1>1. CASE phase = "watch"
    <2>1. phase' = "watch"
      BY <1>1, NextIs DEF vars, starting, World, Write, Delete, Arrive, Leave, Walking, ReadNames,
         MatchDirectory, MatchNext, Visit, VisitNext, EndOfDirectory, Starting, EndOfMatching,
         SeedRoot, EndOfSeeding, AddDirectory, EndOfAdding, Handle
    <2>2. QED BY <2>1 DEF StartInv
  <1>2. CASE phase # "watch"
    <2>1. CASE UNCHANGED vars
      BY <2>1 DEF vars, world, starting, StartInv, StartTree, StartWalk, StartSeeds, Here, Existing,
                  Ahead, KnownFor, Seeded, OutsideShared
    <2>2. CASE World
      BY <1>2, <2>2, NoWorldEarly
    <2>3. CASE Walking
      <3>1. phase = "match"
        BY <1>2, <2>3 DEF Walking, ReadNames, MatchDirectory, MatchNext, Visit, VisitNext,
                          EndOfDirectory, FramesInv, TypeInv, Typing
      <3>2. QED BY <2>3, <3>1, MatchingStart
    <2>4. CASE Starting
      BY <2>4, StartingStart
    <2>5. CASE Handle
      BY <1>2, <2>5 DEF Handle
    <2>6. QED BY <2>1, <2>2, <2>3, <2>4, <2>5, NextIs
  <1>3. QED BY <1>1, <1>2

(* When events are taken, the directories of tasks that exist are watched. *)
LEMMA WatchedAtFirst ==
  ASSUME StartsForeseen, TypeInv, TreeInv, FramesInv, StartInv, EndOfAdding
  PROVE  /\ walk = << >> /\ kernel = << >>
         /\ \A d \in Dirs : known[d] # {} => d \in tree
         /\ \A t \in Tasks : \A d \in Holding(t) \cap tree : t \in known[d] /\ d \in watched
  <1> USE DEF TypeInv
  <1>1. /\ phase = "add" /\ todo = {} /\ walk = << >> /\ kernel = << >> /\ Here \in StartTrees
        /\ \A d \in Dirs : known[d] # {} => d \in tree /\ d \in watched
    BY DEF EndOfAdding, FramesInv, StartInv, StartTree, StartSeeds
  <1>2. Here \cap Dirs = tree /\ tree \subseteq Here
    BY WatchPlanAssumption DEF Here, Existing, Typing
  <1>3. ASSUME NEW t \in Tasks, NEW d \in Holding(t) \cap tree PROVE t \in known[d]
    <2>1. d \in FoundAtStart(t, Here) /\ d \in Dirs
      BY <1>1, <1>2, <1>3 DEF StartsForeseen, Typing
    <2>2. CASE \E p \in Here : Within(d, p) /\ OutsideShared(p) /\ t \in getMatchingTasks(p)
      <3>1. PICK p \in Here : Within(d, p) /\ OutsideShared(p) /\ t \in getMatchingTasks(p)
        BY <2>2
      <3>2. KnownFor(p)
        BY <1>1, <3>1, NothingAhead DEF StartInv, StartWalk
      <3>3. QED BY <2>1, <3>1, <3>2 DEF KnownFor, Within
    <2>3. CASE \E g \in Include[t] :
                 LET root == includeRootFromPattern(g)
                     near == nearestExistingDirectory(root, tree)
                 IN ~globallyExcluded(root) /\ ~globallyExcluded(near) /\ Within(d, near)
      <3>1. PICK g \in Include[t] :
              LET root == includeRootFromPattern(g)
                  near == nearestExistingDirectory(root, tree)
              IN ~globallyExcluded(root) /\ ~globallyExcluded(near) /\ Within(d, near)
        BY <2>3
      <3>2. Seeded(t, g)
        BY <1>1 DEF StartInv, StartSeeds
      <3>3. QED BY <3>1, <3>2 DEF Seeded, Within
    <2>4. QED BY <1>2, <2>1, <2>2, <2>3 DEF FoundAtStart
  <1>4. QED BY <1>1, <1>3 DEF Typing

-----------------------------------------------------------------------------
(* The watcher at work, in a tree whose directories fill before they are   *)
(* moved into place: the map, a walk and the events have a directory that  *)
(* may hold files of a task for that task.                                 *)
TasksInv == phase = "watch" => \A t \in Tasks : \A d \in Holding(t) :
  /\ d \in watched => t \in known[d]
  /\ \A F \in Elems(walk) : F.dir = d => t \in F.tasks
  /\ \A e \in Elems(kernel) : Parent[e.path] = d => t \in known[d]

(* Such a directory is watched, ahead of the walk, or below one whose      *)
(* creation fsnotify still reports.                                        *)
Announced(p) == \E e \in Elems(kernel) : e.op = "create" /\ e.path \in Dirs /\ Within(e.path, p)
WatchInv == phase = "watch" => \A t \in Tasks : \A d \in Holding(t) \cap tree :
  d \in watched \/ Ahead(d) \/ Announced(d)

LEMMA NothingAnnounced == kernel = << >> => \A p : ~Announced(p)
  BY ElemsEmpty DEF Announced

(* Nothing changes in a directory of a task before it is watched.          *)
LEMMA ChangesReported ==
  ASSUME ~Early, ~Gradually, WatchInv, NEW t \in Tasks, NEW d \in Holding(t), MayChangeIn(d)
  PROVE  d \in watched
  <1>1. phase = "watch" /\ d \in tree /\ (d \in watched \/ Settled)
    BY DEF MayChangeIn
  <1>2. Settled => ~Ahead(d) /\ ~Announced(d)
    BY NothingAhead, NothingAnnounced DEF Settled
  <1>3. QED BY <1>1, <1>2 DEF WatchInv

LEMMA AnnouncedStays == Elems(kernel) \subseteq Elems(kernel') => \A p : Announced(p) => Announced(p)'
  BY DEF Announced

LEMMA WorldReports ==
  ASSUME ~Early, TypeInv, World
  PROVE  /\ phase = "watch" /\ phase' = "watch" /\ UNCHANGED <<known, walk, noted>>
         /\ Elems(kernel) \subseteq Elems(kernel') /\ watched' \subseteq watched
         /\ \A e \in Elems(kernel') \ Elems(kernel) : Parent[e.path] \in watched
  <1> USE DEF TypeInv
  <1>1. /\ phase = "watch" /\ phase' = "watch" /\ UNCHANGED <<known, walk, noted>>
        /\ watched' \subseteq watched
    BY DEF World, Write, Delete, Arrive, Leave, MayChangeIn, starting
  <1>2. PICK op \in {"create", "write", "remove"}, p \in Paths : Report(op, p)
    BY DEF World, Write, Delete, Arrive, Leave, Paths
  <1>3. /\ Elems(kernel) \subseteq Elems(kernel')
        /\ Elems(kernel') \subseteq Elems(kernel) \cup {Event(op, p)} /\ Event(op, p).path = p
        /\ Parent[p] \notin watched => Elems(kernel') = Elems(kernel)
    BY <1>2, Reported
  <1>4. QED BY <1>1, <1>3

LEMMA WorldTasks ==
  ASSUME ~Early, TypeInv, TasksInv, World
  PROVE  TasksInv'
  <1>1. /\ phase = "watch" /\ UNCHANGED <<known, walk>> /\ watched' \subseteq watched
        /\ \A e \in Elems(kernel') \ Elems(kernel) : Parent[e.path] \in watched
    BY WorldReports
  <1>2. QED BY <1>1 DEF TasksInv

LEMMA WorldWatch ==
  ASSUME ~Early, ~Gradually, TypeInv, TreeInv, WatchInv, World
  PROVE  WatchInv'
  <1> USE DEF TypeInv
  <1>1. /\ phase = "watch" /\ walk' = walk /\ Elems(kernel) \subseteq Elems(kernel')
    BY WorldReports
  <1>2. ASSUME NEW t \in Tasks, NEW d \in Holding(t) \cap tree,
               d \in watched => d \in watched'
        PROVE  (d \in watched \/ Ahead(d) \/ Announced(d))'
    BY <1>1, <1>2, AnnouncedStays DEF WatchInv, Ahead
  <1>3. CASE UNCHANGED <<tree, watched>>
    BY <1>2, <1>3 DEF WatchInv
  <1>4. ASSUME NEW c \in Dirs, NEW parts \in SUBSET Below(c), Arrive(c, parts) PROVE WatchInv'
    <2>1. /\ tree' = tree \cup {c} \cup (parts \cap Dirs) /\ watched' = watched
          /\ MayChangeIn(Parent[c]) /\ Report("create", c)
      BY <1>4 DEF Arrive
    <2>2. ASSUME NEW t \in Tasks, NEW d \in Holding(t), d \in {c} \cup parts PROVE Announced(d)'
      <3>1. Within(c, d)
        BY <2>2, AboveSteps DEF Below, Within, Paths
      <3>2. c \in Holding(t)
        BY <3>1, HoldingFacts DEF Within
      <3>3. Parent[c] \in watched
        BY <2>1, <3>2, HoldingFacts, ChangesReported
      <3>4. /\ Event("create", c) \in Elems(kernel') /\ Event("create", c).op = "create"
            /\ Event("create", c).path = c
        BY <2>1, <3>3, Reported DEF Paths
      <3>5. QED BY <3>1, <3>4 DEF Announced
    <2>3. QED BY <1>2, <2>1, <2>2 DEF WatchInv
  <1>5. ASSUME NEW c \in Dirs, Leave(c) PROVE WatchInv'
    <2>1. tree' = tree \ ({c} \cup Below(c)) /\ watched' = watched \ ({c} \cup Below(c))
      BY <1>5 DEF Leave
    <2>2. QED BY <1>2, <2>1 DEF WatchInv
  <1>6. QED BY <1>3, <1>4, <1>5 DEF World, Write, Delete

(* A directory that appeared and may hold files of a task is walked for it.*)
LEMMA HandledDirectory ==
  ASSUME ExcludesNoInputs, TypeInv, TasksInv, Handle,
         NEW t \in Tasks, Head(kernel).path \in Holding(t)
  PROVE  LET p == Head(kernel).path
             tasks == taskIdsForCreatedDirectory(p, known[Parent[p]])
         IN t \in tasks /\ ~globallyExcluded(p)
  <1> DEFINE p == Head(kernel).path
  <1>1. phase = "watch" /\ Head(kernel) \in Elems(kernel)
    BY Handled DEF Handle, TypeInv
  <1>2. /\ Parent[p] \in Holding(t) /\ ~globallyExcluded(p) /\ taskCanMatchDirectory(t, p)
    BY HoldingFacts
  <1>3. t \in known[Parent[p]]
    BY <1>1, <1>2 DEF TasksInv
  <1>4. QED BY <1>2, <1>3 DEF taskIdsForCreatedDirectory

LEMMA HandleAhead ==
  ASSUME ExcludesNoInputs, TypeInv, TreeInv, TasksInv, Handle,
         NEW t \in Tasks, NEW p \in Here, Above[p] \cap Dirs \subseteq Holding(t), Announced(p)
  PROVE  Ahead(p)' \/ Announced(p)'
  <1> USE DEF TypeInv
  <1>1. Elems(kernel) = {Head(kernel)} \cup Elems(kernel')
    BY Handled
  <1>2. PICK e \in Elems(kernel) : e.op = "create" /\ e.path \in Dirs /\ Within(e.path, p)
    BY DEF Announced
  <1>3. CASE e \in Elems(kernel')
    BY <1>2, <1>3 DEF Announced
  <1>4. CASE e = Head(kernel)
    <2> DEFINE d == Head(kernel).path
               tasks == taskIdsForCreatedDirectory(d, known[Parent[d]])
    <2>1. d \in tree /\ d \in Holding(t)
      BY <1>2, <1>4, AboveHere DEF Within
    <2>2. t \in tasks /\ ~globallyExcluded(d)
      BY <2>1, HandledDirectory
    <2>3. Elems(walk') = {Frame(d, tasks)}
      BY <1>2, <1>4, <2>1, <2>2, HandleSteps
    <2>4. AheadIn(Frame(d, tasks), p)
      <3>1. Frame(d, tasks).dir = d /\ Frame(d, tasks).at = "read"
        BY DEF Frame
      <3>2. QED BY <1>2, <1>4, <3>1 DEF AheadIn
    <2>5. QED BY <2>3, <2>4 DEF Ahead
  <1>5. QED BY <1>1, <1>3, <1>4

LEMMA HandleTasks ==
  ASSUME ExcludesNoInputs, TypeInv, TasksInv, Handle
  PROVE  TasksInv'
  <1> USE DEF TypeInv
  <1>1. /\ phase = "watch" /\ UNCHANGED <<known, watched>> /\ Elems(kernel') \subseteq Elems(kernel)
    BY Handled DEF Handle
  <1> DEFINE p == Head(kernel).path
             tasks == taskIdsForCreatedDirectory(p, known[Parent[p]])
  <1>2. Elems(walk') \subseteq {Frame(p, tasks)}
    BY HandleSteps
  <1>3. Frame(p, tasks).dir = p /\ Frame(p, tasks).tasks = tasks
    BY DEF Frame
  <1>4. ASSUME NEW t \in Tasks, p \in Holding(t) PROVE t \in tasks
    BY <1>4, HandledDirectory
  <1> HIDE DEF p, tasks
  <1>5. QED BY <1>1, <1>2, <1>3, <1>4 DEF TasksInv

LEMMA HandleWatch ==
  ASSUME ExcludesNoInputs, TypeInv, TreeInv, TasksInv, WatchInv, Handle
  PROVE  WatchInv'
  <1> USE DEF TypeInv
  <1>1. /\ phase = "watch" /\ walk = << >> /\ UNCHANGED <<tree, watched>>
    BY DEF Handle, world
  <1>2. ASSUME NEW t \in Tasks, NEW d \in Holding(t) \cap tree
        PROVE  (d \in watched \/ Ahead(d) \/ Announced(d))'
    <2>1. d \in watched \/ Announced(d)
      BY <1>1, NothingAhead DEF WatchInv
    <2>2. d \in Here /\ Above[d] \cap Dirs \subseteq Holding(t)
      BY <1>2, HoldingFacts DEF Here
    <2>3. QED BY <1>1, <2>1, <2>2, HandleAhead
  <1>3. QED BY <1>1, <1>2 DEF WatchInv

(* A directory on the walk that may hold files of a task is not skipped.   *)
LEMMA VisitedDirectory ==
  ASSUME ExcludesNoInputs, TypeInv, TasksInv, Visit, NEW t \in Tasks, Top.dir \in Holding(t)
  PROVE  /\ t \in taskIdsForCreatedDirectory(Top.dir, Top.tasks) /\ ~globallyExcluded(Top.dir)
         /\ walk # << >> /\ Elems(walk') = {VisitedTop} \cup Elems(Tail(walk))
         /\ watched' = watched \cup ({Top.dir} \cap tree)
  <1> USE DEF TypeInv
  <1>1. phase = "watch" /\ walk # << >> /\ Top \in Elems(walk)
    BY TopOfWalk DEF Visit
  <1>2. ~globallyExcluded(Top.dir) /\ taskCanMatchDirectory(t, Top.dir)
    BY HoldingFacts
  <1>3. t \in Top.tasks
    BY <1>1 DEF TasksInv
  <1>4. t \in taskIdsForCreatedDirectory(Top.dir, Top.tasks)
    BY <1>2, <1>3 DEF taskIdsForCreatedDirectory
  <1>5. QED BY <1>1, <1>2, <1>4, VisitSteps

LEMMA WalkTasks ==
  ASSUME ExcludesNoInputs, TypeInv, FramesInv, TasksInv, Walking, phase = "watch"
  PROVE  TasksInv'
  <1> USE DEF TypeInv
  <1>1. walk # << >> /\ phase' = "watch" /\ kernel' = kernel
    BY DEF Walking, ReadNames, MatchDirectory, MatchNext, Visit, VisitNext, EndOfDirectory, starting
  <1> DEFINE Good(F) == \A t \in Tasks : F.dir \in Holding(t) => t \in F.tasks
  <1>2. Good(Top) /\ (\A F \in Elems(Tail(walk)) : Good(F)) /\ Top.dir \in Dirs
    BY <1>1, TopOfWalk DEF TasksInv, Frames
  <1>3. Good(ReadTop) /\ Good(VisitedTop) /\ \A p \in Paths : Good(LeftTop(p))
    BY <1>1, <1>2, ReadTopIs, VisitedTopIs, LeftTopIs
  <1>4. ASSUME NEW p \in Top.names \cap Paths, p \in tree PROVE Good(Frame(p, Top.tasks))
    <2>1. Parent[p] = Top.dir
      BY <1>1, TopOfWalk DEF FramesInv
    <2>2. Frame(p, Top.tasks).dir = p /\ Frame(p, Top.tasks).tasks = Top.tasks
      BY DEF Frame
    <2>3. \A t \in Tasks : p \in Holding(t) => Top.dir \in Holding(t)
      BY <2>1, HoldingFacts
    <2>4. QED BY <1>2, <2>2, <2>3
  <1> HIDE DEF Good
  <1>5. /\ \A F \in Elems(walk') : Good(F)
        /\ Grows
        /\ \A t \in Tasks : \A d \in Holding(t) : d \in watched' => t \in known'[d]
    <2>1. CASE ReadNames
      <3>1. UNCHANGED <<known, watched>>
        BY <2>1 DEF ReadNames
      <3>2. \A F \in Elems(walk') : Good(F)
        BY <1>1, <1>2, <1>3, <2>1, ReadNamesWalk
      <3>3. QED BY <1>1, <3>1, <3>2 DEF TasksInv, Grows
    <2>2. CASE Visit
      <3>1. \A F \in Elems(walk') : Good(F)
        BY <1>2, <1>3, <2>2, VisitSteps
      <3>2. CASE known' = known /\ watched' = watched
        BY <1>1, <3>1, <3>2 DEF TasksInv, Grows
      <3>3. CASE ~(known' = known /\ watched' = watched)
        <4> DEFINE ts == taskIdsForCreatedDirectory(Top.dir, Top.tasks)
        <4>1. /\ ts \in SUBSET Tasks /\ known' = updateWatchable(known, {Top.dir}, ts)
              /\ watched' = watched \cup ({Top.dir} \cap tree)
          BY <2>2, <3>3, VisitSteps
        <4>2. \A t \in Tasks : Top.dir \in Holding(t) => t \in ts
          BY <2>2, VisitedDirectory
        <4> HIDE DEF ts
        <4>3. /\ known' \in [Dirs -> SUBSET Tasks]
              /\ \A d \in Dirs : known'[d] = IF d \in {Top.dir} THEN known[d] \cup ts ELSE known[d]
              /\ \A d \in Dirs : known[d] \subseteq known'[d]
          BY <4>1, MapGrows
        <4>4. ASSUME NEW t \in Tasks, NEW d \in Holding(t), d \in watched' PROVE t \in known'[d]
          <5>1. d \in Dirs
            BY HoldingFacts
          <5>2. CASE d \in watched
            BY <1>1, <4>3, <5>1, <5>2 DEF TasksInv
          <5>3. CASE d = Top.dir
            BY <4>2, <4>3, <5>1, <5>3
          <5>4. QED BY <4>1, <4>4, <5>2, <5>3
        <4>5. QED BY <3>1, <4>3, <4>4 DEF Grows
      <3>4. QED BY <3>2, <3>3
    <2>3. CASE VisitNext
      <3>1. UNCHANGED <<known, watched>>
        BY <2>3 DEF VisitNext
      <3>2. \A F \in Elems(walk') : Good(F)
        BY <1>2, <1>3, <1>4, <2>3, VisitNextSteps
      <3>3. QED BY <1>1, <3>1, <3>2 DEF TasksInv, Grows
    <2>4. CASE EndOfDirectory
      <3>1. UNCHANGED <<known, watched>>
        BY <2>4 DEF EndOfDirectory
      <3>2. \A F \in Elems(walk') : Good(F)
        BY <1>2, <2>4, EndOfDirectorySteps
      <3>3. QED BY <1>1, <3>1, <3>2 DEF TasksInv, Grows
    <2>5. QED BY <2>1, <2>2, <2>3, <2>4 DEF Walking, MatchDirectory, MatchNext
  <1>6. \A t \in Tasks : Holding(t) \subseteq Dirs
    BY DEF Holding
  <1>7. QED BY <1>1, <1>5, <1>6 DEF TasksInv, Good, Grows

(* What of a walk is lost is what a task does not hold, or is watched or   *)
(* noted by the step.                                                      *)
LEMMA WalkAhead ==
  ASSUME ExcludesNoInputs, TypeInv, TreeInv, FramesInv, TasksInv, Walking, phase = "watch",
         NEW t \in Tasks, NEW p \in Here, Above[p] \cap Dirs \subseteq Holding(t), Ahead(p)
  PROVE  \/ Ahead(p)'
         \/ p \in tree /\ p \in watched'
         \/ /\ p \in Existing /\ p \notin tree /\ Notice(p) /\ VisitNext
            /\ p \in Top.names /\ Top.at = "next" /\ walk # << >>
  <1> USE DEF TypeInv
  <1>1. p \in Paths /\ p \in Above[p]
    BY HereTyped, AboveSteps
  <1>2. CASE ReadNames
    BY <1>2, ReadAhead
  <1>3. CASE Visit
    <2>1. walk # << >> /\ Top.at = "visit" /\ Top.dir \in Dirs
      BY <1>3, TopOfWalk DEF Visit, Frames
    <2>2. CASE Top.dir \in Holding(t)
      <3>1. /\ Elems(walk') = {VisitedTop} \cup Elems(Tail(walk))
            /\ watched' = watched \cup ({Top.dir} \cap tree)
        BY <1>3, <2>2, VisitedDirectory
      <3>2. p = Top.dir => p \in tree
        BY <2>1, WatchPlanAssumption DEF Here, Existing
      <3>3. QED BY <1>1, <2>1, <3>1, <3>2, VisitAhead
    <2>3. CASE Top.dir \notin Holding(t)
      <3>1. ~Within(Top.dir, p) /\ p # Top.dir
        BY <1>1, <2>1, <2>3 DEF Within
      <3>2. Elems(walk') = {VisitedTop} \cup Elems(Tail(walk)) \/ walk' = Tail(walk)
        BY <1>3, VisitSteps
      <3>3. QED BY <1>1, <2>1, <3>1, <3>2, VisitAhead
    <2>4. QED BY <2>2, <2>3
  <1>4. CASE VisitNext
    <2>1. PICK n \in Top.names \cap Paths :
            /\ n \in tree => Elems(walk') = {Frame(n, Top.tasks), LeftTop(n)} \cup Elems(Tail(walk))
            /\ n \notin tree => Elems(walk') = {LeftTop(n)} \cup Elems(Tail(walk))
            /\ IF n \in Existing THEN Notice(n) ELSE UNCHANGED noted
      BY <1>4, VisitNextSteps
    <2>2. Top.at = "next" /\ walk # << >> /\ Top.tasks \in SUBSET Tasks
      BY <1>4, VisitNextSteps
    <2>3. Ahead(p)' \/ (p = n /\ n \in Existing /\ n \notin tree)
      BY <2>1, <2>2, NextAhead
    <2>4. QED BY <1>4, <2>1, <2>2, <2>3
  <1>5. CASE EndOfDirectory
    BY <1>5, EndAhead
  <1>6. QED BY <1>2, <1>3, <1>4, <1>5 DEF Walking, MatchDirectory, MatchNext

LEMMA WalkWatch ==
  ASSUME ExcludesNoInputs, TypeInv, TreeInv, FramesInv, TasksInv, WatchInv, Walking,
         phase = "watch"
  PROVE  WatchInv'
  <1> USE DEF TypeInv
  <1>1. phase' = "watch" /\ UNCHANGED <<tree, kernel>> /\ watched \subseteq watched'
    BY DEF Walking, ReadNames, MatchDirectory, MatchNext, Visit, VisitNext, EndOfDirectory,
           starting, world
  <1>2. ASSUME NEW t \in Tasks, NEW d \in Holding(t) \cap tree
        PROVE  (d \in watched \/ Ahead(d) \/ Announced(d))'
    <2>1. d \in watched \/ Ahead(d) \/ Announced(d)
      BY DEF WatchInv
    <2>2. CASE d \in watched
      BY <1>1, <2>2
    <2>3. CASE Announced(d)
      BY <1>1, <2>3 DEF Announced
    <2>4. CASE Ahead(d)
      <3>1. d \in Here /\ Above[d] \cap Dirs \subseteq Holding(t)
        BY HoldingFacts DEF Here
      <3>2. QED BY <2>4, <3>1, WalkAhead
    <2>5. QED BY <2>1, <2>2, <2>3, <2>4
  <1>3. QED BY <1>1, <1>2 DEF WatchInv

LEMMA StartingWatch ==
  ASSUME StartsForeseen, TypeInv, TreeInv, FramesInv, StartInv, Starting
  PROVE  TasksInv' /\ WatchInv'
  <1> USE DEF TypeInv
  <1>1. CASE EndOfAdding
    <2>1. UNCHANGED <<tree, kernel, watched, known, walk>>
      BY <1>1 DEF EndOfAdding, world
    <2>2. /\ walk = << >> /\ kernel = << >> /\ watched \subseteq tree
          /\ \A t \in Tasks : \A d \in Holding(t) \cap tree : t \in known[d] /\ d \in watched
      BY <1>1, WatchedAtFirst DEF Typing
    <2>3. QED BY <2>1, <2>2, ElemsEmpty DEF TasksInv, WatchInv
  <1>2. CASE ~EndOfAdding
    BY <1>2 DEF Starting, EndOfMatching, SeedRoot, EndOfSeeding, AddDirectory, TasksInv, WatchInv
  <1>3. QED BY <1>1, <1>2

LEMMA StepWatch ==
  ASSUME ~Early, ~Gradually, ExcludesNoInputs, StartsForeseen, TypeInv, TreeInv, FramesInv,
         StartInv, TasksInv, WatchInv, [Next]_vars
  PROVE  TasksInv' /\ WatchInv'
  <1>1. CASE UNCHANGED vars
    BY <1>1 DEF vars, world, starting, TasksInv, WatchInv, Ahead, Announced
  <1>2. CASE World
    BY <1>2, WorldTasks, WorldWatch
  <1>3. CASE Walking
    <2>1. CASE phase = "watch"
      BY <1>3, <2>1, WalkTasks, WalkWatch
    <2>2. CASE phase # "watch"
      BY <1>3, <2>2 DEF Walking, ReadNames, MatchDirectory, MatchNext, Visit, VisitNext,
                        EndOfDirectory, starting, TasksInv, WatchInv
    <2>3. QED BY <2>1, <2>2
  <1>4. CASE Starting
    BY <1>4, StartingWatch
  <1>5. CASE Handle
    BY <1>5, HandleTasks, HandleWatch
  <1>6. QED BY <1>1, <1>2, <1>3, <1>4, <1>5, NextIs

Foreseen == ~Early /\ ExcludesNoInputs /\ StartsForeseen
DirectoriesInv == StartInv /\ TasksInv /\ WatchInv

THEOREM DirectoriesInvHolds ==
  ASSUME Foreseen, ~Gradually
  PROVE  Spec => []DirectoriesInv
  <1>1. Init => DirectoriesInv
    BY StartInit DEF DirectoriesInv, Init, TasksInv, WatchInv
  <1>2. TreeWalkInv /\ DirectoriesInv /\ [Next]_vars => DirectoriesInv'
    BY StepStart, StepWatch, Foreseen, ~Gradually DEF Foreseen, TreeWalkInv, DirectoriesInv
  <1>3. QED BY <1>1, <1>2, TreeWalkInvHolds, PTL DEF Spec

(* EveryDirectoryWatched, in every configuration whose excludes leave the  *)
(* inputs of its own task alone, for a tree foreseen at the start whose    *)
(* directories are moved into place complete.                              *)
THEOREM DirectoriesWatched ==
  ASSUME Foreseen, ~Gradually
  PROVE  Spec => []EveryDirectoryWatched
  <1>1. ASSUME DirectoriesInv, Settled, NEW t \in Tasks, NEW f \in Inputs(t)
        PROVE  Above[Parent[f]] \cap tree \subseteq watched
    <2>1. Above[Parent[f]] \subseteq Holding(t)
      BY InputHolding
    <2>2. phase = "watch" /\ \A p : ~Ahead(p) /\ ~Announced(p)
      BY <1>1, NothingAhead, NothingAnnounced DEF Settled
    <2>3. QED BY <1>1, <2>1, <2>2 DEF DirectoriesInv, WatchInv
  <1>2. DirectoriesInv => EveryDirectoryWatched
    BY <1>1 DEF EveryDirectoryWatched
  <1>3. QED BY <1>2, DirectoriesInvHolds, PTL

-----------------------------------------------------------------------------
(* The files of a task: the last write is noted, or ahead of the walk, or  *)
(* below a directory that is announced, or an event of it is to come; and  *)
(* for a task with suppression a removal.  A walk is in directories of the *)
(* map, without which a file is not noted.                                 *)
OpenInv == phase = "watch" =>
  \A F \in Elems(walk) : F.at = "next" => known[F.dir] # {}
Reporting(f, kinds) == \E e \in Elems(kernel) : e.path = f /\ e.op \in kinds
WrittenNoted(t, f) ==
  \/ noted[t][f] = content[f] \/ Ahead(f) \/ Announced(f) \/ Reporting(f, {"create", "write"})
RemovalNoted(t, f) ==
  t \notin Suppressed \/ noted[t][f] = 0 \/ Reporting(f, {"create", "write", "remove"})
NoteInv == phase = "watch" => \A t \in Tasks : \A f \in Inputs(t) :
  IF content[f] # 0 THEN WrittenNoted(t, f) ELSE RemovalNoted(t, f)

LEMMA InputHere ==
  ASSUME Typing, NEW t \in Tasks, NEW f \in Inputs(t)
  PROVE  /\ content[f] # 0 <=> f \in Existing
         /\ f \in Existing <=> f \in Here
         /\ f \notin tree
  BY InputHolding DEF Existing, Here, Typing

LEMMA WalkOpen ==
  ASSUME TypeInv, OpenInv, Walking, phase = "watch"
  PROVE  OpenInv'
  <1> USE DEF TypeInv
  <1>1. walk # << >> /\ phase' = "watch"
    BY DEF Walking, ReadNames, MatchDirectory, MatchNext, Visit, VisitNext, EndOfDirectory, starting
  <1> DEFINE Open(F) == F.at = "next" => known'[F.dir] # {}
  <1>2. Grows /\ (Visit => walk' = Tail(walk) \/ known'[Top.dir] # {})
    <2>1. CASE Visit
      <3> DEFINE ts == taskIdsForCreatedDirectory(Top.dir, Top.tasks)
      <3>1. CASE known' = known /\ walk' = Tail(walk)
        BY <3>1 DEF Grows
      <3>2. CASE ~(known' = known /\ walk' = Tail(walk))
        <4>1. ts \in SUBSET Tasks /\ ts # {} /\ known' = updateWatchable(known, {Top.dir}, ts)
          BY <2>1, <3>2, VisitSteps
        <4> HIDE DEF ts
        <4>2. /\ known' \in [Dirs -> SUBSET Tasks]
              /\ \A d \in Dirs : known'[d] = IF d \in {Top.dir} THEN known[d] \cup ts ELSE known[d]
              /\ \A d \in Dirs : known[d] \subseteq known'[d]
          BY <4>1, MapGrows
        <4>3. Top.dir \in Dirs
          BY <1>1, TopOfWalk DEF Frames
        <4>4. QED BY <4>1, <4>2, <4>3 DEF Grows
      <3>3. QED BY <3>1, <3>2
    <2>2. CASE ~Visit
      BY <2>2 DEF Walking, ReadNames, MatchDirectory, MatchNext, VisitNext, EndOfDirectory, Grows
    <2>3. QED BY <2>1, <2>2
  <1>3. (Top.at = "next" => known'[Top.dir] # {}) /\ \A F \in Elems(Tail(walk)) : Open(F)
    BY <1>1, <1>2, TopOfWalk DEF OpenInv, Grows, Frames
  <1>4. Open(ReadTop) /\ \A p \in Paths : Open(LeftTop(p))
    BY <1>1, <1>3, ReadTopIs, LeftTopIs
  <1>5. \A d, ts : Open(Frame(d, ts))
    BY DEF Frame
  <1>6. known'[Top.dir] # {} => Open(VisitedTop)
    BY <1>1, VisitedTopIs
  <1> HIDE DEF Open
  <1>7. \A F \in Elems(walk') : Open(F)
    <2>1. CASE ReadNames
      BY <1>1, <1>3, <1>4, <2>1, ReadNamesWalk
    <2>2. CASE Visit
      BY <1>2, <1>3, <1>6, <2>2, VisitSteps
    <2>3. CASE VisitNext
      BY <1>3, <1>4, <1>5, <2>3, VisitNextSteps
    <2>4. CASE EndOfDirectory
      BY <1>3, <2>4, EndOfDirectorySteps
    <2>5. QED BY <2>1, <2>2, <2>3, <2>4 DEF Walking, MatchDirectory, MatchNext
  <1>8. QED BY <1>1, <1>7 DEF OpenInv, Open

LEMMA StepOpen == TypeInv /\ FramesInv /\ OpenInv /\ [Next]_vars => OpenInv'
  <1> SUFFICES ASSUME TypeInv, FramesInv, OpenInv, [Next]_vars PROVE OpenInv'
    OBVIOUS
  <1>1. CASE UNCHANGED vars \/ World
    BY <1>1 DEF vars, starting, World, Write, Delete, Arrive, Leave, OpenInv
  <1>2. CASE Walking
    <2>1. phase' = phase
      BY <1>2 DEF Walking, ReadNames, MatchDirectory, MatchNext, Visit, VisitNext, EndOfDirectory,
                  starting
    <2>2. QED BY <1>2, <2>1, WalkOpen DEF OpenInv
  <1>3. CASE Starting
    BY <1>3, ElemsEmpty DEF Starting, EndOfMatching, SeedRoot, EndOfSeeding, AddDirectory,
                            EndOfAdding, FramesInv, OpenInv
  <1>4. CASE Handle
    <2>1. \A F \in Elems(walk') : F.at = "read"
      <3>1. \A d, ts : Frame(d, ts).at = "read"
        BY DEF Frame
      <3>2. QED BY <1>4, <3>1, HandleSteps DEF TypeInv
    <2>2. QED BY <2>1 DEF OpenInv
  <1>5. QED BY <1>1, <1>2, <1>3, <1>4, NextIs

(* A notice leaves what it does not concern, and never notes what is past. *)
LEMMA NoticeNotes ==
  ASSUME Typing, NEW g, NEW ts, NoticeFor(g, ts), NEW t \in Tasks, NEW f \in Inputs(t)
  PROVE  /\ noted'[t][f] \in {noted[t][f], content[f]}
         /\ g = f /\ t \in ts /\ known[Parent[f]] # {} => noted'[t][f] = content[f]
  <1>1. noted[t] \in [Files -> Stamps] /\ f \in Files /\ t \in getMatchingTasks(f)
    BY InputHolding DEF Typing
  <1>2. noted'[t] = IF g \in Files /\ known[Parent[g]] # {} /\ t \in ts \cap getMatchingTasks(g)
                    THEN [noted[t] EXCEPT ![g] = content[g]] ELSE noted[t]
    BY DEF NoticeFor
  <1>3. CASE noted'[t] = noted[t] /\ ~(g = f /\ t \in ts /\ known[Parent[f]] # {})
    BY <1>3
  <1>4. CASE g \in Files /\ noted'[t] = [noted[t] EXCEPT ![g] = content[g]]
    BY <1>1, <1>4
  <1>5. QED BY <1>1, <1>2, <1>3, <1>4

LEMMA WorldNote ==
  ASSUME ~Early, ~Gradually, ~MovedAway, TypeInv, TreeInv, WatchInv, NoteInv, World
  PROVE  NoteInv'
  <1> USE DEF TypeInv
  <1>1. /\ phase = "watch" /\ UNCHANGED <<walk, noted>> /\ Elems(kernel) \subseteq Elems(kernel')
    BY WorldReports
  <1>2. ASSUME NEW t \in Tasks, NEW f \in Inputs(t), content'[f] = content[f]
        PROVE  (IF content[f] # 0 THEN WrittenNoted(t, f) ELSE RemovalNoted(t, f))'
    <2>1. Announced(f) => Announced(f)'
      BY <1>1, AnnouncedStays
    <2>2. \A o : Reporting(f, o) => Reporting(f, o)'
      BY <1>1 DEF Reporting
    <2>3. Ahead(f) => Ahead(f)'
      BY <1>1 DEF Ahead
    <2>4. CASE content[f] # 0
      BY <1>1, <1>2, <2>1, <2>2, <2>3, <2>4 DEF NoteInv, WrittenNoted
    <2>5. CASE content[f] = 0
      BY <1>1, <1>2, <2>2, <2>5 DEF NoteInv, RemovalNoted
    <2>6. QED BY <2>4, <2>5
  <1>3. ASSUME NEW g \in Files, NEW op \in {"create", "write", "remove"}, Report(op, g),
               MayChangeIn(Parent[g]), \A f \in Files \ {g} : content'[f] = content[f],
               content'[g] # 0 => op \in {"create", "write"}
        PROVE  NoteInv'
    <2>1. ASSUME NEW t \in Tasks, g \in Inputs(t)
          PROVE  (IF content[g] # 0 THEN WrittenNoted(t, g) ELSE RemovalNoted(t, g))'
      <3>1. Parent[g] \in watched
        BY <1>3, <2>1, InputHolding, ChangesReported
      <3>2. /\ Event(op, g) \in Elems(kernel') /\ Event(op, g).op = op /\ Event(op, g).path = g
        BY <1>3, <3>1, Reported DEF Paths
      <3>3. QED BY <1>3, <3>2 DEF WrittenNoted, RemovalNoted, Reporting
    <2>2. \A t \in Tasks : Inputs(t) \subseteq Files
      BY InputHolding
    <2>3. QED BY <1>1, <1>2, <1>3, <2>1, <2>2 DEF NoteInv
  <1>4. ASSUME NEW f \in Files, Write(f) PROVE NoteInv'
    <2>1. /\ MayChangeIn(Parent[f]) /\ content' = [content EXCEPT ![f] = Stamp]
          /\ Report(IF f \in Existing THEN "write" ELSE "create", f)
      BY <1>4 DEF Write
    <2>2. QED BY <1>3, <2>1 DEF Typing
  <1>5. ASSUME NEW f \in Files, Delete(f) PROVE NoteInv'
    <2>1. /\ MayChangeIn(Parent[f]) /\ content' = [content EXCEPT ![f] = 0] /\ Report("remove", f)
      BY <1>5 DEF Delete
    <2>2. QED BY <1>3, <2>1 DEF Typing
  <1>6. ASSUME NEW c \in Dirs, NEW parts \in SUBSET Below(c), Arrive(c, parts) PROVE NoteInv'
    <2>1. /\ MayChangeIn(Parent[c]) /\ Report("create", c) /\ Stamp # 0
          /\ content' = [f \in Files |-> IF f \in parts THEN Stamp ELSE content[f]]
      BY <1>6 DEF Arrive, Typing, Stamp
    <2>2. ASSUME NEW t \in Tasks, NEW f \in Inputs(t), f \in parts
          PROVE  (IF content[f] # 0 THEN WrittenNoted(t, f) ELSE RemovalNoted(t, f))'
      <3>1. c \in Holding(t) /\ Within(c, f) /\ f \in Files
        BY <2>2, InputHolding DEF Below, Within
      <3>2. Parent[c] \in watched
        BY <2>1, <3>1, HoldingFacts, ChangesReported
      <3>3. /\ Event("create", c) \in Elems(kernel') /\ Event("create", c).op = "create"
            /\ Event("create", c).path = c
        BY <2>1, <3>2, Reported DEF Paths
      <3>4. Announced(f)'
        BY <3>1, <3>3 DEF Announced
      <3>5. content'[f] # 0
        BY <2>1, <2>2, <3>1
      <3>6. QED BY <3>4, <3>5 DEF WrittenNoted
    <2>3. \A t \in Tasks : \A f \in Inputs(t) : f \notin parts => content'[f] = content[f]
      BY <2>1, InputHolding
    <2>4. QED BY <1>1, <1>2, <2>2, <2>3 DEF NoteInv
  <1>7. ASSUME NEW c \in Dirs, Leave(c) PROVE NoteInv'
    <2>1. /\ Below(c) \cap Existing = {}
          /\ content' = [f \in Files |-> IF f \in Below(c) THEN 0 ELSE content[f]]
      BY <1>7 DEF Leave
    <2>2. \A f \in Files : content'[f] = content[f]
      BY <2>1 DEF Existing
    <2>3. QED BY <1>1, <1>2, <2>2, InputHolding DEF NoteInv
  <1>8. QED BY <1>4, <1>5, <1>6, <1>7 DEF World

LEMMA HandleNote ==
  ASSUME ExcludesNoInputs, TypeInv, TreeInv, TasksInv, NoteInv, Handle
  PROVE  NoteInv'
  <1> USE DEF TypeInv
  <1> DEFINE e == Head(kernel)
  <1>1. /\ phase = "watch" /\ walk = << >> /\ UNCHANGED <<tree, content, known>>
        /\ Elems(kernel) = {e} \cup Elems(kernel')
    BY Handled DEF Handle, world
  <1>2. \/ UNCHANGED noted /\ e.op # "remove" /\ e.path \in tree
        \/ NoticeFor(e.path, Suppressed) /\ (e.op = "remove" \/ e.path \notin tree \cup Existing)
        \/ NoticeFor(e.path, Tasks) /\ e.op # "remove" /\ e.path \in Existing
    <2>1. tree \cap Existing = {}
      BY WatchPlanAssumption DEF Existing, Typing
    <2>2. CASE e.op = "remove" \/ e.path \notin tree \cup Existing
      BY <2>1, <2>2 DEF Handle, NoticeRemoval
    <2>3. CASE e.op # "remove" /\ e.path \in tree
      BY <2>1, <2>3 DEF Handle
    <2>4. CASE e.op # "remove" /\ e.path \in Existing
      BY <2>1, <2>4 DEF Handle, Notice
    <2>5. QED BY <2>2, <2>3, <2>4
  <1>3. ASSUME NEW t \in Tasks, NEW f \in Inputs(t)
        PROVE  (IF content[f] # 0 THEN WrittenNoted(t, f) ELSE RemovalNoted(t, f))'
    <2>1. noted'[t][f] \in {noted[t][f], content[f]}
      BY <1>2, NoticeNotes
    <2>2. (e.path = f => known[Parent[f]] # {}) /\ f \notin tree
      <3>1. Head(kernel) \in Elems(kernel) /\ Parent[f] \in Holding(t)
        BY Handled, InputHolding
      <3>2. QED BY <1>1, <3>1, InputHere DEF TasksInv
    <2>3. CASE content[f] # 0
      <3>1. f \in Here /\ f \in Existing /\ Above[f] \cap Dirs \subseteq Holding(t)
        BY <2>3, InputHere, InputHolding
      <3>2. CASE noted[t][f] = content[f]
        BY <1>1, <2>1, <2>3, <3>2 DEF WrittenNoted
      <3>3. CASE Announced(f)
        BY <1>1, <2>3, <3>1, <3>3, HandleAhead DEF WrittenNoted
      <3>4. CASE Reporting(f, {"create", "write"})
        <4>1. PICK x \in Elems(kernel) : x.path = f /\ x.op \in {"create", "write"}
          BY <3>4 DEF Reporting
        <4>2. CASE x \in Elems(kernel')
          BY <1>1, <2>3, <4>1, <4>2 DEF WrittenNoted, Reporting
        <4>3. CASE x = e
          <5>1. NoticeFor(f, Tasks)
            BY <1>2, <2>2, <3>1, <4>1, <4>3
          <5>2. noted'[t][f] = content[f]
            BY <2>2, <4>1, <4>3, <5>1, NoticeNotes
          <5>3. QED BY <1>1, <2>3, <5>2 DEF WrittenNoted
        <4>4. QED BY <1>1, <4>1, <4>2, <4>3
      <3>5. ~Ahead(f)
        BY <1>1, NothingAhead
      <3>6. QED BY <1>1, <2>3, <3>2, <3>3, <3>4, <3>5 DEF NoteInv, WrittenNoted
    <2>4. CASE content[f] = 0
      <3>1. f \notin Existing
        BY <2>4, InputHere
      <3>2. CASE t \notin Suppressed \/ noted[t][f] = 0
        BY <1>1, <2>1, <2>4, <3>2 DEF RemovalNoted
      <3>3. CASE t \in Suppressed /\ Reporting(f, {"create", "write", "remove"})
        <4>1. PICK x \in Elems(kernel) : x.path = f /\ x.op \in {"create", "write", "remove"}
          BY <3>3 DEF Reporting
        <4>2. CASE x \in Elems(kernel')
          BY <1>1, <2>4, <4>1, <4>2 DEF RemovalNoted, Reporting
        <4>3. CASE x = e
          <5>1. NoticeFor(f, Suppressed)
            BY <1>2, <2>2, <3>1, <4>1, <4>3
          <5>2. noted'[t][f] = content[f]
            BY <2>2, <3>3, <4>1, <4>3, <5>1, NoticeNotes
          <5>3. QED BY <1>1, <2>4, <5>2 DEF RemovalNoted
        <4>4. QED BY <1>1, <4>1, <4>2, <4>3
      <3>4. QED BY <1>1, <2>4, <3>2, <3>3 DEF NoteInv, RemovalNoted
    <2>5. QED BY <2>3, <2>4
  <1>4. QED BY <1>1, <1>3 DEF NoteInv, Inputs, OutsideShared

LEMMA WalkNote ==
  ASSUME ExcludesNoInputs, TypeInv, TreeInv, FramesInv, OpenInv, TasksInv, NoteInv, Walking,
         phase = "watch"
  PROVE  NoteInv'
  <1> USE DEF TypeInv
  <1>1. phase' = "watch" /\ UNCHANGED <<tree, content, kernel>>
    BY DEF Walking, ReadNames, MatchDirectory, MatchNext, Visit, VisitNext, EndOfDirectory,
           starting, world
  <1>2. UNCHANGED noted \/ \E g : NoticeFor(g, Tasks)
    BY DEF Walking, ReadNames, MatchDirectory, MatchNext, Visit, VisitNext, EndOfDirectory, Notice
  <1>3. ASSUME NEW t \in Tasks, NEW f \in Inputs(t)
        PROVE  (IF content[f] # 0 THEN WrittenNoted(t, f) ELSE RemovalNoted(t, f))'
    <2>1. noted'[t][f] \in {noted[t][f], content[f]}
      BY <1>2, NoticeNotes
    <2>2. Announced(f)' = Announced(f) /\ \A o : Reporting(f, o)' = Reporting(f, o)
      BY <1>1 DEF Announced, Reporting
    <2>3. CASE content[f] # 0
      <3>1. f \in Here /\ f \notin tree /\ Above[f] \cap Dirs \subseteq Holding(t)
        BY <2>3, InputHere, InputHolding
      <3>2. CASE noted[t][f] = content[f] \/ Announced(f) \/ Reporting(f, {"create", "write"})
        BY <1>1, <2>1, <2>2, <2>3, <3>2 DEF WrittenNoted
      <3>3. CASE Ahead(f) /\ ~Ahead(f)'
        <4>1. /\ Notice(f) /\ f \in Top.names /\ Top.at = "next" /\ walk # << >>
          BY <3>1, <3>3, WalkAhead
        <4>2. Parent[f] = Top.dir /\ known[Top.dir] # {}
          BY <4>1, TopOfWalk DEF FramesInv, OpenInv
        <4>3. noted'[t][f] = content[f]
          BY <4>1, <4>2, NoticeNotes DEF Notice
        <4>4. QED BY <1>1, <2>3, <4>3 DEF WrittenNoted
      <3>4. CASE Ahead(f)'
        BY <1>1, <2>3, <3>4 DEF WrittenNoted
      <3>5. QED BY <2>3, <3>2, <3>3, <3>4 DEF NoteInv, WrittenNoted
    <2>4. CASE content[f] = 0
      BY <1>1, <2>1, <2>2, <2>4 DEF NoteInv, RemovalNoted
    <2>5. QED BY <2>3, <2>4
  <1>4. QED BY <1>1, <1>3 DEF NoteInv, Inputs, OutsideShared

LEMMA StepNote ==
  ASSUME ~Early, ~Gradually, ~MovedAway, ExcludesNoInputs, TypeInv, TreeInv, FramesInv,
         OpenInv, TasksInv, WatchInv, NoteInv, [Next]_vars
  PROVE  NoteInv'
  <1>1. CASE UNCHANGED vars
    BY <1>1 DEF vars, world, starting, NoteInv, WrittenNoted, RemovalNoted, Ahead, Announced,
                Reporting
  <1>2. CASE World
    BY <1>2, WorldNote
  <1>3. CASE Walking
    <2>1. CASE phase = "watch"
      BY <1>3, <2>1, WalkNote
    <2>2. CASE phase # "watch"
      BY <1>3, <2>2 DEF Walking, ReadNames, MatchDirectory, MatchNext, Visit, VisitNext,
                        EndOfDirectory, starting, NoteInv
    <2>3. QED BY <2>1, <2>2
  <1>4. CASE EndOfAdding
    <2>1. UNCHANGED content /\ noted' = [t \in Tasks |-> content]
      BY <1>4 DEF EndOfAdding, world
    <2>2. QED BY <2>1 DEF NoteInv, WrittenNoted, RemovalNoted
  <1>5. CASE EndOfMatching \/ SeedRoot \/ EndOfSeeding \/ AddDirectory
    BY <1>5 DEF EndOfMatching, SeedRoot, EndOfSeeding, AddDirectory, NoteInv
  <1>6. CASE Handle
    BY <1>6, HandleNote
  <1>7. QED BY <1>1, <1>2, <1>3, <1>4, <1>5, <1>6, NextIs DEF Starting

NotedInv == OpenInv /\ NoteInv

THEOREM NotedInvHolds ==
  ASSUME Foreseen, ~Gradually, ~MovedAway
  PROVE  Spec => []NotedInv
  <1>1. Init => NotedInv
    BY DEF NotedInv, Init, OpenInv, NoteInv
  <1>2. TreeWalkInv /\ DirectoriesInv /\ NotedInv /\ [Next]_vars => NotedInv'
    BY StepOpen, StepNote, Foreseen, ~Gradually, ~MovedAway
       DEF Foreseen, TreeWalkInv, DirectoriesInv, NotedInv
  <1>3. QED BY <1>1, <1>2, TreeWalkInvHolds, DirectoriesInvHolds, Foreseen, ~Gradually, PTL DEF Spec

(* EveryFileNoticed, when also no directory is moved away with the files   *)
(* in it, which fsnotify reports as one removal.                           *)
THEOREM FilesNoticed ==
  ASSUME Foreseen, ~Gradually, ~MovedAway
  PROVE  Spec => []EveryFileNoticed
  <1>1. ASSUME NotedInv, Settled, NEW t \in Tasks, NEW f \in Inputs(t)
        PROVE  content[f] # 0 \/ (t \in Suppressed /\ noted[t][f] # 0) => noted[t][f] = content[f]
    <2>1. phase = "watch" /\ ~Ahead(f) /\ ~Announced(f) /\ Elems(kernel) = {}
      BY <1>1, NothingAhead, NothingAnnounced, ElemsEmpty DEF Settled
    <2>2. \A o : ~Reporting(f, o)
      BY <2>1 DEF Reporting
    <2>3. QED BY <1>1, <2>1, <2>2 DEF NotedInv, NoteInv, WrittenNoted, RemovalNoted
  <1>2. NotedInv => EveryFileNoticed
    BY <1>1 DEF EveryFileNoticed
  <1>3. QED BY <1>2, NotedInvHolds, PTL
=============================================================================
