------------------------------ MODULE Discovery ------------------------------
(***************************************************************************)
(* How the watcher (src/watcher/) follows the file tree.                   *)
(*                                                                         *)
(* At the start MatchWatchableDirectories walks the tree for directories   *)
(* of tasks, seeds the roots of their includes, and watchDirs gives what   *)
(* it found to fsnotify.  Then one goroutine takes file system events,     *)
(* looks the path up and notes changes of files that tasks include; a      *)
(* directory that appears is walked, and everything in it is watched and   *)
(* noted.                                                                  *)
(*                                                                         *)
(* Both walks are filepath.Walk, which reads the names in a directory      *)
(* before it calls the function for the directory; the tree changes all    *)
(* the while.  fsnotify reports the changes in the directories it watches, *)
(* in order, and forgets a directory that is removed.                      *)
(***************************************************************************)
EXTENDS WatchPlan, Sequences

CONSTANTS
  StartTrees,  (* the sets of paths that may exist at the start             *)
  Suppressed,  (* the tasks that have rebuild suppression                   *)
  Early,       (* the tree changes before the watcher is up                 *)
  Gradually,   (* directories fill while they are discovered; otherwise     *)
               (* they are moved into place complete                        *)
  MovedAway,   (* directories are moved away with the files in them         *)
  MaxOps       (* bound: changes of the tree                                *)

ASSUME DiscoveryAssumption ==
  /\ \A paths \in StartTrees :
       Root \in paths /\ \A p \in paths : p \in Paths /\ Parent[p] \in paths
  /\ Suppressed \subseteq Tasks /\ Early \in BOOLEAN /\ Gradually \in BOOLEAN
  /\ MovedAway \in BOOLEAN /\ MaxOps \in Nat

VARIABLES
  tree,     (* the directories that exist                                   *)
  content,  (* file -> stamp of its last write, 0 when it does not exist    *)
  ops,      (* how often the tree changed                                   *)
  kernel,   (* events fsnotify has not delivered yet                        *)
  watched,  (* directories in fsnotify                                      *)
  known,    (* directory -> its tasks in the map of watchable directories   *)
  phase,    (* "match", "seed", "add", and "watch" when events are taken    *)
  todo,     (* the includes still to seed, the directories still to add     *)
  walk,     (* the stack of filepath.Walk, << >> when none runs             *)
  noted     (* task -> file -> its content when it was noted last           *)

world == <<tree, content, ops>>
starting == <<phase, todo>>
vars == <<world, kernel, watched, known, starting, walk, noted>>

Existing == {f \in Files : content[f] # 0}
Children(d) == {p \in tree \cup Existing : Parent[p] = d /\ p # d}
Settled == phase = "watch" /\ kernel = << >> /\ walk = << >>

Event(op, p) == [op |-> op, path |-> p]
Report(op, p) == kernel' = IF Parent[p] \in watched THEN Append(kernel, Event(op, p)) ELSE kernel

Frame(d, tasks) == [dir |-> d, tasks |-> tasks, names |-> {}, at |-> "read"]
Top == walk[1]

-----------------------------------------------------------------------------
Init ==
  /\ \E paths \in StartTrees :
       /\ tree = paths \cap Dirs
       /\ content = [f \in Files |-> IF f \in paths THEN 1 ELSE 0]
  /\ ops = 0 /\ kernel = << >> /\ watched = {}
  /\ known = [d \in Dirs |-> {}]
  /\ phase = "match" /\ todo = {} /\ walk = <<Frame(Root, Tasks)>>
  /\ noted = [t \in Tasks |-> content]

(* The world                                                               *)
MayChangeIn(d) ==
  /\ ops < MaxOps /\ d \in tree
  /\ IF phase = "watch" THEN Gradually \/ d \in watched \/ Settled ELSE Early
Stamp == ops + 2

Write(f) ==
  /\ MayChangeIn(Parent[f])
  /\ content' = [content EXCEPT ![f] = Stamp]
  /\ ops' = ops + 1
  /\ Report(IF f \in Existing THEN "write" ELSE "create", f)
  /\ UNCHANGED <<tree, watched, known, starting, walk, noted>>

Delete(f) ==
  /\ MayChangeIn(Parent[f]) /\ f \in Existing
  /\ content' = [content EXCEPT ![f] = 0]
  /\ ops' = ops + 1
  /\ Report("remove", f)
  /\ UNCHANGED <<tree, watched, known, starting, walk, noted>>

(* A directory is made, or moved into place with what is in it.            *)
Arrive(d, parts) ==
  /\ d \notin tree /\ MayChangeIn(Parent[d])
  /\ \A p \in parts : Parent[p] \in parts \cup {d}
  /\ tree' = tree \cup {d} \cup (parts \cap Dirs)
  /\ content' = [f \in Files |-> IF f \in parts THEN Stamp ELSE content[f]]
  /\ ops' = ops + 1
  /\ Report("create", d)
  /\ UNCHANGED <<watched, known, starting, walk, noted>>

(* A directory is removed, after the files in it, or moved away with them. *)
Leave(d) ==
  /\ d \in tree \ {Root} /\ MayChangeIn(Parent[d])
  /\ Below(d) \cap Existing = {} \/ MovedAway
  /\ tree' = tree \ ({d} \cup Below(d))
  /\ content' = [f \in Files |-> IF f \in Below(d) THEN 0 ELSE content[f]]
  /\ watched' = watched \ ({d} \cup Below(d))
  /\ ops' = ops + 1
  /\ Report("remove", d)
  /\ UNCHANGED <<known, starting, walk, noted>>

-----------------------------------------------------------------------------
(* The start: the walk of MatchWatchableDirectories                        *)

(* filepath.Walk reads the names in a directory; the function given to it  *)
(* ends the walk when that fails, the one for new directories goes on.     *)
ReadNames ==
  /\ walk # << >> /\ Top.at = "read"
  /\ walk' = IF Top.dir \in tree
             THEN [walk EXCEPT ![1] = [@ EXCEPT !.names = Children(Top.dir), !.at = "visit"]]
             ELSE IF phase = "match" THEN << >> ELSE Tail(walk)
  /\ UNCHANGED <<world, kernel, watched, known, starting, noted>>

(* newWatchableDirectoryMatcher, for a directory                           *)
MatchDirectory ==
  /\ phase = "match" /\ walk # << >> /\ Top.at = "visit"
  /\ IF globallyExcluded(Top.dir)
     THEN walk' = Tail(walk) /\ UNCHANGED known
     ELSE /\ walk' = [walk EXCEPT ![1].at = "next"]
          /\ known' = WithAncestors(known, Top.dir, getMatchingTasks(Top.dir))
  /\ UNCHANGED <<world, kernel, watched, starting, noted>>

(* A mutant: only the directory of the file is put into the map.           *)
MatchNextAlone ==
  /\ phase = "match" /\ walk # << >> /\ Top.at = "next"
  /\ \E p \in Top.names :
       LET rest == [walk EXCEPT ![1].names = @ \ {p}] IN
       /\ walk' = CASE p \in tree -> <<Frame(p, Tasks)>> \o rest
                    [] p \in Existing -> rest
                    [] OTHER -> << >>
       /\ known' = IF p \in Existing
                   THEN updateWatchable(known, {Parent[p]}, getMatchingTasks(p)) ELSE known
  /\ UNCHANGED <<world, kernel, watched, starting, noted>>

(* The same for the next name: for a file, its directory and those above;  *)
(* a name that is gone ends the walk.                                      *)
MatchNext ==
  /\ phase = "match" /\ walk # << >> /\ Top.at = "next"
  /\ \E p \in Top.names :
       LET rest == [walk EXCEPT ![1].names = @ \ {p}] IN
       /\ walk' = CASE p \in tree -> <<Frame(p, Tasks)>> \o rest
                    [] p \in Existing -> rest
                    [] OTHER -> << >>
       /\ known' = IF p \in Existing
                   THEN WithAncestors(known, Parent[p], getMatchingTasks(p)) ELSE known
  /\ UNCHANGED <<world, kernel, watched, starting, noted>>

EndOfMatching ==
  /\ phase = "match" /\ walk = << >>
  /\ phase' = "seed"
  /\ todo' = UNION {{t} \X Include[t] : t \in Tasks}
  /\ UNCHANGED <<world, kernel, watched, known, walk, noted>>

(* seedExistingIncludeRoots, for one include of a task                     *)
SeedRoot ==
  /\ phase = "seed"
  /\ \E seed \in todo :
       LET root == includeRootFromPattern(seed[2])
           near == nearestExistingDirectory(root, tree) IN
       /\ todo' = todo \ {seed}
       /\ known' = IF globallyExcluded(root) \/ globallyExcluded(near)
                   THEN known ELSE WithAncestors(known, near, {seed[1]})
  /\ UNCHANGED <<world, kernel, watched, phase, walk, noted>>

EndOfSeeding ==
  /\ phase = "seed" /\ todo = {}
  /\ phase' = "add" /\ todo' = {d \in Dirs : known[d] # {}}
  /\ UNCHANGED <<world, kernel, watched, known, walk, noted>>

(* watchDirs: an error ends it, and the directories left are not watched.  *)
AddDirectory ==
  /\ phase = "add"
  /\ \E d \in todo :
       /\ todo' = IF d \in tree THEN todo \ {d} ELSE {}
       /\ watched' = watched \cup ({d} \cap tree)
  /\ UNCHANGED <<world, kernel, known, phase, walk, noted>>

(* The event goroutine starts, and the tasks, which read what is there.    *)
EndOfAdding ==
  /\ phase = "add" /\ todo = {}
  /\ phase' = "watch" /\ noted' = [t \in Tasks |-> content]
  /\ UNCHANGED <<world, kernel, watched, known, todo, walk>>

-----------------------------------------------------------------------------
(* The event goroutine                                                     *)

(* A file is noted for all tasks it matches, whatever tasks its directory  *)
(* is in the map for; a missing one only for those with suppression.       *)
NoticeFor(f, tasks) ==
  noted' = [t \in Tasks |->
             IF f \in Files /\ known[Parent[f]] # {} /\ t \in tasks \cap getMatchingTasks(f)
             THEN [noted[t] EXCEPT ![f] = content[f]] ELSE noted[t]]
Notice(f) == NoticeFor(f, Tasks)
NoticeRemoval(p) == NoticeFor(p, Suppressed)

taskIdsForCreatedDirectory(d, candidates) ==
  {t \in candidates : taskCanMatchDirectory(t, d)}

(* A mutant: every missing file is taken for a transient one.              *)
HandleUnlessMissing ==
  LET e == Head(kernel)  p == e.path
      tasks == taskIdsForCreatedDirectory(p, known[Parent[p]]) IN
  /\ phase = "watch" /\ walk = << >> /\ kernel # << >>
  /\ kernel' = Tail(kernel)
  /\ walk' = IF p \in tree /\ e.op = "create" /\ ~globallyExcluded(p) /\ tasks # {}
             THEN <<Frame(p, tasks)>> ELSE walk
  /\ IF p \in Existing THEN Notice(p) ELSE UNCHANGED noted
  /\ UNCHANGED <<world, watched, known, starting>>

(* handleFsEvent and the start of handleDirectoryCreate                    *)
Handle ==
  LET e == Head(kernel)  p == e.path
      tasks == taskIdsForCreatedDirectory(p, known[Parent[p]]) IN
  /\ phase = "watch" /\ walk = << >> /\ kernel # << >>
  /\ kernel' = Tail(kernel)
  /\ walk' = IF p \in tree /\ e.op = "create" /\ ~globallyExcluded(p) /\ tasks # {}
             THEN <<Frame(p, tasks)>> ELSE walk
  /\ CASE e.op = "remove" \/ p \notin tree \cup Existing -> NoticeRemoval(p)
       [] e.op # "remove" /\ p \in tree -> UNCHANGED noted
       [] e.op # "remove" /\ p \in Existing -> Notice(p)
  /\ UNCHANGED <<world, watched, known, starting>>

(* A mutant: below a new directory, shared.exclude is forgotten.           *)
VisitExcluded ==
  LET d == Top.dir
      tasks == taskIdsForCreatedDirectory(d, Top.tasks) IN
  /\ phase = "watch" /\ walk # << >> /\ Top.at = "visit"
  /\ IF tasks = {}
     THEN walk' = Tail(walk) /\ UNCHANGED <<known, watched>>
     ELSE /\ known' = updateWatchable(known, {d}, tasks)
          /\ watched' = watched \cup ({d} \cap tree)
          /\ walk' = [walk EXCEPT ![1].at = "next"]
  /\ UNCHANGED <<world, kernel, starting, noted>>

(* The directory goes into the map and into fsnotify, which refuses one    *)
(* that does not exist; directories no task can match are skipped.         *)
Visit ==
  LET d == Top.dir
      tasks == taskIdsForCreatedDirectory(d, Top.tasks) IN
  /\ phase = "watch" /\ walk # << >> /\ Top.at = "visit"
  /\ IF globallyExcluded(d) \/ tasks = {}
     THEN walk' = Tail(walk) /\ UNCHANGED <<known, watched>>
     ELSE /\ known' = updateWatchable(known, {d}, tasks)
          /\ watched' = watched \cup ({d} \cap tree)
          /\ walk' = [walk EXCEPT ![1].at = "next"]
  /\ UNCHANGED <<world, kernel, starting, noted>>

(* The next name: a file is noted, a directory walked, what is gone left.  *)
VisitNext ==
  /\ phase = "watch" /\ walk # << >> /\ Top.at = "next"
  /\ \E p \in Top.names :
       LET rest == [walk EXCEPT ![1].names = @ \ {p}] IN
       /\ walk' = IF p \in tree THEN <<Frame(p, Top.tasks)>> \o rest ELSE rest
       /\ IF p \in Existing THEN Notice(p) ELSE UNCHANGED noted
  /\ UNCHANGED <<world, kernel, watched, known, starting>>

EndOfDirectory ==
  /\ walk # << >> /\ Top.at = "next" /\ Top.names = {}
  /\ walk' = Tail(walk)
  /\ UNCHANGED <<world, kernel, watched, known, starting, noted>>

Next ==
  \/ \E f \in Files : Write(f) \/ Delete(f)
  \/ \E d \in Dirs : Leave(d) \/ \E parts \in SUBSET Below(d) : Arrive(d, parts)
  \/ MatchDirectory \/ MatchNext \/ EndOfMatching
  \/ SeedRoot \/ EndOfSeeding \/ AddDirectory \/ EndOfAdding
  \/ Handle \/ ReadNames \/ Visit \/ VisitNext \/ EndOfDirectory

Spec == Init /\ [][Next]_vars

-----------------------------------------------------------------------------
(* Types; a watched directory is in the map, or its events are dropped.    *)
TypeOK ==
  /\ tree \subseteq Dirs /\ content \in [Files -> 0 .. MaxOps + 1] /\ ops \in 0 .. MaxOps
  /\ kernel \in Seq([op : {"create", "write", "remove"}, path : Paths])
  /\ known \in [Dirs -> SUBSET Tasks] /\ watched \subseteq {d \in Dirs : known[d] # {}}
  /\ phase \in {"match", "seed", "add", "watch"}
  /\ walk \in Seq([dir : Dirs, tasks : SUBSET Tasks, names : SUBSET Paths,
                   at : {"read", "visit", "next"}])
  /\ noted \in [Tasks -> [Files -> 0 .. MaxOps + 1]]

(* The files that are to make a task run, by its patterns alone            *)
OutsideShared(p) == \A d \in Above[p] \cap Dirs : ~globallyExcluded(d)
Inputs(t) == {f \in Files : t \in getMatchingTasks(f) /\ OutsideShared(f)}

(***************************************************************************)
(* When the watcher has nothing to do, every task knows of every file it   *)
(* includes as it now is, wherever it came from; a task with suppression   *)
(* also of a file that is gone.                                            *)
(***************************************************************************)
EveryFileNoticed ==
  Settled => \A t \in Tasks : \A f \in Inputs(t) :
    content[f] # 0 \/ (t \in Suppressed /\ noted[t][f] # 0)
      => noted[t][f] = content[f]

(***************************************************************************)
(* Every directory that may hold a file of a task is watched then, and     *)
(* those above it, also one that was there before and came back.           *)
(***************************************************************************)
EveryDirectoryWatched ==
  Settled => \A t \in Tasks : \A f \in Inputs(t) :
    Above[Parent[f]] \cap tree \subseteq watched

(***************************************************************************)
(* shared.exclude keeps directories out of the watcher ("Excludes          *)
(* directories globally", README.md:69): neither one it names nor one      *)
(* below it is watched, by the walk, the seeding or a new directory.       *)
(***************************************************************************)
ExcludedUnwatched == \A d \in watched : OutsideShared(d)

-----------------------------------------------------------------------------
(* What configurations and trees have to be like for that (README.md has a *)
(* run without each of them).  No include has its root below a directory   *)
(* that shared.exclude names, unless the root is excluded itself.          *)
RootsOutside ==
  \A t \in Tasks : \A g \in Include[t] :
    LET root == includeRootFromPattern(g) IN globallyExcluded(root) \/ OutsideShared(root)

(* No task includes a file in a directory that it excludes.                *)
Holding(t) == {d \in Dirs : \E f \in Inputs(t) : Within(d, f)}
ExcludesNoInputs == \A t \in Tasks : \A d \in Holding(t) : ~directoryExcluded(d, Exclude[t])

(* A directory that is there at the start and may hold files of a task is  *)
(* one the start finds for that task: something the task matches is in it, *)
(* or a root of its includes.                                              *)
FoundAtStart(t, paths) ==
  {d \in Dirs :
    \/ \E p \in paths : Within(d, p) /\ OutsideShared(p) /\ t \in getMatchingTasks(p)
    \/ \E g \in Include[t] :
         LET root == includeRootFromPattern(g)
             near == nearestExistingDirectory(root, paths \cap Dirs)
         IN ~globallyExcluded(root) /\ ~globallyExcluded(near) /\ Within(d, near)}
StartsForeseen ==
  \A paths \in StartTrees, t \in Tasks : Holding(t) \cap paths \subseteq FoundAtStart(t, paths)
=============================================================================
