------------------------------ MODULE WatchPlan ------------------------------
(***************************************************************************)
(* Which paths concern which task: the globs of include, exclude and       *)
(* shared.exclude against files and directories, as                        *)
(* src/watcher/match_directories.go puts the questions.                    *)
(*                                                                         *)
(* A glob has no separators (config/util/yaml_glob.go compiles it without  *)
(* them), so that a star runs over slashes.  Of a pattern only its shape   *)
(* is kept:                                                                *)
(*   "path"   at itself, without a wildcard           node_modules, bin/app *)
(*   "names"  file names anywhere below at            src/*.go, **.go       *)
(*   "deep"   the same, in a directory below at       src/**/*.go           *)
(*   "tree"   everything below at                     src/**                *)
(* Paths are tried with and without a leading ./ , which makes "deep" at   *)
(* the top the same as "names".                                            *)
(***************************************************************************)
EXTENDS Naturals

CONSTANTS
  Dirs, Files,
  Root,          (* the working directory                                   *)
  Parent,        (* [Dirs \cup Files -> Dirs]: Root is its own              *)
  Tasks,
  Include, Exclude, (* [Tasks -> sets of patterns]                          *)
  SharedExclude     (* a set of patterns                                    *)

Paths == Dirs \cup Files

(* A pattern; names are the file names its last part matches.              *)
Pattern == [at : Paths, kind : {"path", "names", "deep", "tree"}, names : SUBSET Files]

(* A path and the directories it is in: the least set with it and with the *)
(* parents of what is in the set.                                          *)
Upward == {S \in SUBSET Paths : \A p \in S : Parent[p] \in S}
Above == [p \in Paths |-> {d \in Paths : \A S \in Upward : p \in S => d \in S}]
Within(d, p) == d \in Above[p]
Below(d) == {p \in Paths \ {d} : Within(d, p)}

(* Files are no directories, and all are in the working directory.         *)
ASSUME WatchPlanAssumption ==
  /\ Root \in Dirs /\ Parent \in [Paths -> Dirs] /\ Parent[Root] = Root
  /\ Dirs \cap Files = {} /\ \A p \in Paths : Within(Root, p)
  /\ \A g \in SharedExclude \cup UNION {Include[t] \cup Exclude[t] : t \in Tasks} :
       g \in Pattern /\ (g.kind = "path" \/ g.at \in Dirs)

Matches(g, p) ==
  \/ g.kind = "path" /\ p = g.at
  \/ g.kind = "names" /\ p \in g.names \cap Below(g.at)
  \/ g.kind = "deep" /\ p \in g.names /\ Parent[p] \in Below(g.at) \cup {Root}
                     /\ Within(g.at, p)
  \/ g.kind = "tree" /\ p \in Below(g.at) \cup ({g.at} \cap {Root})
AnyMatches(globs, p) == \E g \in globs : Matches(g, p)

getMatchingTasks(p) ==
  {t \in Tasks : AnyMatches(Include[t], p) /\ ~AnyMatches(Exclude[t], p)}

includeRootFromPattern(g) == IF g.kind = "path" THEN Parent[g.at] ELSE g.at

(* A directory is excluded by its own path, or as part of a whole tree.    *)
directoryExcluded(d, globs) ==
  \E g \in globs : Matches(g, d) \/ (g.kind = "tree" /\ Within(g.at, d))
globallyExcluded(d) == directoryExcluded(d, SharedExclude)

taskCanMatchDirectory(t, d) ==
  /\ ~directoryExcluded(d, Exclude[t])
  /\ \E g \in Include[t] :
       LET root == includeRootFromPattern(g) IN Within(root, d) \/ Within(d, root)

nearestExistingDirectory(d, tree) ==
  CHOOSE e \in Above[d] \cap tree : Above[d] \cap tree \subseteq Above[e]

(* The map of watchable directories is [Dirs -> SUBSET Tasks]; a directory *)
(* with no task is not in it.                                              *)
updateWatchable(map, dirs, tasks) ==
  [d \in Dirs |-> IF d \in dirs THEN map[d] \cup tasks ELSE map[d]]
WithAncestors(map, d, tasks) == updateWatchable(map, Above[d], tasks)
=============================================================================
