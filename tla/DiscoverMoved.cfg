\* Trees are moved into place; files and directories come and go.
CONSTANTS
  top = top
  src = src
  pkg = pkg
  nested = nested
  out = out
  vendor = vendor
  mainGo = mainGo
  page = page
  genGo = genGo
  go = go
  web = web
  Dirs = {top, src, pkg, nested, out, vendor}
  Files = {mainGo, page, genGo}
  Root = top
  Parent <- MCParent
  Tasks = {go, web}
  Include <- MCInclude
  Exclude <- MCExclude
  SharedExclude <- MCSharedExclude
  StartTrees <- Populated
  Suppressed = {web}
  Early = FALSE
  Gradually = FALSE
  MovedAway = FALSE
  MaxOps = 4
SPECIFICATION Spec
CHECK_DEADLOCK FALSE
INVARIANTS
  EveryFileNoticed
  EveryDirectoryWatched
  ExcludedUnwatched
