\* --once: build waits for gen and lint; nothing fails.
CONSTANTS
  gen = gen
  build = build
  lint = lint
  api = api
  web = web
  starter = starter
  watcher = watcher
  NoTask = NoTask
  NoInstance = NoInstance
  Helpers = {}
  Tasks <- JoinTasks
  Continuous = {}
  Dependencies <- JoinDeps
  Providers <- NoProviders
  OnChange <- ModeOf
  Watched = {}
  Initial <- JoinTasks
  MayFail = {}
  Once = TRUE
  OutlivesStart = TRUE
  MaxLaunches = 2
  MaxChanges = 0
SPECIFICATION FairSpec
CHECK_DEADLOCK FALSE
INVARIANTS
  NoLostWakeup
PROPERTIES
  OnceCompletes
  EachRunsOnce
