\* --once: gen fails and build stays queued for ever.
CONSTANTS
  gen = gen
  build = build
  lint = lint
  api = api
  web = web
  starter = starter
  watcher = watcher
  NoTask = NoTask
  NoInstance = NoInstance
  Helpers = {}
  Tasks <- BuildTasks
  Continuous = {}
  Dependencies <- BuildDeps
  Providers <- NoProviders
  OnChange <- ModeOf
  Watched = {}
  Initial <- BuildTasks
  MayFail = {gen}
  Once = TRUE
  OutlivesStart = TRUE
  MaxLaunches = 2
  MaxChanges = 0
SPECIFICATION FairSpec
CHECK_DEADLOCK FALSE
PROPERTIES
  OnceCompletes
