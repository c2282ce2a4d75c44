\* Signals and shutdown requests at any moment; the tasks are builds that end by
\* themselves.
CONSTANTS
  gen = gen
  build = build
  lint = lint
  api = api
  web = web
  starter = starter
  watcher = watcher
  NoTask = NoTask
  NoInstance = NoInstance
  Helpers = {}
  Settled = FALSE
  Prompt = TRUE
  MaxSignals = 2
  Tasks <- BuildTasks
  Continuous = {}
  Dependencies <- BuildDeps
  Providers <- NoProviders
  OnChange <- ModeOf
  Watched = {}
  Initial <- BuildTasks
  MayFail = {gen, build}
  Once = FALSE
  OutlivesStart = TRUE
  MaxLaunches = 2
  MaxChanges = 0
SPECIFICATION FairMainSpec
CHECK_DEADLOCK FALSE
INVARIANTS
  EarlySignalStartsNothing
PROPERTIES
  
  SignalStops
