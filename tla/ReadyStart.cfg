\* The generator runs when the service is ready; the service changes once.
CONSTANTS
  gen = gen
  build = build
  lint = lint
  api = api
  web = web
  helper = helper
  starter = starter
  watcher = watcher
  NoTask = NoTask
  NoInstance = NoInstance
  Helpers = {helper}
  Tasks <- GenTasks
  Continuous = {api}
  Dependencies <- GenDeps
  Providers <- GenProviders
  ReadyOf <- GenProviders
  OnChange <- GenMode
  Watched = {api}
  Initial = {api}
  MayFail = {}
  Once = FALSE
  OutlivesStart = TRUE
  MaxLaunches = 3
  MaxChanges = 1
  FileCauses = {"file"}
SPECIFICATION FairReadinessSpec
CHECK_DEADLOCK FALSE
INVARIANTS
  
  NoLostReadyWakeup
PROPERTIES
  FirstReadyRun
