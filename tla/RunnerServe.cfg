\* Watch mode: a server and a consumer of its URL, both may be changed.
CONSTANTS
  gen = gen
  build = build
  lint = lint
  api = api
  web = web
  starter = starter
  watcher = watcher
  NoTask = NoTask
  NoInstance = NoInstance
  Helpers = {}
  Tasks <- ServeTasks
  Continuous = {api, web}
  Dependencies <- ServeDeps
  Providers <- ServeProviders
  OnChange <- ModeOf
  Watched = {api, web}
  Initial <- ServeTasks
  MayFail = {}
  Once = FALSE
  OutlivesStart = TRUE
  MaxLaunches = 4
  MaxChanges = 2
SPECIFICATION FairSpec
CHECK_DEADLOCK FALSE
PROPERTIES
  ChangeEventuallyBuilt
  ConsumersFollow
