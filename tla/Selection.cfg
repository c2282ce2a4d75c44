\* All small configurations; all batches and start times, with a task no file
\* belongs to; two clean-ups of three outputs.
CONSTANTS
  gen = gen
  build = build
  api = api
  web = web
  ghost = ghost
  TaskIDs = {gen, build, api, web}
  Unknown = ghost
  Continuous = {api, web}
  Ports = {api, web}
  Dependencies <- MCDependencies
  Consumes <- MCConsumes
  backend = backend
  linter = linter
  server = server
  routes = routes
  models = models
  usersGo = usersGo
  userGo = userGo
  docMd = docMd
  Tasks = {backend, linter, server}
  Files = {usersGo, userGo, docMd}
  Dirs = {routes, models}
  DirOf <- MCDirOf
  Includes <- MCIncludes
  MaxTime = 2
  app1 = app1
  app2 = app2
  app3 = app3
  Cleaners = {c1, c2}
  Outputs = {app1, app2, app3}
  Order <- MCOrder
  InPlace = FALSE
  MaxClock = 3
SPECIFICATION MCSpec
CHECK_DEADLOCK FALSE
INVARIANTS
  FilterIsExact
  CyclesAreExact
  SelectionIsExact
PROPERTIES
  NewestSurvives
  QueueDrains
