---------------------------- MODULE MCSelection -----------------------------
(* Which tasks are started: at first, on every small configuration of two  *)
(* builds and two services, or by every batch of changes of three files, of*)
(* a backend with files in two directories, one of them shared with a      *)
(* linter, and of a task without files.  Then the outputs that are kept    *)
(* after two of them have finished.                                        *)
EXTENDS Startup, ChangeFilter, CleanUp, TLC

CONSTANTS backend, linter, server, routes, models, usersGo, userGo, docMd,
          gen, build, api, web, ghost, app1, app2, app3

MCDirOf == (usersGo :> routes) @@ (userGo :> models) @@ (docMd :> models)
MCIncludes == [t \in Tasks |->
  CASE t = backend -> {usersGo, userGo} [] t = linter -> {userGo, docMd} [] t = server -> {}]

MCDependencies == {<<build, gen>>, <<gen, build>>, <<gen, gen>>, <<api, gen>>, <<web, ghost>>}
MCConsumes == {<<web, api>>, <<api, web>>, <<build, api>>, <<web, web>>, <<web, gen>>}

MCOrder == (app1 :> 1) @@ (app2 :> 2) @@ (app3 :> 3)

FilterIdle ==
  /\ batch = [f \in Files |-> 0] /\ started = [t \in Tasks |-> 0]
  /\ left = {} /\ found = {}
  /\ time = [t \in Tasks |-> 0] /\ files = [t \in Tasks |-> {}]
  /\ kept = [done |-> TRUE, tasks |-> {}]
StartupIdle ==
  /\ phase = "idle" /\ deps = {} /\ cons = {} /\ autoStart = {}
  /\ roots = {} /\ stack = <<>> /\ visiting = {} /\ visited = {} /\ refused = {}
  /\ cycle = <<>> /\ queue = {} /\ running = {}

CleanUpIdle ==
  /\ exists = {} /\ clock = MaxClock /\ written = [f \in Outputs |-> MaxClock]
  /\ cleaner = [c \in Cleaners |-> At("done", {}, NotFound)]

(* One of the three, on each of its inputs.                                *)
MCInit ==
  \/ StartupInit /\ FilterIdle /\ CleanUpIdle
  \/ FilterInit /\ StartupIdle /\ CleanUpIdle
  \/ CleanUpInit /\ StartupIdle /\ FilterIdle
MCNext ==
  \/ StartupNext /\ UNCHANGED <<filterVars, cleanUpVars>>
  \/ FilterNext /\ UNCHANGED <<startupVars, cleanUpVars>>
  \/ CleanUpNext /\ UNCHANGED <<startupVars, filterVars>>
MCSpec ==
  MCInit /\ [][MCNext]_<<startupVars, filterVars, cleanUpVars>> /\ StartupFairness
=============================================================================
