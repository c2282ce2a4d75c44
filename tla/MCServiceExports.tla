-------------------------- MODULE MCServiceExports --------------------------
(* A service with a proxy, a second service that competes for its ports,   *)
(* and a frontend.                                                         *)
EXTENDS ServiceExports, TLC

CONSTANTS api, db, web, apiProxy

MCTasks == {api, db, web}
MCServices == {api, db}
MCClients == {api, db, apiProxy}
MCPreferred == (api :> 1) @@ (db :> 1) @@ (apiProxy :> 3)
MCRangeStart == (api :> 1) @@ (db :> 1) @@ (apiProxy :> 3)
MCRangeEnd == (api :> 2) @@ (db :> 2) @@ (apiProxy :> 4)
MCProxyOf == api :> apiProxy
UsesProxy == (api :> {}) @@ (db :> {}) @@ (web :> {<<api, "proxy">>})
UsesBoth == (api :> {}) @@ (db :> {}) @@ (web :> {<<api, "proxy">>, <<api, "direct">>})
UsesTwo == (api :> {}) @@ (db :> {}) @@ (web :> {<<db, "direct">>, <<api, "direct">>})
UsesChain == (api :> {}) @@ (db :> {<<api, "direct">>}) @@ (web :> {<<db, "direct">>})
MCOnChange == [t \in Tasks |-> "auto"]
=============================================================================
