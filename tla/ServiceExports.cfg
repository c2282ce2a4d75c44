\* A frontend uses both exports of a service that fails and moves; the
\* proxy may move too, but only while it has no listener.
CONSTANTS
  api = api
  db = db
  web = web
  apiProxy = apiProxy
  Nobody = Nobody
  Clients <- MCClients
  Preferred <- MCPreferred
  RangeStart <- MCRangeStart
  RangeEnd <- MCRangeEnd
  Tasks <- MCTasks
  Services <- MCServices
  Exposed = {api}
  ProxyOf <- MCProxyOf
  Uses <- UsesBoth
  OnChange <- MCOnChange
  MayFail = {api}
  Overtaking = FALSE
  OtherPorts = {1, 3}
  MaxChanges = 1
SPECIFICATION FairSpec
CHECK_DEADLOCK FALSE
INVARIANTS
  PortsExclusive
  
  
  ProxyUrlIsStable
  
PROPERTIES
  ReservationStable
  ComesBackToItsPort
  DirectConsumersComeUp
