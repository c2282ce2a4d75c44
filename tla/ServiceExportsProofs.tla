------------------------ MODULE ServiceExportsProofs ------------------------
(***************************************************************************)
(* What the port manager promises whoever calls it, and what the ports,    *)
(* proxies and exports of the services promise on top of it, for any       *)
(* services, consumers and ports.                                          *)
(*                                                                         *)
(* That the URL of a proxy never changes rests on the reservation of its   *)
(* port: whoever holds a port is given the same one again, so a proxy that *)
(* listens is never moved.  That what runs is served rests on the order of *)
(* starts and ends: while a start is under way no instance of the task and *)
(* no end of one is there (a start that overtakes an end breaks this).     *)
(***************************************************************************)
EXTENDS ServiceExports, TLAPS

-----------------------------------------------------------------------------
(* The port manager alone, for any clients and any port ranges.            *)

(* The ports of a configuration are positive numbers: NoPort is not one.   *)
LEMMA PortsPositive == Ports \in SUBSET (Nat \ {NoPort})
  BY ConfigAssumption DEF Ports, RangePorts, NoPort

(* A candidate is a port of the configuration once lastAssigned is one.    *)
LEMMA CandidatesArePorts ==
  ASSUME PortTypeOK, NEW c \in Clients
  PROVE  Candidates(c) \subseteq Ports
  BY ConfigAssumption DEF PortTypeOK, Candidates, Ports, RangePorts

(* The init predicate establishes the inductive invariant.                 *)
LEMMA InitIndInv == PortInit => IndInv
  <1> SUFFICES ASSUME PortInit PROVE IndInv
    OBVIOUS
  <1>1. PortTypeOK
    BY DEF PortInit, PortTypeOK
  <1>2. MapsInverse
    BY PortsPositive, ConfigAssumption DEF PortInit, MapsInverse
  <1>3. HeldIsLast
    BY DEF PortInit, HeldIsLast
  <1>4. QED BY <1>1, <1>2, <1>3 DEF IndInv

(* A client that holds a port finds that port first: the branch of Assign  *)
(* that reserves another port is closed to it.                             *)
LEMMA HolderReuses ==
  ASSUME IndInv, NEW c \in Clients, NEW p \in Ports,
         reservations[c] # NoPort, FirstUsable(c, p)
  PROVE  p = reservations[c] /\ reservedBy[p] = c
  <1> DEFINE held == reservations[c]
  <1>1. held \in Ports /\ held = lastAssigned[c] /\ reservedBy[held] = c
    BY DEF IndInv, PortTypeOK, HeldIsLast, MapsInverse
  <1>2. held \in Candidates(c) /\ Usable(c, held)
    BY <1>1 DEF Candidates, Usable
  <1>3. Precedes(c, p, held)
    BY <1>2 DEF FirstUsable
  <1>4. p = held
    BY <1>1, <1>3 DEF Precedes
  <1>5. QED BY <1>1, <1>4

(* Every step keeps the inductive invariant.                               *)
LEMMA StepIndInv == IndInv /\ [PortNext]_portVars => IndInv'
  <1> SUFFICES ASSUME IndInv, [PortNext]_portVars PROVE IndInv'
    OBVIOUS
  <1> USE DEF IndInv, PortTypeOK, MapsInverse, HeldIsLast
  <1>1. ASSUME NEW c \in Clients, NEW p \in Ports, Reuse(c, p) PROVE IndInv'
    <2>1. reservations[c] = p
      BY <1>1 DEF Reuse
    <2>2. QED BY <1>1, <2>1 DEF Reuse
  <1>2. ASSUME NEW c \in Clients, NEW p \in Ports, Reserve(c, p) PROVE IndInv'
    <2>1. reservations[c] = NoPort
      BY <1>2, HolderReuses, ConfigAssumption DEF Reserve
    <2>2. p # NoPort /\ NoPort \notin Ports
      BY PortsPositive
    <2>3. PortTypeOK'
      BY <1>2 DEF Reserve
    <2>4. MapsInverse'
      <3>1. reservedBy' = [q \in Ports |-> IF q = p THEN c ELSE reservedBy[q]]
        BY <1>2, <2>1, <2>2 DEF Reserve
      <3>2. reservations' = [reservations EXCEPT ![c] = p]
        BY <1>2 DEF Reserve
      <3>3. \A d \in Clients : reservations[d] # p
        BY <1>2, ConfigAssumption DEF Reserve
      <3>4. QED BY <2>1, <2>2, <3>1, <3>2, <3>3
    <2>5. HeldIsLast'
      BY <1>2 DEF Reserve
    <2>6. QED BY <2>3, <2>4, <2>5
  <1>3. ASSUME NEW c \in Clients, Release(c) PROVE IndInv'
    <2>1. reservations[c] \in Ports /\ NoPort \notin Ports
      BY <1>3, PortsPositive DEF Release
    <2>2. PortTypeOK'
      BY <1>3 DEF Release
    <2>3. MapsInverse'
      <3>1. /\ reservations' = [reservations EXCEPT ![c] = NoPort]
            /\ reservedBy' = [reservedBy EXCEPT ![reservations[c]] = Nobody]
        BY <1>3 DEF Release
      <3>2. QED BY <2>1, <3>1, ConfigAssumption
    <2>4. HeldIsLast'
      BY <1>3 DEF Release
    <2>5. QED BY <2>2, <2>3, <2>4
  <1>4. ASSUME NEW p \in Ports, BindPort(p) \/ FreePort(p) PROVE IndInv'
    BY <1>4 DEF BindPort, FreePort
  <1>5. CASE UNCHANGED portVars
    BY <1>5 DEF portVars
  <1>6. QED BY <1>1, <1>2, <1>3, <1>4, <1>5 DEF PortNext, Assign

(* The tables are well-typed, inverse of each other, and a held port is    *)
(* the last assigned one, whatever the configuration.                      *)
THEOREM IndInvHolds == PortSpec => []IndInv
  <1>1. QED BY InitIndInv, StepIndInv, PTL DEF PortSpec

(* No two clients ever hold the same port.                                 *)
THEOREM Exclusive == PortSpec => []PortsExclusive
  <1>1. IndInv => PortsExclusive
    BY DEF IndInv, PortTypeOK, MapsInverse, PortsExclusive
  <1>2. QED BY <1>1, IndInvHolds, PTL

(* A step takes the port of a client away only by releasing it.            *)
LEMMA StepKeeps ==
  ASSUME IndInv, PortNext, NEW d \in Clients, reservations[d] # NoPort
  PROVE  reservations'[d] \in {reservations[d], NoPort}
  <1> USE DEF IndInv, PortTypeOK
  <1>1. ASSUME NEW c \in Clients, NEW p \in Ports, Reuse(c, p)
        PROVE  reservations'[d] \in {reservations[d], NoPort}
    BY <1>1 DEF Reuse
  <1>2. ASSUME NEW c \in Clients, NEW p \in Ports, Reserve(c, p)
        PROVE  reservations'[d] \in {reservations[d], NoPort}
    <2>1. c # d
      BY <1>2, HolderReuses, ConfigAssumption DEF Reserve
    <2>2. QED BY <1>2, <2>1 DEF Reserve
  <1>3. ASSUME NEW c \in Clients, Release(c)
        PROVE  reservations'[d] \in {reservations[d], NoPort}
    BY <1>3 DEF Release
  <1>4. ASSUME NEW p \in Ports, BindPort(p) \/ FreePort(p)
        PROVE  reservations'[d] \in {reservations[d], NoPort}
    BY <1>4 DEF BindPort, FreePort
  <1>5. QED BY <1>1, <1>2, <1>3, <1>4 DEF PortNext, Assign

(* A client keeps the port it holds until it releases it, however often    *)
(* Assign is called for it.                                                *)
THEOREM Stable == PortSpec => ReservationStable
  <1> DEFINE Keeps == \A c \in Clients :
        reservations[c] # NoPort => reservations'[c] \in {reservations[c], NoPort}
  <1>1. IndInv /\ [PortNext]_portVars => [Keeps]_portVars
    BY StepKeeps
  <1>2. QED BY <1>1, IndInvHolds, PTL DEF PortSpec, ReservationStable

(* A step that gives a client a port gives it its last one if that is free.*)
LEMMA StepRegains ==
  ASSUME IndInv, PortNext, NEW d \in Clients
  PROVE  RegainsItsPort(d)
  <1> SUFFICES ASSUME reservations[d] = NoPort, reservations'[d] # NoPort,
                      lastAssigned[d] # NoPort, lastAssigned[d] \notin bound,
                      \A e \in Clients : reservations[e] # lastAssigned[d]
               PROVE  reservations'[d] = lastAssigned[d]
    BY DEF RegainsItsPort
  <1> USE DEF IndInv, PortTypeOK
  <1>1. ASSUME NEW c \in Clients, NEW p \in Ports, Reserve(c, p)
        PROVE  reservations'[d] = lastAssigned[d]
    <2>1. c = d /\ reservations'[d] = p
      BY <1>1 DEF Reserve
    <2>2. lastAssigned[d] \in Ports /\ reservedBy[lastAssigned[d]] = Nobody
      BY DEF MapsInverse
    <2>3. lastAssigned[d] \in Candidates(d) /\ Usable(d, lastAssigned[d])
      BY <2>2 DEF Candidates, Usable
    <2>4. Precedes(d, p, lastAssigned[d])
      BY <1>1, <2>1, <2>3 DEF Reserve, FirstUsable
    <2>5. QED BY <2>1, <2>4 DEF Precedes
  <1>2. ASSUME NEW c \in Clients, NEW p \in Ports, Reuse(c, p) PROVE FALSE
    BY <1>2 DEF Reuse
  <1>3. ASSUME NEW c \in Clients, Release(c) PROVE FALSE
    BY <1>3 DEF Release
  <1>4. ASSUME NEW p \in Ports, BindPort(p) \/ FreePort(p) PROVE FALSE
    BY <1>4 DEF BindPort, FreePort
  <1>5. QED BY <1>1, <1>2, <1>3, <1>4 DEF PortNext, Assign

(* A client whose last port is free gets it back, whatever the preferred   *)
(* port and the range offer.                                               *)
THEOREM ComesBack == PortSpec => ComesBackToItsPort
  <1>1. IndInv /\ [PortNext]_portVars => [\A c \in Clients : RegainsItsPort(c)]_portVars
    BY StepRegains
  <1>2. QED BY <1>1, IndInvHolds, PTL DEF PortSpec, ComesBackToItsPort

-----------------------------------------------------------------------------
(* Types of the services                                                   *)
Envs == {<<>>} \cup UNION {[Uses[t] -> PortOrNone] : t \in Tasks}
Plans == [waits : Ids \cup {NoId}, port : PortOrNone, proxy : PortOrNone, env : Envs,
          changed : BOOLEAN]
Instances == [id : Ids \cup {NoId}, port : PortOrNone, env : Envs, cancelled : BOOLEAN]
Ends == [task : Tasks, id : Ids \cup {NoId}, errored : BOOLEAN,
         at : {"unlist", "release", "retarget", "clear", "prune"}]

Typing ==
  /\ listening \in [Services -> PortOrNone] /\ target \in [Services -> PortOrNone]
  /\ exports \in [Services -> [Kinds -> PortOrNone]]
  /\ queue \subseteq Tasks
  /\ start \in [Tasks -> Labels] /\ plan \in [Tasks -> Plans]
  /\ process \in [Tasks -> Instances] /\ endings \subseteq Ends

-----------------------------------------------------------------------------
(* A proxy that listens has the port reserved; a start that is about to    *)
(* point the proxy to itself has just been given that port.                *)
ProxyHoldsFor(s) ==
  /\ listening[s] # NoPort => s \in Exposed /\ reservations[ProxyOf[s]] = listening[s]
  /\ start[s] = "assign proxy" => s \in Exposed
  /\ start[s] = "forward" => /\ s \in Exposed /\ plan[s].proxy # NoPort
                             /\ reservations[ProxyOf[s]] = plan[s].proxy
  /\ start[s] \in {"give back", "give back proxy"} /\ plan[s].proxy # NoPort
       => s \in Exposed /\ listening[s] = NoPort
  /\ start[s] = "give back proxy" => plan[s].proxy # NoPort
  /\ start[s] \in {"idle", "replace", "await", "collect", "assign", "assign proxy"}
       => plan[s].proxy = NoPort
  /\ start[s] = "publish" => plan[s].proxy = listening[s]
  /\ exports[s]["proxy"] \in {NoPort, listening[s]}

ProxyHolds == \A s \in Services : ProxyHoldsFor(s)

(* What a consumer has collected or was given of a proxy is where it is.   *)
GivenUrls(env, c) ==
  \A u \in Uses[c] : u[2] = "proxy" => listening[u[1]] # NoPort /\ env[u] = listening[u[1]]
Collected == {"assign", "assign proxy", "forward", "publish", "launch"}
UrlsHold ==
  \A c \in Tasks : /\ start[c] \in Collected => GivenUrls(plan[c].env, c)
                   /\ Alive(c) => GivenUrls(process[c].env, c)

(* Only services are assigned anything.                                    *)
OnlyServices ==
  \A t \in Tasks : start[t] \in {"assign", "assign proxy", "forward", "publish", "give back",
                                "give back proxy"} => t \in Services

UrlInv == Typing /\ IndInv /\ OnlyServices /\ ProxyHolds /\ UrlsHold

-----------------------------------------------------------------------------
(* Per task there is one instance, or the end of one, or a start.          *)
EndsOf(t) == {e \in endings : e.task = t}
Under == {"collect", "assign", "assign proxy", "forward", "publish", "launch", "give back",
          "give back proxy"}
OneFor(t) ==
  /\ \A e, f \in EndsOf(t) : e = f
  /\ Alive(t) => EndsOf(t) = {}
  /\ start[t] \in Under => ~Alive(t) /\ EndsOf(t) = {}
  /\ start[t] = "failing" => ~Alive(t)
  /\ start[t] = "await" => /\ Alive(t) => process[t].id = plan[t].waits
                           /\ \A e \in EndsOf(t) : e.id = plan[t].waits

(* A service that is starting, or runs, has the port, and its proxy and    *)
(* its exports are its own from the moment they are set.                   *)
ServedFor(s) ==
  /\ start[s] \in {"assign proxy", "forward", "publish", "launch"}
       => reservations[s] = plan[s].port /\ plan[s].port # NoPort
  /\ start[s] \in {"publish", "launch"} /\ s \in Exposed
       => listening[s] # NoPort /\ target[s] = plan[s].port
  /\ start[s] = "launch" => exports[s]["direct"] = plan[s].port
  /\ Alive(s) => /\ reservations[s] = process[s].port /\ process[s].port # NoPort
                 /\ exports[s]["direct"] = process[s].port
                 /\ s \in Exposed => listening[s] # NoPort /\ target[s] = process[s].port

(* A target that is set is the port of somebody who is there, or who is    *)
(* about to take it away.                                                  *)
TargetFor(s) ==
  target[s] # NoPort =>
    \/ \E e \in EndsOf(s) : e.at = "retarget"
    \/ /\ reservations[s] = target[s]
       /\ \/ Alive(s) \/ start[s] \in {"publish", "launch"}
          \/ \E e \in EndsOf(s) : e.at \in {"unlist", "release"}

OneAtATime == \A t \in Tasks : OneFor(t)
ServedInv == \A s \in Services : ServedFor(s)
TargetInv == \A s \in Services : TargetFor(s)
HomeInv == OneAtATime /\ ServedInv /\ TargetInv

-----------------------------------------------------------------------------
(* What is written to a plan, a process or an ending has its type.         *)
LEMMA StartStepTyping ==
  ASSUME Typing, IndInv, OnlyServices, NEW t \in Tasks, StartStep(t) \/ Exit(t)
  PROVE  Typing'
  <1> USE DEF Typing, PortOrNone, Goto
  <1>0. plan[t] \in Plans /\ process[t] \in Instances /\ NoPort \in PortOrNone
    OBVIOUS
  <1>1. CASE Take(t) \/ NoPrevious(t) \/ AwaitPrevious(t)
    BY <1>1 DEF Take, NoPrevious, AwaitPrevious, proxies, Labels
  <1>2. CASE CancelPrevious(t)
    <2>1. PICK i \in Ids :
            /\ plan' = [plan EXCEPT ![t].waits = i]
            /\ process' = IF process[t].id = i THEN [process EXCEPT ![t].cancelled = TRUE]
                          ELSE process
      BY <1>2 DEF CancelPrevious
    <2>2. [plan[t] EXCEPT !.waits = i] \in Plans
      BY <1>0 DEF Plans
    <2>3. [process[t] EXCEPT !.cancelled = TRUE] \in Instances
      BY <1>0 DEF Instances
    <2>4. plan' \in [Tasks -> Plans] /\ process' \in [Tasks -> Instances]
      BY <2>1, <2>2, <2>3
    <2>5. QED BY <1>2, <2>4 DEF CancelPrevious, proxies, Labels
  <1>3. CASE Collect(t)
    <2> DEFINE env == [u \in Uses[t] |-> exports[u[1]][u[2]]]
    <2>1. env \in [Uses[t] -> PortOrNone]
      BY ServicesAssumption
    <2>2. env \in Envs
      BY <2>1 DEF Envs
    <2>3. [plan[t] EXCEPT !.env = env] \in Plans
      BY <1>0, <2>2 DEF Plans
    <2>4. plan' \in [Tasks -> Plans]
      BY <1>3, <2>3 DEF Collect
    <2>5. QED BY <1>3, <2>4 DEF Collect, proxies, Labels
  <1>4. CASE AssignPort(t)
    <2>1. PICK p \in Ports : plan' = [plan EXCEPT ![t].port = p]
      BY <1>4 DEF AssignPort
    <2>2. [plan[t] EXCEPT !.port = p] \in Plans
      BY <1>0 DEF Plans
    <2>3. plan' \in [Tasks -> Plans]
      BY <2>1, <2>2
    <2>4. QED BY <1>4, <2>3 DEF AssignPort, proxies, Labels
  <1>5. CASE AssignProxyPort(t)
    <2>1. PICK p \in Ports : plan' = [plan EXCEPT ![t].proxy = p]
      BY <1>5 DEF AssignProxyPort
    <2>2. [plan[t] EXCEPT !.proxy = p] \in Plans
      BY <1>0 DEF Plans
    <2>3. plan' \in [Tasks -> Plans]
      BY <2>1, <2>2
    <2>4. QED BY <1>5, <2>3 DEF AssignProxyPort, proxies, Labels
  <1>6. CASE Forward(t)
    <2>1. plan[t].port \in PortOrNone /\ plan[t].proxy \in PortOrNone
      BY <1>0 DEF Plans
    <2>2. listening' \in [Services -> PortOrNone] /\ target' \in [Services -> PortOrNone]
      BY <1>6, <2>1 DEF Forward
    <2>3. QED BY <1>6, <2>2 DEF Forward, Labels
  <1>7. CASE Publish(t)
    <2> DEFINE new == [direct |-> plan[t].port, proxy |-> plan[t].proxy]
    <2>1. new \in [Kinds -> PortOrNone]
      BY <1>0 DEF Plans, Kinds
    <2>2. [plan[t] EXCEPT !.changed = exports[t] # new] \in Plans
      BY <1>0 DEF Plans
    <2>3. plan' \in [Tasks -> Plans] /\ exports' \in [Services -> [Kinds -> PortOrNone]]
      BY <1>7, <2>1, <2>2 DEF Publish
    <2>4. QED BY <1>7, <2>3 DEF Publish, proxies, Labels
  <1>8. CASE Launch(t)
    <2>1. PICK i \in Ids : process' = [process EXCEPT ![t] =
            [id |-> i, port |-> plan[t].port, env |-> plan[t].env, cancelled |-> FALSE]]
      BY <1>8 DEF Launch
    <2>2. process' \in [Tasks -> Instances]
      BY <1>0, <2>1 DEF Plans, Instances
    <2>3. QED BY <1>8, <2>2 DEF Launch, proxies, Labels
  <1>9. CASE Announce(t) \/ Failed(t)
    <2>1. NoPlan \in Plans
      BY DEF NoPlan, Plans, Envs, PortOrNone
    <2>2. QED BY <1>9, <2>1 DEF Announce, Failed, proxies, Labels
  <1>10. NewEnding(t, NoId, TRUE) \in Ends
    BY DEF NewEnding, Ends
  <1>11. CASE Fails(t) \/ GiveBack(t) \/ GiveBackProxy(t)
    BY <1>10, <1>11 DEF Fails, GiveBack, GiveBackProxy, proxies, Labels
  <1>12. CASE ProxyFails(t)
    <2>1. t \in Services => /\ [listening EXCEPT ![t] = NoPort] \in [Services -> PortOrNone]
                            /\ [target EXCEPT ![t] = NoPort] \in [Services -> PortOrNone]
      OBVIOUS
    <2>2. t \in Services
      BY <1>12 DEF ProxyFails, OnlyServices
    <2>3. QED BY <1>12, <2>1, <2>2 DEF ProxyFails, proxies, Labels
  <1>13. CASE Exit(t)
    <2>1. \A errored \in BOOLEAN : NewEnding(t, process[t].id, errored) \in Ends
      BY <1>0 DEF NewEnding, Ends, Instances
    <2>2. NoProcess \in Instances
      BY DEF NoProcess, Instances, Envs, PortOrNone
    <2>3. PICK errored \in BOOLEAN :
            endings' = endings \cup {NewEnding(t, process[t].id, errored)}
      BY <1>13 DEF Exit
    <2>4. endings' \subseteq Ends
      BY <2>1, <2>3
    <2>5. process' \in [Tasks -> Instances]
      BY <1>13, <2>2 DEF Exit
    <2>6. QED BY <1>13, <2>4, <2>5 DEF Exit, proxies
  <1>14. QED
    BY <1>1, <1>2, <1>3, <1>4, <1>5, <1>6, <1>7, <1>8, <1>9, <1>11, <1>12, <1>13 DEF StartStep

(* An ending that goes on is an ending.                                    *)
LEMMA AdvanceTyping ==
  ASSUME endings \subseteq Ends, NEW e \in endings, Advance(e)
  PROVE  endings' \subseteq Ends
  <1>1. [e EXCEPT !.at = Following(e)] \in Ends
    BY DEF Ends, Following
  <1>2. QED BY <1>1 DEF Advance

LEMMA StepTyping == Typing /\ IndInv /\ OnlyServices /\ [Next]_vars => Typing'
  <1> SUFFICES ASSUME Typing, IndInv, OnlyServices, [Next]_vars PROVE Typing'
    OBVIOUS
  <1>1. ASSUME NEW t \in Tasks, StartStep(t) \/ Exit(t) PROVE Typing'
    BY <1>1, StartStepTyping
  <1>2. ASSUME NEW e \in endings, EndStep(e) PROVE Typing'
    <2>1. endings' \subseteq Ends
      BY <1>2, AdvanceTyping
         DEF Typing, EndStep, Unlist, ReleasePort, Retarget, ClearExports, Prune
    <2>2. CASE Unlist(e) \/ ReleasePort(e) \/ Prune(e)
      BY <2>1, <2>2 DEF Typing, Unlist, ReleasePort, Prune, proxies
    <2>3. CASE Retarget(e)
      BY <2>1, <2>3 DEF Typing, Retarget, PortOrNone
    <2>4. CASE ClearExports(e)
      <3>1. /\ NoExports \in [Kinds -> PortOrNone]
            /\ \A s \in Services :
                 [exports[s] EXCEPT !["direct"] = NoPort] \in [Kinds -> PortOrNone]
        BY DEF Typing, NoExports, PortOrNone
      <3>2. exports' \in [Services -> [Kinds -> PortOrNone]]
        BY <2>4, <3>1 DEF ClearExports, Typing
      <3>3. QED BY <2>1, <2>4, <3>2 DEF Typing, ClearExports, proxies
    <2>5. QED BY <1>2, <2>2, <2>3, <2>4 DEF EndStep
  <1>3. CASE OtherProgram \/ (\E t \in Tasks : Change(t)) \/ UNCHANGED vars
    BY <1>3 DEF OtherProgram, Change, vars, Typing, proxies
  <1>4. QED BY <1>1, <1>2, <1>3 DEF Next

-----------------------------------------------------------------------------
(* Assign gives its client the port and leaves the others alone; a client  *)
(* that holds one is given that one.                                       *)
LEMMA AssignGives ==
  ASSUME IndInv, NEW c \in Clients, NEW p \in Ports, Assign(c, p)
  PROVE  /\ reservations'[c] = p /\ p # NoPort
         /\ \A d \in Clients \ {c} : reservations'[d] = reservations[d]
         /\ reservations[c] # NoPort => p = reservations[c]
         /\ bound' = bound
  <1>1. p # NoPort
    BY PortsPositive
  <1>2. CASE Reuse(c, p)
    BY <1>1, <1>2 DEF Reuse, IndInv, MapsInverse
  <1>3. CASE Reserve(c, p)
    <2>1. reservations[c] = NoPort
      BY <1>3, HolderReuses, ConfigAssumption DEF Reserve
    <2>2. QED BY <1>1, <1>3, <2>1 DEF Reserve, IndInv, PortTypeOK
  <1>4. QED BY <1>2, <1>3 DEF Assign

(* Release takes the port of its client and leaves the others theirs.      *)
LEMMA ReleaseTakes ==
  ASSUME IndInv, NEW c \in Clients, Released(c)
  PROVE  /\ reservations'[c] = NoPort
         /\ \A d \in Clients \ {c} : reservations'[d] = reservations[d]
         /\ bound' = bound
  BY DEF Released, Release, portVars, IndInv, PortTypeOK

(* A step takes a port, gives one back, or only binds and frees ports.     *)
PortMove ==
  \/ PortNext
  \/ UNCHANGED <<reservations, reservedBy, lastAssigned>> /\ bound' \in SUBSET Ports

LEMMA NextMovesPorts ==
  ASSUME Typing, IndInv, OnlyServices, ProxyHolds, [Next]_vars
  PROVE  PortMove
  <1>1. bound \in SUBSET Ports
    BY DEF IndInv, PortTypeOK
  <1>2. CASE OtherProgram
    BY <1>2, ServicesAssumption DEF OtherProgram, PortMove, PortNext
  <1>3. ASSUME NEW t \in Tasks, AssignPort(t) \/ AssignProxyPort(t) PROVE PortMove
    <2>1. t \in Clients /\ (AssignProxyPort(t) => ProxyOf[t] \in Clients)
      BY <1>3, ServicesAssumption
         DEF AssignPort, AssignProxyPort, OnlyServices, ProxyHolds, ProxyHoldsFor
    <2>2. QED BY <1>3, <2>1 DEF AssignPort, AssignProxyPort, PortMove, PortNext
  <1>4. ASSUME NEW t \in Tasks, GiveBack(t) \/ GiveBackProxy(t) PROVE PortMove
    <2>1. t \in Clients /\ (GiveBackProxy(t) => ProxyOf[t] \in Clients)
      BY <1>4, ServicesAssumption
         DEF GiveBack, GiveBackProxy, OnlyServices, ProxyHolds, ProxyHoldsFor
    <2>2. QED
      BY <1>1, <1>4, <2>1 DEF GiveBack, GiveBackProxy, Released, PortMove, PortNext, portVars
  <1>5. ASSUME NEW t \in Tasks, Forward(t) \/ ProxyFails(t) PROVE PortMove
    <2>1. t \in Services
      BY <1>5 DEF Forward, ProxyFails, OnlyServices
    <2>2. Forward(t) => plan[t].proxy \in Ports
      <3>1. plan[t].proxy \in PortOrNone
        BY DEF Typing, Plans
      <3>2. QED BY <1>5, <2>1, <3>1 DEF Forward, ProxyHolds, ProxyHoldsFor, PortOrNone
    <2>3. QED
      BY <1>1, <1>5, <2>2 DEF Forward, ProxyFails, PortMove
  <1>6. ASSUME NEW e \in endings, ReleasePort(e) PROVE PortMove
    BY <1>1, <1>6, ServicesAssumption DEF ReleasePort, Released, PortMove, PortNext, portVars
  <1>7. CASE UNCHANGED portVars
    BY <1>1, <1>7 DEF PortMove, portVars
  <1>8. QED
    BY <1>2, <1>3, <1>4, <1>5, <1>6, <1>7
       DEF Next, StartStep, EndStep, Change, Take, CancelPrevious, NoPrevious, AwaitPrevious,
           Collect, Publish, Launch, Announce, Fails, Failed, Exit, Unlist, Retarget,
           ClearExports, Prune, vars

LEMMA StepPorts == Typing /\ IndInv /\ OnlyServices /\ ProxyHolds /\ [Next]_vars => IndInv'
  <1> SUFFICES ASSUME Typing, IndInv, OnlyServices, ProxyHolds, [Next]_vars PROVE IndInv'
    OBVIOUS
  <1>1. CASE PortNext
    BY <1>1, StepIndInv
  <1>2. CASE UNCHANGED <<reservations, reservedBy, lastAssigned>> /\ bound' \in SUBSET Ports
    BY <1>2 DEF IndInv, PortTypeOK, MapsInverse, HeldIsLast
  <1>3. QED BY <1>1, <1>2, NextMovesPorts DEF PortMove

-----------------------------------------------------------------------------
LEMMA StepOnlyServices ==
  Typing /\ IndInv /\ OnlyServices /\ ProxyHolds /\ [Next]_vars => OnlyServices'
  <1> SUFFICES ASSUME Typing, OnlyServices, ProxyHolds, [Next]_vars PROVE OnlyServices'
    OBVIOUS
  <1> USE DEF Goto, OnlyServices, Typing
  <1>1. ASSUME NEW t \in Tasks, StartStep(t) PROVE OnlyServices'
    <2>1. CASE Take(t) \/ CancelPrevious(t) \/ NoPrevious(t) \/ AwaitPrevious(t) \/ Collect(t)
      BY <2>1 DEF Take, CancelPrevious, NoPrevious, AwaitPrevious, Collect
    <2>2. CASE AssignPort(t) \/ AssignProxyPort(t) \/ Forward(t) \/ Publish(t)
      BY <2>2 DEF AssignPort, AssignProxyPort, Forward, Publish
    <2>3. CASE Launch(t) \/ Announce(t) \/ Failed(t) \/ Fails(t)
      BY <2>3 DEF Launch, Announce, Failed, Fails
    <2>4. CASE ProxyFails(t) \/ GiveBack(t) \/ GiveBackProxy(t)
      BY <2>4 DEF ProxyFails, GiveBack, GiveBackProxy
    <2>5. QED BY <1>1, <2>1, <2>2, <2>3, <2>4 DEF StartStep
  <1>2. CASE UNCHANGED start
    BY <1>2
  <1>3. QED
    BY <1>1, <1>2
       DEF Next, EndStep, OtherProgram, Change, Exit, Unlist, ReleasePort, Retarget,
           ClearExports, Prune, vars

(* The client of a proxy is none of the services.                          *)
LEMMA ProxyApart ==
  ASSUME NEW s \in Exposed
  PROVE  /\ ProxyOf[s] \in Clients /\ s \in Clients
         /\ \A t \in Services : t \in Clients /\ ProxyOf[s] \in Clients \ {t}
         /\ \A t \in Exposed : t # s => ProxyOf[s] \in Clients \ {ProxyOf[t]}
  BY ServicesAssumption

(* The steps of a start keep the port of every proxy.                      *)
LEMMA StartKeepsProxies ==
  ASSUME Typing, IndInv, OnlyServices, ProxyHolds, NEW t \in Tasks, StartStep(t),
         NEW s \in Services
  PROVE  ProxyHoldsFor(s)'
  <1> USE DEF Goto, Typing
  <1>0. /\ ProxyHoldsFor(s) /\ s \in Tasks /\ s \in Clients
        /\ plan[t] \in Plans /\ process[t] \in Instances
    BY ServicesAssumption DEF ProxyHolds
  <1> USE <1>0 DEF ProxyHoldsFor
  <1>1. CASE Take(t) \/ NoPrevious(t) \/ AwaitPrevious(t)
    BY <1>1 DEF Take, NoPrevious, AwaitPrevious, portVars, proxies
  <1>2. CASE CancelPrevious(t)
    <2>1. PICK i \in Ids : plan' = [plan EXCEPT ![t].waits = i]
      BY <1>2 DEF CancelPrevious
    <2>2. plan'[s].proxy = plan[s].proxy
      BY <2>1 DEF Plans
    <2>3. QED BY <1>2, <2>2 DEF CancelPrevious, portVars, proxies
  <1>3. CASE Collect(t)
    <2>1. plan'[s].proxy = plan[s].proxy
      BY <1>3 DEF Collect, Plans
    <2>2. QED BY <1>3, <2>1 DEF Collect, portVars, proxies
  <1>4. CASE AssignPort(t)
    <2>1. PICK p \in Ports : Assign(t, p) /\ plan' = [plan EXCEPT ![t].port = p]
      BY <1>4 DEF AssignPort
    <2>2. plan'[s].proxy = plan[s].proxy
      BY <2>1 DEF Plans
    <2>3. t \in Services
      BY <1>4 DEF AssignPort, OnlyServices
    <2>4. s \in Exposed => reservations'[ProxyOf[s]] = reservations[ProxyOf[s]]
      <3>1. t \in Clients
        BY <2>3, ServicesAssumption
      <3>2. \A d \in Clients \ {t} : reservations'[d] = reservations[d]
        BY <2>1, <3>1, AssignGives
      <3>3. QED BY <2>3, <3>2, ProxyApart
    <2>5. QED BY <1>4, <2>2, <2>4 DEF AssignPort, proxies
  <1>5. CASE AssignProxyPort(t)
    <2>1. PICK p \in Ports : Assign(ProxyOf[t], p) /\ plan' = [plan EXCEPT ![t].proxy = p]
      BY <1>5 DEF AssignProxyPort
    <2>2. t \in Exposed /\ ProxyOf[t] \in Clients
      BY <1>5, ServicesAssumption DEF AssignProxyPort, OnlyServices, ProxyHolds
    <2>3. /\ reservations'[ProxyOf[t]] = p /\ p # NoPort
          /\ \A d \in Clients \ {ProxyOf[t]} : reservations'[d] = reservations[d]
          /\ reservations[ProxyOf[t]] # NoPort => p = reservations[ProxyOf[t]]
      BY <2>1, <2>2, AssignGives
    <2>4. CASE s # t
      <3>1. s \in Exposed => reservations'[ProxyOf[s]] = reservations[ProxyOf[s]]
        BY <2>2, <2>3, <2>4, ServicesAssumption
      <3>2. QED BY <1>5, <2>1, <2>4, <3>1 DEF AssignProxyPort, proxies
    <2>5. CASE s = t
      <3>1. plan'[s].proxy = p
        BY <2>1, <2>5 DEF Plans
      <3>2. QED BY <1>5, <2>2, <2>3, <2>5, <3>1 DEF AssignProxyPort, proxies
    <2>6. QED BY <2>4, <2>5
  <1>6. CASE Forward(t)
    BY <1>6 DEF Forward
  <1>7. CASE Publish(t)
    <2>1. plan'[s].proxy = plan[s].proxy
      BY <1>7 DEF Publish, Plans
    <2>2. exports'[s]["proxy"] = IF s = t THEN plan[t].proxy ELSE exports[s]["proxy"]
      BY <1>7 DEF Publish
    <2>3. QED BY <1>7, <2>1, <2>2 DEF Publish, portVars, proxies
  <1>8. CASE Launch(t) \/ Fails(t)
    BY <1>8 DEF Launch, Fails, portVars, proxies
  <1>9. CASE Announce(t) \/ Failed(t)
    <2>1. plan'[s] = IF s = t THEN NoPlan ELSE plan[s]
      BY <1>9 DEF Announce, Failed
    <2>2. NoPlan.proxy = NoPort
      BY DEF NoPlan
    <2>3. s = t => plan'[s].proxy = NoPort
      BY <2>1, <2>2
    <2>4. s # t => plan'[s] = plan[s]
      BY <2>1
    <2>5. QED BY <1>9, <2>3, <2>4 DEF Announce, Failed, portVars, proxies
  <1>10. CASE ProxyFails(t)
    <2>1. s # t => ProxyHoldsFor(s)'
      BY <1>10 DEF ProxyFails, proxies
    <2>2. CASE s = t /\ start[t] = "assign proxy"
      BY <1>10, <2>2 DEF ProxyFails, proxies
    <2>3. CASE s = t /\ start[t] = "forward" /\ listening[t] # plan[t].proxy
      <3>1. listening[s] = NoPort /\ listening'[s] = NoPort
        BY <1>10, <2>3 DEF ProxyFails
      <3>2. QED BY <1>10, <2>3, <3>1 DEF ProxyFails
    <2>4. QED BY <1>10, <2>1, <2>2, <2>3 DEF ProxyFails
  <1>11. CASE GiveBack(t)
    <2>1. t \in Services
      BY <1>11 DEF GiveBack, OnlyServices
    <2>2. s \in Exposed => reservations'[ProxyOf[s]] = reservations[ProxyOf[s]]
      <3>1. t \in Clients /\ Released(t)
        BY <1>11, <2>1, ServicesAssumption DEF GiveBack
      <3>2. \A d \in Clients \ {t} : reservations'[d] = reservations[d]
        BY <3>1, ReleaseTakes
      <3>3. QED BY <2>1, <3>2, ProxyApart
    <2>3. QED BY <1>11, <2>2 DEF GiveBack, proxies
  <1>12. CASE GiveBackProxy(t)
    <2>1. t \in Exposed /\ listening[t] = NoPort /\ ProxyOf[t] \in Clients
      BY <1>12, ServicesAssumption DEF GiveBackProxy, OnlyServices, ProxyHolds
    <2>2. s \in Exposed /\ s # t => reservations'[ProxyOf[s]] = reservations[ProxyOf[s]]
      <3>1. Released(ProxyOf[t])
        BY <1>12 DEF GiveBackProxy
      <3>2. \A d \in Clients \ {ProxyOf[t]} : reservations'[d] = reservations[d]
        BY <2>1, <3>1, ReleaseTakes
      <3>3. QED BY <2>1, <3>2, ProxyApart
    <2>3. QED BY <1>12, <2>1, <2>2 DEF GiveBackProxy, proxies
  <1>13. QED
    BY <1>1, <1>2, <1>3, <1>4, <1>5, <1>6, <1>7, <1>8, <1>9, <1>10, <1>11, <1>12
       DEF StartStep

LEMMA StepProxyHolds ==
  Typing /\ IndInv /\ OnlyServices /\ ProxyHolds /\ [Next]_vars => ProxyHolds'
  <1> SUFFICES ASSUME Typing, IndInv, OnlyServices, ProxyHolds, [Next]_vars,
                      NEW s \in Services
               PROVE  ProxyHoldsFor(s)'
    BY DEF ProxyHolds
  <1>0. ProxyHoldsFor(s)
    BY DEF ProxyHolds
  <1> USE <1>0 DEF ProxyHoldsFor, Typing
  <1>1. ASSUME NEW t \in Tasks, StartStep(t) PROVE ProxyHoldsFor(s)'
    BY <1>1, StartKeepsProxies
  <1>2. ASSUME NEW e \in endings, ReleasePort(e) PROVE ProxyHoldsFor(s)'
    <2>1. s \in Exposed => reservations'[ProxyOf[s]] = reservations[ProxyOf[s]]
      <3>1. CASE e.task \in Services
        <4>1. e.task \in Clients /\ Released(e.task)
          BY <1>2, <3>1, ServicesAssumption DEF ReleasePort
        <4>2. \A d \in Clients \ {e.task} : reservations'[d] = reservations[d]
          BY <4>1, ReleaseTakes
        <4>3. QED BY <3>1, <4>2, ProxyApart
      <3>2. CASE e.task \notin Services
        BY <1>2, <3>2 DEF ReleasePort, portVars
      <3>3. QED BY <3>1, <3>2
    <2>2. QED BY <1>2, <2>1 DEF ReleasePort, proxies
  <1>3. ASSUME NEW e \in endings, ClearExports(e) PROVE ProxyHoldsFor(s)'
    <2>1. exports'[s]["proxy"] \in {NoPort, exports[s]["proxy"]}
      BY <1>3 DEF ClearExports, NoExports, Kinds
    <2>2. QED BY <1>3, <2>1 DEF ClearExports, portVars, proxies
  <1>4. ASSUME NEW e \in endings, Unlist(e) \/ Retarget(e) \/ Prune(e)
        PROVE  ProxyHoldsFor(s)'
    BY <1>4 DEF Unlist, Retarget, Prune, portVars, proxies
  <1>5. CASE OtherProgram
    BY <1>5 DEF OtherProgram, BindPort, FreePort, proxies
  <1>6. ASSUME NEW t \in Tasks, Change(t) \/ Exit(t) PROVE ProxyHoldsFor(s)'
    BY <1>6 DEF Change, Exit, portVars, proxies
  <1>7. CASE UNCHANGED vars
    BY <1>7 DEF vars, portVars, proxies
  <1>8. QED
    BY <1>1, <1>2, <1>3, <1>4, <1>5, <1>6, <1>7 DEF Next, EndStep

(* A proxy that listens is not moved and not closed: what StartOrUpdate is *)
(* called with is the port it has.                                         *)
LEMMA ListeningStays ==
  ASSUME Typing, OnlyServices, ProxyHolds, [Next]_vars,
         NEW s \in Services, listening[s] # NoPort
  PROVE  listening'[s] = listening[s]
  <1> USE DEF Typing
  <1>1. ProxyHoldsFor(s)
    BY DEF ProxyHolds
  <1>2. ASSUME NEW t \in Tasks, Forward(t) PROVE listening'[s] = listening[s]
    BY <1>1, <1>2 DEF Forward, ProxyHoldsFor
  <1>3. ASSUME NEW t \in Tasks, ProxyFails(t) PROVE listening'[s] = listening[s]
    BY <1>1, <1>3 DEF ProxyFails, ProxyHoldsFor, proxies
  <1>4. CASE UNCHANGED listening
    BY <1>4
  <1>5. QED
    BY <1>2, <1>3, <1>4
       DEF Next, StartStep, EndStep, OtherProgram, Change, Exit, Take, CancelPrevious,
           NoPrevious, AwaitPrevious, Collect, AssignPort, AssignProxyPort, Publish, Launch,
           Announce, Fails, GiveBack, GiveBackProxy, Failed, Unlist, ReleasePort, Retarget,
           ClearExports, Prune, vars, proxies

(* What was true of an environment stays true.                             *)
LEMMA UrlsStay ==
  ASSUME Typing, OnlyServices, ProxyHolds, [Next]_vars,
         NEW c \in Tasks, NEW env, GivenUrls(env, c)
  PROVE  \A u \in Uses[c] :
           u[2] = "proxy" => listening'[u[1]] # NoPort /\ env[u] = listening'[u[1]]
  <1> SUFFICES ASSUME NEW u \in Uses[c], u[2] = "proxy"
               PROVE  listening'[u[1]] # NoPort /\ env[u] = listening'[u[1]]
    OBVIOUS
  <1>1. u[1] \in Services
    BY ServicesAssumption
  <1>2. listening[u[1]] # NoPort /\ env[u] = listening[u[1]]
    BY DEF GivenUrls
  <1>3. QED BY <1>1, <1>2, ListeningStays

(* A start has its environment from Collect, or had it before.             *)
LEMMA PlannedFrom ==
  ASSUME Typing, [Next]_vars, NEW c \in Tasks, start'[c] \in Collected
  PROVE  Collect(c) \/ (start[c] \in Collected /\ plan'[c].env = plan[c].env)
  <1> USE DEF Typing, Goto, Collected
  <1>0. plan[c] \in Plans
    OBVIOUS
  <1>1. ASSUME NEW t \in Tasks, StartStep(t), t = c
        PROVE  Collect(c) \/ (start[c] \in Collected /\ plan'[c].env = plan[c].env)
    <2>1. CASE Take(t) \/ CancelPrevious(t) \/ Launch(t) \/ Announce(t) \/ Failed(t)
               \/ Fails(t) \/ ProxyFails(t) \/ GiveBack(t) \/ GiveBackProxy(t)
               \/ NoPrevious(t) \/ AwaitPrevious(t)
      BY <1>1, <2>1 DEF Take, CancelPrevious, Launch, Announce, Failed, Fails, ProxyFails,
                        GiveBack, GiveBackProxy, NoPrevious, AwaitPrevious
    <2>2. CASE AssignPort(t)
      BY <1>0, <1>1, <2>2 DEF AssignPort, Plans
    <2>3. CASE AssignProxyPort(t)
      BY <1>0, <1>1, <2>3 DEF AssignProxyPort, Plans
    <2>4. CASE Forward(t)
      BY <1>1, <2>4 DEF Forward
    <2>5. CASE Publish(t)
      BY <1>0, <1>1, <2>5 DEF Publish, Plans
    <2>6. QED BY <1>1, <2>1, <2>2, <2>3, <2>4, <2>5 DEF StartStep
  <1>2. ASSUME NEW t \in Tasks, StartStep(t), t # c
        PROVE  start'[c] = start[c] /\ plan'[c] = plan[c]
    BY <1>2 DEF StartStep, Take, CancelPrevious, NoPrevious, AwaitPrevious, Collect,
       AssignPort, AssignProxyPort, Forward, Publish, Launch, Announce, Failed, Fails,
       ProxyFails, GiveBack, GiveBackProxy
  <1>3. CASE UNCHANGED <<start, plan>>
    BY <1>3
  <1>4. QED
    BY <1>1, <1>2, <1>3
       DEF Next, EndStep, OtherProgram, Change, Exit, Unlist, ReleasePort, Retarget,
           ClearExports, Prune, vars

(* A process has its environment from Launch, or had it before.            *)
LEMMA GivenFrom ==
  ASSUME Typing, [Next]_vars, NEW c \in Tasks, Alive(c)'
  PROVE  \/ Launch(c) /\ process'[c].env = plan[c].env /\ process'[c].port = plan[c].port
         \/ Alive(c) /\ process'[c].env = process[c].env /\ process'[c].port = process[c].port
  <1> DEFINE Given ==
        \/ Launch(c) /\ process'[c].env = plan[c].env /\ process'[c].port = plan[c].port
        \/ Alive(c) /\ process'[c].env = process[c].env /\ process'[c].port = process[c].port
  <1> USE DEF Typing, Alive
  <1>0. process[c] \in Instances
    OBVIOUS
  <1>1. ASSUME NEW t \in Tasks, CancelPrevious(t) PROVE Given
    BY <1>0, <1>1 DEF CancelPrevious, Instances
  <1>2. ASSUME NEW t \in Tasks, Launch(t) PROVE Given
    <2>1. PICK i \in Ids : process' = [process EXCEPT ![t] =
            [id |-> i, port |-> plan[t].port, env |-> plan[t].env, cancelled |-> FALSE]]
      BY <1>2 DEF Launch
    <2>2. CASE t = c
      BY <1>2, <2>1, <2>2
    <2>3. CASE t # c
      BY <2>1, <2>3
    <2>4. QED BY <2>2, <2>3
  <1>3. ASSUME NEW t \in Tasks, Exit(t) PROVE Given
    <2>1. t # c
      BY <1>3 DEF Exit, NoProcess
    <2>2. QED BY <1>3, <2>1 DEF Exit
  <1>4. CASE UNCHANGED process
    BY <1>4
  <1>5. QED
    BY <1>1, <1>2, <1>3, <1>4
       DEF Next, StartStep, EndStep, OtherProgram, Change, Take, NoPrevious, AwaitPrevious,
           Collect, AssignPort, AssignProxyPort, Forward, Publish, Announce, Fails, ProxyFails,
           GiveBack, GiveBackProxy, Failed, Unlist, ReleasePort, Retarget, ClearExports, Prune,
           vars

LEMMA StepUrlsHold ==
  Typing /\ IndInv /\ OnlyServices /\ ProxyHolds /\ UrlsHold /\ [Next]_vars => UrlsHold'
  <1> SUFFICES ASSUME Typing, IndInv, OnlyServices, ProxyHolds, UrlsHold, [Next]_vars,
                      NEW c \in Tasks
               PROVE  /\ (start[c] \in Collected => GivenUrls(plan[c].env, c))'
                      /\ (Alive(c) => GivenUrls(process[c].env, c))'
    BY DEF UrlsHold
  <1>1. ASSUME start'[c] \in Collected PROVE GivenUrls(plan[c].env, c)'
    <2>1. CASE Collect(c)
      <3>1. \A u \in Uses[c] : u[2] = "proxy" =>
              /\ exports[u[1]]["proxy"] # NoPort
              /\ u[1] \in Services
              /\ plan'[c].env[u] = exports[u[1]]["proxy"]
        <4>1. plan'[c].env = [u \in Uses[c] |-> exports[u[1]][u[2]]]
          <5>1. plan[c] \in Plans
            BY DEF Typing
          <5>2. QED BY <2>1, <5>1 DEF Collect, Typing, Plans
        <4>2. \A u \in Uses[c] : u[1] \in Services /\ exports[u[1]][u[2]] # NoPort
          BY <2>1, ServicesAssumption DEF Collect, Provided
        <4>3. QED BY <4>1, <4>2
      <3>2. \A s \in Services : exports[s]["proxy"] # NoPort => exports[s]["proxy"] = listening[s]
        BY DEF ProxyHolds, ProxyHoldsFor
      <3>3. UNCHANGED listening
        BY <2>1 DEF Collect, proxies
      <3>4. QED BY <3>1, <3>2, <3>3 DEF GivenUrls
    <2>2. CASE start[c] \in Collected /\ plan'[c].env = plan[c].env
      <3>1. GivenUrls(plan[c].env, c)
        BY <2>2 DEF UrlsHold
      <3>2. QED BY <2>2, <3>1, UrlsStay DEF GivenUrls
    <2>3. QED BY <1>1, <2>1, <2>2, PlannedFrom
  <1>2. ASSUME Alive(c)' PROVE GivenUrls(process[c].env, c)'
    <2>1. CASE Launch(c) /\ process'[c].env = plan[c].env
      <3>1. GivenUrls(plan[c].env, c)
        BY <2>1 DEF UrlsHold, Launch, Collected
      <3>2. QED BY <2>1, <3>1, UrlsStay DEF GivenUrls
    <2>2. CASE Alive(c) /\ process'[c].env = process[c].env
      <3>1. GivenUrls(process[c].env, c)
        BY <2>2 DEF UrlsHold
      <3>2. QED BY <2>2, <3>1, UrlsStay DEF GivenUrls
    <2>3. QED BY <1>2, <2>1, <2>2, GivenFrom
  <1>3. QED BY <1>1, <1>2

LEMMA InitUrlInv == Init => UrlInv
  <1> SUFFICES ASSUME Init PROVE UrlInv
    OBVIOUS
  <1> USE DEF Init
  <1>1. IndInv
    BY InitIndInv
  <1>2. NoPlan \in Plans /\ NoProcess \in Instances /\ NoExports \in [Kinds -> PortOrNone]
    BY DEF NoPlan, Plans, NoProcess, Instances, NoExports, Envs, PortOrNone
  <1>3. Typing
    BY <1>2 DEF Typing, PortOrNone, Labels
  <1>4. OnlyServices
    BY DEF OnlyServices
  <1>5. ProxyHolds
    <2> SUFFICES ASSUME NEW s \in Services PROVE ProxyHoldsFor(s)
      BY DEF ProxyHolds
    <2>1. listening[s] = NoPort /\ exports[s]["proxy"] = NoPort
      BY DEF NoExports, Kinds
    <2>2. start[s] = "idle" /\ plan[s].proxy = NoPort
      BY ServicesAssumption DEF NoPlan
    <2>3. QED BY <2>1, <2>2 DEF ProxyHoldsFor
  <1>6. UrlsHold
    BY DEF UrlsHold, Collected, Alive, NoProcess
  <1>7. QED BY <1>1, <1>3, <1>4, <1>5, <1>6 DEF UrlInv

LEMMA StepUrlInv == UrlInv /\ [Next]_vars => UrlInv'
  BY StepTyping, StepPorts, StepOnlyServices, StepProxyHolds, StepUrlsHold DEF UrlInv

(* The tables of the ports, the places of the proxies and the URLs in the  *)
(* environments fit each other in every state.                             *)
THEOREM UrlInvHolds == Spec => []UrlInv
  <1>1. QED BY InitUrlInv, StepUrlInv, PTL DEF Spec

(* The variables have their types.                                         *)
THEOREM Typed == Spec => []TypeOK
  <1>1. UrlInv => TypeOK
    BY DEF UrlInv, IndInv, Typing, TypeOK, Plans, Instances, Ends
  <1>2. QED BY <1>1, UrlInvHolds, PTL

(* The URL of a proxy that a running consumer was given is where the proxy *)
(* listens, however often its service was started, failed or moved, and    *)
(* however starts and ends overtake each other.                            *)
THEOREM UrlIsStable == Spec => []ProxyUrlIsStable
  <1>1. UrlInv => ProxyUrlIsStable
    BY DEF UrlInv, UrlsHold, GivenUrls, ProxyUrlIsStable
  <1>2. QED BY <1>1, UrlInvHolds, PTL

(* Services and proxies that start, fail and end in any order never hold   *)
(* the same port.                                                          *)
THEOREM ServicesExclusive == Spec => []PortsExclusive
  <1>1. UrlInv => PortsExclusive
    BY DEF UrlInv, IndInv, PortTypeOK, MapsInverse, PortsExclusive
  <1>2. QED BY <1>1, UrlInvHolds, PTL

(* No start makes a service or a proxy lose the port it holds to another   *)
(* one: only a release takes it away.                                      *)
THEOREM ServicesKeepPorts == Spec => ReservationStable
  <1> DEFINE Keeps == \A c \in Clients :
        reservations[c] # NoPort => reservations'[c] \in {reservations[c], NoPort}
  <1>1. UrlInv /\ [Next]_vars => [Keeps]_portVars
    <2> SUFFICES ASSUME UrlInv, [Next]_vars, NEW c \in Clients, reservations[c] # NoPort
                 PROVE  reservations'[c] \in {reservations[c], NoPort}
      OBVIOUS
    <2>1. PortMove
      BY NextMovesPorts DEF UrlInv
    <2>2. CASE PortNext
      BY <2>2, StepKeeps DEF UrlInv
    <2>3. QED BY <2>1, <2>2 DEF PortMove
  <1>2. QED BY <1>1, UrlInvHolds, PTL DEF Spec, ReservationStable

(* A service or a proxy that comes back gets its last port if nobody took  *)
(* it in between.                                                          *)
THEOREM ServicesComeBack == Spec => ComesBackToItsPort
  <1>1. UrlInv /\ [Next]_vars => [\A c \in Clients : RegainsItsPort(c)]_portVars
    <2> SUFFICES ASSUME UrlInv, [Next]_vars, NEW c \in Clients
                 PROVE  RegainsItsPort(c)
      OBVIOUS
    <2>1. PortMove
      BY NextMovesPorts DEF UrlInv
    <2>2. CASE PortNext
      BY <2>2, StepRegains DEF UrlInv
    <2>3. QED BY <2>1, <2>2 DEF PortMove, RegainsItsPort
  <1>2. QED BY <1>1, UrlInvHolds, PTL DEF Spec, ComesBackToItsPort

-----------------------------------------------------------------------------
(* An ending goes on to one of the same instance, or is over.              *)
LEMMA AdvanceTo ==
  ASSUME endings \subseteq Ends, NEW e \in endings, Advance(e)
  PROVE  \E n \in Ends : /\ n.task = e.task /\ n.id = e.id /\ n.at = Following(e)
                         /\ endings' \in {endings \ {e}, (endings \ {e}) \cup {n}}
                         /\ e.at \in {"unlist", "release", "retarget"} => n \in endings'
  <1> DEFINE n == [e EXCEPT !.at = Following(e)]
  <1>1. e \in Ends
    OBVIOUS
  <1>2. n \in Ends /\ n.task = e.task /\ n.id = e.id /\ n.at = Following(e)
    BY <1>1 DEF Ends, Following
  <1>3. /\ endings' \in {endings \ {e}, (endings \ {e}) \cup {n}}
        /\ e.at \in {"unlist", "release", "retarget"} => n \in endings'
    BY DEF Advance
  <1>4. QED BY <1>2, <1>3

(* A step that is not one of the task leaves it alone.                     *)
Untouched(t) ==
  /\ start'[t] = start[t] /\ plan'[t] = plan[t] /\ process'[t] = process[t]
  /\ EndsOf(t)' = EndsOf(t)
  /\ t \in Services => /\ listening'[t] = listening[t] /\ target'[t] = target[t]
                       /\ exports'[t] = exports[t] /\ reservations'[t] = reservations[t]

LEMMA Aside ==
  ASSUME UrlInv, [Next]_vars, NEW t \in Tasks,
         ~StartStep(t), ~Exit(t), \A e \in EndsOf(t) : ~EndStep(e)
  PROVE  Untouched(t)
  <1> USE DEF UrlInv, Typing, Goto, Untouched
  <1>1. ASSUME NEW u \in Tasks, u # t, StartStep(u) PROVE Untouched(t)
    <2>1. CASE Take(u) \/ CancelPrevious(u) \/ NoPrevious(u) \/ AwaitPrevious(u) \/ Collect(u)
      BY <1>1, <2>1 DEF Take, CancelPrevious, NoPrevious, AwaitPrevious, Collect, EndsOf,
                        portVars, proxies
    <2>2. CASE AssignPort(u)
      <3>1. PICK p \in Ports : Assign(u, p) /\ plan' = [plan EXCEPT ![u].port = p]
        BY <2>2 DEF AssignPort
      <3>2. u \in Clients
        BY <2>2, ServicesAssumption DEF AssignPort, OnlyServices
      <3>3. \A d \in Clients \ {u} : reservations'[d] = reservations[d]
        BY <3>1, <3>2, AssignGives
      <3>4. t \in Services => reservations'[t] = reservations[t]
        BY <1>1, <3>3, ServicesAssumption
      <3>5. QED BY <1>1, <2>2, <3>1, <3>4 DEF AssignPort, EndsOf, proxies
    <2>3. CASE AssignProxyPort(u)
      <3>1. PICK p \in Ports : Assign(ProxyOf[u], p) /\ plan' = [plan EXCEPT ![u].proxy = p]
        BY <2>3 DEF AssignProxyPort
      <3>2. u \in Exposed
        BY <2>3 DEF AssignProxyPort, OnlyServices, ProxyHolds, ProxyHoldsFor
      <3>3. \A d \in Clients \ {ProxyOf[u]} : reservations'[d] = reservations[d]
        BY <3>1, <3>2, AssignGives, ProxyApart
      <3>4. t \in Services => reservations'[t] = reservations[t]
        BY <3>2, <3>3, ProxyApart
      <3>5. QED BY <1>1, <2>3, <3>1, <3>4 DEF AssignProxyPort, EndsOf, proxies
    <2>4. CASE Forward(u) \/ Publish(u) \/ Launch(u) \/ Announce(u) \/ Failed(u)
      BY <1>1, <2>4 DEF Forward, Publish, Launch, Announce, Failed, EndsOf, portVars, proxies
    <2>5. NewEnding(u, NoId, TRUE).task = u
      BY DEF NewEnding
    <2>6. CASE Fails(u) \/ ProxyFails(u)
      <3>1. EndsOf(t)' = EndsOf(t)
        BY <1>1, <2>5, <2>6 DEF Fails, ProxyFails, EndsOf
      <3>2. QED BY <1>1, <2>6, <3>1 DEF Fails, ProxyFails, portVars, proxies
    <2>7. CASE GiveBack(u)
      <3>1. u \in Clients /\ Released(u)
        BY <2>7, ServicesAssumption DEF GiveBack, OnlyServices
      <3>2. t \in Services => reservations'[t] = reservations[t]
        BY <1>1, <3>1, ReleaseTakes, ServicesAssumption
      <3>3. QED BY <1>1, <2>5, <2>7, <3>2 DEF GiveBack, EndsOf, proxies
    <2>8. CASE GiveBackProxy(u)
      <3>1. u \in Exposed
        BY <2>8 DEF GiveBackProxy, OnlyServices, ProxyHolds, ProxyHoldsFor
      <3>2. ProxyOf[u] \in Clients /\ Released(ProxyOf[u])
        BY <2>8, <3>1, ProxyApart DEF GiveBackProxy
      <3>3. t \in Services => reservations'[t] = reservations[t]
        BY <3>1, <3>2, ReleaseTakes, ProxyApart
      <3>4. QED BY <1>1, <2>5, <2>8, <3>3 DEF GiveBackProxy, EndsOf, proxies
    <2>9. QED
      BY <1>1, <2>1, <2>2, <2>3, <2>4, <2>6, <2>7, <2>8 DEF StartStep
  <1>2. ASSUME NEW u \in Tasks, u # t, Exit(u) PROVE Untouched(t)
    <2>1. \A errored \in BOOLEAN : NewEnding(u, process[u].id, errored).task = u
      BY DEF NewEnding
    <2>2. PICK errored \in BOOLEAN :
            endings' = endings \cup {NewEnding(u, process[u].id, errored)}
      BY <1>2 DEF Exit
    <2>3. EndsOf(t)' = EndsOf(t)
      BY <1>2, <2>1, <2>2 DEF EndsOf
    <2>4. QED BY <1>2, <2>3 DEF Exit, portVars, proxies
  <1>3. ASSUME NEW e \in endings, e.task # t, EndStep(e) PROVE Untouched(t)
    <2>1. EndsOf(t)' = EndsOf(t)
      <3>1. Advance(e)
        BY <1>3 DEF EndStep, Unlist, ReleasePort, Retarget, ClearExports, Prune
      <3>2. QED BY <1>3, <3>1, AdvanceTo DEF EndsOf
    <2>2. CASE ReleasePort(e)
      <3>1. t \in Services => reservations'[t] = reservations[t]
        BY <1>3, <2>2, ReleaseTakes, ServicesAssumption DEF ReleasePort, portVars
      <3>2. QED BY <2>1, <2>2, <3>1 DEF ReleasePort, proxies
    <2>3. CASE Unlist(e) \/ Prune(e)
      BY <2>1, <2>3 DEF Unlist, Prune, portVars, proxies
    <2>4. CASE Retarget(e) \/ ClearExports(e)
      BY <1>3, <2>1, <2>4 DEF Retarget, ClearExports, portVars, proxies
    <2>5. QED BY <1>3, <2>2, <2>3, <2>4 DEF EndStep
  <1>4. CASE OtherProgram \/ (\E u \in Tasks : Change(u)) \/ UNCHANGED vars
    BY <1>4 DEF OtherProgram, BindPort, FreePort, Change, vars, portVars, proxies, EndsOf
  <1>5. QED BY <1>1, <1>2, <1>3, <1>4 DEF Next, EndsOf

(* The ends that are there after a start has failed, or an instance ended. *)
LEMMA EndsAdded ==
  ASSUME NEW t, NEW i, NEW errored \in BOOLEAN, endings' = endings \cup {NewEnding(t, i, errored)}
  PROVE  /\ {e \in endings' : e.task = t} = EndsOf(t) \cup {NewEnding(t, i, errored)}
         /\ NewEnding(t, i, errored).id = i
         /\ NewEnding(t, i, errored).at = IF i = NoId THEN "release" ELSE "unlist"
  BY DEF EndsOf, NewEnding

(* An instance is launched, or its start goes on, only when the one before *)
(* and its end are gone.                                                   *)
LEMMA StepOneAtATime ==
  ASSUME ~Overtaking, UrlInv, OneAtATime, [Next]_vars
  PROVE  OneAtATime'
  <1> SUFFICES ASSUME NEW t \in Tasks PROVE OneFor(t)'
    BY DEF OneAtATime
  <1>0. OneFor(t) /\ plan[t] \in Plans /\ process[t] \in Instances
    BY DEF OneAtATime, UrlInv, Typing
  <1> USE <1>0 DEF UrlInv, Typing, Goto, OneFor, Alive
  <1>1. CASE StartStep(t)
    <2>1. CASE Take(t)
      BY <2>1 DEF Take, EndsOf, Under
    <2>2. CASE CancelPrevious(t)
      <3>1. PICK i \in Ids :
              /\ Listed(t, i)
              /\ plan' = [plan EXCEPT ![t].waits = i]
              /\ process' = IF process[t].id = i THEN [process EXCEPT ![t].cancelled = TRUE]
                            ELSE process
        BY <2>2 DEF CancelPrevious
      <3>2. plan'[t].waits = i /\ process'[t].id = process[t].id
        BY <3>1 DEF Plans, Instances
      <3>3. EndsOf(t)' = EndsOf(t)
        BY <2>2 DEF CancelPrevious, EndsOf
      <3>4. /\ Alive(t) => process[t].id = i
            /\ \A e \in EndsOf(t) : e.id = i
        BY <3>1 DEF Listed, EndsOf
      <3>5. start'[t] = "await"
        BY <2>2 DEF CancelPrevious
      <3>6. QED BY <3>2, <3>3, <3>4, <3>5 DEF Under
    <2>3. CASE NoPrevious(t)
      <3>1. EndsOf(t) = {} /\ ~Alive(t)
        BY <2>3 DEF NoPrevious, Listed, EndsOf, Instances
      <3>2. QED BY <2>3, <3>1 DEF NoPrevious, EndsOf, Under
    <2>4. CASE AwaitPrevious(t)
      <3>1. EndsOf(t) = {} /\ ~Alive(t)
        BY <2>4 DEF AwaitPrevious, Ending, EndsOf
      <3>2. QED BY <2>4, <3>1 DEF AwaitPrevious, EndsOf, Under
    <2>5. CASE Collect(t) \/ AssignPort(t) \/ AssignProxyPort(t) \/ Forward(t) \/ Publish(t)
      <3>1. start[t] \in Under /\ start'[t] \in Under
        BY <2>5 DEF Collect, AssignPort, AssignProxyPort, Forward, Publish, Under
      <3>2. UNCHANGED <<process, endings>>
        BY <2>5 DEF Collect, AssignPort, AssignProxyPort, Forward, Publish
      <3>3. QED BY <3>1, <3>2 DEF EndsOf, Under
    <2>6. CASE Launch(t)
      <3>1. EndsOf(t)' = {} /\ start'[t] = "announce"
        BY <2>6 DEF Launch, EndsOf, Under
      <3>2. QED BY <3>1 DEF Under
    <2>7. CASE Announce(t) \/ Failed(t)
      BY <2>7 DEF Announce, Failed, EndsOf, Under
    <2>8. CASE start[t] \in Under /\ start'[t] = "failing" /\ UNCHANGED process
               /\ endings' = endings \cup {NewEnding(t, NoId, TRUE)}
      <3>1. PICK errored \in BOOLEAN : endings' = endings \cup {NewEnding(t, NoId, errored)}
        BY <2>8
      <3>2. EndsOf(t) = {}
        BY <2>8
      <3>3. EndsOf(t)' = EndsOf(t) \cup {NewEnding(t, NoId, errored)}
        BY <3>1, EndsAdded DEF EndsOf
      <3>4. ~Alive(t)' /\ start'[t] \notin Under
        BY <2>8 DEF Under
      <3>5. QED BY <2>8, <3>2, <3>3, <3>4
    <2>9. CASE ProxyFails(t) \/ (GiveBack(t) /\ plan[t].proxy # NoPort)
      <3>1. start[t] \in Under /\ start'[t] \in Under
        BY <2>9 DEF ProxyFails, GiveBack, Under
      <3>2. UNCHANGED <<process, endings>>
        BY <2>9 DEF ProxyFails, GiveBack
      <3>3. QED BY <3>1, <3>2 DEF EndsOf, Under
    <2>10. QED
      BY <1>1, <2>1, <2>2, <2>3, <2>4, <2>5, <2>6, <2>7, <2>8, <2>9
         DEF StartStep, Fails, GiveBack, GiveBackProxy, Under
  <1>2. CASE Exit(t)
    <2>1. PICK errored \in BOOLEAN :
            endings' = endings \cup {NewEnding(t, process[t].id, errored)}
      BY <1>2 DEF Exit
    <2>2. EndsOf(t) = {} /\ process'[t].id = NoId /\ UNCHANGED <<start, plan>>
      BY <1>2 DEF Exit, NoProcess
    <2>3. /\ EndsOf(t)' = {NewEnding(t, process[t].id, errored)}
          /\ NewEnding(t, process[t].id, errored).id = process[t].id
      BY <2>1, <2>2, EndsAdded DEF EndsOf
    <2>4. process[t].id # NoId
      BY <1>2 DEF Exit
    <2>5. start'[t] \notin Under
      BY <2>2, <2>4
    <2>6. QED BY <2>2, <2>3, <2>4, <2>5
  <1>3. ASSUME NEW e \in EndsOf(t), EndStep(e) PROVE OneFor(t)'
    <2>1. Advance(e) /\ UNCHANGED <<start, plan, process>> /\ e \in endings /\ e.task = t
      BY <1>3 DEF EndStep, Unlist, ReleasePort, Retarget, ClearExports, Prune, EndsOf
    <2>2. PICK n \in Ends : /\ n.task = t /\ n.id = e.id
                            /\ endings' \in {endings \ {e}, (endings \ {e}) \cup {n}}
      BY <2>1, AdvanceTo
    <2>3. EndsOf(t)' \subseteq {n}
      BY <2>1, <2>2 DEF EndsOf
    <2>4. QED BY <1>3, <2>1, <2>2, <2>3
  <1>4. CASE Untouched(t)
    BY <1>4 DEF Untouched
  <1>5. QED BY <1>1, <1>2, <1>3, <1>4, Aside

(* From the port on, everything a start sets for its service stays as it is*)
(* until the instance has ended.                                           *)
LEMMA StepServed ==
  ASSUME UrlInv, OneAtATime, ServedInv, [Next]_vars
  PROVE  ServedInv'
  <1> SUFFICES ASSUME NEW s \in Services PROVE ServedFor(s)'
    BY DEF ServedInv
  <1>0. /\ OneFor(s) /\ ServedFor(s) /\ ProxyHoldsFor(s) /\ s \in Tasks /\ s \in Clients
        /\ plan[s] \in Plans /\ process[s] \in Instances
    BY ServicesAssumption DEF OneAtATime, ServedInv, UrlInv, Typing, ProxyHolds
  <1> USE <1>0 DEF UrlInv, Typing, Goto, ServedFor
  <1>1. CASE StartStep(s)
    <2>1. CASE Take(s) \/ NoPrevious(s) \/ AwaitPrevious(s)
      BY <2>1 DEF Take, NoPrevious, AwaitPrevious, portVars, proxies, Alive
    <2>2. CASE CancelPrevious(s)
      <3>1. Alive(s)' => Alive(s) /\ process'[s].port = process[s].port
        BY <2>2, GivenFrom DEF Launch, CancelPrevious
      <3>2. QED BY <2>2, <3>1 DEF CancelPrevious, portVars, proxies
    <2>3. CASE start[s] \in Under /\ start'[s] \notin Collected /\ UNCHANGED process
      BY <2>3 DEF OneFor, Collected, Alive
    <2>4. CASE Collect(s)
      BY <2>4 DEF Collect, OneFor, Under, Alive
    <2>5. CASE AssignPort(s)
      <3>1. PICK p \in Ports : Assign(s, p) /\ plan' = [plan EXCEPT ![s].port = p]
        BY <2>5 DEF AssignPort
      <3>2. plan'[s].port = p /\ reservations'[s] = p /\ p # NoPort
        BY <3>1, AssignGives DEF Plans
      <3>3. QED BY <2>5, <3>2 DEF AssignPort, OneFor, Under, Alive
    <2>6. CASE AssignProxyPort(s)
      <3>1. PICK p \in Ports :
              Assign(ProxyOf[s], p) /\ plan' = [plan EXCEPT ![s].proxy = p]
        BY <2>6 DEF AssignProxyPort
      <3>2. s \in Exposed
        BY <2>6 DEF AssignProxyPort, ProxyHoldsFor
      <3>3. \A d \in Clients \ {ProxyOf[s]} : reservations'[d] = reservations[d]
        BY <3>1, <3>2, AssignGives, ProxyApart
      <3>4. reservations'[s] = reservations[s]
        BY <3>2, <3>3, ProxyApart
      <3>5. plan'[s].port = plan[s].port
        BY <3>1 DEF Plans
      <3>6. QED BY <2>6, <3>4, <3>5 DEF AssignProxyPort, OneFor, Under, Alive
    <2>7. CASE Forward(s)
      <3>1. listening'[s] = plan[s].proxy /\ target'[s] = plan[s].port
        BY <2>7 DEF Forward
      <3>2. QED BY <2>7, <3>1 DEF Forward, OneFor, ProxyHoldsFor, Under, Alive
    <2>8. CASE Publish(s)
      <3>1. exports'[s]["direct"] = plan[s].port
        BY <2>8 DEF Publish
      <3>2. plan'[s].port = plan[s].port
        BY <2>8 DEF Publish, Plans
      <3>3. QED BY <2>8, <3>1, <3>2 DEF Publish, OneFor, Under, portVars, proxies, Alive
    <2>9. CASE Launch(s)
      <3>1. process'[s].port = plan[s].port
        <4>1. ~Alive(s)
          BY <2>9 DEF Launch, OneFor, Under
        <4>2. Alive(s)'
          BY <2>9 DEF Launch, Alive, Ids, NoId
        <4>3. QED BY <4>1, <4>2, GivenFrom
      <3>2. QED BY <2>9, <3>1 DEF Launch, portVars, proxies
    <2>10. CASE Announce(s) \/ Failed(s)
      BY <2>10 DEF Announce, Failed, portVars, proxies, Alive
    <2>11. QED
      BY <1>1, <2>1, <2>2, <2>3, <2>4, <2>5, <2>6, <2>7, <2>8, <2>9, <2>10
         DEF StartStep, Fails, ProxyFails, GiveBack, GiveBackProxy, Under, Collected
  <1>2. CASE Exit(s)
    BY <1>2 DEF Exit, NoProcess, portVars, proxies, Alive
  <1>3. ASSUME NEW e \in EndsOf(s), EndStep(e) PROVE ServedFor(s)'
    <2>1. ~Alive(s) /\ start[s] \notin Under
      BY <1>3 DEF OneFor
    <2>2. UNCHANGED <<start, plan, process>>
      BY <1>3 DEF EndStep, Unlist, ReleasePort, Retarget, ClearExports, Prune
    <2>3. QED BY <2>1, <2>2 DEF Under, Alive
  <1>4. CASE Untouched(s)
    BY <1>4 DEF Untouched, Alive
  <1>5. QED BY <1>1, <1>2, <1>3, <1>4, Aside

(* The target is set after the port was reserved, and taken away before    *)
(* the next one can be.                                                    *)
LEMMA StepTarget ==
  ASSUME UrlInv, OneAtATime, ServedInv, TargetInv, [Next]_vars
  PROVE  TargetInv'
  <1> SUFFICES ASSUME NEW s \in Services PROVE TargetFor(s)'
    BY DEF TargetInv
  <1>0. /\ OneFor(s) /\ ServedFor(s) /\ TargetFor(s) /\ s \in Tasks /\ s \in Clients
        /\ plan[s] \in Plans /\ process[s] \in Instances
    BY ServicesAssumption DEF OneAtATime, ServedInv, TargetInv, UrlInv, Typing
  <1> USE <1>0 DEF UrlInv, Typing, Goto, TargetFor
  <1>1. CASE StartStep(s)
    <2>1. CASE Take(s) \/ NoPrevious(s) \/ AwaitPrevious(s) \/ Announce(s) \/ Failed(s)
      BY <2>1 DEF Take, NoPrevious, AwaitPrevious, Announce, Failed, EndsOf, portVars, proxies,
                  Alive
    <2>2. CASE CancelPrevious(s)
      <3>1. Alive(s) => Alive(s)'
        BY <2>2 DEF CancelPrevious, Alive, Instances
      <3>2. EndsOf(s)' = EndsOf(s)
        BY <2>2 DEF CancelPrevious, EndsOf
      <3>3. QED BY <2>2, <3>1, <3>2 DEF CancelPrevious, portVars, proxies
    <2>3. CASE start[s] \in Under \ {"publish", "launch"} /\ target'[s] \in {NoPort, target[s]}
      BY <2>3 DEF OneFor
    <2>4. CASE Forward(s)
      <3>1. target'[s] = plan[s].port /\ reservations'[s] = plan[s].port
        BY <2>4 DEF Forward, ServedFor
      <3>2. start'[s] = "publish"
        BY <2>4 DEF Forward
      <3>3. QED BY <3>1, <3>2
    <2>5. CASE Publish(s)
      BY <2>5 DEF Publish, OneFor, Under, portVars, proxies
    <2>6. CASE Launch(s)
      <3>1. Alive(s)'
        BY <2>6 DEF Launch, Alive, Ids, NoId
      <3>2. EndsOf(s) = {}
        BY <2>6 DEF Launch, OneFor, Under
      <3>3. QED BY <2>6, <3>1, <3>2 DEF Launch, portVars, proxies
    <2>7. CASE Fails(s)
      <3>1. \E e \in EndsOf(s)' : e.at = "release"
        <4>1. PICK errored \in BOOLEAN : endings' = endings \cup {NewEnding(s, NoId, errored)}
          BY <2>7 DEF Fails
        <4>2. NewEnding(s, NoId, errored) \in EndsOf(s)'
          BY <4>1, EndsAdded DEF EndsOf
        <4>3. NewEnding(s, NoId, errored).at = "release"
          BY DEF NewEnding
        <4>4. QED BY <4>2, <4>3
      <3>2. EndsOf(s) = {}
        BY <2>7 DEF Fails, OneFor, Under
      <3>3. UNCHANGED <<reservations, target>>
        BY <2>7 DEF Fails, portVars, proxies
      <3>4. QED BY <3>1, <3>2, <3>3
    <2>8. QED
      BY <1>1, <2>1, <2>2, <2>3, <2>4, <2>5, <2>6, <2>7
         DEF StartStep, Collect, AssignPort, AssignProxyPort, ProxyFails, GiveBack,
             GiveBackProxy, Under, proxies
  <1>2. CASE Exit(s)
    <2>1. PICK errored \in BOOLEAN :
            endings' = endings \cup {NewEnding(s, process[s].id, errored)}
      BY <1>2 DEF Exit
    <2>2. EndsOf(s) = {} /\ process[s].id # NoId /\ UNCHANGED <<reservations, target>>
      BY <1>2 DEF Exit, OneFor, Alive, portVars, proxies
    <2>3. \E e \in EndsOf(s)' : e.at = "unlist"
      <3>1. NewEnding(s, process[s].id, errored) \in EndsOf(s)'
        BY <2>1, EndsAdded DEF EndsOf
      <3>2. NewEnding(s, process[s].id, errored).at = "unlist"
        BY <2>2 DEF NewEnding
      <3>3. QED BY <3>1, <3>2
    <2>4. QED BY <2>2, <2>3
  <1>3. ASSUME NEW e \in EndsOf(s), EndStep(e) PROVE TargetFor(s)'
    <2>1. ~Alive(s) /\ start[s] \notin Under /\ \A f \in EndsOf(s) : f = e
      BY <1>3 DEF OneFor
    <2>2. /\ Advance(e) /\ e \in endings /\ e.task = s
      BY <1>3 DEF EndStep, Unlist, ReleasePort, Retarget, ClearExports, Prune, EndsOf
    <2>3. PICK n \in Ends : /\ n.task = s /\ n.at = Following(e)
                            /\ e.at \in {"unlist", "release"} => n \in endings'
      BY <2>2, AdvanceTo
    <2>4. CASE Unlist(e)
      <3>1. e.at = "unlist" /\ UNCHANGED <<reservations, target>>
        BY <2>4 DEF Unlist, portVars, proxies
      <3>2. n.at = "release"
        BY <2>3, <3>1 DEF Following
      <3>3. n \in EndsOf(s)'
        BY <2>3, <3>1 DEF EndsOf
      <3>4. QED BY <2>1, <3>1, <3>2, <3>3 DEF Under
    <2>5. CASE ReleasePort(e)
      <3>1. e.at = "release"
        BY <2>5 DEF ReleasePort
      <3>2. n.at = "retarget"
        BY <2>3, <3>1 DEF Following
      <3>3. n \in EndsOf(s)'
        BY <2>3, <3>1 DEF EndsOf
      <3>4. QED BY <3>2, <3>3
    <2>6. CASE Retarget(e)
      <3>1. target'[s] = NoPort
        BY <2>2, <2>6 DEF Retarget
      <3>2. QED BY <3>1
    <2>7. CASE ClearExports(e) \/ Prune(e)
      <3>1. target[s] = NoPort
        BY <2>1, <2>7 DEF ClearExports, Prune, Under
      <3>2. QED BY <2>7, <3>1 DEF ClearExports, Prune, proxies
    <2>8. QED BY <1>3, <2>4, <2>5, <2>6, <2>7 DEF EndStep
  <1>4. CASE Untouched(s)
    BY <1>4 DEF Untouched, Alive
  <1>5. QED BY <1>1, <1>2, <1>3, <1>4, Aside

LEMMA InitHomeInv == Init => HomeInv
  <1> SUFFICES ASSUME Init PROVE HomeInv
    OBVIOUS
  <1>1. \A t \in Tasks : start[t] = "idle" /\ ~Alive(t) /\ EndsOf(t) = {}
    BY DEF Init, Alive, NoProcess, EndsOf
  <1>2. OneAtATime
    BY <1>1 DEF OneAtATime, OneFor, Under
  <1>3. ServedInv
    BY <1>1, ServicesAssumption DEF ServedInv, ServedFor
  <1>4. TargetInv
    BY DEF Init, TargetInv, TargetFor
  <1>5. QED BY <1>2, <1>3, <1>4 DEF HomeInv

(* Where no start overtakes the end of a crashed instance, a task has one  *)
(* instance, one end or one start at a time.                               *)
THEOREM HomeInvHolds ==
  ASSUME ~Overtaking
  PROVE  Spec => []HomeInv
  <1>1. UrlInv /\ HomeInv /\ [Next]_vars => HomeInv'
    BY StepOneAtATime, StepServed, StepTarget DEF HomeInv
  <1>2. QED BY <1>1, InitHomeInv, UrlInvHolds, PTL DEF Spec

(* Then a service that runs has its port reserved, its proxy forwards to   *)
(* it and its exports are its own, whatever fails, crashes or is restarted.*)
THEOREM Served ==
  ASSUME ~Overtaking
  PROVE  Spec => []RunningIsServed
  <1>1. HomeInv => RunningIsServed
    BY DEF HomeInv, ServedInv, ServedFor, RunningIsServed
  <1>2. QED BY <1>1, HomeInvHolds, PTL

(* And a proxy never forwards to a port its service does not have any more,*)
(* except for the moment in which its target is taken away.                *)
THEOREM ForwardsHome ==
  ASSUME ~Overtaking
  PROVE  Spec => []ProxyForwardsHome
  <1>1. HomeInv => ProxyForwardsHome
    BY DEF HomeInv, TargetInv, TargetFor, EndsOf, ProxyForwardsHome
  <1>2. QED BY <1>1, HomeInvHolds, PTL

-----------------------------------------------------------------------------
(* A consumer of one service that consumes nothing itself.                 *)
OfOneProvider(c) ==
  /\ \A u, v \in Uses[c] : u[1] = v[1]
  /\ \A u \in Uses[c] : Uses[u[1]] = {}

(* An environment with a port the service of this export has no more, and  *)
(* what ends in another one for its consumer.                              *)
Old(env, u) == exports[u[1]]["direct"] \notin {NoPort, env[u]}
Coming(c, s) ==
  \/ c \in queue \/ start[c] \in {"replace", "await"}
  \/ start[s] \in {"launch", "announce"} /\ plan[s].changed
  \/ start[s] = "failing"

FollowsFor(c, u) ==
  /\ Alive(c) /\ Old(process[c].env, u) => Coming(c, u[1])
  /\ start[c] \in Collected /\ Old(plan[c].env, u) => Coming(c, u[1])
Follows(c) ==
  \A u \in Uses[c] : u[2] = "direct" /\ OnChange[c] # "none" => FollowsFor(c, u)

(* When an end prunes the queue the exports are gone, and a start that     *)
(* failed stays until its end has taken them.                              *)
GoneFor(s) ==
  /\ \A e \in EndsOf(s) : e.at = "prune" => exports[s]["direct"] = NoPort
  /\ start[s] = "failing" =>
       exports[s]["direct"] = NoPort \/ \E e \in EndsOf(s) : e.id = NoId
GoneInv == \A s \in Services : GoneFor(s)

LEMMA StepGone ==
  ASSUME UrlInv, OneAtATime, GoneInv, [Next]_vars
  PROVE  GoneInv'
  <1> SUFFICES ASSUME NEW s \in Services PROVE GoneFor(s)'
    BY DEF GoneInv
  <1>0. OneFor(s) /\ GoneFor(s) /\ s \in Tasks
    BY ServicesAssumption DEF OneAtATime, GoneInv
  <1> USE <1>0 DEF UrlInv, Typing, Goto, GoneFor
  <1>1. CASE StartStep(s)
    <2>1. CASE start[s] \notin Under /\ start'[s] # "failing" /\ UNCHANGED <<exports, endings>>
      BY <2>1 DEF EndsOf
    <2>2. CASE start[s] \in Under /\ start'[s] # "failing" /\ UNCHANGED endings
      BY <2>2 DEF OneFor, EndsOf
    <2>3. CASE start[s] \in Under /\ endings' = endings \cup {NewEnding(s, NoId, TRUE)}
      <3>1. PICK errored \in BOOLEAN : endings' = endings \cup {NewEnding(s, NoId, errored)}
        BY <2>3
      <3>2. /\ EndsOf(s)' = EndsOf(s) \cup {NewEnding(s, NoId, errored)}
            /\ NewEnding(s, NoId, errored).id = NoId
            /\ NewEnding(s, NoId, errored).at = "release"
        BY <3>1, EndsAdded DEF EndsOf
      <3>3. EndsOf(s) = {}
        BY <2>3 DEF OneFor
      <3>4. QED BY <3>2, <3>3
    <2>4. QED
      BY <1>1, <2>1, <2>2, <2>3
         DEF StartStep, Take, CancelPrevious, NoPrevious, AwaitPrevious, Collect, AssignPort,
             AssignProxyPort, Forward, Publish, Launch, Announce, Fails, ProxyFails, GiveBack,
             GiveBackProxy, Failed, Under, NoId
  <1>2. CASE Exit(s)
    <2>1. PICK errored \in BOOLEAN :
            endings' = endings \cup {NewEnding(s, process[s].id, errored)}
      BY <1>2 DEF Exit
    <2>2. EndsOf(s) = {} /\ start[s] # "failing" /\ UNCHANGED start
      BY <1>2 DEF Exit, OneFor
    <2>3. /\ EndsOf(s)' = {NewEnding(s, process[s].id, errored)}
          /\ NewEnding(s, process[s].id, errored).at # "prune"
      BY <2>1, <2>2, EndsAdded DEF EndsOf
    <2>4. QED BY <2>2, <2>3
  <1>3. ASSUME NEW e \in EndsOf(s), EndStep(e) PROVE GoneFor(s)'
    <2>1. Advance(e) /\ UNCHANGED start /\ e \in endings /\ e.task = s
      BY <1>3 DEF EndStep, Unlist, ReleasePort, Retarget, ClearExports, Prune, EndsOf
    <2>2. PICK n \in Ends : /\ n.task = s /\ n.id = e.id /\ n.at = Following(e)
                            /\ endings' \in {endings \ {e}, (endings \ {e}) \cup {n}}
                            /\ e.at \in {"unlist", "release", "retarget"} => n \in endings'
      BY <2>1, AdvanceTo
    <2>3. EndsOf(s)' \subseteq {n} /\ \A f \in EndsOf(s) : f = e
      BY <1>3, <2>1, <2>2 DEF EndsOf, OneFor
    <2>4. CASE e.at \in {"unlist", "release", "retarget"}
      <3>1. n \in EndsOf(s)' /\ n.at # "prune"
        BY <2>2, <2>4 DEF EndsOf, Following
      <3>2. UNCHANGED exports
        BY <1>3, <2>4 DEF EndStep, Unlist, ReleasePort, Retarget, ClearExports, Prune
      <3>3. QED BY <2>1, <2>2, <2>3, <3>1, <3>2
    <2>5. CASE ClearExports(e)
      <3>1. exports'[s]["direct"] = NoPort
        BY <2>1, <2>5 DEF ClearExports, NoExports, Kinds
      <3>2. QED BY <3>1
    <2>6. CASE Prune(e)
      BY <1>3, <2>6 DEF Prune
    <2>7. QED
      BY <1>3, <2>4, <2>5, <2>6 DEF EndStep, Unlist, ReleasePort, Retarget
  <1>4. CASE Untouched(s)
    BY <1>4 DEF Untouched
  <1>5. QED BY <1>1, <1>2, <1>3, <1>4, Aside

(* The failure of a task takes such a consumer from the queue only when it *)
(* is the one it consumes.                                                 *)
LEMMA PruneSpares ==
  ASSUME NEW c \in Tasks, OfOneProvider(c), NEW u \in Uses[c],
         NEW t \in Tasks, c \in QueuedConsumers(t)
  PROVE  t = u[1]
  <1> SUFFICES ASSUME t # u[1] PROVE FALSE
    OBVIOUS
  <1> DEFINE C == queue \ {c, u[1]}
  <1>1. Providers(c) = {u[1]} /\ Providers(u[1]) = {}
    BY DEF OfOneProvider, Providers
  <1>2. ASSUME NEW q \in queue, Providers(q) \cap (C \cup {t}) # {} PROVE q \in C
    BY <1>1, <1>2
  <1>3. C \in SUBSET queue
    OBVIOUS
  <1>4. c \in C
    BY <1>2, <1>3 DEF QueuedConsumers
  <1>5. QED BY <1>4

(* A queued consumer is taken, or stays until its service has nothing.     *)
LEMMA StaysQueued ==
  ASSUME UrlInv, GoneInv, [Next]_vars,
         NEW c \in Tasks, OfOneProvider(c), NEW u \in Uses[c], c \in queue
  PROVE  \/ c \in queue' \/ start'[c] = "replace"
         \/ exports'[u[1]]["direct"] = NoPort
  <1> USE DEF UrlInv, Typing, Goto
  <1>0. u[1] \in Services
    BY ServicesAssumption
  <1>1. ASSUME NEW t \in Tasks, Take(t) PROVE c \in queue' \/ start'[c] = "replace"
    BY <1>1 DEF Take
  <1>2. ASSUME NEW e \in endings, Prune(e)
        PROVE  c \in queue' \/ exports'[u[1]]["direct"] = NoPort
    <2>1. CASE c \in QueuedConsumers(e.task)
      <3>1. e.task = u[1]
        BY <2>1, PruneSpares DEF Ends
      <3>2. exports[u[1]]["direct"] = NoPort
        BY <1>0, <1>2, <3>1 DEF GoneInv, GoneFor, EndsOf, Prune
      <3>3. QED BY <1>2, <3>2 DEF Prune
    <2>2. QED BY <1>2, <2>1 DEF Prune
  <1>3. CASE queue \subseteq queue'
    BY <1>3
  <1>4. QED
    BY <1>1, <1>2, <1>3
       DEF Next, StartStep, EndStep, OtherProgram, Change, CancelPrevious, NoPrevious,
           AwaitPrevious, Collect, AssignPort, AssignProxyPort, Forward, Publish, Launch,
           Announce, Fails, ProxyFails, GiveBack, GiveBackProxy, Failed, Exit, Unlist,
           ReleasePort, Retarget, ClearExports, vars

(* A service gets other exports from a start that knows of the change, or  *)
(* loses them.                                                             *)
LEMMA ExportsMove ==
  ASSUME UrlInv, [Next]_vars, NEW s \in Services
  PROVE  \/ exports'[s]["direct"] \in {NoPort, exports[s]["direct"]}
         \/ start'[s] = "launch" /\ plan'[s].changed
  <1> USE DEF UrlInv, Typing, Goto
  <1>0. s \in Tasks
    BY ServicesAssumption
  <1>1. CASE Publish(s)
    <2>1. plan[s] \in Plans
      BY <1>0
    <2>2. plan'[s].changed = (exports[s] # exports'[s])
      BY <1>0, <1>1, <2>1 DEF Publish, Plans
    <2>3. start'[s] = "launch"
      BY <1>0, <1>1 DEF Publish
    <2>4. QED BY <2>2, <2>3
  <1>2. ASSUME NEW t \in Tasks, Publish(t), t # s PROVE exports'[s] = exports[s]
    BY <1>2 DEF Publish
  <1>3. ASSUME NEW e \in endings, ClearExports(e)
        PROVE  exports'[s]["direct"] \in {NoPort, exports[s]["direct"]}
    BY <1>3 DEF ClearExports, NoExports, Kinds
  <1>4. CASE UNCHANGED exports
    BY <1>4
  <1>5. QED
    BY <1>1, <1>2, <1>3, <1>4
       DEF Next, StartStep, EndStep, OtherProgram, Change, Take, CancelPrevious, NoPrevious,
           AwaitPrevious, Collect, AssignPort, AssignProxyPort, Forward, Launch, Announce,
           Fails, ProxyFails, GiveBack, GiveBackProxy, Failed, Exit, Unlist, ReleasePort,
           Retarget, Prune, vars

(* A start that replaces its task goes on until no instance is left.       *)
LEMMA ReplacingStays ==
  ASSUME UrlInv, OneAtATime, [Next]_vars,
         NEW c \in Tasks, start[c] \in {"replace", "await"}
  PROVE  start'[c] \in {"replace", "await"} \/ (start'[c] = "collect" /\ ~Alive(c)')
  <1> USE DEF UrlInv, Typing, Goto, Alive
  <1>0. OneFor(c) /\ process[c] \in Instances
    BY DEF OneAtATime
  <1>1. CASE StartStep(c)
    <2>1. CASE CancelPrevious(c)
      BY <2>1 DEF CancelPrevious
    <2>2. CASE NoPrevious(c)
      <3>1. ~Alive(c)
        BY <1>0, <2>2 DEF NoPrevious, Listed, Instances
      <3>2. QED BY <2>2, <3>1 DEF NoPrevious
    <2>3. CASE AwaitPrevious(c)
      <3>1. ~Alive(c)
        BY <1>0, <2>3 DEF AwaitPrevious, OneFor
      <3>2. QED BY <2>3, <3>1 DEF AwaitPrevious
    <2>4. QED
      BY <1>1, <2>1, <2>2, <2>3
         DEF StartStep, Take, Collect, AssignPort, AssignProxyPort, Forward, Publish, Launch,
             Announce, Fails, ProxyFails, GiveBack, GiveBackProxy, Failed
  <1>2. CASE Exit(c)
    BY <1>2 DEF Exit
  <1>3. ASSUME NEW e \in EndsOf(c), EndStep(e) PROVE UNCHANGED start
    BY <1>3 DEF EndStep, Unlist, ReleasePort, Retarget, ClearExports, Prune
  <1>4. CASE Untouched(c)
    BY <1>4 DEF Untouched
  <1>5. QED BY <1>1, <1>2, <1>3, <1>4, Aside

(* A start that has changed the exports puts their consumers in the queue, *)
(* or fails, and then stays until they are gone.                           *)
LEMMA ChangeAnnounced ==
  ASSUME UrlInv, GoneInv, [Next]_vars, NEW c \in Tasks, NEW u \in Uses[c],
         u[2] = "direct", OnChange[c] # "none",
         \/ start[u[1]] \in {"launch", "announce"} /\ plan[u[1]].changed
         \/ start[u[1]] = "failing"
  PROVE  Coming(c, u[1])' \/ exports'[u[1]]["direct"] = NoPort
  <1> DEFINE s == u[1]
  <1> USE DEF UrlInv, Typing, Goto
  <1>0. s \in Services /\ s \in Tasks /\ GoneFor(s)
    BY ServicesAssumption DEF GoneInv
  <1>1. CASE StartStep(s)
    <2>1. CASE Launch(s)
      <3>1. start[s] = "launch" /\ start'[s] = "announce" /\ plan' = plan
        BY <1>0, <2>1 DEF Launch
      <3>2. QED BY <3>1 DEF Coming
    <2>2. CASE Announce(s)
      <3>1. plan[s].changed
        BY <2>2 DEF Announce
      <3>2. Restarted(c, s, plan[s].changed)
        <4>1. "direct" \in {v[2] : v \in {w \in Uses[c] : w[1] = s}}
          OBVIOUS
        <4>2. OnChange[c] \in {"auto", "direct", "restart"}
          BY ServicesAssumption
        <4>3. QED BY <3>1, <4>1, <4>2 DEF Restarted
      <3>3. c \in queue'
        BY <2>2, <3>2 DEF Announce
      <3>4. QED BY <3>3 DEF Coming
    <2>3. CASE Fails(s)
      <3>1. start'[s] = "failing"
        BY <1>0, <2>3 DEF Fails
      <3>2. QED BY <3>1 DEF Coming
    <2>4. CASE Failed(s)
      <3>1. exports[s]["direct"] = NoPort
        BY <1>0, <2>4 DEF Failed, GoneFor, Ending, EndsOf
      <3>2. QED BY <2>4, <3>1 DEF Failed
    <2>5. QED
      BY <1>1, <2>1, <2>2, <2>3, <2>4
         DEF StartStep, Take, CancelPrevious, NoPrevious, AwaitPrevious, Collect, AssignPort,
             AssignProxyPort, Forward, Publish, ProxyFails, GiveBack, GiveBackProxy
  <1>2. CASE start'[s] = start[s] /\ plan'[s] = plan[s]
    BY <1>2 DEF Coming
  <1>3. CASE Exit(s)
    BY <1>2, <1>3 DEF Exit
  <1>4. ASSUME NEW e \in EndsOf(s), EndStep(e) PROVE UNCHANGED <<start, plan>>
    BY <1>4 DEF EndStep, Unlist, ReleasePort, Retarget, ClearExports, Prune
  <1>5. CASE Untouched(s)
    BY <1>2, <1>5 DEF Untouched
  <1>6. QED BY <1>0, <1>1, <1>2, <1>3, <1>4, <1>5, Aside

(* So a consumer with an old port is always about to be replaced.          *)
LEMMA ComingStays ==
  ASSUME UrlInv, OneAtATime, GoneInv, [Next]_vars,
         NEW c \in Tasks, OfOneProvider(c), NEW u \in Uses[c],
         u[2] = "direct", OnChange[c] # "none", Coming(c, u[1])
  PROVE  \/ Coming(c, u[1])' \/ exports'[u[1]]["direct"] = NoPort
         \/ start'[c] = "collect" /\ ~Alive(c)'
  <1>1. CASE c \in queue
    BY <1>1, StaysQueued DEF Coming
  <1>2. CASE start[c] \in {"replace", "await"}
    BY <1>2, ReplacingStays DEF Coming
  <1>3. CASE \/ start[u[1]] \in {"launch", "announce"} /\ plan[u[1]].changed
             \/ start[u[1]] = "failing"
    BY <1>3, ChangeAnnounced
  <1>4. QED BY <1>1, <1>2, <1>3 DEF Coming

LEMMA StepFollows ==
  ASSUME UrlInv, OneAtATime, GoneInv, [Next]_vars, NEW c \in Tasks, OfOneProvider(c), Follows(c)
  PROVE  Follows(c)'
  <1> SUFFICES ASSUME NEW u \in Uses[c], u[2] = "direct", OnChange[c] # "none"
               PROVE  FollowsFor(c, u)'
    BY DEF Follows
  <1> DEFINE s == u[1]
  <1>0. s \in Services /\ FollowsFor(c, u)
    BY ServicesAssumption DEF Follows
  <1>1. ASSUME NEW env, Old(env, u) => Coming(c, s), exports'[s]["direct"] \notin {NoPort, env[u]}
        PROVE  Coming(c, s)' \/ (start'[c] = "collect" /\ ~Alive(c)')
    <2>1. CASE start'[s] = "launch" /\ plan'[s].changed
      BY <2>1 DEF Coming
    <2>2. CASE exports'[s]["direct"] = exports[s]["direct"]
      <3>1. Coming(c, s)
        BY <1>1, <2>2 DEF Old
      <3>2. QED BY <1>1, <3>1, ComingStays
    <2>3. QED BY <1>0, <1>1, <2>1, <2>2, ExportsMove
  <1>2. ASSUME Alive(c)', Old(process[c].env, u)' PROVE Coming(c, s)'
    <2>1. exports'[s]["direct"] \notin {NoPort, process'[c].env[u]}
      BY <1>2 DEF Old
    <2>2. CASE Launch(c) /\ process'[c].env = plan[c].env
      <3>1. Old(plan[c].env, u) => Coming(c, s)
        BY <1>0, <2>2 DEF FollowsFor, Launch, Collected
      <3>2. QED BY <1>1, <1>2, <2>1, <2>2, <3>1
    <2>3. CASE Alive(c) /\ process'[c].env = process[c].env
      <3>1. Old(process[c].env, u) => Coming(c, s)
        BY <1>0, <2>3 DEF FollowsFor
      <3>2. QED BY <1>1, <1>2, <2>1, <2>3, <3>1
    <2>4. QED BY <1>2, <2>2, <2>3, GivenFrom DEF UrlInv
  <1>3. ASSUME start'[c] \in Collected, Old(plan[c].env, u)' PROVE Coming(c, s)'
    <2>1. exports'[s]["direct"] \notin {NoPort, plan'[c].env[u]}
      BY <1>3 DEF Old
    <2>2. CASE Collect(c)
      <3>1. plan[c] \in Plans
        BY DEF UrlInv, Typing
      <3>2. plan'[c].env = [v \in Uses[c] |-> exports[v[1]][v[2]]]
        BY <2>2, <3>1 DEF Collect, UrlInv, Typing, Plans
      <3>3. plan'[c].env[u] = exports'[s]["direct"]
        BY <2>2, <3>2 DEF Collect
      <3>4. QED BY <2>1, <3>3
    <2>3. CASE start[c] \in Collected /\ plan'[c].env = plan[c].env
      <3>1. Old(plan[c].env, u) => Coming(c, s)
        BY <1>0, <2>3 DEF FollowsFor
      <3>2. start'[c] # "collect"
        BY <1>3 DEF Collected
      <3>3. QED BY <1>1, <2>1, <2>3, <3>1, <3>2
    <2>4. QED BY <1>3, <2>2, <2>3, PlannedFrom DEF UrlInv
  <1>4. QED BY <1>2, <1>3 DEF FollowsFor

LEMMA InitFollows == Init => GoneInv /\ \A c \in Tasks : Follows(c)
  <1> SUFFICES ASSUME Init PROVE GoneInv /\ \A c \in Tasks : Follows(c)
    OBVIOUS
  <1>1. GoneInv
    BY ServicesAssumption DEF Init, GoneInv, GoneFor, EndsOf
  <1>2. \A c \in Tasks : ~Alive(c) /\ start[c] \notin Collected
    BY DEF Init, Alive, NoProcess, Collected
  <1>3. QED BY <1>1, <1>2 DEF Follows, FollowsFor

(* Whatever is restarted, fails or crashes, a consumer of one provider does*)
(* not run on with a port that provider has no more: it is in the queue,   *)
(* about to be replaced, or its provider is about to put it there.         *)
THEOREM ConsumerIsReplaced ==
  ASSUME ~Overtaking, NEW c \in Tasks, OfOneProvider(c)
  PROVE  Spec => []IsReplaced(c)
  <1>1. UrlInv /\ HomeInv /\ GoneInv /\ [Next]_vars => GoneInv'
    BY StepGone DEF HomeInv
  <1>2. UrlInv /\ HomeInv /\ GoneInv /\ Follows(c) /\ [Next]_vars => Follows(c)'
    BY StepFollows DEF HomeInv
  <1>3. Init => GoneInv /\ Follows(c)
    BY InitFollows
  <1>4. Follows(c) => IsReplaced(c)
    BY DEF Follows, FollowsFor, Old, Coming, IsReplaced, Outdated
  <1>5. QED BY <1>1, <1>2, <1>3, <1>4, UrlInvHolds, HomeInvHolds, PTL DEF Spec

(* With such consumers only, none of them does.                            *)
THEOREM StaleReplaced ==
  ASSUME ~Overtaking, \A c \in Tasks : OfOneProvider(c)
  PROVE  Spec => []StaleIsReplaced
  <1> DEFINE Inv == GoneInv /\ \A c \in Tasks : Follows(c)
  <1>1. UrlInv /\ HomeInv /\ Inv /\ [Next]_vars => Inv'
    BY StepGone, StepFollows DEF HomeInv
  <1>2. Inv => StaleIsReplaced
    BY DEF Follows, FollowsFor, Old, Coming, StaleIsReplaced, IsReplaced, Outdated
  <1>3. QED BY <1>1, <1>2, InitFollows, UrlInvHolds, HomeInvHolds, PTL DEF Spec
=============================================================================
