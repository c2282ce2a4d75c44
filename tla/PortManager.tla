---------------------------- MODULE PortManager ----------------------------
(***************************************************************************)
(* The port manager (src/portmanager/manager.go): which local TCP port     *)
(* each client of asynk may use.  A client is a task, or the proxy of a    *)
(* task (runner_ports.go:17 gives the proxy a client id of its own).       *)
(*                                                                         *)
(* Every method runs under Manager.mu, so each is one action.  The only    *)
(* thing that changes without the lock is the machine: other programs, and *)
(* the processes asynk started, bind and free ports at any time.           *)
(***************************************************************************)
EXTENDS Integers, FiniteSets

CONSTANTS
  Clients,     (* task ids and proxy reservation ids                        *)
  Preferred,   (* [Clients -> Nat]: the preferred port, 0 when not set      *)
  RangeStart,  (* [Clients -> Nat]: first port of the range, 0 when not set *)
  RangeEnd,    (* [Clients -> Nat]: last port of the range                  *)
  Nobody       (* the owner of a port that is not reserved                  *)

ASSUME ConfigAssumption ==
  /\ Preferred \in [Clients -> Nat]
  /\ RangeStart \in [Clients -> Nat]
  /\ RangeEnd \in [Clients -> Nat]
  /\ Nobody \notin Clients

VARIABLES
  reservations,  (* client -> port it holds, NoPort if none     *)
  reservedBy,    (* port -> the client holding it, Nobody       *)
  lastAssigned,  (* client -> the port it was last given        *)
  bound          (* the ports TCPChecker.Available finds in use *)

portVars == <<reservations, reservedBy, lastAssigned, bound>>

(* Go's zero value of a missing map entry; no TCP port has the number 0.   *)
NoPort == 0

(* The range of the configuration, used only when Start > 0.               *)
RangePorts(c) ==
  IF RangeStart[c] > 0 THEN RangeStart[c] .. RangeEnd[c] ELSE {}

(* All ports the configuration can ask for.                                *)
Ports == UNION {RangePorts(c) \cup ({Preferred[c]} \ {NoPort}) : c \in Clients}

(***************************************************************************)
(* The ports Assign tries, in the order it tries them: the last one, the   *)
(* preferred one, then the range upwards.  Precedes is that order.         *)
(***************************************************************************)
Candidates(c) ==
  ({lastAssigned[c], Preferred[c]} \ {NoPort}) \cup RangePorts(c)

(* A mutant: the last port gets no preference.                             *)
PrecedesByPreference(c, p, q) ==
  p = Preferred[c] \/ (q # Preferred[c] /\ p <= q)

Precedes(c, p, q) ==
  \/ p = lastAssigned[c]
  \/ q # lastAssigned[c] /\ p = Preferred[c]
  \/ q # lastAssigned[c] /\ q # Preferred[c] /\ p <= q

(* A candidate is taken when the client holds it already (no probe), or    *)
(* when nobody holds it and the probe can bind it.                         *)
Usable(c, p) ==
  \/ reservedBy[p] = c
  \/ reservedBy[p] = Nobody /\ p \notin bound

(* The first usable candidate.                                             *)
FirstUsable(c, p) ==
  /\ p \in Candidates(c)
  /\ Usable(c, p)
  /\ \A q \in Candidates(c) : Usable(c, q) => Precedes(c, p, q)

-----------------------------------------------------------------------------
PortInit ==
  /\ reservations = [c \in Clients |-> NoPort]
  /\ reservedBy = [p \in Ports |-> Nobody]
  /\ lastAssigned = [c \in Clients |-> NoPort]
  /\ bound \in SUBSET Ports

(* Assign finds a port the client holds already: no probe, no new entry.   *)
Reuse(c, p) ==
  /\ FirstUsable(c, p)
  /\ reservedBy[p] = c
  /\ lastAssigned' = [lastAssigned EXCEPT ![c] = p]
  /\ UNCHANGED <<reservations, reservedBy, bound>>

(* Assign reserves a free port; a client that holds another one gives it   *)
(* up (replaceReservation).  When no candidate is usable Assign returns an *)
(* error and changes nothing.                                              *)
Reserve(c, p) ==
  /\ FirstUsable(c, p)
  /\ reservedBy[p] = Nobody
  /\ reservations' = [reservations EXCEPT ![c] = p]
  /\ reservedBy' = [q \in Ports |->
       IF q = p THEN c ELSE IF q = reservations[c] THEN Nobody ELSE reservedBy[q]]
  /\ lastAssigned' = [lastAssigned EXCEPT ![c] = p]
  /\ UNCHANGED bound

Assign(c, p) == Reuse(c, p) \/ Reserve(c, p)

(* A mutant: only one of the two maps forgets the reservation.             *)
ReleaseKeepsPort(c) ==
  /\ reservations[c] # NoPort
  /\ reservedBy' = [reservedBy EXCEPT ![reservations[c]] = Nobody]
  /\ UNCHANGED <<reservations, lastAssigned, bound>>

(* Release gives the reservation up and keeps lastAssigned.                *)
Release(c) ==
  /\ reservations[c] # NoPort
  /\ reservations' = [reservations EXCEPT ![c] = NoPort]
  /\ reservedBy' = [reservedBy EXCEPT ![reservations[c]] = Nobody]
  /\ UNCHANGED <<lastAssigned, bound>>

(* The machine: some program binds or frees a port.                        *)
BindPort(p) == p \notin bound /\ bound' = bound \cup {p}
               /\ UNCHANGED <<reservations, reservedBy, lastAssigned>>
FreePort(p) == p \in bound /\ bound' = bound \ {p}
               /\ UNCHANGED <<reservations, reservedBy, lastAssigned>>

PortNext ==
  \/ \E c \in Clients : Release(c) \/ \E p \in Ports : Assign(c, p)
  \/ \E p \in Ports : BindPort(p) \/ FreePort(p)

PortSpec == PortInit /\ [][PortNext]_portVars

-----------------------------------------------------------------------------
(* Every table holds configured ports and known clients.                   *)
PortTypeOK ==
  /\ reservations \in [Clients -> Ports \cup {NoPort}]
  /\ reservedBy \in [Ports -> Clients \cup {Nobody}]
  /\ lastAssigned \in [Clients -> Ports \cup {NoPort}]
  /\ bound \in SUBSET Ports

(***************************************************************************)
(* No two clients hold the same port: two services asynk starts are never  *)
(* told to listen on one port (manager.go keeps the two maps reservations  *)
(* and reservedBy by hand in Assign, Release and replaceReservation).      *)
(***************************************************************************)
PortsExclusive ==
  \A c, d \in Clients :
    c # d /\ reservations[c] # NoPort => reservations[c] # reservations[d]

(***************************************************************************)
(* The two maps stay inverse of each other: a port that nobody gave back   *)
(* is not forgotten, a port given back is not kept for ever.               *)
(***************************************************************************)
MapsInverse ==
  \A c \in Clients, p \in Ports : reservations[c] = p <=> reservedBy[p] = c

(***************************************************************************)
(* A client that holds a port keeps it until it releases it: Assign called *)
(* again, as happens to the proxy of a task on every restart of the task   *)
(* (runner_ports.go:127), gives the same port although the proxy's own     *)
(* listener makes it unavailable to the probe.  The URL handed to the      *)
(* consumers therefore survives restarts (README.md:214).                  *)
(***************************************************************************)
ReservationStable ==
  [][\A c \in Clients :
       reservations[c] # NoPort => reservations'[c] \in {reservations[c], NoPort}]_portVars

(***************************************************************************)
(* A client whose last port was not taken, by another client or by another *)
(* program, gets that port again when it comes back (README.md:212).       *)
(***************************************************************************)
RegainsItsPort(c) ==
  /\ reservations[c] = NoPort /\ reservations'[c] # NoPort
  /\ lastAssigned[c] # NoPort
  /\ lastAssigned[c] \notin bound
  /\ \A d \in Clients : reservations[d] # lastAssigned[c]
  => reservations'[c] = lastAssigned[c]

ComesBackToItsPort == [][\A c \in Clients : RegainsItsPort(c)]_portVars

(* What makes ReservationStable inductive: the port a client holds is the  *)
(* one Assign will try first.                                              *)
HeldIsLast ==
  \A c \in Clients : reservations[c] # NoPort => reservations[c] = lastAssigned[c]

IndInv == PortTypeOK /\ MapsInverse /\ HeldIsLast
=============================================================================
