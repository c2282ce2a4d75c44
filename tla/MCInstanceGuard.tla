-------------------------- MODULE MCInstanceGuard --------------------------
(* InstanceGuard with a few processes.                                     *)
EXTENDS InstanceGuard

CONSTANTS p1, p2, p3
=============================================================================
