---------------------------- MODULE MCCommandRun ----------------------------
(* Two steps of a build, then a server with a child; every process may     *)
(* ignore SIGTERM.                                                         *)
EXTENDS CommandRun

MCIgnores == Processes
=============================================================================
