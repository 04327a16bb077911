---------------------------- MODULE MCRunSessions ----------------------------
(* RunSessions for TLC. *)
EXTENDS RunSessions
=============================================================================
