--------------------------- MODULE MCUpdateEffects ---------------------------
(* UpdateEffects for TLC. *)
EXTENDS UpdateEffects
=============================================================================
