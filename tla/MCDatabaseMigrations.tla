------------------------- MODULE MCDatabaseMigrations -------------------------
(* Small instances of DatabaseMigrations for TLC. *)
EXTENDS DatabaseMigrations, TLC

CONSTANTS a, b, c

Three == {a, b, c}

Symmetry == Permutations(Instances)
=============================================================================
