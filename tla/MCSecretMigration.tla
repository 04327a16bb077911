-------------------------- MODULE MCSecretMigration --------------------------
(* SecretMigration for TLC. *)
EXTENDS SecretMigration
=============================================================================
