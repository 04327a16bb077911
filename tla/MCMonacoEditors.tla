--------------------------- MODULE MCMonacoEditors ---------------------------
(* MonacoEditors for TLC: settings of one name in two clients, and another. *)
EXTENDS MonacoEditors, TLC

CONSTANTS a1, a2, b, v1, v2

MCIdOf == (a1 :> "a") @@ (a2 :> "a") @@ (b :> "b")
MCInitially == (a1 :> v1) @@ (a2 :> v2) @@ (b :> v1)
=============================================================================
