--------------------------- MODULE MCDeferredChanges ---------------------------
(* Small instances of DeferredChanges for TLC. *)
EXTENDS DeferredChanges, TLC

CONSTANTS a, b

One == {a}
Two == {a, b}

\* The value before anyone changes it, and another one.
TwoValues == {0, 1}

Symmetry == Permutations(Instances)
=============================================================================
