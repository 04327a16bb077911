---------------------------- MODULE MCSettingsSync ----------------------------
(* Small instances of SettingsSync for TLC. *)
EXTENDS SettingsSync, TLC

CONSTANTS r1, l1, l2

OneRun == {r1}
OneLane == {l1}
TwoLanes == {l1, l2}

None == {}
Forbid == {FALSE}
Scheduler == {"scheduler"}
Cleanup == {"cleanup"}

Symmetry == Permutations(TwoLanes)
=============================================================================
