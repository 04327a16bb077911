--------------------------- MODULE MCCustomActions ---------------------------
(* CustomActions for TLC: the process of the second session lacks an action. *)
EXTENDS CustomActions, TLC

CONSTANTS e1, e2, s1, s2

MCMayAsk == e1 :> {AnySession} @@ e2 :> {s2}
MCLanes == s1 :> 2 @@ s2 :> 1
MCKnows == s1 :> {e1, e2} @@ s2 :> {e1}
=============================================================================
