----------------------------- MODULE MCOperator -----------------------------
(* Small instances of Operator. *)
EXTENDS Operator

TwoResources == {1, 2}
TwoWorkRequests == 1 .. 2
ThreeWorkRequests == 1 .. 3
AllPhases == {"create", "update", "delete"}
=============================================================================
