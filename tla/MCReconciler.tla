---------------------------- MODULE MCReconciler ----------------------------
(* Small instance of Reconciler: two status values, patched as a whole. *)
EXTENDS Reconciler

MCStatus == {"s0", "s1"}
MCMergePatch(stored, before, after) == IF after = before THEN stored ELSE after
=============================================================================
