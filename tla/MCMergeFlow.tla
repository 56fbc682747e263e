---------------------------- MODULE MCMergeFlow ----------------------------
(* MergeFlow on small instances. *)
EXTENDS MergeFlow

AllLayouts == {"plain", "linked", "primary"}
=============================================================================
