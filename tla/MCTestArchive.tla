--------------------------- MODULE MCTestArchive ---------------------------
(* One test file on the pattern, one helper file off it. *)
EXTENDS TestArchive

OneOfEach == {"test_a", "helper"}
OnPattern == {"test_a"}
=============================================================================
