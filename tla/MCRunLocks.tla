----------------------------- MODULE MCRunLocks -----------------------------
(* RunLocks on small instances.  Process ids are interchangeable, and so are branches. *)
EXTENDS RunLocks, TLC

CONSTANTS p1, p2, p3, p4, a, b

FourPids == {p1, p2, p3, p4}
TwoBranches == {a, b}
FullSymmetry == Permutations(Pids) \cup Permutations(Branches)
=============================================================================
