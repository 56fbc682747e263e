---------------------------- MODULE MCValidation ----------------------------
(* Validations and their issues on small instances; tests are interchangeable. *)
EXTENDS Validation

CONSTANTS t1, t2, t3, t4

FourTests == {t1, t2, t3, t4}
TestSymmetry == Permutations(Tests)
=============================================================================
