--------------------------- MODULE MCReviewRound ---------------------------
(***************************************************************************)
(* One file of each kind.  In the second round the one on the pattern is   *)
(* new, pending, committed by the first, or by the author in between.      *)
(***************************************************************************)
EXTENDS ReviewRound

CONSTANTS src, suite, n1, aside

MCOutside == {src}
MCSuite   == {suite}
MCNames   == {n1}
MCAsides  == {aside}
=============================================================================
