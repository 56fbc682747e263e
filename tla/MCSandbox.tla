----------------------------- MODULE MCSandbox -----------------------------
(***************************************************************************)
(* Two sessions of one label with two steps each.  Two sessions are what   *)
(* it takes for an earlier one to leave results, directories or a script   *)
(* to the next; two steps, for one to be missing after one that was ok.    *)
(***************************************************************************)
EXTENDS Sandbox
=============================================================================
