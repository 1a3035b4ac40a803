----------------------------- MODULE MCRequests -----------------------------
(***************************************************************************)
(* Two requests at a time, which are alike.                                *)
(***************************************************************************)
EXTENDS Requests, TLC

Symmetry == Permutations(Slots)
=============================================================================
