---------------------------- MODULE MCWorktrees ----------------------------
(***************************************************************************)
(* Three worktrees, which are alike, and two ports, of which there are no  *)
(* end in the code: the third has to take one that was given back.         *)
(***************************************************************************)
EXTENDS Worktrees, TLC

Symmetry == Permutations(Trees)
=============================================================================
