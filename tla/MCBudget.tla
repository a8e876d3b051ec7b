------------------------------ MODULE MCBudget ------------------------------
(***************************************************************************)
(* Budget for TLC: every request from zero to past the limit, with a word  *)
(* so small that the sum of the limit and a request can wrap.              *)
(***************************************************************************)
EXTENDS Budget, TLC

Symmetry == Permutations(Threads) \cup Permutations(Charges)
=============================================================================
