---------------------------- MODULE MCShardBook ----------------------------
(***************************************************************************)
(* ShardBook for TLC.                                                      *)
(***************************************************************************)
EXTENDS ShardBook, TLC

Symmetry == Permutations(Threads)
=============================================================================
