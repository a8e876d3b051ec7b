---------------------------- MODULE MCPageCache ----------------------------
(***************************************************************************)
(* PageCache for TLC.                                                      *)
(***************************************************************************)
EXTENDS PageCache, TLC

CONSTANTS a, b, c

\* Two pages that fit a shard together and one that is larger than the shard.
MCPageBytes == [p \in Pages |-> IF p = c THEN 3 ELSE 1]

OneShard == [p \in Pages |-> 0]

\* The page that fits shares a shard with the one that does not.
TwoShards == [p \in Pages |-> IF p = b THEN 1 ELSE 0]

Symmetry == Permutations(Threads)
=============================================================================
