-------------------------- MODULE MCTieredRetrieval --------------------------
(* Small instances of TieredRetrieval. *)
EXTENDS TieredRetrieval, TLC

CONSTANTS c1, c2, t1, t2, k1

Symmetry == Permutations(Chat) \cup Permutations(Token)
==============================================================================
