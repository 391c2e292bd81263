------------------------- MODULE MCCrInMemoryStorage -------------------------
(***************************************************************************)
(* Three nodes, so that updates of two peers meet at the third.            *)
(***************************************************************************)
EXTENDS CrInMemoryStorage, TLC

CONSTANTS n1, n2, n3

MCNodes == {n1, n2, n3}
MCAmounts == {1}
MCSymmetry == Permutations(MCNodes)
=============================================================================
