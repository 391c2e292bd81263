--------------------------- MODULE MCCachedCounter ---------------------------
(***************************************************************************)
(* Finite instances of CachedCounter.                                      *)
(***************************************************************************)
EXTENDS CachedCounter, TLC

MCCells == 1..4
MCOne == {1}
Symmetry == Permutations(Threads)
=============================================================================
