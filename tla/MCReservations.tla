---------------------------- MODULE MCReservations ----------------------------
(***************************************************************************)
(* Two counters with windows of different lengths; reservations on both,   *)
(* or on the first alone.                                                  *)
(***************************************************************************)
EXTENDS Reservations, TLC

CONSTANTS a, b

MCRequests == {{a, b}}
MCOneCounter == {{a}}
MCMax == (a :> 2) @@ (b :> 1)
MCCap == (a :> 2) @@ (b :> 1)
MCWindow == (a :> 2) @@ (b :> 1)
MCTtl == {3}
MCAmounts == {0, 1}
MCAnyAmounts == {0, 1, 2}
MCHugeAmounts == {1, 7}

\* Clients are interchangeable: no action compares or orders them.
Symmetry == Permutations(Clients)
=============================================================================
