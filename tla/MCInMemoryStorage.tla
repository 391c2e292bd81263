-------------------------- MODULE MCInMemoryStorage --------------------------
(***************************************************************************)
(* One simple and one qualified counter, requests on both.                 *)
(***************************************************************************)
EXTENDS InMemoryStorage, TLC

CONSTANTS s, q

MCRequests == {{s, q}}
MCQualifiedOnly == {{q}}
MCMax == (s :> 2) @@ (q :> 2)
MCWindow == (s :> 2) @@ (q :> 1)
MCDeltas == {1}
MCDeltas2 == {1, 2}

\* Threads are interchangeable: no action compares or orders them.
Symmetry == Permutations(Threads)
=============================================================================
