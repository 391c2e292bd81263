------------------------ MODULE MCAtomicExpiringValue ------------------------
(***************************************************************************)
(* Three threads, windows of two ticks, enough ticks for a thread to stall *)
(* across a whole window while the others open the next two.               *)
(***************************************************************************)
EXTENDS AtomicExpiringValue, TLC

MCDeltas == {0, 2}

\* Threads are interchangeable: no action compares or orders them.
Symmetry == Permutations(Threads)
=============================================================================
