---------------------------- MODULE MCDiskStorage ----------------------------
(***************************************************************************)
(* Two threads over the counters of two limits with windows of one and of  *)
(* two seconds, with two instants to a second.                             *)
(***************************************************************************)
EXTENDS DiskStorage

CONSTANTS c1, c2, t1, t2

MCCounters == {c1, c2}
MCRequests == {{c1, c2}}
MCMaxValue == (c1 :> 1) @@ (c2 :> 1)
MCSeconds == (c1 :> 2) @@ (c2 :> 1)
MCAmounts == {1}
MCSymmetry == Permutations({t1, t2})
=============================================================================
