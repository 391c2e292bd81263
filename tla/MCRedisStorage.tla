--------------------------- MODULE MCRedisStorage ---------------------------
(***************************************************************************)
(* Two instances, one of each storage, over two counters with windows of   *)
(* different length.                                                       *)
(***************************************************************************)
EXTENDS RedisStorage, TLC

CONSTANTS c1, c2, s1, a1

MCCounters == {c1, c2}
MCRequests == {{c1}, {c1, c2}}
MCMaxValue == (c1 :> 2) @@ (c2 :> 1)
MCWindow == (c1 :> 3) @@ (c2 :> 1)
MCCap == (c1 :> 2) @@ (c2 :> 1)
MCAmounts == {1}
MCTtls == {2}
=============================================================================
