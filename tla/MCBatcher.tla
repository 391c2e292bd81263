----------------------------- MODULE MCBatcher -----------------------------
EXTENDS Batcher, TLC
CONSTANTS c1, c2, c3, a1, a2

MCCounters == {c1, c2, c3}
MCShard == c1 :> 1 @@ c2 :> 2 @@ c3 :> 1
MCAdders == {a1, a2}
=============================================================================
