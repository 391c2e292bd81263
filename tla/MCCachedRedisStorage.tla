------------------------ MODULE MCCachedRedisStorage ------------------------
(* Two tasks of one instance, which are alike, and one of another.         *)
EXTENDS CachedRedisStorage, TLC
CONSTANTS i1, i2, t1, t2, t3, c1, c2
MCAt == (t1 :> i1) @@ (t2 :> i1) @@ (t3 :> i2)
MCRequests == {{c1}, {c1, c2}}
Alike == Permutations({t1, t2})
=============================================================================
