--------------------------- MODULE MCReplication ---------------------------
EXTENDS Replication, TLC
CONSTANTS n1, n2

MCNodes == {n1, n2}
MCId == n1 :> 1 @@ n2 :> 2
MCPeerUrls == {<<n1, n2>>, <<n2, n1>>}
=============================================================================
