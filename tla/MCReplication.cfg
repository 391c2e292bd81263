SPECIFICATION FairSpec
CONSTANTS
  n1 = n1
  n2 = n2
  Nodes <- MCNodes
  Id <- MCId
  PeerUrls <- MCPeerUrls
  Room = 2
  MaxRequests = 1
  MaxHits = 1
  MaxFaults = 1
INVARIANTS TrackedIsLive
PROPERTIES ReSyncComplete Reconnects
