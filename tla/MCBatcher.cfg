SPECIFICATION FairSpec
CONSTANTS
  c1 = c1
  c2 = c2
  c3 = c3
  a1 = a1
  a2 = a2
  Counters <- MCCounters
  Shard <- MCShard
  Adders <- MCAdders
  Permits = 2
  BatchSize = 2
  MaxAdds = 3
  MaxFaults = 1
INVARIANTS PermitPerEntry PriorityWakes
PROPERTY FlushedUnlessFull
CHECK_DEADLOCK FALSE
