SPECIFICATION FairSpec
CONSTANTS
  t1 = t1
  t2 = t2
  Threads = {t1, t2}
  Flusher = F
  None = None
  Cells <- MCCells
  Deltas <- MCOne
  MaxValue = 2
  Window = 2
  MaxNow = 2
  MaxCalls = 3
  MaxFaults = 2
INVARIANTS FlusherNeverPanics Accounted
PROPERTIES EventuallyInRedis
