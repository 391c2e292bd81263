SPECIFICATION Spec
CONSTANTS
  c1 = c1
  c2 = c2
  s1 = s1
  a1 = a1
  Sync = {s1}
  Async = {a1}
  Counters <- MCCounters
  Requests <- MCRequests
  MaxValue <- MCMaxValue
  Window <- MCWindow
  Amounts <- MCAmounts
  MaxAmount = 1
  Cap <- MCCap
  Ttls <- MCTtls
  MaxNow = 2
  MaxCalls = 3
  MaxFaults = 1
INVARIANTS BoundedOvershoot CountedOnce ReservedWithinLimit HoldsWithinWindow ListsAll
PROPERTIES IsFixedWindow
