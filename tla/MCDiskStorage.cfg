SPECIFICATION Spec
CONSTANTS
  c1 = c1
  c2 = c2
  t1 = t1
  t2 = t2
  Threads = {t1, t2}
  Counters <- MCCounters
  Requests <- MCRequests
  MaxValue <- MCMaxValue
  Seconds <- MCSeconds
  Amounts <- MCAmounts
  MaxAmount = 1
  Second = 2
  MaxNow = 4
  MaxCalls = 3
  MaxFolds = 1
SYMMETRY MCSymmetry
INVARIANTS BoundedOvershoot  HitsKept
