SPECIFICATION Spec
CONSTANTS
  t1 = t1
  t2 = t2
  a = a
  b = b
  Clients = {t1, t2}
  Counters = {a, b}
  Requests <- MCRequests
  MaxValue <- MCMax
  Window <- MCWindow
  Cap <- MCCap
  MaxTtl = 2
  Ttls <- MCTtl
  Amounts <- MCAmounts
  Word = 64
  MaxNow = 2
  MaxCalls = 3
SYMMETRY Symmetry
INVARIANTS HoldsWithinLimit HoldsWithinWindow UsageUnlessStrayed
