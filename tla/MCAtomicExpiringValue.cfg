SPECIFICATION Spec
CONSTANTS
  t1 = t1
  t2 = t2
  t3 = t3
  Threads = {t1, t2, t3}
  Ttl = 2
  Deltas <- MCDeltas
  MaxNow = 5
  MaxCalls = 4
SYMMETRY Symmetry
INVARIANTS OneOpenerPerWindow NoOvercount ExactUnlessRaced
