\* Threads wait for locks only, so a deadlock would show as a violation of
\* OperationsFinish.
CHECK_DEADLOCK FALSE
SPECIFICATION FairSpec
CONSTANTS
  t1 = t1
  t2 = t2
  s = s
  q = q
  Threads = {t1, t2}
  Simple = {s}
  Qualified = {q}
  Requests <- MCRequests
  MaxValue <- MCMax
  Window <- MCWindow
  Deltas <- MCDeltas2
  MaxDelta = 2
  MaxNow = 2
  MaxCalls = 3
INVARIANTS BoundedOvershoot
PROPERTIES OperationsFinish
