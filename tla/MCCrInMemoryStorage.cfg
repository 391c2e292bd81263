SPECIFICATION Spec
CONSTANTS
  n1 = n1
  n2 = n2
  n3 = n3
  Nodes <- MCNodes
  Amounts <- MCAmounts
  MaxValue = 2
  Seconds = 1
  Second = 2
  MaxNow = 3
  MaxCalls = 2
  MaxFaults = 1
SYMMETRY MCSymmetry
INVARIANTS OwnHitsCounted Converged
PROPERTIES WindowNeverExtended
