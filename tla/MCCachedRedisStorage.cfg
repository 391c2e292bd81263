SPECIFICATION Spec
CONSTANTS
    i1 = i1
    i2 = i2
    t1 = t1
    t2 = t2
    t3 = t3
    c1 = c1
    c2 = c2
    Instances = {i1, i2}
    Tasks = {t1, t2, t3}
    At <- MCAt
    Counters = {c1, c2}
    Requests <- MCRequests
    MaxValue = 1
    Deltas = {1}
    MaxCalls = 3
    MaxFaults = 1
SYMMETRY Alike
INVARIANTS
    BoundedOvershoot
    
    CountedOnce
    CorrectedByFlush
    PartitionHonest
