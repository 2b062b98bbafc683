SPECIFICATION Spec
CONSTANTS
    Clients = {"a", "b"}
    Requests = {r1, r2}
    Rate = 1
    Burst = 1
    Idle = 2
    MaxPause = 1
    MaxTime = 4
SYMMETRY MCSymmetry
INVARIANT TypeOK
INVARIANT BurstBound
PROPERTY ImplementsBuckets
CHECK_DEADLOCK FALSE
