SPECIFICATION FairSpec
CONSTANTS
    p1 = p1
    p2 = p2
    Pids = {p1, p2}
    MaxGen = 2
INVARIANTS
    TypeOK
    SeenIsLive
    ReportedOnce
    BaselineSilent
    PolledIsInspected
PROPERTIES
    EventuallyInspected
CHECK_DEADLOCK FALSE
