SPECIFICATION FairSpec
CONSTANTS
    p1 = p1 p2 = p2 p3 = p3
    Procs = {p1, p2, p3}
    MaxAttempts = 3
    None = None
CHECK_DEADLOCK FALSE
INVARIANT ExclusiveUnlessMoved
PROPERTIES ReleaseRemovesOwn SoleContenderAcquires
