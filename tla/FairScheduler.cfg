SPECIFICATION FairSpec
CONSTANTS
    r1 = r1 r2 = r2 r3 = r3
    a = a b = b s1 = s1 s2 = s2
    Req = {r1, r2, r3}
    Owners = {a, b}
    Signals = {s1, s2}
    OwnerOf <- MCOwnerOf
    SignalOf <- MCSignalOf
    NoOwner = NoOwner
    MaxConcurrency = 2
    QueueBounds = {1, 2}
INVARIANTS TypeOK SlotsAccounted LimitCurrent WorkConserving AbortDrained
PROPERTIES GrantWithinEveryLimit HeadPassedOverOnce NoStarvation
