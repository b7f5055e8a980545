SPECIFICATION Spec
CONSTANTS
    s1 = s1
    Steers = {s1}
    MaxTurns = 1
    MaxSteps = 1
    MaxSteering = 1
    MaxStarts = 2
    MaxShutdowns = 0
    None = None
CHECK_DEADLOCK FALSE
INVARIANT EveryAdmissionDisposed
