SPECIFICATION FairSpec
CONSTANTS
    s1 = s1 s2 = s2
    Steers = {s1, s2}
    MaxTurns = 1
    MaxSteps = 2
    MaxSteering = 1
    MaxStarts = 1
    MaxShutdowns = 1
    None = None
CHECK_DEADLOCK FALSE
INVARIANTS SteeringBounded ShutdownCommits
PROPERTIES CancelEnds ParkedResumes SteerAnswered
