SPECIFICATION Spec
CONSTANTS
    s1 = s1 s2 = s2
    Steers = {s1, s2}
    MaxTurns = 2
    MaxSteps = 1
    MaxSteering = 2
    MaxStarts = 2
    MaxShutdowns = 0
    None = None
CHECK_DEADLOCK FALSE
SYMMETRY SteerSymmetry
INVARIANTS TypeOK DisposedOnce NoCrossTurnAuthority TerminalOnce
    IdleIsCommitted DirectionServed CheckpointHonoured
