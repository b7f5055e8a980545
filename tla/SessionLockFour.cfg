SPECIFICATION Spec
CONSTANTS
    p1 = p1 p2 = p2 p3 = p3 p4 = p4
    Procs = {p1, p2, p3, p4}
    MaxAttempts = 3
    None = None
SYMMETRY ProcSymmetry
CHECK_DEADLOCK FALSE
INVARIANT OneLiveWriter
