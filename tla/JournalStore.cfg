SPECIFICATION Spec
CONSTANTS
    s1 = s1
    s2 = s2
    s3 = s3
    a = a
    b = b
    None = None
    Stores = {s1, s2, s3}
    Values = {a, b}
    MaxLines = 3
    MaxGen = 3
SYMMETRY Perms
CONSTRAINT Unhurt
CHECK_DEADLOCK FALSE
INVARIANTS TypeOK AckedRecovered ChainIsLog
PROPERTIES Implements
