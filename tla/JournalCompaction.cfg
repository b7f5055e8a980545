SPECIFICATION Spec
CONSTANTS
    s1 = s1
    s2 = s2
    s3 = s3
    a = a
    b = b
    None = None
    Stores = {s1, s2, s3}
    Values = {a, b}
    MaxLines = 2
    MaxGen = 2
SYMMETRY Perms
CHECK_DEADLOCK FALSE
INVARIANTS CompactionRetains
