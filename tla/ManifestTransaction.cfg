SPECIFICATION Spec
CONSTANTS
    Ops = {o1, o2}
    Docs = {d1, d2}
    Absent = Absent
    None = None
    Window = 1
    MaxEdits = 2
    MaxCrashes = 2
SYMMETRY Perms
INVARIANT AnswersHonest
PROPERTIES PublishesExpected
