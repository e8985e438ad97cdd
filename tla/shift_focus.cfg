SPECIFICATION Spec
CONSTANTS
    Items = {1, 2}
    Operators = {o1, o2}
    o1 = o1
    o2 = o2
    Requests = {r1, r2}
    r1 = r1
    r2 = r2
    Kinds = {"skip", "done"}
    MaxOpened = 3
    MaxLapses = 1
    MaxMishaps = 1
    NoItem = 0
SYMMETRY Symmetry
INVARIANTS
    CompletedOnce
    KeysAreIndexed
    SharedNeedsOverlap
CHECK_DEADLOCK FALSE
