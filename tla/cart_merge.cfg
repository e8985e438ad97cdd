SPECIFICATION CartSpec
CONSTANTS
    d1 = d1
    d2 = d2
    add_one = add_one
    Dishes = {d1, d2}
    Messages = {m1, m2}
    Labels = {add_one}
    Batches <- MCBatches
    Lists <- MCLists
    MaxQty = 3
    MaxSaves = 4
    NoDish = NoDish
    NoLabel = NoLabel
    None = None
SYMMETRY Symmetry
INVARIANTS
    QuantitiesFollowDeltas
PROPERTIES
    RetryHarmless
CHECK_DEADLOCK FALSE
