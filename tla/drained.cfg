CONSTANTS
    Jobs = {j1, j2}
    Messages = {m1, m2}
    None = None
    MaxQueue = 2
    MaxDrain = 2
    MaxRetries = 2
    Faults = {}
SPECIFICATION Spec
INVARIANT DrainedUntilEmpty
CHECK_DEADLOCK FALSE
