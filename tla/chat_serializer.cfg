CONSTANTS
    Jobs = {j1, j2, j3}
    Messages = {m1, m2}
    None = None
    MaxQueue = 1
    MaxDrain = 1
    MaxRetries = 2
    Faults = {"crash", "lease", "ttl", "redis", "db", "late"}
SPECIFICATION Spec
INVARIANTS
    HolderHasLock
    NothingLostSilently
    OneCopy
PROPERTIES
    KeepsCustody
SYMMETRY Symmetry
CHECK_DEADLOCK FALSE
