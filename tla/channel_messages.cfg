SPECIFICATION MessageSpec
CONSTANTS
    Workers = {w1, w2}
    MaxAttempts = 2
    MaxMishaps = 1
    CallFaults = {"call", "slow"}
INVARIANTS
    SentMeansAccepted
    DuplicateNeedsCause
PROPERTIES
    Settles
CHECK_DEADLOCK FALSE
