SPECIFICATION Spec
CONSTANTS
    Txs = {t1, t2, t3, t4}
    Keys = {k1, k2, k3}
    Threshold = 2
    MaxMishaps = 2
    NoKey = NoKey
SYMMETRY Symmetry
INVARIANTS
    TypeOK
    CountsFollowStore
    SpikeReported
    FailureNeedsOverlap
CHECK_DEADLOCK FALSE
