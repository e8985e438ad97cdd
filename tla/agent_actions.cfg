SPECIFICATION Spec
CONSTANTS
    Senders = {"deliver", "weekly", "admin"}
    Requests = {r1, r2}
    r1 = r1
    r2 = r2
    MaxProposals = 2
    MaxMishaps = 1
    NoProposal = NoProposal
SYMMETRY Symmetry
INVARIANTS
    TypeOK
    DecidedOnce
    DuplicateNeedsOverlap
    ResentNeedsMishap
CHECK_DEADLOCK FALSE
