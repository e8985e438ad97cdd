CONSTANTS
    Requests = {r1, r2, r3}
    Carts = {c1, c2}
    Methods = {cash}
    NoMethod = NoMethod
    FirstCart = c1
SPECIFICATION Spec
INVARIANTS
    TypeOK
    SendingHasOwner
    SentHasTicket
    ConfirmedHasEvent
    DuplicateNeedsCause
PROPERTIES
    CancelUndoneOnlyBySend
    SendingResolves
    SendsAsPromised
CHECK_DEADLOCK FALSE
