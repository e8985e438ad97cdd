CONSTANTS
    Requests = {r1, r2, r3}
    Payments = {p1, p2}
    MaxTx = 4
SPECIFICATION Spec
INVARIANTS
    TypeOK
    BookedOnce
    PaidIsTold
PROPERTIES
    BookingStays
    PaidTakenBackByHand
SYMMETRY Symmetry
CHECK_DEADLOCK FALSE
