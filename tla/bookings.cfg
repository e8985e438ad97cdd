SPECIFICATION Spec
CONSTANTS
    Guests = {g1, g2}
    Buyers = {g1}
    Staff = {s1}
    Bookings = {b1, b2}
    None = None
    MaxOutside = 1
SYMMETRY Symmetry
INVARIANTS
    TypeOK
    SharedNeedsCause
    OrderHasBooking
    DraftHasDecider
PROPERTIES
    ConfirmedStays
CHECK_DEADLOCK FALSE
