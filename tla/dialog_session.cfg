SPECIFICATION Spec
CONSTANTS
    Requests = {r1, r2}
    Orders = {o1, o2}
    NoOrder = NoOrder
    NoRequest = NoRequest
SYMMETRY Symmetry
INVARIANTS
    BotYieldsToOperator
PROPERTIES
    RouteFindsItsSession
CHECK_DEADLOCK FALSE
