SPECIFICATION FairProvSpec
CONSTANTS
    Callers = {k1, k2, k3}
    MaxOrders = 2
    NoOrder = NoOrder
INVARIANTS
    NobodyStranded
PROPERTIES
    PrepareReturns
    FollowersLearn
CHECK_DEADLOCK FALSE
