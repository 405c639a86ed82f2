SPECIFICATION Spec
CONSTANTS
    c1 = c1
    c2 = c2
    c3 = c3
    i1 = i1
    i2 = i2
    NoConn = NoConn
    Requests = {r1}
    MaxUnauthenticated = 1
    Proto <- MCProto
    Conns = {c1, c2, c3}
    Ids = {i1, i2}
    IdOf <- MCTwoIds
    Credentials <- MCGood
INVARIANTS
    PermitsConserved
    PoolsExact
    PendingOwned
    RoutedToOwner
PROPERTY
    EntryRemovedByOwner
CHECK_DEADLOCK FALSE
