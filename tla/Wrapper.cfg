SPECIFICATION FairWrapperSpec
CONSTANTS
    Callers = {k1, k2}
    BUFFER_CAPACITY = 2
    MaxFlow = 3
INVARIANTS
    OneEnd
PROPERTIES
    CloseReleases
    CancelEnds
CHECK_DEADLOCK FALSE
