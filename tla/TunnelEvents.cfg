SPECIFICATION FairSpec
CONSTANTS
    Conns = {c1, c2}
    MaxEvents = 3
INVARIANTS
    FailedMeansAllGaveUp
PROPERTIES
    ImplementsStream
    StreamEnds
CHECK_DEADLOCK FALSE
