SPECIFICATION FairSpec
CONSTANTS
    Pipes = {p}
    Bodies = {b}
    STREAM_WINDOW = 2
    CONN_WINDOW = 2
    MAX_BODY = 1
    PipeBytes = 3
    BodyBytes = 2
    WriteMax = 3
    ReadMax = 2
INVARIANTS
    DeliversExactly
    WindowConserved
PROPERTIES
    WriteCompletes
CHECK_DEADLOCK FALSE
