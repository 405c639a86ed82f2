SPECIFICATION PeekSpec
CONSTANTS
    PEEK_BUF_INIT = 4096
    PEEK_BUF_MAX = 16384
    PEEK_POLL_MIN = 1
    PEEK_POLL_MAX = 50
    Sizes = {517, 4096, 4097, 8192, 8193, 16384, 16385, 16389}
    Points = {1, 517, 4095, 4096, 4097, 8192, 8193, 16383, 16384, 16389}
INVARIANTS
    DecidesExactly
PROPERTIES
    NeverSleepsOnHello
CHECK_DEADLOCK FALSE
