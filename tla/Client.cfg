SPECIFICATION FairSpec
CONSTANTS
    Members = {m1, m2}
    ForceH2 = FALSE
    Rejects = TRUE
    Lingers = TRUE
    MaxAttempts = 2
    BaseBackoff = 1
    MaxBackoff = 2
    AttemptsCap = 2
    RetryAfters <- MCRetryAfters
INVARIANTS
    PoolStateExact
    BudgetKept
    NoLostWakeup
PROPERTIES
    BooksOnce
    PoolSettles
    StopEndsTask
    GivesUpEventually
CHECK_DEADLOCK FALSE
