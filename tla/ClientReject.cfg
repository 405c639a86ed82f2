SPECIFICATION Spec
CONSTANTS
    Members = {m1, m2}
    ForceH2 = TRUE
    Rejects = TRUE
    Lingers = FALSE
    MaxAttempts = 2
    BaseBackoff = 1
    MaxBackoff = 2
    AttemptsCap = 2
    RetryAfters <- MCRetryAfters
INVARIANT
    FailureAfterLost
CHECK_DEADLOCK FALSE
