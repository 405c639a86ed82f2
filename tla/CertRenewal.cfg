SPECIFICATION FairSpec
CONSTANTS
    Handshakes = {h1, h2}
    MaxRenewals = 2
    MaxDiskErrors = 1
INVARIANTS
    OneRenewal
    ChallengeServed
PROPERTIES
    CacheNeverGoesBack
    HandshakeEnds
    DueIsTried
CHECK_DEADLOCK FALSE
