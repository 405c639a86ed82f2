SPECIFICATION FairSpec
CONSTANTS
    Protos = {"quic", "h2"}
    Outcomes = {"none", "cached", "leader", "follower"}
INVARIANTS
    RegisteredAgentHasCert
    AckedBeforeReady
PROPERTIES
    ExchangeDecided
    EstablishedIsRegistered
CHECK_DEADLOCK FALSE
