SPECIFICATION Spec
CONSTANTS
    Protos = {"quic", "h2"}
    Outcomes = {"none", "cached", "leader", "follower", "leader_valid", "follower_valid"}
INVARIANT
    RegisteredAgentHasCert
CHECK_DEADLOCK FALSE
