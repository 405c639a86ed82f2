------------------------------- MODULE MCRelay -------------------------------
(* Instances of Relay for TLC: connections of both transports that share a   *)
(* client id, as an agent's H2 pool or a reconnect does.                     *)
EXTENDS Relay

CONSTANTS c1, c2, c3, i1, i2

MCProto == [c \in Conns |-> IF c = c2 THEN "h2" ELSE "quic"]
MCIdOf == [c \in Conns |-> i1]

\* c3 belongs to another agent.
MCTwoIds == [c \in Conns |-> IF c = c3 THEN i2 ELSE i1]

Good == [handler |-> "allow", binds |-> TRUE, suffix |-> TRUE, txt |-> FALSE]

\* One credential for each way the exchange can go.
MCAllCredentials ==
    {Good,
     [Good EXCEPT !.handler = "deny"],
     [Good EXCEPT !.binds = FALSE],
     [Good EXCEPT !.suffix = FALSE],
     [Good EXCEPT !.handler = "source"],
     [Good EXCEPT !.handler = "source", !.txt = TRUE]}

MCGood == {Good}

==============================================================================
