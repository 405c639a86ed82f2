---------------------------- MODULE CtrlExchange ----------------------------
(***************************************************************************)
(* The control exchange of one connection, both ends: the client's session  *)
(* (quic_loop_inner, or h2_ctrl_exchange inside a pool member's attempt)    *)
(* and the relay's handler, over a channel that may fail, with the CA's     *)
(* validation of a challenge routed through the relay.  On QUIC the client  *)
(* writes and the relay answers; on H2 the relay sends requests and the     *)
(* client responds.                                                         *)
(***************************************************************************)
EXTENDS Naturals, Sequences

CONSTANTS
    Protos,    \* the transports to consider, among "quic" and "h2"
    Outcomes   \* what prepare() may return, a subset of AllOutcomes

\* none: no provisioner; cached; leader and follower of an order with a
\* challenge; leader_valid and follower_valid of an order whose authorizations
\* the CA already considers valid, so that there is no challenge.
AllOutcomes ==
    {"none", "cached", "leader", "follower", "leader_valid", "follower_valid"}

ASSUME ExchangeAssumption ==
    /\ Protos \subseteq {"quic", "h2"}
    /\ Outcomes \subseteq AllOutcomes

VARIABLES
    proto,    \* the transport of the connection
    client,   \* the client session
    outcome,  \* what prepare() returned to it
    hasCert,  \* whether it holds the certificate it will terminate TLS with
    relay,    \* the relay's handler
    pending,  \* whether the relay lists the connection for challenges
    toRelay,  \* messages to the relay
    toClient, \* messages to the client
    order,    \* the order as the CA sees it, when this client leads it
    linkUp    \* whether the connection is alive

vars == <<proto, client, outcome, hasCert, relay, pending, toRelay, toClient, order, linkUp>>

Leaders == {"leader", "leader_valid"}
\* The key_auth frame is the order's key_authorization: empty without a challenge.
KeyAuthFrame(o) == IF o \in {"leader", "follower"} THEN "key_auth" ELSE "empty"

ClientStates == {"start", "prepare", "wait_ack", "challenge", "done_held",
                 "wait_finish", "established", "failed"}
RelayStates == {"identity", "key_auth", "wait_done", "finish", "register",
                "registered", "ended"}

Init ==
    /\ proto \in Protos
    /\ client = "start"
    /\ outcome = "none"
    /\ hasCert = FALSE
    /\ relay = "identity"
    /\ pending = FALSE
    /\ toRelay = <<>>
    /\ toClient = IF proto = "h2" THEN <<"get_identity">> ELSE <<>>
    /\ order = "none"
    /\ linkUp = TRUE

Receives(q, m) == q # <<>> /\ Head(q) = m

-----------------------------------------------------------------------------
(* The client.                                                             *)

\* Domain and signature: written at once on QUIC, asked for on H2, where
\* prepare() starts only once the relay asks for key_auth.
SendIdentity ==
    /\ client = "start"
    /\ linkUp
    /\ \/ /\ proto = "quic"
          /\ toRelay' = Append(toRelay, "identity")
          /\ client' = "prepare"
          /\ UNCHANGED toClient
       \/ /\ proto = "h2" /\ Receives(toClient, "get_identity")
          /\ toRelay' = Append(toRelay, "identity")
          /\ toClient' = Tail(toClient)
          /\ UNCHANGED client
       \/ /\ proto = "h2" /\ Receives(toClient, "get_key_auth")
          /\ client' = "prepare"
          /\ toClient' = Tail(toClient)
          /\ UNCHANGED toRelay
    /\ UNCHANGED <<proto, outcome, hasCert, relay, pending, order, linkUp>>

\* Mutant: the challenge is declared ready along with the key_auth frame.
SendKeyAuthAndReady ==
    /\ client = "prepare"
    /\ linkUp
    /\ \E o \in Outcomes :
        /\ outcome' = o
        /\ toRelay' = Append(toRelay, KeyAuthFrame(o))
        /\ hasCert' = (o \in {"none", "cached"})
        /\ client' = IF o \in {"none", "cached"} THEN "wait_finish" ELSE "wait_ack"
        /\ order' = IF o \in Leaders THEN "ready" ELSE order
    /\ UNCHANGED <<proto, relay, pending, toClient, linkUp>>

\* prepare() returned; the key_auth frame goes out.  On H2 a leader starts
\* finalize, and so set_ready, without waiting for anything from the relay,
\* and a session without a challenge is up as soon as it has answered.
SendKeyAuth ==
    /\ client = "prepare"
    /\ linkUp
    /\ \E o \in Outcomes :
        /\ outcome' = o
        /\ toRelay' = Append(toRelay, KeyAuthFrame(o))
        /\ hasCert' = (o \in {"none", "cached"})
        /\ client' = CASE o \in {"none", "cached"} ->
                              IF proto = "quic" THEN "wait_finish" ELSE "established"
                       [] OTHER -> IF proto = "quic" THEN "wait_ack" ELSE "challenge"
        /\ order' = IF proto = "h2" /\ o \in Leaders
                    THEN (IF o = "leader" THEN "ready" ELSE "valid")
                    ELSE order
    /\ UNCHANGED <<proto, relay, pending, toClient, linkUp>>

\* QUIC: the relay's ack; any other end of the read fails the session.
ReadAck ==
    /\ proto = "quic"
    /\ client = "wait_ack"
    /\ toClient # <<>>
    /\ toClient' = Tail(toClient)
    /\ \/ /\ Head(toClient) = "ack"
          /\ client' = "challenge"
          /\ order' = CASE outcome = "leader" -> "ready"
                        [] outcome = "leader_valid" -> "valid"
                        [] OTHER -> order
       \/ /\ Head(toClient) # "ack"
          /\ client' = "failed"
          /\ UNCHANGED order
    /\ UNCHANGED <<proto, outcome, hasCert, relay, pending, toRelay, linkUp>>

\* H2: the exchange loop accepts /_ctrl/done, and bails on a path it does not know.
AcceptDone ==
    /\ proto = "h2"
    /\ client = "challenge"
    /\ toClient # <<>>
    /\ toClient' = Tail(toClient)
    /\ client' = IF Head(toClient) = "get_done" THEN "done_held" ELSE "failed"
    /\ UNCHANGED <<proto, outcome, hasCert, relay, pending, toRelay, order, linkUp>>

\* finalize() returned, or the leader broadcast the certificate: report done.
\* On H2 it is the answer to /_ctrl/done, and the member is up once it is given.
CertIssued ==
    /\ client = IF proto = "quic" THEN "challenge" ELSE "done_held"
    /\ linkUp
    /\ outcome \in Leaders => order = "valid"
    /\ hasCert' = TRUE
    /\ toRelay' = Append(toRelay, "done")
    /\ client' = IF proto = "quic" THEN "wait_finish" ELSE "established"
    /\ UNCHANGED <<proto, outcome, relay, pending, toClient, order, linkUp>>

\* QUIC: read_to_end() returns once the relay finishes the control stream.
ReadFinish ==
    /\ client = "wait_finish"
    /\ Receives(toClient, "fin")
    /\ toClient' = Tail(toClient)
    /\ client' = "established"
    /\ UNCHANGED <<proto, outcome, hasCert, relay, pending, toRelay, order, linkUp>>

\* prepare() or finalize() errs, QUIC_ACCEPT_TIMEOUT passes, or the connection is
\* gone from under a read, a write or an accept.  The H2 loop looks at the
\* result of finalize only once it was asked for done.
ClientFails ==
    /\ client \in ClientStates \ {"established", "failed"}
    /\ \/ ~linkUp
       \/ client \in {"prepare", "done_held", "wait_finish"}
       \/ client = "challenge" /\ proto = "quic"
    /\ client' = "failed"
    /\ UNCHANGED <<proto, outcome, hasCert, relay, pending, toRelay, toClient, order, linkUp>>

\* An established session accepts the streams the relay opens on it.
AcceptTunnel ==
    /\ client = "established"
    /\ Receives(toClient, "tunnel")
    /\ toClient' = Tail(toClient)
    /\ UNCHANGED <<proto, client, outcome, hasCert, relay, pending, toRelay, order, linkUp>>

\* A failed session drops its connection.
ClientCloses ==
    /\ client = "failed"
    /\ linkUp
    /\ linkUp' = FALSE
    /\ UNCHANGED <<proto, client, outcome, hasCert, relay, pending, toRelay, toClient, order>>

-----------------------------------------------------------------------------
(* The relay.                                                              *)

\* The identity arrived and was accepted.
AuthExchange ==
    /\ relay = "identity"
    /\ Receives(toRelay, "identity")
    /\ toRelay' = Tail(toRelay)
    /\ relay' = "key_auth"
    /\ toClient' = IF proto = "h2" THEN Append(toClient, "get_key_auth") ELSE toClient
    /\ UNCHANGED <<proto, client, outcome, hasCert, pending, order, linkUp>>

\* Where an accepted agent's handler goes on: QUIC still has a stream to finish.
Accepted == IF proto = "quic" THEN "finish" ELSE "register"

\* Mutant: any key_auth frame is accepted at once.
ReadKeyAuthNoWait ==
    /\ relay = "key_auth"
    /\ Receives(toRelay, "empty") \/ Receives(toRelay, "key_auth")
    /\ relay' = Accepted
    /\ toRelay' = Tail(toRelay)
    /\ UNCHANGED <<proto, client, outcome, hasCert, pending, toClient, order, linkUp>>

\* Empty: accepted; otherwise list the connection, then ack or ask for done.
ReadKeyAuth ==
    /\ relay = "key_auth"
    /\ \/ /\ Receives(toRelay, "empty")
          /\ relay' = Accepted
          /\ UNCHANGED <<pending, toClient>>
       \/ /\ Receives(toRelay, "key_auth")
          /\ relay' = "wait_done"
          /\ pending' = TRUE
          /\ toClient' = Append(toClient, IF proto = "quic" THEN "ack" ELSE "get_done")
    /\ toRelay' = Tail(toRelay)
    /\ UNCHANGED <<proto, client, outcome, hasCert, order, linkUp>>

\* Mutant: only done ends the wait.
AcmeWaitForDone ==
    /\ relay = "wait_done"
    /\ Receives(toRelay, "done")
    /\ toRelay' = Tail(toRelay)
    /\ pending' = FALSE
    /\ relay' = Accepted
    /\ UNCHANGED <<proto, client, outcome, hasCert, toClient, order, linkUp>>

\* Done was reported, or the connection failed: both leave the wait alike.
AcmeWaitEnds ==
    /\ relay = "wait_done"
    /\ \/ Receives(toRelay, "done") /\ toRelay' = Tail(toRelay)
       \/ ~linkUp /\ UNCHANGED toRelay
    /\ pending' = FALSE
    /\ relay' = Accepted
    /\ UNCHANGED <<proto, client, outcome, hasCert, toClient, order, linkUp>>

\* QUIC: dropping the control stream's halves finishes it.
FinishCtrl ==
    /\ relay = "finish"
    /\ toClient' = Append(toClient, "fin")
    /\ relay' = "register"
    /\ UNCHANGED <<proto, client, outcome, hasCert, pending, toRelay, order, linkUp>>

\* Mutant: the handler returns without registering.
RegisterForgotten ==
    /\ relay = "register"
    /\ relay' = "ended"
    /\ UNCHANGED <<proto, client, outcome, hasCert, pending, toRelay, toClient, order, linkUp>>

Register ==
    /\ relay = "register"
    /\ relay' = "registered"
    /\ UNCHANGED <<proto, client, outcome, hasCert, pending, toRelay, toClient, order, linkUp>>

\* A registered agent is handed a public request.
OpenTunnel ==
    /\ relay = "registered"
    /\ linkUp
    /\ "tunnel" \notin {toClient[n] : n \in 1..Len(toClient)}
    /\ toClient' = Append(toClient, "tunnel")
    /\ UNCHANGED <<proto, client, outcome, hasCert, relay, pending, toRelay, order, linkUp>>

\* A rejection, a failed lookup, or one of the relay's deadlines.
RelayFails ==
    /\ relay \in {"identity", "key_auth"}
    /\ relay' = "ended"
    /\ linkUp' = FALSE
    /\ UNCHANGED <<proto, client, outcome, hasCert, pending, toRelay, toClient, order>>

\* The cleanup task unregisters the agent once the connection is gone.
Unregister ==
    /\ relay = "registered"
    /\ ~linkUp
    /\ relay' = "ended"
    /\ UNCHANGED <<proto, client, outcome, hasCert, pending, toRelay, toClient, order, linkUp>>

-----------------------------------------------------------------------------
(* The CA and the network.                                                 *)

\* The CA probes the domain: valid if the relay lists a connection and the
\* client behind it is serving challenge streams, invalid if not.
CaValidates ==
    /\ order = "ready"
    /\ order' = IF pending /\ linkUp /\ client \in {"challenge", "done_held"}
                THEN "valid" ELSE "invalid"
    /\ UNCHANGED <<proto, client, outcome, hasCert, relay, pending, toRelay, toClient, linkUp>>

LinkLost ==
    /\ linkUp
    /\ linkUp' = FALSE
    /\ UNCHANGED <<proto, client, outcome, hasCert, relay, pending, toRelay, toClient, order>>

-----------------------------------------------------------------------------

ClientStep ==
    \/ SendIdentity \/ SendKeyAuth \/ ReadAck \/ AcceptDone \/ CertIssued
    \/ ReadFinish \/ ClientFails \/ AcceptTunnel \/ ClientCloses

RelayStep ==
    \/ AuthExchange \/ ReadKeyAuth \/ AcmeWaitEnds \/ FinishCtrl \/ Register
    \/ OpenTunnel \/ RelayFails \/ Unregister

Next == ClientStep \/ RelayStep \/ CaValidates \/ LinkLost

Spec == Init /\ [][Next]_vars

\* Tasks that can run do, prepare() and finalize() return, the relay's deadlines
\* fire and the CA validates.  The network is never assumed to fail, nor a user
\* to connect.
Fairness ==
    /\ WF_vars(SendIdentity)
    /\ WF_vars(SendKeyAuth \/ ReadAck \/ AcceptDone \/ CertIssued \/ ReadFinish \/ ClientFails)
    /\ WF_vars(ClientCloses)
    /\ WF_vars(AuthExchange \/ ReadKeyAuth \/ AcmeWaitEnds \/ FinishCtrl \/ Register)
    /\ WF_vars(RelayFails)
    /\ WF_vars(Unregister)
    /\ WF_vars(CaValidates)

FairSpec == Spec /\ Fairness

-----------------------------------------------------------------------------
(* Properties.                                                             *)

Messages == {"identity", "key_auth", "empty", "done", "get_identity", "get_key_auth",
             "get_done", "ack", "fin", "tunnel"}

TypeOK ==
    /\ proto \in Protos
    /\ client \in ClientStates
    /\ outcome \in AllOutcomes
    /\ hasCert \in BOOLEAN /\ pending \in BOOLEAN /\ linkUp \in BOOLEAN
    /\ relay \in RelayStates
    /\ toRelay \in Seq(Messages) /\ toClient \in Seq(Messages)
    /\ order \in {"none", "ready", "valid", "invalid"}

\* The relay routes users only to an agent that holds its certificate: an empty
\* key_auth frame means that the certificate is cached.
RegisteredAgentHasCert ==
    relay = "registered" /\ linkUp => hasCert \/ client = "failed"

\* Over QUIC the CA is told to validate only when its probe can be routed to the
\* client: the leader waits for the ack, which the relay sends once it lists it.
AckedBeforeReady == proto = "quic" /\ order = "ready" /\ linkUp => pending

\* The exchange comes to an end, whichever end fails and wherever: the client is
\* established, or it failed and the relay keeps nothing of it.
ExchangeDecided ==
    client # "established" ~>
        client = "established" \/ (client = "failed" /\ relay = "ended")

\* An agent that is up and whose connection stays up is eventually registered.
EstablishedIsRegistered ==
    client = "established" ~> relay = "registered" \/ ~linkUp

==============================================================================
