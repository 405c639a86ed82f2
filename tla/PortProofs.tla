----------------------------- MODULE PortProofs -----------------------------
(***************************************************************************)
(* Proofs about what happens on the relay's two ports before a connection    *)
(* is served: CtrlExchange on the control port, for either transport and     *)
(* whatever prepare() may return, and PublicPeek on the public one, for      *)
(* buffers, records and segments of any size.                                *)
(***************************************************************************)
EXTENDS CtrlExchange, PublicPeek, TLAPS

-----------------------------------------------------------------------------
(* The channels.                                                           *)

\* A message is somewhere in a channel.
Holds(q, m) == \E n \in 1..Len(q) : q[n] = m

\* What a channel holds after a send.
LEMMA HoldsSent ==
    ASSUME NEW q \in Seq(Messages), NEW x \in Messages
    PROVE  /\ Append(q, x) \in Seq(Messages)
           /\ \A m : Holds(Append(q, x), m) <=> Holds(q, m) \/ m = x
  <1>1. /\ Append(q, x) \in Seq(Messages)
        /\ Len(Append(q, x)) = Len(q) + 1 /\ Len(q) \in Nat
        /\ Append(q, x)[Len(q) + 1] = x
        /\ \A n \in 1..Len(q) : Append(q, x)[n] = q[n]
    OBVIOUS
  <1> QED BY <1>1 DEF Holds

\* What a channel holds before its head is taken, and what is left of it.
LEMMA HoldsTaken ==
    ASSUME NEW q \in Seq(Messages), q # <<>>
    PROVE  /\ Tail(q) \in Seq(Messages)
           /\ Holds(q, Head(q)) /\ Head(q) = q[1]
           /\ \A m : Holds(Tail(q), m) => \E n \in 2..Len(q) : q[n] = m
           /\ \A m : Holds(Tail(q), m) => Holds(q, m)
  <1>1. /\ Tail(q) \in Seq(Messages) /\ Len(q) \in Nat /\ Len(q) > 0
        /\ Len(Tail(q)) = Len(q) - 1 /\ Head(q) = q[1]
        /\ \A n \in 1..Len(q) - 1 : Tail(q)[n] = q[n + 1]
    OBVIOUS
  <1> QED BY <1>1 DEF Holds

\* An empty channel holds nothing.
LEMMA HoldsNothing == \A m : ~Holds(<<>>, m)
  BY DEF Holds

-----------------------------------------------------------------------------
(* Types.                                                                  *)

\* The flags of an exchange, and the rest of its state.
Flags == hasCert \in BOOLEAN /\ pending \in BOOLEAN /\ linkUp \in BOOLEAN
Control ==
    /\ proto \in Protos /\ client \in ClientStates /\ outcome \in AllOutcomes
    /\ relay \in RelayStates
    /\ toRelay \in Seq(Messages) /\ toClient \in Seq(Messages)
    /\ order \in {"none", "ready", "valid", "invalid"}

\* Every step keeps the flags Boolean.
LEMMA FlagsStep == Flags /\ [Next]_vars => Flags'
  <1> SUFFICES ASSUME Flags, [Next]_vars PROVE Flags'
    OBVIOUS
  <1>1. CASE ClientStep
    <2>1. CASE SendKeyAuth
      <3>1. PICK o \in Outcomes : hasCert' = (o \in {"none", "cached"})
        BY <2>1 DEF SendKeyAuth
      <3>2. o \in {"none", "cached"} \/ ~(o \in {"none", "cached"})
        OBVIOUS
      <3>3. hasCert' = TRUE \/ hasCert' = FALSE
        BY <3>1, <3>2
      <3> QED BY <2>1, <3>3, Zenon DEF SendKeyAuth, Flags
    <2>2. CASE CertIssued
      BY <2>2, Zenon DEF CertIssued, Flags
    <2>3. CASE \/ SendIdentity \/ ReadAck \/ AcceptDone \/ ReadFinish \/ ClientFails
               \/ AcceptTunnel
      <3>1. UNCHANGED <<hasCert, pending, linkUp>>
        BY <2>3 DEF SendIdentity, ReadAck, AcceptDone, ReadFinish, ClientFails, AcceptTunnel
      <3> QED BY <3>1, Zenon DEF Flags
    <2>4. CASE ClientCloses
      BY <2>4, Zenon DEF ClientCloses, Flags
    <2> QED BY <1>1, <2>1, <2>2, <2>3, <2>4 DEF ClientStep
  <1>2. CASE RelayStep
    <2>1. CASE ReadKeyAuth
      BY <2>1, Zenon DEF ReadKeyAuth, Flags
    <2>2. CASE AcmeWaitEnds
      BY <2>2, Zenon DEF AcmeWaitEnds, Flags
    <2>3. CASE RelayFails
      BY <2>3, Zenon DEF RelayFails, Flags
    <2>4. CASE AuthExchange \/ FinishCtrl \/ Register \/ OpenTunnel \/ Unregister
      <3>1. UNCHANGED <<hasCert, pending, linkUp>>
        BY <2>4 DEF AuthExchange, FinishCtrl, Register, OpenTunnel, Unregister
      <3> QED BY <3>1, Zenon DEF Flags
    <2> QED BY <1>2, <2>1, <2>2, <2>3, <2>4 DEF RelayStep
  <1>3. CASE CaValidates \/ LinkLost \/ UNCHANGED vars
    BY <1>3, Zenon DEF CaValidates, LinkLost, vars, Flags
  <1> QED BY <1>1, <1>2, <1>3 DEF Next

\* Both ends start in one of their states.
LEMMA InitControl == Init => Control
  <1>1. <<"get_identity">> \in Seq(Messages) /\ <<>> \in Seq(Messages)
    BY DEF Messages
  <1> QED BY <1>1 DEF Init, Control, ClientStates, RelayStates, AllOutcomes

\* Every step keeps the states of both ends and the messages between them.
LEMMA ControlStep == Control /\ [Next]_vars => Control'
  <1> SUFFICES ASSUME Control, [Next]_vars PROVE Control'
    OBVIOUS
  <1> USE ExchangeAssumption DEF Control, ClientStates, RelayStates, AllOutcomes, Receives
  <1>0. /\ \A m \in Messages : /\ Append(toRelay, m) \in Seq(Messages)
                               /\ Append(toClient, m) \in Seq(Messages)
        /\ toRelay # <<>> => Tail(toRelay) \in Seq(Messages)
        /\ toClient # <<>> => Tail(toClient) \in Seq(Messages)
    OBVIOUS
  <1>1. CASE SendIdentity
    BY <1>0, <1>1 DEF SendIdentity, Messages
  <1>2. CASE SendKeyAuth
    <2>1. \A o \in Outcomes : KeyAuthFrame(o) \in Messages
      BY DEF KeyAuthFrame, Messages
    <2> QED BY <1>0, <1>2, <2>1 DEF SendKeyAuth
  <1>3. CASE ReadAck \/ AcceptDone
    BY <1>0, <1>3 DEF ReadAck, AcceptDone
  <1>4. CASE CertIssued
    BY <1>0, <1>4 DEF CertIssued, Messages
  <1>5. CASE ReadFinish \/ ClientFails \/ AcceptTunnel \/ ClientCloses
    BY <1>0, <1>5 DEF ReadFinish, ClientFails, AcceptTunnel, ClientCloses
  <1>6. CASE AuthExchange \/ ReadKeyAuth
    BY <1>0, <1>6 DEF AuthExchange, ReadKeyAuth, Accepted, Messages
  <1>7. CASE AcmeWaitEnds \/ FinishCtrl \/ Register
    BY <1>0, <1>7 DEF AcmeWaitEnds, FinishCtrl, Register, Accepted, Messages
  <1>8. CASE OpenTunnel \/ RelayFails \/ Unregister
    BY <1>0, <1>8 DEF OpenTunnel, RelayFails, Unregister, Messages
  <1>9. CASE CaValidates \/ LinkLost \/ UNCHANGED vars
    BY <1>9 DEF CaValidates, LinkLost, vars
  <1> QED
    BY <1>1, <1>2, <1>3, <1>4, <1>5, <1>6, <1>7, <1>8, <1>9
       DEF Next, ClientStep, RelayStep

\* The exchange keeps its types.
THEOREM ExchangeTyped == Spec => []TypeOK
  <1>1. Init => Flags
    BY Zenon DEF Init, Flags
  <1>2. Flags /\ Control => TypeOK
    BY Zenon DEF Flags, Control, TypeOK
  <1> QED BY <1>1, <1>2, FlagsStep, InitControl, ControlStep, PTL DEF Spec

-----------------------------------------------------------------------------
(* The certificate.                                                        *)

\* Every order of prepare() has a challenge: the CA does not consider one of its
\* authorizations valid already.
Challenged == Outcomes \cap {"leader_valid", "follower_valid"} = {}

\* Before prepare() returns only the identity was sent, and the relay waits for more.
BeforeKeyAuth ==
    client \in {"start", "prepare"} =>
        /\ relay \in {"identity", "key_auth", "ended"}
        /\ \A m \in {"empty", "key_auth", "done"} : ~Holds(toRelay, m)

\* An empty key_auth frame and done both stand for a certificate, and so does having
\* been accepted over a connection that is up.
CertStands ==
    /\ Holds(toRelay, "empty") \/ Holds(toRelay, "done") => hasCert
    /\ relay \in {"finish", "register", "registered"} /\ linkUp => hasCert

CertInv == Control /\ BeforeKeyAuth /\ CertStands

\* Every step keeps what a certificate stands behind.
LEMMA CertStep == Challenged /\ CertInv /\ [Next]_vars => CertInv'
  <1> SUFFICES ASSUME Challenged, CertInv, [Next]_vars PROVE BeforeKeyAuth' /\ CertStands'
    BY ControlStep DEF CertInv
  <1> USE DEF CertInv, BeforeKeyAuth, CertStands
  <1>0. toRelay \in Seq(Messages) /\ toClient \in Seq(Messages)
    BY DEF Control
  <1>1. CASE SendIdentity
    <2>1. "identity" \in Messages
      BY DEF Messages
    <2>2. \A m \in {"empty", "key_auth", "done"} :
              Holds(Append(toRelay, "identity"), m) <=> Holds(toRelay, m)
      BY <1>0, <2>1, HoldsSent
    <2>3. /\ toRelay' \in {toRelay, Append(toRelay, "identity")}
          /\ client = "start" /\ UNCHANGED <<relay, hasCert, linkUp>>
      BY <1>1 DEF SendIdentity
    <2> QED BY <2>2, <2>3
  <1>2. CASE SendKeyAuth
    <2>1. PICK o \in Outcomes :
              /\ toRelay' = Append(toRelay, KeyAuthFrame(o))
              /\ hasCert' = (o \in {"none", "cached"})
      BY <1>2 DEF SendKeyAuth
    <2>2. /\ KeyAuthFrame(o) \in Messages \ {"done"}
          /\ KeyAuthFrame(o) = "empty" => o \in {"none", "cached"}
      BY ExchangeAssumption DEF KeyAuthFrame, Messages, Challenged, AllOutcomes
    <2>3. Holds(toRelay', "empty") \/ Holds(toRelay', "done") => hasCert'
      BY <1>0, <1>2, <2>1, <2>2, HoldsSent DEF SendKeyAuth
    <2>4. client' \notin {"start", "prepare"} /\ relay' \in {"identity", "key_auth", "ended"}
      BY <1>2 DEF SendKeyAuth
    <2> QED BY <2>3, <2>4
  <1>3. CASE CertIssued
    <2>1. "done" \in Messages
      BY DEF Messages
    <2>2. hasCert' /\ client' \notin {"start", "prepare"}
      BY <1>3 DEF CertIssued
    <2> QED BY <2>2
  \* The other steps of the client send nothing.
  <1>4. CASE ReadAck \/ AcceptDone \/ ReadFinish \/ ClientFails \/ AcceptTunnel \/ ClientCloses
    BY <1>4 DEF ReadAck, AcceptDone, ReadFinish, ClientFails, AcceptTunnel, ClientCloses
  <1>5. CASE AuthExchange
    BY <1>0, <1>5, HoldsTaken DEF AuthExchange, Receives
  <1>6. CASE ReadKeyAuth
    BY <1>0, <1>6, HoldsTaken DEF ReadKeyAuth, Receives, Accepted
  <1>7. CASE AcmeWaitEnds
    BY <1>0, <1>7, HoldsTaken DEF AcmeWaitEnds, Receives, Accepted
  <1>8. CASE FinishCtrl \/ Register \/ OpenTunnel \/ RelayFails \/ Unregister
    BY <1>8 DEF FinishCtrl, Register, OpenTunnel, RelayFails, Unregister
  <1>9. CASE CaValidates \/ LinkLost \/ UNCHANGED vars
    BY <1>9 DEF CaValidates, LinkLost, vars
  <1> QED
    BY <1>1, <1>2, <1>3, <1>4, <1>5, <1>6, <1>7, <1>8, <1>9
       DEF Next, ClientStep, RelayStep

\* The relay registers, and so routes users to, only agents that hold their
\* certificate, whenever every order has a challenge.  Without that hypothesis it is
\* false: see the run that refutes it.
THEOREM RegisteredHasCert ==
    ASSUME Challenged PROVE Spec => []RegisteredAgentHasCert
  <1>1. Init => CertInv
    BY InitControl, HoldsNothing DEF Init, CertInv, BeforeKeyAuth, CertStands
  <1>2. CertInv /\ [Next]_vars => CertInv'
    BY CertStep
  <1>3. CertInv => RegisteredAgentHasCert
    BY DEF CertInv, CertStands, RegisteredAgentHasCert
  <1> QED BY <1>1, <1>2, <1>3, PTL DEF Spec

-----------------------------------------------------------------------------
(* The order.                                                              *)

\* QUIC: nothing is on its way to the client, which has not got to its challenge,
\* and no done to the relay, before the relay has read the key_auth frame.
BeforeAck ==
    relay \in {"identity", "key_auth"} =>
        toClient = <<>> /\ client # "challenge" /\ ~Holds(toRelay, "done")

\* QUIC: a client that was not acked, or whose order is not valid yet, sends no done.
NoEarlyDone ==
    /\ client \in {"start", "prepare", "wait_ack", "challenge"} => ~Holds(toRelay, "done")
    /\ order = "ready" \/ Holds(toClient, "ack") => ~Holds(toRelay, "done")

\* QUIC: the relay acks once, and before it sends anything else.
AckFirst ==
    /\ \A n \in 1..Len(toClient) : toClient[n] = "ack" => n = 1
    /\ client = "challenge" => ~Holds(toClient, "ack")

\* QUIC: only a leader's order gets ready, after prepare() returned it.
OrderOfLeader ==
    /\ client \in {"start", "prepare"} => order = "none"
    /\ order = "ready" => outcome = "leader"

\* The relay lists the connection while it waits for done; and it waits, on a QUIC
\* connection that is up, from the ack until the CA has decided.
AckInv ==
    /\ Control
    /\ relay = "wait_done" => pending
    /\ proto = "quic" =>
        /\ BeforeAck /\ NoEarlyDone /\ AckFirst /\ OrderOfLeader
        /\ (Holds(toClient, "ack") \/ order = "ready") /\ linkUp => relay = "wait_done"

\* Every step keeps the relay waiting between its ack and the CA's decision.
LEMMA AckStep == AckInv /\ [Next]_vars => AckInv'
  <1> SUFFICES ASSUME AckInv, [Next]_vars PROVE AckInv'
    OBVIOUS
  <1>0. Control' /\ toRelay \in Seq(Messages) /\ toClient \in Seq(Messages)
    BY ControlStep DEF AckInv, Control
  <1> DEFINE QuicInv == /\ BeforeAck /\ NoEarlyDone /\ AckFirst /\ OrderOfLeader
                        /\ (Holds(toClient, "ack") \/ order = "ready") /\ linkUp
                               => relay = "wait_done"
  <1>1. (relay = "wait_done" => pending)'
    BY DEF AckInv, Next, ClientStep, RelayStep, vars, SendIdentity, SendKeyAuth, ReadAck,
           AcceptDone, CertIssued, ReadFinish, ClientFails, AcceptTunnel, ClientCloses,
           AuthExchange, ReadKeyAuth, AcmeWaitEnds, FinishCtrl, Register, OpenTunnel,
           RelayFails, Unregister, CaValidates, LinkLost, Accepted
  <1>2. proto' = proto
    BY DEF Next, ClientStep, RelayStep, vars, SendIdentity, SendKeyAuth, ReadAck,
           AcceptDone, CertIssued, ReadFinish, ClientFails, AcceptTunnel, ClientCloses,
           AuthExchange, ReadKeyAuth, AcmeWaitEnds, FinishCtrl, Register, OpenTunnel,
           RelayFails, Unregister, CaValidates, LinkLost
  <1>3. SUFFICES ASSUME proto = "quic" PROVE QuicInv'
    BY <1>0, <1>1, <1>2 DEF AckInv
  <1>4. QuicInv
    BY <1>3 DEF AckInv
  <1> USE <1>0, <1>3, <1>4 DEF BeforeAck, NoEarlyDone, AckFirst, OrderOfLeader
  <1>5. CASE SendIdentity
    <2>1. /\ toRelay' = Append(toRelay, "identity") /\ client = "start" /\ client' = "prepare"
          /\ UNCHANGED <<relay, toClient, order, outcome, linkUp>>
      BY <1>5 DEF SendIdentity
    <2>2. Holds(toRelay', "done") <=> Holds(toRelay, "done")
      BY <2>1, HoldsSent DEF Messages
    <2> QED BY <2>1, <2>2
  <1>6. CASE SendKeyAuth
    <2>1. PICK o \in Outcomes : toRelay' = Append(toRelay, KeyAuthFrame(o))
      BY <1>6 DEF SendKeyAuth
    <2>2. KeyAuthFrame(o) \in Messages \ {"done"}
      BY DEF KeyAuthFrame, Messages
    <2>3. Holds(toRelay', "done") <=> Holds(toRelay, "done")
      BY <2>1, <2>2, HoldsSent
    <2>4. /\ client = "prepare" /\ client' \in {"wait_finish", "wait_ack"}
          /\ UNCHANGED <<relay, toClient, order, linkUp>>
      BY <1>6 DEF SendKeyAuth
    <2> QED BY <2>3, <2>4
  <1>7. CASE ReadAck
    <2>1. /\ client = "wait_ack" /\ client' \in {"challenge", "failed"}
          /\ toClient # <<>> /\ toClient' = Tail(toClient)
          /\ UNCHANGED <<relay, toRelay, outcome, linkUp>>
      BY <1>7 DEF ReadAck
    <2>2. ~Holds(toClient', "ack") /\ \A n \in 1..Len(toClient') : toClient'[n] # "ack"
      BY <2>1, HoldsTaken DEF Holds
    <2>3. relay \notin {"identity", "key_auth"}
      BY <2>1
    <2>4. CASE Head(toClient) = "ack"
      <3>1. Holds(toClient, "ack")
        BY <2>1, <2>4, HoldsTaken
      <3>2. order' = "ready" => outcome = "leader"
        BY <1>7, <2>4 DEF ReadAck
      <3> QED BY <2>1, <2>2, <2>3, <3>1, <3>2
    <2>5. CASE Head(toClient) # "ack"
      <3>1. order' = order /\ client' = "failed"
        BY <1>7, <2>5 DEF ReadAck
      <3> QED BY <2>1, <2>2, <2>3, <3>1
    <2> QED BY <2>4, <2>5
  <1>8. CASE CertIssued
    <2>1. /\ toRelay' = Append(toRelay, "done") /\ client = "challenge" /\ client' = "wait_finish"
          /\ order # "ready" /\ UNCHANGED <<relay, toClient, order, outcome, linkUp>>
      BY <1>8 DEF CertIssued, Leaders
    <2> QED BY <2>1
  <1>9. CASE ReadFinish \/ AcceptTunnel
    <2>1. /\ toClient # <<>> /\ toClient' = Tail(toClient)
          /\ client' \in {"established", client}
          /\ UNCHANGED <<relay, toRelay, order, outcome, linkUp>>
      BY <1>9 DEF ReadFinish, AcceptTunnel, Receives
    <2>2. ~Holds(toClient', "ack") /\ \A n \in 1..Len(toClient') : toClient'[n] # "ack"
      BY <2>1, HoldsTaken DEF Holds
    <2> QED BY <2>1, <2>2
  <1>10. CASE ClientFails \/ ClientCloses \/ LinkLost \/ UNCHANGED vars
    BY <1>10 DEF ClientFails, ClientCloses, LinkLost, vars
  <1>11. CASE AuthExchange
    <2>1. /\ toRelay # <<>> /\ toRelay' = Tail(toRelay) /\ relay = "identity"
          /\ relay' = "key_auth" /\ UNCHANGED <<toClient, client, order, outcome, linkUp>>
      BY <1>11 DEF AuthExchange, Receives
    <2> QED BY <2>1, HoldsTaken, HoldsNothing
  <1>12. CASE ReadKeyAuth
    <2>1. /\ toRelay # <<>> /\ toRelay' = Tail(toRelay) /\ relay = "key_auth"
          /\ UNCHANGED <<client, order, outcome, linkUp>>
      BY <1>12 DEF ReadKeyAuth, Receives
    <2>2. ~Holds(toRelay', "done")
      BY <2>1, HoldsTaken
    <2>3. CASE relay' = "finish" /\ toClient' = toClient
      BY <2>1, <2>2, <2>3, HoldsNothing
    <2>4. CASE relay' = "wait_done" /\ toClient' = Append(toClient, "ack")
      <3>1. Len(toClient') = 1
        BY <2>1, <2>4
      <3> QED BY <2>1, <2>2, <2>4, <3>1
    <2> QED BY <1>12, <2>3, <2>4 DEF ReadKeyAuth, Accepted
  <1>13. CASE AcmeWaitEnds
    <2>1. CASE Receives(toRelay, "done")
      <3>1. Holds(toRelay, "done")
        BY <2>1, HoldsTaken DEF Receives
      <3>2. relay' = "finish" /\ UNCHANGED <<toClient, client, order, outcome, linkUp>>
        BY <1>13 DEF AcmeWaitEnds, Accepted
      <3> QED BY <3>1, <3>2
    <2>2. CASE ~linkUp /\ UNCHANGED toRelay
      BY <1>13, <2>2 DEF AcmeWaitEnds, Accepted
    <2> QED BY <1>13, <2>1, <2>2 DEF AcmeWaitEnds
  <1>14. CASE FinishCtrl \/ OpenTunnel
    <2>1. PICK m \in {"fin", "tunnel"} : toClient' = Append(toClient, m)
      BY <1>14 DEF FinishCtrl, OpenTunnel
    <2>2. /\ relay \in {"finish", "registered"} /\ relay' \in {"register", "registered"}
          /\ UNCHANGED <<toRelay, client, order, outcome, linkUp>>
      BY <1>14 DEF FinishCtrl, OpenTunnel
    <2>3. Holds(toClient', "ack") <=> Holds(toClient, "ack")
      BY <2>1, HoldsSent DEF Messages
    <2>4. \A n \in 1..Len(toClient') : toClient'[n] = "ack" => n = 1
      BY <2>1 DEF Messages
    <2> QED BY <2>2, <2>3, <2>4
  <1>15. CASE Register \/ RelayFails \/ Unregister
    BY <1>15 DEF Register, RelayFails, Unregister
  <1>16. CASE CaValidates
    BY <1>16 DEF CaValidates
  <1>17. ~AcceptDone
    BY DEF AcceptDone
  <1> QED
    BY <1>5, <1>6, <1>7, <1>8, <1>9, <1>10, <1>11, <1>12, <1>13, <1>14, <1>15, <1>16, <1>17
       DEF Next, ClientStep, RelayStep

\* Over QUIC the CA is told to validate only while the relay lists the connection,
\* whatever prepare() returns: the leader's set_ready follows the ack, and nothing but
\* done or the loss of the connection ends the relay's wait.
THEOREM ReadyIsAcked == Spec => []AckedBeforeReady
  <1>1. Init => AckInv
    BY InitControl, HoldsNothing
       DEF Init, AckInv, BeforeAck, NoEarlyDone, AckFirst, OrderOfLeader
  <1>2. AckInv => AckedBeforeReady
    BY DEF AckInv, AckedBeforeReady
  <1> QED BY <1>1, <1>2, AckStep, PTL DEF Spec

-----------------------------------------------------------------------------
(* The public port's look at a ClientHello.                                *)

\* Inside the loop, what the parser has seen is less than a buffer, is in the
\* socket, and did not parse.  Once decided, the decision is right.
LoopInv == Undecided => seen < buf /\ seen <= arrived /\ ~Parses(seen)

PeekInv == PeekTypeOK /\ LoopInv /\ DecidesExactly

\* The loop starts with a small empty buffer and nothing seen.
LEMMA PeekInitInv == PeekInit => PeekInv
<1> SUFFICES ASSUME PeekInit PROVE PeekInv
    OBVIOUS
<1>1. closed \in BOOLEAN
    BY Zenon DEF PeekInit
<1>2. hello.len \in Nat \ {0}
    BY PeekAssumption DEF PeekInit
<1>3. PeekTypeOK
    BY PeekAssumption, <1>1 DEF PeekInit, PeekTypeOK
<1>4. ~(0 >= hello.len)
    BY <1>2
<1>5. ~Parses(seen)
    BY <1>4, Zenon DEF PeekInit, Parses
<1>6. LoopInv /\ DecidesExactly
    BY PeekAssumption, <1>5 DEF PeekInit, LoopInv, DecidesExactly
<1> QED
    BY <1>3, <1>6 DEF PeekInv

\* The peer and the deadline leave the loop's own state alone.
LEMMA EnvironmentInv ==
    PeekInv /\ (Arrive \/ PeerCloses \/ PeekFails \/ Deadline) => PeekInv'
<1> SUFFICES ASSUME PeekInv, Arrive \/ PeerCloses \/ PeekFails \/ Deadline
             PROVE  PeekInv'
    OBVIOUS
<1> USE PeekAssumption
<1>1. CASE Arrive
  <2>1. PICK k \in Points : k > arrived /\ arrived' = k
    BY <1>1 DEF Arrive
  <2>2. PeekTypeOK'
    BY <1>1, <2>1 DEF PeekInv, PeekTypeOK, Arrive
  <2>3. LoopInv' /\ DecidesExactly'
    BY <1>1, <2>1 DEF PeekInv, PeekTypeOK, Arrive, LoopInv, DecidesExactly, Undecided, Parses
  <2>. QED
    BY <2>2, <2>3 DEF PeekInv
<1>2. CASE PeerCloses
  <2>1. PeekTypeOK'
    BY <1>2 DEF PeekInv, PeekTypeOK, PeerCloses
  <2>2. LoopInv' /\ DecidesExactly'
    BY <1>2 DEF PeekInv, PeerCloses, LoopInv, DecidesExactly, Undecided, Parses, Routable
  <2>. QED
    BY <2>1, <2>2 DEF PeekInv
<1>3. CASE PeekFails
    BY <1>3 DEF PeekInv, PeekTypeOK, PeekFails, LoopInv, DecidesExactly, Undecided
<1>4. CASE Deadline
    BY <1>4 DEF PeekInv, PeekTypeOK, Deadline, LoopInv, DecidesExactly, Undecided
<1> QED
    BY <1>1, <1>2, <1>3, <1>4

\* One pass of the loop over bytes it has not seen.
LEMMA PeekNewInv == PeekInv /\ PeekNew => PeekInv'
<1> SUFFICES ASSUME PeekInv, PeekNew PROVE PeekInv'
    OBVIOUS
<1> USE PeekAssumption
<1>0. hello.len \in Nat \ {0}
    BY DEF PeekInv, PeekTypeOK
<1>1. /\ Peeked \in 1..buf /\ Peeked <= arrived
      /\ Peeked = buf \/ Peeked = arrived
    BY DEF PeekInv, PeekTypeOK, PeekNew, Peeked, Smaller
<1>2. pc = "peek" /\ UNCHANGED <<hello, arrived, closed>>
    BY DEF PeekNew
<1>3. CASE Route(Peeked)
  <2>1. PeekTypeOK'
    BY <1>2, <1>3 DEF PeekInv, PeekTypeOK, Route
  <2>2. Routable /\ arrived >= hello.len
    <3>1. hello.sni /\ Peeked >= hello.len
      BY <1>3, Zenon DEF Route, Parses
    <3>2. hello.len <= PEEK_BUF_MAX /\ arrived >= hello.len
      BY <1>0, <1>1, <3>1 DEF PeekInv, PeekTypeOK
    <3>. QED
      BY <3>1, <3>2, Zenon DEF Routable
  <2>3. LoopInv' /\ DecidesExactly'
    BY <1>2, <1>3, <2>2 DEF Route, LoopInv, DecidesExactly, Undecided, Routable
  <2>. QED
    BY <2>1, <2>3 DEF PeekInv
<1>4. CASE Grow(Peeked)
  <2>1. buf' \in buf + 1..PEEK_BUF_MAX
    BY <1>4 DEF PeekInv, PeekTypeOK, Grow, Smaller
  <2>2. PeekTypeOK'
    BY <1>2, <1>4, <2>1 DEF PeekInv, PeekTypeOK, Grow
  <2>3. ~(0 >= hello.len)
    BY <1>0
  <2>4. ~Parses(seen)'
    BY <1>2, <1>4, <2>3, Zenon DEF Grow, Parses
  <2>5. LoopInv' /\ DecidesExactly'
    BY <1>2, <1>4, <2>1, <2>4 DEF PeekInv, PeekTypeOK, Grow, LoopInv, DecidesExactly
  <2>. QED
    BY <2>2, <2>5 DEF PeekInv
<1>5. CASE RefuseFull(Peeked)
  <2>1. PeekTypeOK'
    BY <1>1, <1>2, <1>5 DEF PeekInv, PeekTypeOK, RefuseFull
  <2>2. arrived >= PEEK_BUF_MAX /\ ~Routable
    BY <1>1, <1>5 DEF PeekInv, PeekTypeOK, RefuseFull, Parses, Routable
  <2>3. LoopInv' /\ DecidesExactly'
    BY <1>2, <1>5, <2>2 DEF RefuseFull, LoopInv, DecidesExactly, Undecided, Routable
  <2>. QED
    BY <2>1, <2>3 DEF PeekInv
<1>6. CASE Wait(Peeked)
  <2>1. PeekTypeOK'
    BY <1>1, <1>2, <1>6 DEF PeekInv, PeekTypeOK, Wait
  <2>2. LoopInv' /\ DecidesExactly'
    BY <1>1, <1>2, <1>6 DEF PeekInv, PeekTypeOK, Wait, LoopInv, DecidesExactly, Undecided, Parses
  <2>. QED
    BY <2>1, <2>2 DEF PeekInv
<1> QED
    BY <1>3, <1>4, <1>5, <1>6 DEF PeekNew

LEMMA PeekStepInv == PeekInv /\ [PeekNext]_peekVars => PeekInv'
<1> SUFFICES ASSUME PeekInv, [PeekNext]_peekVars PROVE PeekInv'
    OBVIOUS
<1> USE PeekAssumption
<1>1. CASE Arrive \/ PeerCloses \/ PeekFails \/ Deadline
    BY <1>1, EnvironmentInv
<1>2. CASE PeekEnd
  <2>1. arrived = 0 /\ closed
    BY <1>2 DEF PeekInv, PeekTypeOK, PeekEnd, Readable, Peeked, Smaller
  <2>. QED
    BY <1>2, <2>1 DEF PeekInv, PeekTypeOK, PeekEnd, LoopInv, DecidesExactly, Undecided
<1>3. CASE PeekNew
    BY <1>3, PeekNewInv
<1>4. CASE PeekNothingNew
    BY <1>4 DEF PeekInv, PeekTypeOK, PeekNothingNew, LoopInv, DecidesExactly, Undecided, Parses
<1>5. CASE Wake
  <2>1. backoff' \in PEEK_POLL_MIN..PEEK_POLL_MAX
    BY <1>5 DEF PeekInv, PeekTypeOK, Wake, Smaller
  <2>2. PeekTypeOK'
    BY <1>5, <2>1 DEF PeekInv, PeekTypeOK, Wake
  <2>3. LoopInv' /\ DecidesExactly'
    BY <1>5 DEF PeekInv, Wake, LoopInv, DecidesExactly, Undecided, Parses
  <2>. QED
    BY <2>2, <2>3 DEF PeekInv
<1>6. CASE UNCHANGED peekVars
    BY <1>6 DEF peekVars, PeekInv, PeekTypeOK, LoopInv, DecidesExactly, Undecided, Parses, Routable
<1> QED
    BY <1>1, <1>2, <1>3, <1>4, <1>5, <1>6 DEF PeekNext

\* peek_sni_alpn decides right for every record, however it is cut into segments.
THEOREM PeekDecidesExactly == PeekSpec => []DecidesExactly
<1>1. PeekInv => DecidesExactly
    BY DEF PeekInv
<1> QED
    BY PeekInitInv, PeekStepInv, <1>1, PTL DEF PeekSpec

\* The loop of peek_sni_alpn never sleeps while a routable hello is in the socket.
THEOREM PeekNeverSleepsOnHello == PeekSpec => NeverSleepsOnHello
<1>1. PeekInv /\ [PeekNext]_peekVars
        => [pc = "peek" /\ pc' = "sleep" => ~(Routable /\ arrived >= hello.len)]_peekVars
  <2> SUFFICES ASSUME PeekInv, PeekNext, pc = "peek", pc' = "sleep",
                      Routable, arrived >= hello.len
               PROVE  FALSE
    OBVIOUS
  <2> USE PeekAssumption
  <2>1. CASE PeekNothingNew
    BY <2>1 DEF PeekInv, PeekTypeOK, PeekNothingNew, LoopInv, Undecided, Parses, Routable,
                Peeked, Smaller
  <2>2. CASE PeekNew
    <3>1. Wait(Peeked)
      BY <2>2 DEF PeekNew, Route, Grow, RefuseFull
    <3>. QED
      BY <3>1 DEF PeekInv, PeekTypeOK, Wait, Parses, Routable, Peeked, Smaller
  <2>. QED
    BY <2>1, <2>2 DEF PeekNext, Arrive, PeerCloses, PeekFails, Deadline, PeekEnd, Wake
<1> QED
    BY PeekInitInv, PeekStepInv, <1>1, PTL DEF PeekSpec, NeverSleepsOnHello

==============================================================================
