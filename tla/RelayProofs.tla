---------------------------- MODULE RelayProofs ----------------------------
(***************************************************************************)
(* Safety of the relay for any set of connections, ids, requests and any   *)
(* budget: the properties of Relay as invariants of its specification.     *)
(***************************************************************************)
EXTENDS Relay, FiniteSetTheorems, TLAPS

(***************************************************************************)
(* Type correctness.                                                       *)
(***************************************************************************)

\* Closing a connection keeps the shape of what it touches.
LEMMA TypeOKClose ==
    ASSUME TypeOK, NEW c \in Conns, NEW why \in {"reject", "timeout"}, CloseConn(c, why)
    PROVE  /\ link' \in [Conns -> {"up", "silent", "down"}]
           /\ told' \in [Conns -> {"nothing", "reject", "timeout"}]
<1> USE DEF TypeOK, CloseConn
<1>1. CASE link[c] = "down" BY <1>1
<1>2. CASE link[c] # "down" BY <1>2
<1> QED BY <1>1, <1>2

\* A rejection keeps the shape of what it touches, on either transport.
LEMMA TypeOKReject ==
    ASSUME TypeOK, NEW c \in Conns, Reject(c)
    PROVE  /\ phase' \in [Conns -> Phases]
           /\ link' \in [Conns -> {"up", "silent", "down"}]
           /\ told' \in [Conns -> {"nothing", "reject", "timeout"}]
           /\ permits' \in [Protos -> Nat]
<1> USE RelayAssumption DEF TypeOK, Reject, Phases, PreAuth, Protos,
        Goto, DropPermit, Abandon
<1>1. CASE Proto[c] = "quic"
  <2>1. CloseConn(c, "reject") BY <1>1
  <2>2. /\ link' \in [Conns -> {"up", "silent", "down"}]
        /\ told' \in [Conns -> {"nothing", "reject", "timeout"}]
    BY <2>1, TypeOKClose DEF TypeOK
  <2>3. phase' \in [Conns -> Phases] BY Zenon, <1>1
  <2>4. permits' \in [Protos -> Nat] BY <1>1
  <2> QED BY <2>2, <2>3, <2>4
<1>2. CASE Proto[c] # "quic" BY Zenon, <1>2
<1> QED BY <1>1, <1>2

\* The relay's state keeps its shape through every handler step.
LEMMA TypeOKConn ==
    ASSUME TypeOK, NEW c \in Conns, ConnStep(c)
    PROVE  TypeOK'
<1> USE RelayAssumption DEF TypeOK, Phases, PreAuth, PostAuth, Waiting, Protos,
        Goto, DropPermit, Abandon, handlerVars, pendingVars, agentVars
<1>1. CASE TryAdmit(c) BY <1>1 DEF TryAdmit
<1>2. CASE Refuse(c) BY <1>2 DEF Refuse
<1>3. CASE HandshakeFails(c) BY <1>3 DEF HandshakeFails
<1>4. CASE HandshakeDone(c) BY Zenon, <1>4, TypeOKReject DEF HandshakeDone
<1>5. CASE H2HandshakeDone(c) BY <1>5 DEF H2HandshakeDone
<1>6. CASE H2RejectEnds(c)
  <2>1. told' \in [Conns -> {"nothing", "reject", "timeout"}] BY <1>6 DEF H2RejectEnds
  <2>2. /\ phase' = [phase EXCEPT ![c] = "ended"]
        /\ permits' = [permits EXCEPT ![Proto[c]] = @ + 1]
        /\ UNCHANGED <<link, creds, pendingVars, agentVars, req>>
    BY <1>6 DEF H2RejectEnds
  <2> QED BY <2>1, <2>2
<1>7. CASE AuthFails(c) BY <1>7 DEF AuthFails
<1>8. CASE AuthTimeout(c)
  <2>1. CASE Proto[c] = "quic" BY <1>8, <2>1, TypeOKClose DEF AuthTimeout
  <2>2. CASE Proto[c] # "quic" BY <1>8, <2>2 DEF AuthTimeout
  <2> QED BY <2>1, <2>2
<1>9. CASE AuthExchange(c)
  <2>1. CASE Reject(c) BY <1>9, <2>1, TypeOKReject DEF AuthExchange
  <2>2. CASE Authenticated(c) BY <1>9, <2>2 DEF AuthExchange, Authenticated
  <2>3. CASE Goto(c, "txt") /\ UNCHANGED <<link, told, permits>>
    BY <1>9, <2>3 DEF AuthExchange
  <2> QED BY <1>9, <2>1, <2>2, <2>3 DEF AuthExchange
<1>10. CASE TxtLookup(c)
  <2>1. CASE Reject(c) BY <1>10, <2>1, TypeOKReject DEF TxtLookup
  <2>2. CASE Authenticated(c) BY <1>10, <2>2 DEF TxtLookup, Authenticated
  <2> QED BY <1>10, <2>1, <2>2 DEF TxtLookup
<1>11. CASE KeyAuthFails(c) BY <1>11 DEF KeyAuthFails
<1>12. CASE KeyAuthRead(c) BY Zenon, <1>12 DEF KeyAuthRead
<1>13. CASE PendingAlpnToken(c) BY <1>13 DEF PendingAlpnToken
<1>14. CASE PendingAlpnInsert(c) BY <1>14 DEF PendingAlpnInsert
<1>15. CASE AckSent(c) BY <1>15 DEF AckSent
<1>16. CASE AckFails(c) BY <1>16 DEF AckFails, PendingAlpnRemove, NoEntry
<1>17. CASE AcmeDone(c) BY <1>17 DEF AcmeDone, PendingAlpnRemove, NoEntry
<1>18. CASE AcmeWaitBroken(c) BY <1>18 DEF AcmeWaitBroken, PendingAlpnRemove, NoEntry
<1>19. CASE Register(c) BY <1>19 DEF Register
<1>20. CASE CleanupRemove(c) BY <1>20 DEF CleanupRemove
<1>21. CASE CleanupPrune(c) BY <1>21 DEF CleanupPrune
<1>22. CASE PeerSilent(c) BY <1>22 DEF PeerSilent
<1>23. CASE LinkLost(c) BY <1>23 DEF LinkLost
<1>24. CASE KeepAliveFails(c) BY <1>24 DEF KeepAliveFails
<1>25. CASE DropConn(c) BY <1>25 DEF DropConn
<1> QED BY Zenon, <1>1, <1>2, <1>3, <1>4, <1>5, <1>6, <1>7, <1>8, <1>9, <1>10,
        <1>11, <1>12, <1>13, <1>14, <1>15, <1>16, <1>17, <1>18, <1>19, <1>20, <1>21,
        <1>22, <1>23, <1>24, <1>25 DEF ConnStep

\* The public port touches nothing but its own requests.
LEMMA TypeOKRequest ==
    ASSUME TypeOK, NEW r \in Requests, RequestStep(r)
    PROVE  TypeOK'
<1> USE DEF TypeOK, handlerVars, pendingVars, agentVars
<1>1. UNCHANGED <<handlerVars, pendingVars, agentVars>>
  BY DEF RequestStep, HandlePublic, HandleAcme, StreamOpened, OpenFails, UserStalls, UserReads,
         ProxyEnds
<1>2. ASSUME NEW i \in Ids, NEW c \in Conns, HandlePublic(r, i, c) PROVE TypeOK'
  BY <1>1, <1>2 DEF HandlePublic
<1>3. ASSUME NEW i \in Ids, HandleAcme(r, i) PROVE TypeOK'
  BY <1>1, <1>3 DEF HandleAcme
<1>4. CASE StreamOpened(r) \/ UserStalls(r) \/ UserReads(r)
  <2> DEFINE Req == [st: {"idle", "opening", "proxying", "stalled"}, kind: {"public", "acme"},
                     id: Ids \cup {NoConn}, conn: Conns \cup {NoConn}]
  <2>1. req \in [Requests -> Req] OBVIOUS
  <2>2. PICK s \in {"proxying", "stalled"} : req' = [req EXCEPT ![r] = [req[r] EXCEPT !.st = s]]
    BY <1>4 DEF StreamOpened, UserStalls, UserReads
  <2>3. [req[r] EXCEPT !.st = s] \in Req BY ONLY <2>1, <2>2, r \in Requests
  <2>4. req' \in [Requests -> Req]
    <3> HIDE DEF Req
    <3> QED BY ONLY <2>1, <2>2, <2>3
  <2> QED BY <1>1, <2>4
<1>5. CASE OpenFails(r) BY <1>1, <1>5 DEF OpenFails, IdleReq
<1>6. CASE ProxyEnds(r) BY <1>1, <1>6 DEF ProxyEnds, IdleReq
<1> QED BY <1>2, <1>3, <1>4, <1>5, <1>6 DEF RequestStep

\* The relay's state keeps its shape.
LEMMA TypeOKStep == TypeOK /\ [Next]_vars => TypeOK'
<1> SUFFICES ASSUME TypeOK, [Next]_vars PROVE TypeOK' OBVIOUS
<1>1. CASE Next BY <1>1, TypeOKConn, TypeOKRequest DEF Next
<1>2. CASE UNCHANGED vars
  BY <1>2 DEF vars, TypeOK, handlerVars, pendingVars, agentVars
<1> QED BY <1>1, <1>2

(***************************************************************************)
(* What a handler step leaves alone.                                       *)
(***************************************************************************)

\* A step of one connection's tasks leaves every other connection's alone.
LEMMA OthersUnchanged ==
    ASSUME TypeOK, NEW c \in Conns, ConnStep(c)
    PROVE  /\ creds' = creds /\ req' = req
           /\ \A d \in Conns \ {c} :
                 /\ phase'[d] = phase[d] /\ told'[d] = told[d] /\ link'[d] = link[d]
                 /\ token'[d] = token[d] /\ cleanup'[d] = cleanup[d]
<1> USE DEF TypeOK, Goto, handlerVars, pendingVars, agentVars
<1>1. CASE TryAdmit(c) \/ Refuse(c) \/ HandshakeFails(c) \/ H2HandshakeDone(c) \/ H2RejectEnds(c)
  BY <1>1 DEF Abandon, TryAdmit, Refuse, HandshakeFails, H2HandshakeDone, H2RejectEnds
<1>2. CASE HandshakeDone(c)
  BY <1>2 DEF Abandon, Reject, CloseConn, HandshakeDone
<1>3. CASE AuthFails(c) \/ AuthTimeout(c)
  BY <1>3 DEF Abandon, CloseConn, AuthFails, AuthTimeout
<1>4. CASE AuthExchange(c) \/ TxtLookup(c)
  BY <1>4 DEF Abandon, Reject, CloseConn, Authenticated, AuthExchange, TxtLookup
<1>5. CASE KeyAuthFails(c) \/ KeyAuthRead(c) \/ PendingAlpnToken(c) \/ PendingAlpnInsert(c)
  BY <1>5 DEF KeyAuthFails, KeyAuthRead, PendingAlpnToken, PendingAlpnInsert
<1>6. CASE AckSent(c) \/ AckFails(c) \/ AcmeDone(c) \/ AcmeWaitBroken(c)
  BY <1>6 DEF AckSent, AckFails, AcmeDone, AcmeWaitBroken
<1>7. CASE Register(c) \/ CleanupRemove(c) \/ CleanupPrune(c)
  BY <1>7 DEF Register, CleanupRemove, CleanupPrune
<1>8. CASE PeerSilent(c) \/ LinkLost(c) \/ KeepAliveFails(c) \/ DropConn(c)
  BY <1>8 DEF PeerSilent, LinkLost, KeepAliveFails, DropConn
<1> QED BY Zenon, <1>1, <1>2, <1>3, <1>4, <1>5, <1>6, <1>7, <1>8 DEF ConnStep

\* Only registration and the cleanup task write the agent map.
LEMMA AgentMapWriters ==
    ASSUME NEW c \in Conns, ConnStep(c)
    PROVE  UNCHANGED agentVars \/ Register(c) \/ CleanupRemove(c) \/ CleanupPrune(c)
  BY Zenon DEF ConnStep, agentVars, pendingVars, handlerVars,
    TryAdmit, Refuse, HandshakeFails, HandshakeDone, H2HandshakeDone, H2RejectEnds,
    AuthFails, AuthTimeout, AuthExchange, TxtLookup,
    KeyAuthFails, KeyAuthRead, PendingAlpnToken, PendingAlpnInsert, AckSent, AckFails,
    AcmeDone, AcmeWaitBroken, PeerSilent, LinkLost, KeepAliveFails, DropConn

\* Only the ACME wait writes the pending map and its tokens.
LEMMA PendingMapWriters ==
    ASSUME NEW c \in Conns, ConnStep(c)
    PROVE  \/ UNCHANGED pendingVars
           \/ PendingAlpnToken(c) \/ PendingAlpnInsert(c)
           \/ AckFails(c) \/ AcmeDone(c) \/ AcmeWaitBroken(c)
  BY Zenon DEF ConnStep, agentVars, pendingVars, handlerVars,
    TryAdmit, Refuse, HandshakeFails, HandshakeDone, H2HandshakeDone, H2RejectEnds,
    AuthFails, AuthTimeout, AuthExchange, TxtLookup,
    KeyAuthFails, KeyAuthRead, AckSent, Register, CleanupRemove, CleanupPrune,
    PeerSilent, LinkLost, KeepAliveFails, DropConn

\* The late phases are entered and left only by the actions one expects.
LEMMA LatePhases ==
    ASSUME TypeOK, NEW c \in Conns, ConnStep(c)
    PROVE  /\ phase[c] = "serving" => phase'[c] = "serving"
           /\ phase'[c] = "serving" => phase[c] = "serving" \/ Register(c)
           /\ phase[c] \in Waiting =>
                 phase'[c] \in Waiting \/ AckFails(c) \/ AcmeDone(c) \/ AcmeWaitBroken(c)
           /\ phase'[c] \in Waiting => phase[c] \in Waiting \/ PendingAlpnInsert(c)
           /\ phase'[c] = "acme_insert" => phase[c] = "acme_insert" \/ PendingAlpnToken(c)
           /\ phase[c] \in Waiting \cup {"register", "serving", "ended"} =>
                 phase'[c] \in Waiting \cup {"register", "serving", "ended"}
<1> USE DEF TypeOK, Waiting, Goto
<1>1. CASE TryAdmit(c) \/ Refuse(c) \/ HandshakeFails(c) \/ HandshakeDone(c)
           \/ H2HandshakeDone(c) \/ H2RejectEnds(c)
  BY <1>1 DEF Abandon, Reject,
     TryAdmit, Refuse, HandshakeFails, HandshakeDone, H2HandshakeDone, H2RejectEnds
<1>2. CASE AuthFails(c) \/ AuthTimeout(c) \/ AuthExchange(c) \/ TxtLookup(c)
  BY <1>2 DEF Abandon, Reject, Authenticated, AuthFails, AuthTimeout, AuthExchange, TxtLookup
<1>3. CASE KeyAuthFails(c) \/ KeyAuthRead(c) \/ PendingAlpnToken(c) \/ PendingAlpnInsert(c)
  BY <1>3 DEF KeyAuthFails, KeyAuthRead, PendingAlpnToken, PendingAlpnInsert
<1>4. CASE AckSent(c) \/ AckFails(c) \/ AcmeDone(c) \/ AcmeWaitBroken(c)
  BY <1>4 DEF AckSent, AckFails, AcmeDone, AcmeWaitBroken
<1>5. CASE Register(c)
  BY <1>5 DEF Register
<1>6. CASE UNCHANGED phase
  BY <1>6
<1>7. CleanupRemove(c) \/ CleanupPrune(c) \/ PeerSilent(c) \/ LinkLost(c)
      \/ KeepAliveFails(c) \/ DropConn(c) => UNCHANGED phase
  BY DEF handlerVars, CleanupRemove, CleanupPrune, PeerSilent, LinkLost, KeepAliveFails, DropConn
<1> QED BY <1>1, <1>2, <1>3, <1>4, <1>5, <1>6, <1>7 DEF ConnStep

\* The public port leaves the relay's own state alone.
LEMMA RequestFrame ==
    ASSUME NEW r \in Requests, RequestStep(r)
    PROVE  UNCHANGED <<handlerVars, pendingVars, agentVars>>
  BY DEF RequestStep, HandlePublic, HandleAcme, StreamOpened, OpenFails, UserStalls, UserReads,
         ProxyEnds

(***************************************************************************)
(* The agent map.                                                          *)
(***************************************************************************)

RegistryInv == PoolsExact /\ EmptyPoolIsPruned /\ CleanupIffServing

\* register() and its cleanup keep the pools exact, prune what they empty,
\* and leave one cleanup task for each registered connection.
LEMMA RegistryConn ==
    ASSUME TypeOK, RegistryInv, NEW c \in Conns, ConnStep(c)
    PROVE  RegistryInv'
<1> USE RelayAssumption DEF TypeOK
<1>0. \A d \in Conns \ {c} : phase'[d] = phase[d] /\ cleanup'[d] = cleanup[d]
  BY OthersUnchanged
<1>1. CASE UNCHANGED agentVars
  <2>1. ~Register(c)
    BY <1>1 DEF agentVars, Register, RegistryInv, CleanupIffServing
  <2>2. CleanupIffServing'
    BY <1>0, <1>1, <2>1, LatePhases DEF agentVars, RegistryInv, CleanupIffServing
  <2>3. PoolsExact'
    BY <1>1 DEF agentVars, RegistryInv, PoolsExact
  <2>4. EmptyPoolIsPruned'
    <3>1. agents' = agents /\ entries' = entries /\ cleanup' = cleanup
      BY <1>1 DEF agentVars
    <3>2. EmptyPoolIsPruned BY DEF RegistryInv
    <3> QED BY ONLY <3>1, <3>2 DEF EmptyPoolIsPruned
  <2> QED BY <2>2, <2>3, <2>4 DEF RegistryInv
<1>2. CASE Register(c)
  <2>1. cleanup[c] = "none" BY <1>2 DEF Register, RegistryInv, CleanupIffServing
  <2>2. PoolsExact' BY <1>2, <2>1 DEF Register, RegistryInv, PoolsExact
  <2>3. EmptyPoolIsPruned'
    <3> SUFFICES ASSUME NEW i \in entries', agents'[i] = {}
                 PROVE  \E d \in Conns : IdOf[d] = i /\ cleanup'[d] = "prune"
      BY DEF EmptyPoolIsPruned
    <3>0. c \in agents'[IdOf[c]] BY <1>2 DEF Register
    <3>1. i # IdOf[c] /\ i \in entries /\ i \in Ids BY Zenon, <1>2, <3>0 DEF Register
    <3>2. agents[i] = {} BY <1>2, <3>1 DEF Register
    <3>3. PICK d \in Conns : IdOf[d] = i /\ cleanup[d] = "prune"
      BY <3>1, <3>2 DEF RegistryInv, EmptyPoolIsPruned
    <3> QED BY <1>2, <2>1, <3>3 DEF Register
  <2>4. CleanupIffServing' BY <1>2 DEF Register, Goto, RegistryInv, CleanupIffServing
  <2> QED BY <2>2, <2>3, <2>4 DEF RegistryInv
<1>3. CASE CleanupRemove(c)
  <2>1. IdOf[c] \in entries
    BY <1>3 DEF CleanupRemove, RegistryInv, PoolsExact
  <2>2. PoolsExact' BY <1>3, <2>1 DEF CleanupRemove, RegistryInv, PoolsExact
  <2>3. EmptyPoolIsPruned'
    BY <1>3, <2>1 DEF CleanupRemove, RegistryInv, EmptyPoolIsPruned
  <2>4. CleanupIffServing'
    BY <1>3 DEF CleanupRemove, RegistryInv, CleanupIffServing, handlerVars
  <2> QED BY <2>2, <2>3, <2>4 DEF RegistryInv
<1>4. CASE CleanupPrune(c)
  <2>2. PoolsExact' BY <1>4 DEF CleanupPrune, RegistryInv, PoolsExact
  <2>3. EmptyPoolIsPruned'
    BY <1>4 DEF CleanupPrune, RegistryInv, EmptyPoolIsPruned
  <2>4. CleanupIffServing'
    BY <1>4 DEF CleanupPrune, RegistryInv, CleanupIffServing, handlerVars
  <2> QED BY <2>2, <2>3, <2>4 DEF RegistryInv
<1> QED BY <1>1, <1>2, <1>3, <1>4, AgentMapWriters

(***************************************************************************)
(* The pending-challenge map.                                              *)
(***************************************************************************)

ChallengeInv == PendingOwned /\ TokensUnique

\* Entries stay with the handlers that wait, and tokens stay distinct.
LEMMA ChallengeConn ==
    ASSUME TypeOK, ChallengeInv, NEW c \in Conns, ConnStep(c)
    PROVE  ChallengeInv'
<1> USE RelayAssumption DEF TypeOK
<1>0. \A d \in Conns \ {c} : phase'[d] = phase[d] /\ token'[d] = token[d]
  BY OthersUnchanged
<1>1. CASE UNCHANGED pendingVars /\ ~AckFails(c) /\ ~AcmeDone(c) /\ ~AcmeWaitBroken(c)
           /\ ~PendingAlpnToken(c) /\ ~PendingAlpnInsert(c)
  <2>0. /\ phase'[c] \in Waiting <=> phase[c] \in Waiting
        /\ phase'[c] = "acme_insert" => phase[c] = "acme_insert"
    BY <1>1, LatePhases
  <2>1. \A d \in Conns : phase'[d] \in Waiting <=> phase[d] \in Waiting
    BY ONLY <1>0, <2>0
  <2>2. \A d \in Conns : phase'[d] = "acme_insert" => phase[d] = "acme_insert"
    BY ONLY <1>0, <2>0
  <2>3. PendingOwned'
    <3>1. pending' = pending /\ token' = token BY <1>1 DEF pendingVars
    <3>2. \A i \in Ids : pending[i].conn # NoConn => pending[i].conn \in Conns OBVIOUS
    <3> QED BY ONLY <2>1, <3>1, <3>2, ChallengeInv DEF ChallengeInv, PendingOwned
  <2>4. TokensUnique' BY <1>1, <2>1, <2>2 DEF pendingVars, ChallengeInv, TokensUnique
  <2> QED BY <2>3, <2>4 DEF ChallengeInv
<1>2. CASE PendingAlpnToken(c)
  <2>1. TokensUnique'
    BY <1>2 DEF PendingAlpnToken, Goto, Waiting, ChallengeInv, TokensUnique
  <2>2. PendingOwned'
    BY <1>2 DEF PendingAlpnToken, Goto, Waiting, ChallengeInv, PendingOwned
  <2> QED BY <2>1, <2>2 DEF ChallengeInv
<1>3. CASE PendingAlpnInsert(c)
  <2>1. TokensUnique'
    BY <1>3 DEF PendingAlpnInsert, Goto, Waiting, ChallengeInv, TokensUnique
  <2>2. PendingOwned'
    BY <1>3 DEF PendingAlpnInsert, Goto, Waiting, ChallengeInv, PendingOwned
  <2> QED BY <2>1, <2>2 DEF ChallengeInv
<1>4. CASE AckFails(c) \/ AcmeDone(c) \/ AcmeWaitBroken(c)
  <2>1. /\ PendingAlpnRemove(c) /\ UNCHANGED <<nextToken, token>>
        /\ phase'[c] \in {"ended", "register"}
    BY <1>4 DEF AckFails, AcmeDone, AcmeWaitBroken, Goto
  <2>2. TokensUnique' BY <1>0, <2>1 DEF Waiting, ChallengeInv, TokensUnique
  <2>3. ASSUME NEW i \in Ids, pending'[i].conn # NoConn
        PROVE  pending'[i] = pending[i] /\ pending[i].conn # c
    BY <2>1, <2>3 DEF PendingAlpnRemove, NoEntry, ChallengeInv, PendingOwned
  <2>4. PendingOwned' BY <1>0, <2>1, <2>3 DEF ChallengeInv, PendingOwned
  <2> QED BY <2>2, <2>4 DEF ChallengeInv
<1> QED BY <1>1, <1>2, <1>3, <1>4, PendingMapWriters

(***************************************************************************)
(* The authentication checks.                                              *)
(***************************************************************************)

AuthInv == AgentsAuthorized /\ RejectMeansUnauthorized /\ ChecksSoFar

\* Each step of the exchange adds the check it made to those before it.
LEMMA AuthConn ==
    ASSUME TypeOK, AuthInv, NEW c \in Conns, ConnStep(c)
    PROVE  AuthInv'
<1>0. /\ creds' = creds
      /\ \A d \in Conns \ {c} : phase'[d] = phase[d] /\ told'[d] = told[d]
  BY OthersUnchanged
<1> DEFINE Checked(d) ==
        /\ phase[d] \in PostAuth \cup {"serving"} => Authorized(creds[d])
        /\ told[d] = "reject" => ~Authorized(creds[d])
        /\ phase[d] \in {"h2_handshake", "auth", "txt"} => creds[d].handler # "deny"
        /\ phase[d] = "txt" =>
               creds[d].binds /\ creds[d].suffix /\ creds[d].handler = "source"
        /\ phase[d] = "reject" => ~Authorized(creds[d])
<1>1. Checked(c) BY DEF AuthInv, AgentsAuthorized, RejectMeansUnauthorized, ChecksSoFar
<1>2. Checked(c)'
  <2> USE <1>0, <1>1 DEF TypeOK, Goto, DropPermit, Abandon, Waiting, PostAuth,
          handlerVars, pendingVars, agentVars
  <2>1. ASSUME Reject(c), ~Authorized(creds[c]) PROVE Checked(c)'
    BY <2>1 DEF Reject, CloseConn
  <2>2. CASE HandshakeDone(c)
    <3>1. CASE creds[c].handler = "deny"
      BY <2>1, <2>2, <3>1 DEF HandshakeDone, Authorized
    <3>2. CASE creds[c].handler # "deny" BY <2>2, <3>2 DEF HandshakeDone
    <3> QED BY Zenon, <3>1, <3>2
  <2>3. CASE AuthExchange(c)
    <3>1. CASE ~(creds[c].binds /\ creds[c].suffix)
      BY <2>1, <2>3, <3>1 DEF AuthExchange, Authorized
    <3>2. CASE creds[c].binds /\ creds[c].suffix
      BY <2>3, <3>2 DEF AuthExchange, Authenticated, Authorized
    <3> QED BY Zenon, <3>1, <3>2
  <2>4. CASE TxtLookup(c)
    <3>1. CASE ~creds[c].txt
      BY Zenon, <2>1, <2>4, <3>1 DEF TxtLookup, Authorized
    <3>2. CASE creds[c].txt BY <2>4, <3>2 DEF TxtLookup, Authenticated, Authorized
    <3> QED BY Zenon, <2>4, <3>1, <3>2 DEF TxtLookup
  <2>5. CASE H2RejectEnds(c) BY <2>5 DEF H2RejectEnds
  <2>6. CASE AuthTimeout(c) BY <2>6 DEF AuthTimeout, CloseConn
  <2>7. CASE TryAdmit(c) \/ Refuse(c) \/ HandshakeFails(c) \/ H2HandshakeDone(c)
             \/ AuthFails(c) \/ KeyAuthFails(c) \/ KeyAuthRead(c)
    BY <2>7 DEF TryAdmit, Refuse, HandshakeFails, H2HandshakeDone, AuthFails,
      KeyAuthFails, KeyAuthRead
  <2>8. CASE PendingAlpnToken(c) \/ PendingAlpnInsert(c) \/ AckSent(c) \/ AckFails(c)
             \/ AcmeDone(c) \/ AcmeWaitBroken(c) \/ Register(c)
    <3>1. CASE PendingAlpnToken(c) \/ PendingAlpnInsert(c) \/ AckSent(c)
      BY Zenon, <3>1 DEF PendingAlpnToken, PendingAlpnInsert, AckSent
    <3>2. CASE AckFails(c) \/ AcmeDone(c)
      BY <3>2 DEF AckFails, AcmeDone
    <3>3. CASE AcmeWaitBroken(c) \/ Register(c)
      BY <3>3 DEF AcmeWaitBroken, Register
    <3> QED BY Zenon, <2>8, <3>1, <3>2, <3>3
  <2>9. CASE CleanupRemove(c) \/ CleanupPrune(c) \/ PeerSilent(c) \/ LinkLost(c)
             \/ KeepAliveFails(c) \/ DropConn(c)
    BY Zenon, <2>9
    DEF CleanupRemove, CleanupPrune, PeerSilent, LinkLost, KeepAliveFails, DropConn
  <2> QED BY Zenon, <2>2, <2>3, <2>4, <2>5, <2>6, <2>7, <2>8, <2>9 DEF ConnStep
<1> QED
  BY <1>0, <1>2 DEF AuthInv, AgentsAuthorized, RejectMeansUnauthorized, ChecksSoFar

(***************************************************************************)
(* The unauthenticated budget.                                             *)
(***************************************************************************)

\* A step takes a permit as it enters the exchange, returns one as it leaves,
\* and otherwise changes neither the permits nor who holds one.
LEMMA PermitSteps ==
    ASSUME TypeOK, NEW c \in Conns, ConnStep(c)
    PROVE  \/ /\ phase[c] \in PreAuth <=> phase'[c] \in PreAuth
              /\ permits' = permits
           \/ /\ phase[c] \notin PreAuth /\ phase'[c] \in PreAuth
              /\ permits[Proto[c]] > 0
              /\ permits' = [permits EXCEPT ![Proto[c]] = @ - 1]
           \/ /\ phase[c] \in PreAuth /\ phase'[c] \notin PreAuth
              /\ permits' = [permits EXCEPT ![Proto[c]] = @ + 1]
<1>0. phase \in [Conns -> Phases] /\ permits \in [Protos -> Nat] BY DEF TypeOK
<1> USE <1>0 DEF PreAuth, Goto
<1>1. CASE TryAdmit(c) \/ Refuse(c)
  BY <1>1 DEF TryAdmit, Refuse
<1>2. CASE HandshakeFails(c) \/ HandshakeDone(c) \/ H2HandshakeDone(c) \/ H2RejectEnds(c)
  BY <1>2 DEF DropPermit, Abandon, Reject,
     HandshakeFails, HandshakeDone, H2HandshakeDone, H2RejectEnds
<1>3. CASE AuthFails(c) \/ AuthTimeout(c)
  BY <1>3 DEF DropPermit, Abandon, AuthFails, AuthTimeout
<1>4. CASE AuthExchange(c) \/ TxtLookup(c)
  BY <1>4 DEF DropPermit, Abandon, Reject, Authenticated, AuthExchange, TxtLookup
<1>5. CASE KeyAuthFails(c) \/ KeyAuthRead(c) \/ PendingAlpnToken(c) \/ PendingAlpnInsert(c)
           \/ AckSent(c) \/ AckFails(c) \/ AcmeDone(c) \/ AcmeWaitBroken(c) \/ Register(c)
  <2>1. CASE KeyAuthFails(c) \/ KeyAuthRead(c) \/ Register(c)
    BY <2>1 DEF KeyAuthFails, KeyAuthRead, Register
  <2>2. CASE PendingAlpnToken(c) \/ PendingAlpnInsert(c) \/ AckSent(c)
    BY <2>2 DEF PendingAlpnToken, PendingAlpnInsert, AckSent
  <2>3. CASE AckFails(c) \/ AcmeDone(c) \/ AcmeWaitBroken(c)
    BY <2>3 DEF AckFails, AcmeDone, AcmeWaitBroken
  <2> QED BY Zenon, <1>5, <2>1, <2>2, <2>3
<1>6. CASE UNCHANGED <<phase, permits>>
  BY <1>6
<1>7. CleanupRemove(c) \/ CleanupPrune(c) \/ PeerSilent(c) \/ LinkLost(c)
      \/ KeepAliveFails(c) \/ DropConn(c) => UNCHANGED <<phase, permits>>
  BY DEF handlerVars, CleanupRemove, CleanupPrune, PeerSilent, LinkLost, KeepAliveFails, DropConn
<1> QED BY <1>1, <1>2, <1>3, <1>4, <1>5, <1>6, <1>7 DEF ConnStep

\* The budget is conserved: permits move with the connections that hold them.
LEMMA PermitsConn ==
    ASSUME TypeOK, PermitsConserved, NEW c \in Conns, ConnStep(c)
    PROVE  PermitsConserved'
<1> USE RelayAssumption
<1>0. \A d \in Conns \ {c} : phase'[d] = phase[d] BY OthersUnchanged
<1> SUFFICES ASSUME NEW p \in Protos
             PROVE  permits'[p] + Cardinality(Unauthenticated(p)') = MaxUnauthenticated
  BY DEF PermitsConserved
<1>1. /\ IsFiniteSet(Unauthenticated(p)) /\ Cardinality(Unauthenticated(p)) \in Nat
      /\ permits \in [Protos -> Nat]
      /\ permits[p] + Cardinality(Unauthenticated(p)) = MaxUnauthenticated
  BY FS_Subset, FS_CardinalityType DEF Unauthenticated, PermitsConserved, TypeOK
<1>2. CASE permits'[p] = permits[p] /\ Unauthenticated(p)' = Unauthenticated(p)
  BY <1>1, <1>2
<1>3. CASE /\ permits' = [permits EXCEPT ![Proto[c]] = @ - 1]
           /\ phase[c] \notin PreAuth /\ phase'[c] \in PreAuth /\ p = Proto[c]
  <2>1. c \notin Unauthenticated(p) /\ Unauthenticated(p)' = Unauthenticated(p) \cup {c}
    BY <1>0, <1>3 DEF Unauthenticated
  <2>2. Cardinality(Unauthenticated(p)') = Cardinality(Unauthenticated(p)) + 1
    BY Zenon, <1>1, <2>1, FS_AddElement
  <2> QED BY <1>1, <1>3, <2>2
<1>4. CASE /\ permits' = [permits EXCEPT ![Proto[c]] = @ + 1]
           /\ phase[c] \in PreAuth /\ phase'[c] \notin PreAuth /\ p = Proto[c]
  <2>1. c \in Unauthenticated(p) /\ Unauthenticated(p)' = Unauthenticated(p) \ {c}
    BY <1>0, <1>4 DEF Unauthenticated
  <2>2. Cardinality(Unauthenticated(p)') = Cardinality(Unauthenticated(p)) - 1
    BY Zenon, <1>1, <2>1, FS_RemoveElement
  <2> QED BY <1>1, <1>4, <2>2
<1>5. (Proto[c] # p \/ (phase[c] \in PreAuth <=> phase'[c] \in PreAuth))
          => Unauthenticated(p)' = Unauthenticated(p)
  BY <1>0 DEF Unauthenticated
<1>6. Proto[c] # p => permits'[p] = permits[p]
  BY <1>1, PermitSteps
<1> QED BY <1>2, <1>3, <1>4, <1>5, <1>6, PermitSteps

(***************************************************************************)
(* Routing.                                                                *)
(***************************************************************************)

\* A stream that was opened for a request keeps its owner while tasks move on.
LEMMA RoutingConn ==
    ASSUME TypeOK, RoutedToOwner, NEW c \in Conns, ConnStep(c)
    PROVE  RoutedToOwner'
<1>1. req' = req /\ \A d \in Conns \ {c} : phase'[d] = phase[d]
  BY OthersUnchanged
<1>2. /\ phase[c] = "serving" => phase'[c] = "serving"
      /\ phase[c] \in Waiting \cup {"register", "serving", "ended"} =>
            phase'[c] \in Waiting \cup {"register", "serving", "ended"}
  BY LatePhases
<1>3. ASSUME NEW r \in Requests, req'[r].st # "idle" PROVE HeldByOwner(r)'
  <2>1. HeldByOwner(r) BY <1>1, <1>3 DEF RoutedToOwner
  <2> QED BY ONLY <1>1, <1>2, <2>1 DEF HeldByOwner
<1> QED BY <1>3 DEF RoutedToOwner

\* A request step leaves the streams of the other requests where they are.
LEMMA RoutingOthers ==
    ASSUME RoutedToOwner, UNCHANGED phase, NEW r \in Requests,
           \A q \in Requests \ {r} : req'[q] = req[q],
           req'[r].st # "idle" => HeldByOwner(r)'
    PROVE  RoutedToOwner'
<1>1. ASSUME NEW q \in Requests \ {r}, req'[q].st # "idle" PROVE HeldByOwner(q)'
  <2>1. HeldByOwner(q) BY <1>1 DEF RoutedToOwner
  <2> QED BY <1>1, <2>1 DEF HeldByOwner
<1> QED BY <1>1 DEF RoutedToOwner

\* A request picks its connection from the pool or the entry of its own id.
LEMMA RoutingRequest ==
    ASSUME TypeOK, RoutedToOwner, RegistryInv, PendingOwned,
           NEW r \in Requests, RequestStep(r)
    PROVE  RoutedToOwner'
<1>0. UNCHANGED phase BY RequestFrame DEF handlerVars
<1>1. ASSUME NEW i \in Ids, NEW c \in Conns, HandlePublic(r, i, c) PROVE RoutedToOwner'
  <2>1. IdOf[c] = i /\ cleanup[c] = "await"
    BY <1>1 DEF HandlePublic, RegistryInv, PoolsExact
  <2>2. phase[c] = "serving"
    BY <2>1 DEF RegistryInv, CleanupIffServing
  <2>3. /\ req'[r] = [st |-> "opening", kind |-> "public", id |-> i, conn |-> c]
        /\ \A q \in Requests \ {r} : req'[q] = req[q]
    BY <1>1 DEF HandlePublic, TypeOK
  <2>4. HeldByOwner(r)'
    BY ONLY <1>0, <2>1, <2>2, <2>3, c \in Conns DEF HeldByOwner
  <2> QED BY ONLY <1>0, <2>3, <2>4, RoutedToOwner, r \in Requests, RoutingOthers
<1>2. ASSUME NEW i \in Ids, HandleAcme(r, i) PROVE RoutedToOwner'
  <2>1. /\ pending[i].conn \in Conns /\ IdOf[pending[i].conn] = i
        /\ phase[pending[i].conn] \in Waiting
    BY <1>2 DEF HandleAcme, PendingOwned, TypeOK
  <2>2. /\ req'[r] = [st |-> "opening", kind |-> "acme", id |-> i, conn |-> pending[i].conn]
        /\ \A q \in Requests \ {r} : req'[q] = req[q]
    BY <1>2 DEF HandleAcme, TypeOK
  <2>3. HeldByOwner(r)'
    BY ONLY <1>0, <2>1, <2>2 DEF HeldByOwner
  <2> QED BY ONLY <1>0, <2>2, <2>3, RoutedToOwner, r \in Requests, RoutingOthers
<1>3. CASE StreamOpened(r) \/ UserStalls(r) \/ UserReads(r)
  <2>1. /\ req[r].st # "idle"
        /\ req'[r].kind = req[r].kind /\ req'[r].id = req[r].id /\ req'[r].conn = req[r].conn
        /\ \A q \in Requests \ {r} : req'[q] = req[q]
    BY <1>3 DEF StreamOpened, UserStalls, UserReads, TypeOK
  <2>2. HeldByOwner(r) BY <2>1 DEF RoutedToOwner
  <2>3. HeldByOwner(r)' BY ONLY <1>0, <2>1, <2>2 DEF HeldByOwner
  <2> QED BY ONLY <1>0, <2>1, <2>3, RoutedToOwner, r \in Requests, RoutingOthers
<1>4. CASE OpenFails(r) \/ ProxyEnds(r)
  <2>1. req'[r].st = "idle" /\ \A q \in Requests \ {r} : req'[q] = req[q]
    BY <1>4 DEF OpenFails, ProxyEnds, IdleReq, TypeOK
  <2> QED BY ONLY <1>0, <2>1, RoutedToOwner, r \in Requests, RoutingOthers
<1> QED BY <1>1, <1>2, <1>3, <1>4 DEF RequestStep

(***************************************************************************)
(* The theorems.                                                           *)
(***************************************************************************)

\* The state the relay starts in: nobody connected, both maps empty.
LEMMA RelayInvInit == Init => RelayInv
<1> SUFFICES ASSUME Init PROVE RelayInv OBVIOUS
<1> USE RelayAssumption DEF Init
<1>1. TypeOK
  BY DEF TypeOK, Phases, Protos, NoEntry, IdleReq
<1>2. PermitsConserved
  <2>1. ASSUME NEW p \in Protos PROVE Unauthenticated(p) = {}
    BY DEF Unauthenticated, PreAuth
  <2>2. Cardinality({}) = 0 BY FS_EmptySet
  <2>3. ASSUME NEW p \in Protos
        PROVE  permits[p] + Cardinality(Unauthenticated(p)) = MaxUnauthenticated
    BY <2>1, <2>2
  <2> QED BY <2>3 DEF PermitsConserved
<1>3. AgentsAuthorized /\ RejectMeansUnauthorized /\ ChecksSoFar
  BY DEF AgentsAuthorized, RejectMeansUnauthorized, ChecksSoFar, PostAuth, Waiting
<1>4. PoolsExact /\ EmptyPoolIsPruned /\ CleanupIffServing
  BY DEF PoolsExact, EmptyPoolIsPruned, CleanupIffServing
<1>5. PendingOwned /\ TokensUnique
  BY DEF PendingOwned, TokensUnique, Waiting, NoEntry
<1>6. RoutedToOwner BY DEF RoutedToOwner, IdleReq
<1> QED BY <1>1, <1>2, <1>3, <1>4, <1>5, <1>6 DEF RelayInv

\* Every step of every task keeps the inductive invariant.
LEMMA RelayInvStep == RelayInv /\ [Next]_vars => RelayInv'
<1> SUFFICES ASSUME RelayInv, [Next]_vars PROVE RelayInv' OBVIOUS
<1> USE DEF RelayInv
<1>1. TypeOK' BY TypeOKStep
<1>2. ASSUME NEW c \in Conns, ConnStep(c) PROVE RelayInv'
  <2>1. RegistryInv' BY <1>2, RegistryConn DEF RegistryInv
  <2>2. ChallengeInv' BY <1>2, ChallengeConn DEF ChallengeInv
  <2>3. AuthInv' BY <1>2, AuthConn DEF AuthInv
  <2>4. PermitsConserved' BY <1>2, PermitsConn
  <2>5. RoutedToOwner' BY <1>2, RoutingConn
  <2> QED BY <1>1, <2>1, <2>2, <2>3, <2>4, <2>5 DEF RegistryInv, ChallengeInv, AuthInv
<1>3. ASSUME UNCHANGED <<handlerVars, pendingVars, agentVars>>, RoutedToOwner'
      PROVE  RelayInv'
  <2> USE <1>3 DEF handlerVars, pendingVars, agentVars
  <2>1. PermitsConserved' BY DEF PermitsConserved, Unauthenticated
  <2>2. (AgentsAuthorized /\ RejectMeansUnauthorized /\ ChecksSoFar)'
    BY DEF AgentsAuthorized, RejectMeansUnauthorized, ChecksSoFar
  <2>3. (PoolsExact /\ EmptyPoolIsPruned /\ CleanupIffServing)'
    BY DEF PoolsExact, EmptyPoolIsPruned, CleanupIffServing
  <2>4. (PendingOwned /\ TokensUnique)' BY DEF PendingOwned, TokensUnique
  <2> QED BY <1>1, <2>1, <2>2, <2>3, <2>4
<1>4. ASSUME NEW r \in Requests, RequestStep(r) PROVE RelayInv'
  BY <1>3, <1>4, RequestFrame, RoutingRequest DEF RegistryInv
<1>5. CASE UNCHANGED vars
  <2>1. RoutedToOwner' BY <1>5 DEF vars, handlerVars, RoutedToOwner, HeldByOwner
  <2> QED BY <1>3, <1>5, <2>1 DEF vars
<1> QED BY <1>2, <1>4, <1>5 DEF Next

\* The inductive invariant holds in every state of the relay.
THEOREM RelayInvariant == Spec => []RelayInv
  BY RelayInvInit, RelayInvStep, PTL DEF Spec

\* The relay's state keeps its shape.
THEOREM TypeCorrect == Spec => []TypeOK
<1>1. RelayInv => TypeOK BY DEF RelayInv
<1> QED BY <1>1, RelayInvariant, PTL

\* Each listener's permits and unauthenticated connections add up to its budget.
THEOREM BudgetConserved == Spec => []PermitsConserved
<1>1. RelayInv => PermitsConserved BY DEF RelayInv
<1> QED BY <1>1, RelayInvariant, PTL

\* Each pool holds exactly the agents whose cleanup has not run, and an id
\* without agents keeps no entry beyond the cleanup that is about to prune it.
THEOREM RegistryExact == Spec => [](PoolsExact /\ EmptyPoolIsPruned)
<1>1. RelayInv => PoolsExact /\ EmptyPoolIsPruned BY DEF RelayInv
<1> QED BY <1>1, RelayInvariant, PTL

\* Only agents that satisfied every check get past the exchange.
THEOREM Authentication == Spec => []AgentsAuthorized
<1>1. RelayInv => AgentsAuthorized BY DEF RelayInv
<1> QED BY <1>1, RelayInvariant, PTL

\* Only agents that failed a check are told that they are unauthorized.
THEOREM RejectionIsDeserved == Spec => []RejectMeansUnauthorized
<1>1. RelayInv => RejectMeansUnauthorized BY DEF RelayInv
<1> QED BY <1>1, RelayInvariant, PTL

\* Public requests and probes reach only connections of the id they name.
THEOREM Routing == Spec => []RoutedToOwner
<1>1. RelayInv => RoutedToOwner BY DEF RelayInv
<1> QED BY <1>1, RelayInvariant, PTL

\* An entry of the pending map belongs to a handler that is in its ACME wait.
THEOREM ChallengesPending == Spec => []PendingOwned
<1>1. RelayInv => PendingOwned BY DEF RelayInv
<1> QED BY <1>1, RelayInvariant, PTL

\* A pending entry is removed by the handler it belongs to and by no other,
\* because tokens of handlers in the wait differ.
THEOREM RemovalByOwner == Spec => EntryRemovedByOwner
<1> DEFINE ByOwner ==
        \A i \in Ids : pending[i].conn # NoConn /\ pending'[i].conn = NoConn =>
            LET c == pending[i].conn IN
            phase[c] \in Waiting /\ phase'[c] \notin Waiting
<1>1. RelayInv /\ [Next]_vars => [ByOwner]_vars
  <2> SUFFICES ASSUME RelayInv, Next, NEW i \in Ids,
                      pending[i].conn # NoConn, pending'[i].conn = NoConn
               PROVE  /\ phase[pending[i].conn] \in Waiting
                      /\ phase'[pending[i].conn] \notin Waiting
    OBVIOUS
  <2>0. TypeOK /\ PendingOwned /\ TokensUnique
    BY Zenon DEF RelayInv, ChallengeInv
  <2>1. pending' # pending OBVIOUS
  <2>2. PICK c \in Conns : ConnStep(c)
    BY Zenon, <2>1, RequestFrame DEF Next, pendingVars
  <2>3. ~PendingAlpnToken(c) /\ ~PendingAlpnInsert(c)
    <3>1. ~PendingAlpnToken(c) BY <2>1 DEF PendingAlpnToken
    <3>2. c # NoConn BY RelayAssumption
    <3>3. PendingAlpnInsert(c) => pending'[i].conn \in {c, pending[i].conn}
      BY <2>0 DEF PendingAlpnInsert, TypeOK
    <3> QED BY <3>1, <3>2, <3>3
  <2>4. AckFails(c) \/ AcmeDone(c) \/ AcmeWaitBroken(c)
    BY Zenon, <2>0, <2>1, <2>2, <2>3, PendingMapWriters DEF pendingVars
  <2>5. PendingAlpnRemove(c) /\ phase[c] \in Waiting
    BY Zenon, <2>4 DEF AckFails, AcmeDone, AcmeWaitBroken, Waiting
  <2>6. phase'[c] \in {"ended", "register"}
    BY <2>0, <2>4 DEF AckFails, AcmeDone, AcmeWaitBroken, Goto, TypeOK
  <2>7. i = IdOf[c] /\ pending[i].token = token[c]
    BY <2>0, <2>5 DEF PendingAlpnRemove, TypeOK
  <2>8. pending[i].conn = c
    <3> DEFINE d == pending[i].conn
    <3>1. d \in Conns BY <2>0 DEF TypeOK
    <3>2. phase[d] \in Waiting /\ token[d] = token[c]
      BY Zenon, <2>0, <2>7 DEF PendingOwned
    <3> HIDE DEF d
    <3> QED BY Zenon, <2>0, <2>5, <3>1, <3>2 DEF TokensUnique, d
  <2> QED BY <2>5, <2>6, <2>8 DEF Waiting
<1> QED BY <1>1, RelayInvariant, PTL DEF Spec, EntryRemovedByOwner

=============================================================================
