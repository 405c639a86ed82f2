-------------------------------- MODULE Relay --------------------------------
(***************************************************************************)
(* The relay's side of an agent connection, for both transports: admission *)
(* against the unauthenticated budget, the authentication exchange, the    *)
(* key_auth step, the ACME wait with its entry in the pending-challenge    *)
(* map, registration in the agent map, and the cleanup task that           *)
(* unregisters the agent once its connection is gone.  Public requests and *)
(* ACME probes pick connections from the two maps.                         *)
(*                                                                         *)
(* Every connection has its own handler task; the maps are shared, and an  *)
(* action is one map operation or one await of one task.                   *)
(***************************************************************************)
EXTENDS Naturals, FiniteSets

CONSTANTS
    Conns,               \* connections agents will open, in any order
    Ids,                 \* client ids (the first label of a domain)
    Proto,               \* the transport of each connection
    IdOf,                \* the client id each connection announces
    Credentials,         \* what agents may present, see Credential
    Requests,            \* slots for connections on the public port
    MaxUnauthenticated,  \* MAX_UNAUTHENTICATED_CONNS of each listener
    NoConn               \* no connection

Protos == {"quic", "h2"}

\* handler: the auth handler's answer (deny, allow, or allow with a deployment
\* source to be confirmed by DNS); binds: the signature recovers the id in the
\* domain; suffix: the domain is allowed; txt: the TXT records authorize it.
Credential ==
    [handler: {"deny", "allow", "source"}, binds: BOOLEAN,
     suffix: BOOLEAN, txt: BOOLEAN]

ASSUME RelayAssumption ==
    /\ Proto \in [Conns -> Protos]
    /\ IdOf \in [Conns -> Ids]
    /\ Credentials \subseteq Credential
    /\ MaxUnauthenticated \in Nat \ {0}
    /\ NoConn \notin Conns
    /\ IsFiniteSet(Conns)

VARIABLES
    phase,      \* where each connection's handler task is
    link,       \* each transport connection as the relay sees it
    creds,      \* what each connection presents
    told,       \* the close reason the relay sent
    permits,    \* free permits of each listener's semaphore
    nextToken,  \* PENDING_ALPN_TOKEN
    token,      \* the token each handler drew
    pending,    \* PendingAlpnMap
    agents,     \* AgentMap: the agents in each id's pool
    entries,    \* the ids AgentMap has an entry for
    cleanup,    \* the task register() spawned for each connection
    req         \* connections on the public port

handlerVars == <<phase, link, creds, told, permits>>
pendingVars == <<nextToken, token, pending>>
agentVars == <<agents, entries, cleanup>>
vars == <<handlerVars, pendingVars, agentVars, req>>

\* Phases in which a handler still owns its OwnedSemaphorePermit.
PreAuth == {"handshake", "h2_handshake", "auth", "txt", "reject"}
\* Phases in which its entry may be in the pending-challenge map.
Waiting == {"acme_ack", "acme_wait"}
PostAuth == {"key_auth", "acme_token", "acme_insert", "register"} \cup Waiting
Phases == {"new", "refused", "serving", "ended"} \cup PreAuth \cup PostAuth

NoEntry == [conn |-> NoConn, token |-> 0]
IdleReq == [st |-> "idle", kind |-> "public", id |-> NoConn, conn |-> NoConn]

Init ==
    /\ phase = [c \in Conns |-> "new"]
    /\ link = [c \in Conns |-> "down"]
    /\ creds \in [Conns -> Credentials]
    /\ told = [c \in Conns |-> "nothing"]
    /\ permits = [p \in Protos |-> MaxUnauthenticated]
    /\ nextToken = 0
    /\ token = [c \in Conns |-> 0]
    /\ pending = [i \in Ids |-> NoEntry]
    /\ agents = [i \in Ids |-> {}]
    /\ entries = {}
    /\ cleanup = [c \in Conns |-> "none"]
    /\ req = [r \in Requests |-> IdleReq]

-----------------------------------------------------------------------------
(* Admission and the transport handshakes.                                 *)

Goto(c, p) == phase' = [phase EXCEPT ![c] = p]

\* The permit goes back when the handler drops it, returning or at `drop(permit)`.
DropPermit(c) == permits' = [permits EXCEPT ![Proto[c]] = @ + 1]

\* The handler returns None before it authenticated the peer.
Abandon(c) == Goto(c, "ended") /\ DropPermit(c)

TryAdmit(c) ==
    /\ phase[c] = "new"
    /\ permits[Proto[c]] > 0
    /\ permits' = [permits EXCEPT ![Proto[c]] = @ - 1]
    /\ Goto(c, "handshake")
    /\ link' = [link EXCEPT ![c] = "up"]
    /\ UNCHANGED <<creds, told, pendingVars, agentVars, req>>

Refuse(c) ==
    /\ phase[c] = "new"
    /\ permits[Proto[c]] = 0
    /\ Goto(c, "refused")
    /\ UNCHANGED <<link, creds, told, permits, pendingVars, agentVars, req>>

\* conn.close(why): without effect on a connection that is already gone.
CloseConn(c, why) ==
    /\ link' = [link EXCEPT ![c] = "down"]
    /\ told' = [told EXCEPT ![c] = IF link[c] = "down" THEN @ ELSE why]

\* A QUIC rejection is the close code; an H2 one is an exchange of its own,
\* during which the handler keeps its permit.
Reject(c) ==
    IF Proto[c] = "quic"
    THEN /\ Abandon(c)
         /\ CloseConn(c, "reject")
    ELSE /\ Goto(c, "reject")
         /\ UNCHANGED <<link, told, permits>>

\* Handshake error, timeout, or a peer without a certificate.
HandshakeFails(c) ==
    /\ phase[c] \in {"handshake", "h2_handshake"}
    /\ Abandon(c)
    /\ UNCHANGED <<link, creds, told, pendingVars, agentVars, req>>

HandshakeDone(c) ==
    /\ phase[c] = "handshake"
    /\ link[c] = "up"
    /\ \/ /\ creds[c].handler = "deny"
          /\ Reject(c)
       \/ /\ creds[c].handler # "deny"
          /\ Goto(c, IF Proto[c] = "quic" THEN "auth" ELSE "h2_handshake")
          /\ UNCHANGED <<link, told, permits>>
    /\ UNCHANGED <<creds, pendingVars, agentVars, req>>

H2HandshakeDone(c) ==
    /\ phase[c] = "h2_handshake"
    /\ link[c] = "up"
    /\ Goto(c, "auth")
    /\ UNCHANGED <<link, creds, told, permits, pendingVars, agentVars, req>>

\* The rejection was answered, or its budget ran out before it got through.
H2RejectEnds(c) ==
    /\ phase[c] = "reject"
    /\ Abandon(c)
    /\ \/ /\ link[c] = "up"
          /\ told' = [told EXCEPT ![c] = "reject"]
       \/ UNCHANGED told
    /\ UNCHANGED <<link, creds, pendingVars, agentVars, req>>

-----------------------------------------------------------------------------
(* The authentication exchange, under AUTH_EXCHANGE_TIMEOUT.               *)

\* Mutant: the permit is not dropped, and moves into the serving task.
AuthenticatedKeepsPermit(c) ==
    /\ Goto(c, "key_auth")
    /\ UNCHANGED <<link, told, permits>>

\* `drop(permit)`: authenticated, the connection leaves the budget.
Authenticated(c) ==
    /\ Goto(c, "key_auth")
    /\ DropPermit(c)
    /\ UNCHANGED <<link, told>>

\* A read fails, the domain is not UTF-8, or the TXT lookup errs: no rejection.
AuthFails(c) ==
    /\ phase[c] \in {"auth", "txt"}
    /\ Abandon(c)
    /\ UNCHANGED <<link, creds, told, pendingVars, agentVars, req>>

\* Mutant: a timeout is closed with the code of a rejection.
AuthTimeoutRejects(c) ==
    /\ phase[c] \in {"auth", "txt"}
    /\ Abandon(c)
    /\ IF Proto[c] = "quic"
       THEN CloseConn(c, "reject")
       ELSE UNCHANGED <<link, told>>
    /\ UNCHANGED <<creds, pendingVars, agentVars, req>>

\* Mutant: the timeout does not cover the TXT lookup.
AuthTimeoutSkipsTxt(c) ==
    /\ phase[c] = "auth"
    /\ Abandon(c)
    /\ IF Proto[c] = "quic"
       THEN CloseConn(c, "timeout")
       ELSE UNCHANGED <<link, told>>
    /\ UNCHANGED <<creds, pendingVars, agentVars, req>>

AuthTimeout(c) ==
    /\ phase[c] \in {"auth", "txt"}
    /\ Abandon(c)
    /\ IF Proto[c] = "quic"
       THEN CloseConn(c, "timeout")
       ELSE UNCHANGED <<link, told>>
    /\ UNCHANGED <<creds, pendingVars, agentVars, req>>

\* Domain and signature have arrived: identity, then suffix, then TXT if asked.
AuthExchange(c) ==
    /\ phase[c] = "auth"
    /\ link[c] = "up"
    /\ \/ /\ ~(creds[c].binds /\ creds[c].suffix)
          /\ Reject(c)
       \/ /\ creds[c].binds /\ creds[c].suffix
          /\ creds[c].handler = "source"
          /\ Goto(c, "txt")
          /\ UNCHANGED <<link, told, permits>>
       \/ /\ creds[c].binds /\ creds[c].suffix
          /\ creds[c].handler # "source"
          /\ Authenticated(c)
    /\ UNCHANGED <<creds, pendingVars, agentVars, req>>

\* Mutant: an answer of any kind authorizes.
TxtLookupAccepts(c) ==
    /\ phase[c] = "txt"
    /\ Authenticated(c)
    /\ UNCHANGED <<creds, pendingVars, agentVars, req>>

\* The resolver answered; the peer's link plays no part in it.
TxtLookup(c) ==
    /\ phase[c] = "txt"
    /\ IF creds[c].txt THEN Authenticated(c) ELSE Reject(c)
    /\ UNCHANGED <<creds, pendingVars, agentVars, req>>

-----------------------------------------------------------------------------
(* key_auth and the ACME wait.                                             *)

\* The read failed or KEY_AUTH_TIMEOUT passed.
KeyAuthFails(c) ==
    /\ phase[c] = "key_auth"
    /\ Goto(c, "ended")
    /\ UNCHANGED <<link, creds, told, permits, pendingVars, agentVars, req>>

\* Empty means the agent's certificate is cached; otherwise a challenge runs.
KeyAuthRead(c) ==
    /\ phase[c] = "key_auth"
    /\ link[c] = "up"
    /\ Goto(c, "register") \/ Goto(c, "acme_token")
    /\ UNCHANGED <<link, creds, told, permits, pendingVars, agentVars, req>>

\* pending_alpn_insert draws its token and inserts in two atomic operations.
PendingAlpnToken(c) ==
    /\ phase[c] = "acme_token"
    /\ Goto(c, "acme_insert")
    /\ token' = [token EXCEPT ![c] = nextToken]
    /\ nextToken' = nextToken + 1
    /\ UNCHANGED <<link, creds, told, permits, pending, agentVars, req>>

PendingAlpnInsert(c) ==
    /\ phase[c] = "acme_insert"
    /\ Goto(c, "acme_ack")
    /\ pending' = [pending EXCEPT ![IdOf[c]] = [conn |-> c, token |-> token[c]]]
    /\ UNCHANGED <<link, creds, told, permits, nextToken, token, agentVars, req>>

\* Mutant: a plain remove by id.
PendingAlpnRemoveAny(c) == pending' = [pending EXCEPT ![IdOf[c]] = NoEntry]

\* remove_if: only while the entry is still the one the token identifies.
PendingAlpnRemove(c) ==
    pending' = [pending EXCEPT ![IdOf[c]] =
                    IF @.conn # NoConn /\ @.token = token[c] THEN NoEntry ELSE @]

AckSent(c) ==
    /\ phase[c] = "acme_ack"
    /\ link[c] # "down"
    /\ Goto(c, "acme_wait")
    /\ UNCHANGED <<link, creds, told, permits, pendingVars, agentVars, req>>

\* Mutant: the early return forgets the entry.
AckFailsKeepsEntry(c) ==
    /\ phase[c] = "acme_ack"
    /\ Goto(c, "ended")
    /\ UNCHANGED <<link, creds, told, permits, pendingVars, agentVars, req>>

AckFails(c) ==
    /\ phase[c] = "acme_ack"
    /\ PendingAlpnRemove(c)
    /\ Goto(c, "ended")
    /\ UNCHANGED <<link, creds, told, permits, nextToken, token, agentVars, req>>

\* The client reported done, or closed the stream: both end the wait alike.
AcmeDone(c) ==
    /\ phase[c] = "acme_wait"
    /\ link[c] = "up"
    /\ PendingAlpnRemove(c)
    /\ Goto(c, "register")
    /\ UNCHANGED <<link, creds, told, permits, nextToken, token, agentVars, req>>

\* The wait has no deadline; the connection failing under it is its only other end.
AcmeWaitBroken(c) ==
    /\ phase[c] = "acme_wait"
    /\ link[c] = "down"
    /\ PendingAlpnRemove(c)
    /\ Goto(c, "register")
    /\ UNCHANGED <<link, creds, told, permits, nextToken, token, agentVars, req>>

-----------------------------------------------------------------------------
(* Registration and the cleanup task it spawns.                            *)

\* entry().or_default().push() under the shard lock, then spawn the cleanup.
Register(c) ==
    /\ phase[c] = "register"
    /\ Goto(c, "serving")
    /\ agents' = [agents EXCEPT ![IdOf[c]] = @ \cup {c}]
    /\ entries' = entries \cup {IdOf[c]}
    /\ cleanup' = [cleanup EXCEPT ![c] = "await"]
    /\ UNCHANGED <<link, creds, told, permits, pendingVars, req>>

\* Mutant: the cleanup clears the pool instead of removing its own uid.
CleanupClearsPool(c) ==
    /\ cleanup[c] = "await"
    /\ link[c] = "down"
    /\ agents' = [agents EXCEPT ![IdOf[c]] = {}]
    /\ cleanup' = [cleanup EXCEPT ![c] = "prune"]
    /\ UNCHANGED <<handlerVars, pendingVars, entries, req>>

\* `done` resolved: get_mut and remove by uid.
CleanupRemove(c) ==
    /\ cleanup[c] = "await"
    /\ link[c] = "down"
    /\ agents' = [agents EXCEPT ![IdOf[c]] =
                      IF IdOf[c] \in entries THEN @ \ {c} ELSE @]
    /\ cleanup' = [cleanup EXCEPT ![c] = "prune"]
    /\ UNCHANGED <<handlerVars, pendingVars, entries, req>>

\* remove_if(is_empty), a second operation on the map.
CleanupPrune(c) ==
    /\ cleanup[c] = "prune"
    /\ entries' = IF agents[IdOf[c]] = {} THEN entries \ {IdOf[c]} ELSE entries
    /\ cleanup' = [cleanup EXCEPT ![c] = "done"]
    /\ UNCHANGED <<handlerVars, pendingVars, agents, req>>

-----------------------------------------------------------------------------
(* The transport underneath.                                               *)

\* The peer stops answering; the socket stays open.
PeerSilent(c) ==
    /\ link[c] = "up"
    /\ link' = [link EXCEPT ![c] = "silent"]
    /\ UNCHANGED <<phase, creds, told, permits, pendingVars, agentVars, req>>

\* A reset, a close by the peer, or a failed window raise.
LinkLost(c) ==
    /\ link[c] = "up"
    /\ link' = [link EXCEPT ![c] = "down"]
    /\ UNCHANGED <<phase, creds, told, permits, pendingVars, agentVars, req>>

\* Mutant: no PING supervisor on H2.
KeepAliveQuicOnly(c) ==
    /\ link[c] = "silent"
    /\ Proto[c] = "quic"
    /\ link' = [link EXCEPT ![c] = "down"]
    /\ UNCHANGED <<phase, creds, told, permits, pendingVars, agentVars, req>>

\* A silent peer fails QUIC's idle timeout, or the PINGs of the H2 supervisor,
\* which runs only once the connection is authenticated.
KeepAliveFails(c) ==
    /\ link[c] = "silent"
    /\ Proto[c] = "quic" \/ phase[c] \notin PreAuth
    /\ link' = [link EXCEPT ![c] = "down"]
    /\ UNCHANGED <<phase, creds, told, permits, pendingVars, agentVars, req>>

\* The streams of the public port that were opened, or are being opened, on c.
Users(c) == {r \in Requests : req[r].st # "idle" /\ req[r].conn = c}

\* A handler that returned None aborted the H2 driver, or dropped its handle of
\* the QUIC connection, which closes once no stream holds another.
DropConn(c) ==
    /\ phase[c] = "ended"
    /\ link[c] # "down"
    /\ Proto[c] = "quic" => Users(c) = {}
    /\ link' = [link EXCEPT ![c] = "down"]
    /\ UNCHANGED <<phase, creds, told, permits, pendingVars, agentVars, req>>

-----------------------------------------------------------------------------
(* The public port.                                                        *)

\* handle_public clones an agent out of the pool under the shard lock.
HandlePublic(r, i, c) ==
    /\ req[r].st = "idle"
    /\ i \in entries
    /\ c \in agents[i]
    /\ req' = [req EXCEPT ![r] = [st |-> "opening", kind |-> "public",
                                  id |-> i, conn |-> c]]
    /\ UNCHANGED <<handlerVars, pendingVars, agentVars>>

\* Mutant: a probe is handed to whatever connection waits for a challenge.
HandleAcmeAnyId(r, i) ==
    /\ req[r].st = "idle"
    /\ \E j \in Ids :
        /\ pending[j].conn # NoConn
        /\ req' = [req EXCEPT ![r] = [st |-> "opening", kind |-> "acme",
                                      id |-> i, conn |-> pending[j].conn]]
    /\ UNCHANGED <<handlerVars, pendingVars, agentVars>>

\* handle_acme clones the connection registered for the challenge.
HandleAcme(r, i) ==
    /\ req[r].st = "idle"
    /\ pending[i].conn # NoConn
    /\ req' = [req EXCEPT ![r] = [st |-> "opening", kind |-> "acme",
                                  id |-> i, conn |-> pending[i].conn]]
    /\ UNCHANGED <<handlerVars, pendingVars, agentVars>>

\* open_bi resolves locally, whether or not the peer is there; an H2 stream is
\* open once the agent has answered the request.
StreamOpened(r) ==
    /\ req[r].st = "opening"
    /\ IF Proto[req[r].conn] = "quic"
       THEN link[req[r].conn] # "down"
       ELSE link[req[r].conn] = "up"
    /\ req' = [req EXCEPT ![r].st = "proxying"]
    /\ UNCHANGED <<handlerVars, pendingVars, agentVars>>

\* The open failed, or TUNNEL_OPEN_TIMEOUT passed.
OpenFails(r) ==
    /\ req[r].st = "opening"
    /\ req' = [req EXCEPT ![r] = IdleReq]
    /\ UNCHANGED <<handlerVars, pendingVars, agentVars>>

\* The user stops reading: with its buffer full, copy_bidirectional waits for the
\* user alone, and does not look at the tunnel.
UserStalls(r) ==
    /\ req[r].st = "proxying"
    /\ req' = [req EXCEPT ![r].st = "stalled"]
    /\ UNCHANGED <<handlerVars, pendingVars, agentVars>>

UserReads(r) ==
    /\ req[r].st = "stalled"
    /\ req' = [req EXCEPT ![r].st = "proxying"]
    /\ UNCHANGED <<handlerVars, pendingVars, agentVars>>

\* copy_bidirectional ended: an end closed, or the tunnel failed.
ProxyEnds(r) ==
    /\ req[r].st \in {"proxying", "stalled"}
    /\ req' = [req EXCEPT ![r] = IdleReq]
    /\ UNCHANGED <<handlerVars, pendingVars, agentVars>>

-----------------------------------------------------------------------------

ConnStep(c) ==
    \/ TryAdmit(c) \/ Refuse(c)
    \/ HandshakeFails(c) \/ HandshakeDone(c)
    \/ H2HandshakeDone(c) \/ H2RejectEnds(c)
    \/ AuthFails(c) \/ AuthTimeout(c) \/ AuthExchange(c) \/ TxtLookup(c)
    \/ KeyAuthFails(c) \/ KeyAuthRead(c)
    \/ PendingAlpnToken(c) \/ PendingAlpnInsert(c)
    \/ AckSent(c) \/ AckFails(c) \/ AcmeDone(c) \/ AcmeWaitBroken(c)
    \/ Register(c) \/ CleanupRemove(c) \/ CleanupPrune(c)
    \/ PeerSilent(c) \/ LinkLost(c) \/ KeepAliveFails(c) \/ DropConn(c)

RequestStep(r) ==
    \/ \E i \in Ids : HandleAcme(r, i) \/ \E c \in Conns : HandlePublic(r, i, c)
    \/ StreamOpened(r) \/ OpenFails(r)
    \/ UserStalls(r) \/ UserReads(r) \/ ProxyEnds(r)

Next == (\E c \in Conns : ConnStep(c)) \/ (\E r \in Requests : RequestStep(r))

Spec == Init /\ [][Next]_vars

\* What the code's deadlines and tokio's scheduling guarantee.  The client's
\* own answers, and a peer going away, are never assumed.  The handshakes of H2
\* have deadlines; that of QUIC ends for certain only when its connection does.
\* A copier whose tunnel failed sees it if its user reads again and again.
Fairness ==
    /\ \A c \in Conns :
        /\ WF_vars((Proto[c] = "h2" \/ link[c] = "down") /\ HandshakeFails(c))
        /\ WF_vars(H2RejectEnds(c))
        /\ WF_vars(AuthTimeout(c))
        /\ WF_vars(KeyAuthFails(c))
        /\ WF_vars(PendingAlpnToken(c) \/ PendingAlpnInsert(c))
        /\ WF_vars(AckSent(c) \/ AckFails(c))
        /\ WF_vars(AcmeWaitBroken(c))
        /\ WF_vars(Register(c) \/ CleanupRemove(c) \/ CleanupPrune(c))
        /\ WF_vars(KeepAliveFails(c))
        /\ WF_vars(DropConn(c))
    /\ \A r \in Requests :
        /\ WF_vars(OpenFails(r))
        /\ SF_vars(req[r].st = "proxying" /\ link[req[r].conn] = "down" /\ ProxyEnds(r))

FairSpec == Spec /\ Fairness

-----------------------------------------------------------------------------
(* Properties.                                                             *)

TypeOK ==
    /\ phase \in [Conns -> Phases]
    /\ link \in [Conns -> {"up", "silent", "down"}]
    /\ creds \in [Conns -> Credential]
    /\ told \in [Conns -> {"nothing", "reject", "timeout"}]
    /\ permits \in [Protos -> Nat]
    /\ nextToken \in Nat
    /\ token \in [Conns -> Nat]
    /\ pending \in [Ids -> [conn: Conns \cup {NoConn}, token: Nat]]
    /\ agents \in [Ids -> SUBSET Conns]
    /\ entries \in SUBSET Ids
    /\ cleanup \in [Conns -> {"none", "await", "prune", "done"}]
    /\ req \in [Requests -> [st: {"idle", "opening", "proxying", "stalled"},
                             kind: {"public", "acme"},
                             id: Ids \cup {NoConn}, conn: Conns \cup {NoConn}]]

\* The connections counted against a listener's budget.
Unauthenticated(p) == {c \in Conns : Proto[c] = p /\ phase[c] \in PreAuth}

\* Free permits and connections not yet authenticated add up to the budget of
\* each listener: every exit of a handler, and authentication, gives exactly
\* one permit back, and nothing past authentication holds one.
PermitsConserved ==
    \A p \in Protos :
        permits[p] + Cardinality(Unauthenticated(p)) = MaxUnauthenticated

Authorized(cr) ==
    /\ cr.handler # "deny"
    /\ cr.binds /\ cr.suffix
    /\ cr.handler = "source" => cr.txt

\* A handler past the exchange, and so every agent in the map, satisfied all
\* checks: the handler's, the signature's, the suffix list's and DNS's.
AgentsAuthorized ==
    \A c \in Conns :
        phase[c] \in PostAuth \cup {"serving"} => Authorized(creds[c])

\* The relay reports "unauthorized", which costs the agent a maximum backoff,
\* only to an agent that is: never for a timeout, an I/O or a DNS failure.
RejectMeansUnauthorized ==
    \A c \in Conns : told[c] = "reject" => ~Authorized(creds[c])

\* A pool holds exactly the agents whose cleanup has not run: a registration
\* racing the removal of the id's last agent is not lost, and a cleanup takes
\* out its own agent only.
PoolsExact ==
    \A i \in Ids :
        /\ agents[i] = {c \in Conns : IdOf[c] = i /\ cleanup[c] = "await"}
        /\ agents[i] # {} => i \in entries

\* No id keeps an empty pool: an empty entry has a cleanup about to prune it.
EmptyPoolIsPruned ==
    \A i \in entries :
        agents[i] = {} => \E c \in Conns : IdOf[c] = i /\ cleanup[c] = "prune"

\* A pending entry belongs to a handler that is in its ACME wait, for that id,
\* with that token: challenges are never proxied to a connection that is done.
PendingOwned ==
    \A i \in Ids : pending[i].conn # NoConn =>
        LET c == pending[i].conn IN
        /\ IdOf[c] = i
        /\ phase[c] \in Waiting
        /\ pending[i].token = token[c]

\* The stream of request r goes to a connection of r's own id.
HeldByOwner(r) ==
    LET c == req[r].conn IN
    /\ c \in Conns
    /\ IdOf[c] = req[r].id
    /\ req[r].kind = "public" => phase[c] = "serving"
    /\ req[r].kind = "acme" =>
           phase[c] \in Waiting \cup {"register", "serving", "ended"}

\* A stream carries a request only to a connection of the id it asked for: a
\* public one to an agent that completed the exchange, an ACME probe to one
\* that entered the challenge wait.
RoutedToOwner == \A r \in Requests : req[r].st # "idle" => HeldByOwner(r)

\* Handlers that drew a token hold different ones, all already spent.
TokensUnique ==
    \A c \in Conns : phase[c] \in Waiting \cup {"acme_insert"} =>
        /\ token[c] < nextToken
        /\ \A d \in Conns :
               phase[d] \in Waiting \cup {"acme_insert"} /\ token[c] = token[d] => c = d

\* A cleanup task exists for exactly the connections that were registered.
CleanupIffServing == \A c \in Conns : cleanup[c] # "none" <=> phase[c] = "serving"

\* What a handler in the middle of the exchange has already checked.
ChecksSoFar ==
    \A c \in Conns :
        /\ phase[c] \in {"h2_handshake", "auth", "txt"} => creds[c].handler # "deny"
        /\ phase[c] = "txt" =>
               creds[c].binds /\ creds[c].suffix /\ creds[c].handler = "source"
        /\ phase[c] = "reject" => ~Authorized(creds[c])

\* The inductive invariant: the safety properties and what they rest on.
RelayInv ==
    /\ TypeOK
    /\ PermitsConserved
    /\ AgentsAuthorized /\ RejectMeansUnauthorized /\ ChecksSoFar
    /\ PoolsExact /\ EmptyPoolIsPruned /\ CleanupIffServing
    /\ PendingOwned /\ TokensUnique
    /\ RoutedToOwner

\* An entry disappears from the pending map only when its own handler leaves
\* the wait: the cleanup of a connection it replaced never removes it.
EntryRemovedByOwner ==
    [][\A i \in Ids :
          pending[i].conn # NoConn /\ pending'[i].conn = NoConn =>
              LET c == pending[i].conn IN
              phase[c] \in Waiting /\ phase'[c] \notin Waiting]_vars

\* A peer that is lost or stops answering, in whatever phase, ends up holding nothing:
\* no permit, no pending entry, no place in a pool.
HoldsNothing(c) ==
    /\ phase[c] \notin PreAuth
    /\ pending[IdOf[c]].conn # c
    /\ c \notin agents[IdOf[c]]

PeerReleased ==
    \A c \in Conns : link[c] \in {"silent", "down"} ~> HoldsNothing(c)

\* A listener does not stay exhausted: no peer it has not authenticated holds its
\* permit for ever, with one exception that the code has no deadline for, QUIC
\* peers that stay connected and never finish their handshake.
BudgetRecovers ==
    \A p \in Protos :
        \/ []<>(permits[p] > 0)
        \/ p = "quic" /\ <>[](\A c \in Unauthenticated(p) :
                                 phase[c] = "handshake" /\ link[c] = "up")

\* A user is not left on an agent that is gone.  Whether its stream is being
\* opened or already proxied when the peer falls silent, it is let go, unless
\* it is the user who never reads again.
UsersReleased ==
    \A r \in Requests, c \in Conns :
        \/ []<>(link[c] = "up" \/ r \notin Users(c))
        \/ <>[](req[r].st = "stalled")

==============================================================================
