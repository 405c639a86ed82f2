# A verification of quic-tunnel

TLA+ models of the relay and the client of quic-tunnel, the TLC runs that check
them on small instances, and TLAPS proofs of their main invariants for every
instance. Everything is translated from the Rust and Kotlin sources; `PROJECT.json` maps
each definition to the lines it models.

## 1. The system

A *client* (agent) behind a NAT connects to a *relay* over QUIC, or over a pool of
TLS/HTTP-2 connections when QUIC does not get through. It proves its identity, gets
a certificate for `<client id>.<suffix>` from an ACME CA with the relay's help, and
from then on the relay hands it every TCP connection that arrives on the public
port with that name in its SNI. TLS ends at the client.

| Part | State | Operations | Interacts with |
|---|---|---|---|
| Relay listeners (`quic.rs`, `h2_listener.rs`, `admission.rs`) | one handler task per connection, a semaphore of unauthenticated connections per listener | admit, handshake, authenticate, DNS TXT check, read key_auth, ACME wait, register | both maps, the client, DNS |
| Agent map (`lib.rs`, `util.rs`) | a pool of agents per client id | push, remove by uid, prune, pick | listeners, public port |
| Pending-challenge map (`lib.rs`) | one (connection, token) per client id | insert, remove by token, pick | listeners, ACME probes |
| Public port (`public.rs`, `alpn.rs`) | one task per user connection | peek the SNI, pick, open a stream, proxy | both maps |
| The relay's own certificate (`cert.rs`) | files, cache and its mutex, renewing flag, backoff, challenge acceptor | resolve, reload, trigger, renew, record | handshakes, CA, disk |
| Control exchange (`quic.rs`, `h2_listener.rs`, `client.rs`) | two protocol positions, two FIFO directions | identity, key_auth, ack, done, finish | provisioner, CA |
| Certificate provisioner (`acme.rs`) | cache, in-flight table, two watch channels per order | prepare, finalize, seed | sessions, CA |
| Reconnect policy (`client.rs`) | attempts, backoff | fail, reject, rate limit, recover, wait | connection task |
| Connection task and H2 pool (`client.rs`) | session, members, `PoolLiveness`, rejection and failure slots | attempt, up, down, park, unpark, settle | supervisor, relay |
| Supervisor and FFI stream (`client.rs`, `ffi/mod.rs`) | task set, stop channel, event queue, two flags | run, deliver, drain, stop, cancel | connections, foreign handler |
| Kotlin wrapper (`TunnelClient.kt`) | scope, `runJob` and its child, `cleanupJob`, native handle, event flow | start, close, closeAndJoin, cancel, emit | application, FFI |
| Stream adapters (`tunnel-common/src/lib.rs`) | the rest of a frame, the windows of h2 | poll_write, poll_shutdown, poll_read, collect_h2_body | copiers, h2 |

The parts left out are in section 8. What makes the system hard: shared maps
changed by handler tasks and by the cleanup tasks of connections they replaced;
silent peers and unbounded waits; leaders of a certificate order that are aborted
while others follow them; wake-ups between pool members; tasks that are aborted
but not awaited; futures the foreign side drops at any await; one flow-control window
for all streams; a teardown that races the start it undoes. `PROJECT.json` lists
these hazards one by one, at their lines, with the properties that watch them.

What correct means, most important first: an id is served only by connections that
proved it, and requests reach only those; the maps hold exactly what is alive; no
unauthenticated or dead peer holds anything for ever (with the exception stated in
section 3); no certificate waiter is stranded; the reconnect budget is charged once a
session; the application sees one
ordered event stream with one end; a tunnel's bytes arrive once, in order and completely.

## 2. Modules

| Module | Models | Proofs |
|---|---|---|
| `Relay`, `MCRelay` | listeners, both maps, the public port, cleanup, keep-alive | `RelayProofs` |
| `CtrlExchange` | both ends of the control exchange on one connection | `PortProofs` |
| `CertProvisioner` | `prepare` / `finalize` for the callers of one domain | `ClientProofs` |
| `PublicPeek` | the loop that looks at a ClientHello before it is routed | `PortProofs` |
| `RetryPolicy` | the reconnect policy and its arithmetic, used by the next two | - |
| `RetryState` | the reconnect bookkeeping: the abstract specification of `ClientConn` | `ClientProofs` |
| `ClientConn`, `MCClientConn` | one connection task, its QUIC session and H2 pool | `ClientProofs` |
| `CertRenewal` | the relay's own certificate | `RenewalProofs` |
| `EventStream` | what the comment on `run()` promises: the abstract specification of `TunnelEvents` | - |
| `TunnelEvents` | supervisor, FFI `run()`, `stop()`, cancellation | `EventsProofs` |
| `TunnelWrapper` | the Kotlin class around the native client | `EventsProofs` |
| `H2Stream` | the H2 stream adapters over the flow control of h2 | `H2Invariant`, `H2Ends`, `H2Proofs` |

An action is one critical section, one atomic or map operation, or one await of one
task: what another task can observe between is a state of the model. Definitions
whose comment begins with "Mutant" are faulty variants of the definition that
follows; each property has one that breaks it.

**Relay.** `phase[c]` is the position of `handle_quic_connection` or
`handle_h2_connection`; the phases in `PreAuth` are those in which the handler owns
its permit. `TryAdmit`/`Refuse` are `try_admit`; `HandshakeDone` (QUIC) runs the auth
handler, `AuthExchange` the identity and suffix checks, `TxtLookup` the DNS check
(only when the handler returned a deployment source), `AuthTimeout` the timeout
around all of it. A credential is a record of what these checks tell apart.
`PendingAlpnToken` and `PendingAlpnInsert` are the two atomic steps of
`pending_alpn_insert`; `CleanupRemove` and `CleanupPrune` the two map operations of
the task `register()` spawns. `link[c]` is the transport: up, silent (nothing arrives,
nothing is reported) or down; `KeepAliveFails` turns silent into down. `HandlePublic`
and `HandleAcme` clone a connection out of a map; the stream is opened in a later step:
at once over QUIC, where `open_bi` resolves locally even towards a silent peer, and over H2
when the agent answers. A user that stops reading (`UserStalls`) leaves the copier waiting
for that user alone. `DropConn` is the end of a handler that returned `None`: the H2 driver is
aborted; a QUIC connection closes once no user stream holds a clone of it.

**CtrlExchange.** One connection, either transport. Messages are FIFO; either end may
fail and the link may break at any step. `KeyAuthFrame` gives the frame `prepare()`
leads to: non-empty with a challenge, empty with a cached certificate, and also empty
for an order whose authorizations are already valid (`leader_valid`).
The relay's `registered` state begins with `register()`.

**CertProvisioner.** Orders are numbered; an order stands for its two watch channels,
whose senders live in `open`. `prepare()` is `ReadCache`, `ProbeInFlight`, `CheckEntry`,
`AwaitKeyAuth`, `EvictEntry`, `ClaimLeader`, `SetupOrder` or `SetupFailed`; `finalize()` is
`FinalizeOrder`, `StoreCert`, `UnlistOrder`. `AbortSession` drops a leader or follower
with its session, wherever it is.

**RetryState / ClientConn.** `RetryState` has the counter, the backoff and the sleep.
`ClientConn` is `connection_run`: a QUIC session, the pool it falls back to, the members'
`drive` loop, the stored permits of the two `Notify`s, the `came_up` watch, the rejection
and failure slots, and `Settle`, which books the session. Members of a dropped pool may
finish the poll they are in (`LateUp`, `LateDown`, `LateRejected`). `QuicAborted` is the
supervisor's: `run()` drops its tasks on `stop()`, which is all that ends a hanging exchange.
`RetryState` also has what the session has come to (carried traffic or not; then lost, failed
or rate-limited) and the rejection slot, and books by these (`Book`). `ClientConn`
instantiates it with the loop's position, `SessionState` and its slot.

**CertRenewal.** Certificates are numbered as they are issued. A handshake is `Resolve`
(cache hit or miss, under the mutex), `ReloadRead`, `Store`, and the three separate checks
of `maybe_trigger_renewal`; a task is ordering, publishing the acceptor, telling the CA,
polling, clearing, writing, loading, settling under the backoff's mutex, and dropping its
`RenewingGuard`. Task 0 is the provisioning at start-up.

**TunnelEvents.** Events are numbered as they are sent; `out` is what the foreign handler
has been called with. `Cancel` drops `run()` at any of its awaits and starts the guard's
tail (`Shutdown`, `Drain`, `DeliverTerminal`). `EventStream` has what was reported, how much
of it was dealt with and what the handler was told; the refinement mapping counts an
event in hand as not yet dealt with.

**TunnelWrapper.** `job` is the position of `runJob`, `stopper` its child `stopOnCancel`,
`cleanup` the job of `startCleanup()`. `StopQuietly` has no effect on a destroyed handle,
and `CallRun` throws on one. `Emit` suspends while the one collector is a whole buffer
behind. The native `run()` is reduced to what `TunnelEvents` shows of it: events, then one
terminal event once it was stopped or has failed.

**PublicPeek.** A hello is its length and what it names; the bytes arrive up to any of
`Points`. The four disjuncts of `PeekNew` are the ways through the `n > seen` branch,
`PeekNothingNew` is the other branch, `Wake` the end of the sleep with its doubling. A peek
and the decision to sleep are one step, so bytes that arrive between them count as arriving
during the sleep: the loop sees them at its next peek in either case.

**H2Stream.** Byte i of a stream is the number i. A copier owns an `H2Send` and an `H2Recv`
or `collect_h2_body` reads at the other end. `cap`, `swin` and `cwin` are the library's
books of assigned capacity and of the peer's windows, `scred` and `ccred` what readers have
released and WINDOW_UPDATE has not brought back yet. Modelled from how the adapters use h2,
and external: assignment, window updates, discarded data. A control body, which the code
sends with a single `send_data`, is written by the same copier as a pipe. Its pieces stand for
h2 cutting the body by the window, its separate end frame for END_STREAM on the last of them.

## 3. Runs

| Run | Instance | Distinct states |
|---|---|---|
| `relay_maps` | 3 connections (QUIC, H2, QUIC), two ids, one request, budget 1 | 1.54 M |
| `relay_auth` | 2 connections (QUIC, H2) of one id, six credentials, one request, budget 1, fair | 96 k |
| `provisioner` | 3 callers, 2 orders, fair | 208 k |
| `ctrl` | both transports, outcomes with a challenge or a cached certificate, fair | 431 |
| `client` | 2 members, rejections and lingering members, budget 2, backoff 1..2, fair | 403 k |
| `renewal` | 2 handshakes, 2 renewals, 1 disk failure, fair | 41 k |
| `events` | 2 connections, 3 events, stop and cancel, fair | 477 k |
| `peek` | the code's own sizes, hellos of 8 lengths around them, 10 points of arrival | 81 k |
| `h2_stream` | a pipe of 3 bytes and a body of 2, both windows 2, body limit 1, fair | 313 k |
| `wrapper` | 2 callers of `closeAndJoin()`, buffer of 2, 3 events, fair | 16 k |
| `ctrl_no_challenge`, `client_reject` | violations, see section 6 | - |

*relay_maps.* Free permits plus unauthenticated connections are the budget
(`PermitsConserved`). A pool is exactly the registered connections whose cleanup has
not run, although a registration can fall between a cleanup's remove and its prune
(`PoolsExact`). A challenge entry belongs to a handler that is in its wait
(`PendingOwned`) and disappears only with that handler (`EntryRemovedByOwner`), although
a reconnecting agent replaces the entry of its older connection. A stream in use goes to
a connection of the request's id (`RoutedToOwner`).

*relay_auth.* Past the exchange everything is authorized (`AgentsAuthorized`), and only
the unauthorized are told so, never those that timed out or whose lookup failed
(`RejectMeansUnauthorized`). A lost or silent peer ends up holding no permit, entry or
place in a pool (`PeerReleased`). An exhausted budget recovers, unless every permit of the
QUIC listener is held by peers that stay connected and never finish their handshake
(`BudgetRecovers`): `quic.rs:39` awaits it without a deadline, only H2 has one. No user is left
on an agent that is gone, whether its stream was being opened or already proxied, unless the
user itself never reads again (`UsersReleased`).

*provisioner.* Senders live as long as their leader (`NobodyStranded`); `prepare()`
returns whatever stale entries it meets (`PrepareReturns`); followers learn the outcome
(`FollowersLearn`).

*ctrl.* A registered agent has its certificate (`RegisteredAgentHasCert`). Over QUIC the
CA is told only when its probe can be routed (`AckedBeforeReady`). The exchange ends
wherever an end fails, and leaves nothing at the relay if the client failed
(`ExchangeDecided`). An established client is registered if its connection lasts
(`EstablishedIsRegistered`).

*client.* The pool's counters match its members (`PoolStateExact`) and no wake-up is lost
(`NoLostWakeup`). The task gives up exactly when its budget of consecutive failures is
spent (`BudgetKept`) and, if its relay never answers, it does (`GivesUpEventually`). The
connection task implements `RetryState` (`BooksOnce` is that module's specification under
the refinement mapping): each session is booked once. A reason in the rejection slot makes it
a rejection; otherwise a session that carried traffic clears the budget, one that did not is
charged, and one the CA rate-limited is free. The slot may hold what a member of the pool
before wrote late, and then a session that carried traffic is charged (section 6). A pool
with nobody up ends its session (`PoolSettles`). The last two liveness properties except a
control exchange that hangs for ever, on QUIC or in a member: it has no deadline before its
last read (`client.rs:1031`, `1047`, `1098`). `stop()` ends the task even then
(`StopEndsTask`).

*renewal.* The flag is set exactly while one renewal runs (`OneRenewal`); the acceptor is
published exactly while an order is open (`ChallengeServed`); handshakes never go back to
an older certificate (`CacheNeverGoesBack`); no handshake hangs on the two mutexes
(`HandshakeEnds`); a certificate that is due is tried again after every failure
(`DueIsTried`).

*events.* The tunnel implements `EventStream` (`ImplementsStream`): Started once and before
any ConnectionEstablished, events in order, nothing sent before the tunnel ended lost but
the event in hand at a cancel, one terminal event, last. Failed is told only when every
connection was reported to have given up (`FailedMeansAllGaveUp`); a stream that is
stopped, cancelled or out of connections ends (`StreamEnds`).

*peek.* What is routed is a complete hello with a name, and goes where its ALPN says; what
is refused ended before its first byte or filled the largest buffer with something else
(`DecidesExactly`). The loop does not go to sleep on a routable hello that has arrived,
although the buffer may have to grow more than once (`NeverSleepsOnHello`).

*h2_stream.* Bytes are handed out once and in order, the end only after the last of them,
and a body within its limit (`DeliversExactly`). Every byte of the connection's window is
unassigned, assigned, on the wire or released, whoever fails (`WindowConserved`). What a
copier took arrives, unless its stream is reset or some reader stalls (`WriteCompletes`):
the connection's window is no larger than one stream's (`tunnel-common/src/lib.rs:289`), so
a reader that stops holds up its siblings, and the property says nothing then.

*wrapper.* Exactly one terminal event ends the flow, the native run's or the wrapper's own
(`OneEnd`). `closeAndJoin()` returns and has destroyed the handle, even under a native run
that hangs on its collector (`CloseReleases`). A cancelled scope ends the run, even if it
was cancelled before `runJob` was dispatched (`CancelEnds`).

## 4. Bounds

- Connections (3), ids (2): every race in the relay is between a connection, its
  replacement of the same id, and a bystander of another. Each connection is opened once;
  a reconnect is another connection. `MaxUnauthenticated` = 1 makes exhaustion common.
- `MaxOrders` = 2 and 3 callers: a stale entry, the order that replaces it, and a caller
  that still holds the first. `PrepareReturns` is not claimed once the orders run out.
- Members = 2: one up or going down while the other parks; larger pools are left to the
  proofs, which hold for any. The retry time of a rate limit has passed. `AttemptsCap`
  stands for the saturation of the `u32` counter and lies no lower than the budget.
  Durations are integers.
- `MaxRenewals` = 2 and `MaxDiskErrors` = 1: a renewal after a failed one.
  `HandshakeEnds` and `DueIsTried` are not claimed once the renewals run out.
- `MaxEvents` = 3: Established, one more, GaveUp. `GaveUp` events are not bounded.
- `Sizes` and `Points` of the peek lie on, just below and just above each size of the buffer.
- Windows of 2 for streams of 2 and 3 bytes: every stream exhausts its own window and the
  shared one, a write is cut by it and a frame is read in two pieces.
- A flow buffer of 2 with `MaxFlow` = 3 events and a terminal one: the collector can be a
  buffer behind.
- Tokens and event numbers grow with what uses them and need no bound of their own.

Deadlock checking is off: connections that ended, tasks that gave up and streams that
are over stop by design, and the bounds stop others. That nobody waits for ever is
what the liveness properties state.

## 5. Fairness

Fairness is assumed where the code has a deadline or the runtime schedules a ready task,
and never for the good will of a peer.

- `Relay`: the H2 handshake, authentication, key_auth and open timeouts fire, the keep-alive
  ends a silent connection, ready tasks run. A QUIC handshake ends for certain only when its
  connection does. A copier whose tunnel failed sees it if its user reads again and again
  (strong fairness). That a peer answers is not assumed.
- `CertProvisioner`: ready tasks run; the CA's requests succeed or fail (their HTTP client
  has no timeout, so a CA that never answers is excluded here); a leader goes on to `finalize`
  or is aborted.
- `CtrlExchange`: both ends run, the relay's deadlines fire, the CA validates or refuses.
- `ClientConn`: sleeps end, tasks run, and `run()` drops them on `stop()`. Neither a control
  exchange nor an established connection has to end.
- `CertRenewal`: strong fairness of each handshake and of the tasks, which stands for
  mutexes that do not starve a waiter and for handshakes that keep arriving; the cache's
  60 seconds and the retry time pass.
- `TunnelEvents`: the supervisor, `run()` and the second step of `stop()` run. A foreign
  handler that never returns is excluded, and no connection has to end by itself.
- `TunnelWrapper`: coroutines that can go on do, a native run that was told to stop stops
  (`StreamEnds`), the timeout of the teardown fires, a collector that does not hang collects.
- `H2Stream`: both ends run while they can, h2 assigns capacity and sends its updates, and
  each end of a reset stream learns of it. No source has to end and no caller has to read.
- `PublicPeek` has no liveness: the deadline around the loop bounds it.

## 6. Where the code and its documents disagree

Two disagreements are runs that TLC refutes:

- `ctrl_no_challenge` (`acme.rs:327`): an order whose authorizations are already valid
  sends an empty key_auth, which the relay takes for a cached certificate
  (`quic.rs:124`). Over QUIC the leader then waits for an ack that never comes and gets no
  certificate, while the relay has registered it.
- `client_reject` (`client.rs:1251`, against the comment at 149): `AttemptFailed` can follow
  `Established` with no `Lost`, when a pool member is rejected while a sibling is up.

Smaller ones the models also exhibit, without a run of their own:

- `ffi/mod.rs:326`: `Started` is lost if `run()` is cancelled while it is being delivered,
  with the event in hand; the comment at 578 promises "a pending `Started`". `EventStream`
  allows for the loss (`Lose`).
- `acme.rs:252` can evict a newer leader's entry, so two callers may lead ("only one caller
  becomes leader", 215); `acme.rs:293` does not look at the cache again, so a certificate
  may be ordered that is no longer needed (179). Neither strands anybody.
- `lib.rs:104`: two connections of one id share one challenge entry; when the second
  finishes, the first waits without one (compare `tests/h2_acme_wait.rs:1`).
- `client.rs:1856`: over H2 the CA may be told before the relay lists the connection
  (`acme.rs:360`). `client.rs:1158`: Established precedes `register()` (133).
- `client.rs:808`: the default policy sleeps 2, 4, 8 and 16 s and bails, without the 32 s of
  the comment at 33. `client.rs:1254`: Established may be heard twice with no Lost (140).
  `client.rs:1439`: an aborted member may write the next session's rejection slot, documented
  as "seen by one connection's current session" (309); if that session carries traffic, it is
  charged as rejected at 786 and does not reset the budget (342).
- `cert.rs:229`: a handshake between its checks may trigger a renewal before `retry_at` (84).
- `public.rs:61`: "TLS caps a handshake record at 16 KiB" (59), but the record also has a
  header of 5 bytes, so a hello of the largest size is refused. `util.rs:132`: a complete
  hello without a name is not told from an incomplete one, and is held until the deadline.
- The repository's README says agents are selected at random; `next_agent` is round robin
  (`lib.rs:63`).

## 7. Proofs

All theorems hold for every value of the constants that satisfies the named assumption.

| Module | Assumption | Theorems |
|---|---|---|
| `RelayProofs` | `RelayAssumption`: typed constants, finitely many connections, a positive budget | `RelayInvariant`, `TypeCorrect`, `BudgetConserved`, `RegistryExact`, `Authentication`, `RejectionIsDeserved`, `Routing`, `ChallengesPending`, `RemovalByOwner` |
| `PortProofs` | `ExchangeAssumption`; `RegisteredHasCert` also `Challenged`: every order has a challenge | `ExchangeTyped`, `RegisteredHasCert`, `ReadyIsAcked` |
| | `PeekAssumption`: the initial sizes are positive and within the limits | `PeekDecidesExactly`, `PeekNeverSleepsOnHello` |
| `ClientProofs` | `ClientConnAssumption`: a finite, non-empty pool; `RetryAssumption`: a policy that `validate()` accepts | `RetryInvariant`, `ImplementsRetry`, `BudgetIsKept`, `BackoffWithinPolicy`, `OnlyTrafficResets`, `RateLimitFree`, `PoolInvariant`, `PoolCountersExact`, `WakeupsDelivered` |
| | `ProvisionerAssumption` | `ProvisionerInvariant`, `NoWaiterStranded`, `FollowersShareChallenge` |
| `RenewalProofs` | `RenewalAssumption` | `RenewalInvariant`, `AtMostOneRenewal`, `ChallengeAlwaysServed`, `CacheOnlyAdvances` |
| `EventsProofs` | `EventsAssumption` | `StreamImplemented`, `FailedIsTrue` |
| | none is needed | `WrapperInvariant`, `OneEndAlways` |
| `H2Invariant`, `H2Ends`, `H2Proofs` | `StreamAssumption`: positive windows and buffers, no stream of both kinds | `StreamInvariant`, `StreamsTyped`, `DeliveryIsExact`, `NoWindowLeaks`, `CapacityIsAsked`, `FlowNeverStuck` |

A proof module that extends two components needs their names apart, so the specification of
`PublicPeek`, `CertProvisioner` and `TunnelWrapper` is `PeekSpec`, `ProvSpec` and
`WrapperSpec`, and likewise for their `Init`, `Next` and `TypeOK`. The proof about `H2Stream`
is in three modules, each extending the one before: the operators, the invariant and the
library's steps; the steps of a writer and of a pipe's reader; the rest and the theorems.
A leaf cites `Zenon` where the SMT solver would only run into its time limit.

The inductive invariants:

- **RelayInv.** `PendingOwned` and `EntryRemovedByOwner` rest on `TokensUnique`: a handler
  removes the entry whose token is its own, and tokens of handlers in their wait differ
  because each was drawn from a counter that has moved on. `PoolsExact` needs
  `CleanupIffServing`, so that a connection is pushed once; `AgentsAuthorized` needs
  `ChecksSoFar`, which records what an exchange in progress has checked already.
  `PermitsConserved` counts the connections in `PreAuth`; a lemma moves one connection in
  or out of that set and uses that it is finite.
- **RetryInv.** The budget, the bounds of the backoff and the shortest wait, which follow
  each other around the loop.
- **ProvisionerInv.** An open order keeps a live leader when another drops its senders
  only because leaders are distinct (`LeadersDistinct`), which holds because a claimed
  number is new (`OrdersClaimed`). A follower's order stays published because an order being
  set up is not (`SetupIsUnpublished`).
- **PoolInv.** The counters equal the cardinalities of the members that are up or
  parked, and a parked member of a pool with someone up has been woken. `ImplementsRetry`
  is a step simulation: the first member up, the ends of sessions, the writes of the slot, each
  disjunct of `Settle`, the wait and the returns map to one action of `RetryState` each, the
  rest to stuttering. It rests on `BooksInv`: a pool with a member up, or whose last one went
  down, has its `ever_up` flag set. `RetryInvariant` and the action properties of
  `RetryState` are proved there and carried over to the connection task by the refinement:
  `BudgetIsKept`, `BackoffWithinPolicy`, `OnlyTrafficResets` and `RateLimitFree` are about the
  task with its pool.
- **RenewalInv.** One task runs at a time because the flag is set exactly while one does;
  the cache never goes back because a handshake holds the mutex from its read of the files
  to its store and what it read lies between the cache and the disk (`CacheBehindDisk`).
- **StreamInv, FailedInv.** What the handler was told is what the stream allows because the
  next event to tell is the one in hand or the next queued (`Delivered`) and the supervisor
  is over before anything is drained (`Supervised`). `StreamImplemented` is a step simulation
  with one lemma per group of actions. For `FailedIsTrue`, a connection that was joined has
  reported `GaveUp` or a stop was sent (`GivenUp`), and all that was due has been told when
  the terminal event is (`ToldSoFar`).
- **PeekInv.** What the loop has seen did not parse and did not fill the buffer (`LoopInv`),
  so a complete hello in the socket is always more than that.
- **WrapperInv.** Both the native run and the wrapper's catch block can emit a terminal
  event. The native run lives only inside `runJob`'s call (`WrapperTurns`), and one has been emitted
  exactly when the native run is over or `runJob` is past its call (`FlowTold`).
- **CertInv, AckInv** (`PortProofs`). What an end may conclude from a message is what its
  sender knew when it sent it, so both invariants speak of messages in flight: an empty
  key_auth or a `done` on its way means that the client has its certificate (`CertStands`),
  and a client that has sent neither has a relay that has accepted nothing (`BeforeKeyAuth`).
  An ack is sent once, first, and not before the relay lists the connection (`BeforeAck`,
  `AckFirst`), and a client that is still to be acked or validated has sent no `done`
  (`NoEarlyDone`), so the relay cannot have stopped listing it when the order gets ready.
  `Challenged` is what the run `ctrl_no_challenge` shows to be needed for the first; the
  second needs no hypothesis.
- **Inv** (`H2Invariant`), per stream: the bytes handed out, kept by `H2Recv`, on the wire and
  not yet written follow each other without a gap (`Handed`, `Written`); an end frame is
  empty, last, and its writer shut (`Ends`); assigned capacity lies within the stream's window
  (`Windows`). For the connection: the window is what is unassigned, released and held by all
  streams together (`Conn`). That the frames on the wire follow each other is said by offsets,
  one per frame, of which sending adds one and reading drops one (`Covers`), and what the
  streams hold is the cardinality of a set of (stream, frame, place) triples: neither needs
  induction over sequences. `TotalChanged` then says what a step of one stream does to that
  sum, for any set of streams, and `OneStream` reduces each action to its own stream.
  `CapacityIsAsked` adds that capacity is bounded by what was asked for and that by what is to
  be written, so an idle stream holds none of the shared window. `FlowNeverStuck` follows: if
  nothing could move, nothing would be on the wire, assigned or released, the windows would be
  whole, and the waiting writer would be given some. It is the safety part of `WriteCompletes`.

Only model-checked: liveness, all of it (temporal reasoning under fairness and ENABLED are out
of the prover's reach), and the two refuted statements. Every safety invariant, action
property and refinement that a run checks is also a theorem.

## 8. Not modelled

- What a ClientHello, certificate, signature, key or CSR contains. What a check decides is
  a field of a credential or of a hello.
- `IO` of `tunnel-common`, which forwards its calls; TLS inside a tunnel; the copying between
  a stream and the local service, which shares nothing between streams but the window.
- The CA's protocol below one order: one step that succeeds or fails. How long the pause
  after a failed renewal is.
- The index of `next_agent`: any member may be picked.
- Panics and the relay's shutdown, which drops every task.
- Generated bindings, command-line programs and scripts: no state of their own.

## 9. What could follow

The models stand side by side. Two compositions would tell more: several sessions of
`CtrlExchange` with the provisioner's leaders and followers and the relay's one entry per
id (which probe reaches whom), and `TunnelWrapper` over `TunnelEvents` in place of its
reduced native run. An abstract agent registry for `Relay` would state in one formula what
`PoolsExact`, `PendingOwned` and `RoutedToOwner` state apart.
