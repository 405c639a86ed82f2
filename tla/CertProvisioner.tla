--------------------------- MODULE CertProvisioner ---------------------------
(***************************************************************************)
(* The client's CertProvisioner for one domain: concurrent prepare() calls  *)
(* elect a leader that orders the certificate and followers that wait for   *)
(* it.  The cache and the in_flight map are each behind their own lock, and *)
(* an action is one critical section or one await.  An order stands for the *)
(* pair of watch channels its leader created.  The names of the             *)
(* specification have a prefix: ClientProofs extends it beside ClientConn.  *)
(***************************************************************************)
EXTENDS Naturals

CONSTANTS
    Callers,    \* sessions that need the certificate
    MaxOrders,  \* bound on the orders claimed in a behaviour
    NoOrder     \* no entry in in_flight

ASSUME ProvisionerAssumption == MaxOrders \in Nat /\ NoOrder \notin Nat

VARIABLES
    cache,     \* the cache entry: none, fresh, or due for renewal
    inFlight,  \* the order in_flight lists for the domain
    nextOrder, \* orders claimed so far
    keyAuth,   \* orders whose key_authorization was published
    certSent,  \* orders whose certificate was broadcast
    open,      \* orders whose senders are still alive
    pc,        \* where each caller is
    ord        \* the order each caller leads or holds receivers of

provVars == <<cache, inFlight, nextOrder, keyAuth, certSent, open, pc, ord>>

Orders == 1..MaxOrders
\* Callers that own the senders of their order.
Leading == {"setup", "setup_unlist", "leader", "finalize", "store", "unlist", "unlist_err"}
\* Callers that hold receivers of an order and wait on them.
Awaiting == {"wait_key_auth", "follower"}
States == {"idle", "cache", "probe", "check", "evict", "claim", "served"}
              \cup Leading \cup Awaiting

\* seed() takes an issued certificate unless it is already due for renewal.
ProvInit ==
    /\ cache \in {"none", "fresh"}
    /\ inFlight = NoOrder
    /\ nextOrder = 0
    /\ keyAuth = {} /\ certSent = {} /\ open = {}
    /\ pc = [k \in Callers |-> "idle"]
    /\ ord = [k \in Callers |-> NoOrder]

Goto(k, s) == pc' = [pc EXCEPT ![k] = s]
DropSenders(k) == open' = open \ {ord[k]}

-----------------------------------------------------------------------------
(* prepare()                                                               *)

\* A session starts, or starts again after the one before it ended.
Prepare(k) ==
    /\ pc[k] \in {"idle", "served"}
    /\ Goto(k, "cache")
    /\ ord' = [ord EXCEPT ![k] = NoOrder]
    /\ UNCHANGED <<cache, inFlight, nextOrder, keyAuth, certSent, open>>

ReadCache(k) ==
    /\ pc[k] = "cache"
    /\ Goto(k, IF cache = "fresh" THEN "served" ELSE "probe")
    /\ UNCHANGED <<cache, inFlight, nextOrder, keyAuth, certSent, open, ord>>

\* Clones the receivers of the listed order, if there is one.
ProbeInFlight(k) ==
    /\ pc[k] = "probe"
    /\ Goto(k, IF inFlight = NoOrder THEN "claim" ELSE "check")
    /\ ord' = [ord EXCEPT ![k] = inFlight]
    /\ UNCHANGED <<cache, inFlight, nextOrder, keyAuth, certSent, open>>

\* cert_rx.has_changed() errs once the sender is gone; then key_auth is read.
CheckEntry(k) ==
    /\ pc[k] = "check"
    /\ Goto(k, CASE ord[k] \notin open -> "evict"
                 [] ord[k] \in open /\ ord[k] \in keyAuth -> "follower"
                 [] OTHER -> "wait_key_auth")
    /\ UNCHANGED <<cache, inFlight, nextOrder, keyAuth, certSent, open, ord>>

\* key_auth_rx.changed(): published, or the sender dropped without publishing.
AwaitKeyAuth(k) ==
    /\ pc[k] = "wait_key_auth"
    /\ \/ ord[k] \in keyAuth /\ Goto(k, "follower")
       \/ ord[k] \notin keyAuth /\ ord[k] \notin open /\ Goto(k, "evict")
    /\ UNCHANGED <<cache, inFlight, nextOrder, keyAuth, certSent, open, ord>>

\* Mutant: a dead entry is noticed and left in the map.
EvictEntryKeeps(k) ==
    /\ pc[k] = "evict"
    /\ Goto(k, "cache")
    /\ UNCHANGED <<cache, inFlight, nextOrder, keyAuth, certSent, open, ord>>

\* in_flight.remove(domain): whatever the map lists by then.
EvictEntry(k) ==
    /\ pc[k] = "evict"
    /\ inFlight' = NoOrder
    /\ Goto(k, "cache")
    /\ UNCHANGED <<cache, nextOrder, keyAuth, certSent, open, ord>>

\* The insert re-checks the map, not the cache.
ClaimLeader(k) ==
    /\ pc[k] = "claim"
    /\ \/ /\ inFlight # NoOrder
          /\ Goto(k, "cache")
          /\ UNCHANGED <<inFlight, nextOrder, open, ord>>
       \/ /\ inFlight = NoOrder
          /\ nextOrder < MaxOrders
          /\ nextOrder' = nextOrder + 1
          /\ inFlight' = nextOrder'
          /\ open' = open \cup {nextOrder'}
          /\ ord' = [ord EXCEPT ![k] = nextOrder']
          /\ Goto(k, "setup")
    /\ UNCHANGED <<cache, keyAuth, certSent>>

\* The order exists and its challenge is known: publish the key_authorization.
SetupOrder(k) ==
    /\ pc[k] = "setup"
    /\ \/ /\ keyAuth' = keyAuth \cup {ord[k]}
          /\ Goto(k, "leader")
       \/ /\ Goto(k, "setup_unlist")
          /\ UNCHANGED keyAuth
    /\ UNCHANGED <<cache, inFlight, nextOrder, certSent, open, ord>>

SetupFailed(k) ==
    /\ pc[k] = "setup_unlist"
    /\ inFlight' = NoOrder
    /\ DropSenders(k)
    /\ Goto(k, "idle")
    /\ UNCHANGED <<cache, nextOrder, keyAuth, certSent, ord>>

-----------------------------------------------------------------------------
(* finalize(), and the session around it.                                  *)

\* The relay acknowledged the challenge; the finalize task starts.
StartFinalize(k) ==
    /\ pc[k] = "leader"
    /\ Goto(k, "finalize")
    /\ UNCHANGED <<cache, inFlight, nextOrder, keyAuth, certSent, open, ord>>

\* finalize_order() returned the certificate or an error.
FinalizeOrder(k) ==
    /\ pc[k] = "finalize"
    /\ Goto(k, "store") \/ Goto(k, "unlist_err")
    /\ UNCHANGED <<cache, inFlight, nextOrder, keyAuth, certSent, open, ord>>

StoreCert(k) ==
    /\ pc[k] = "store"
    /\ cache' = "fresh"
    /\ certSent' = certSent \cup {ord[k]}
    /\ Goto(k, "unlist")
    /\ UNCHANGED <<inFlight, nextOrder, keyAuth, open, ord>>

\* On every exit path: in_flight.remove(domain), then the senders drop.
UnlistOrder(k) ==
    /\ pc[k] \in {"unlist", "unlist_err"}
    /\ inFlight' = NoOrder
    /\ DropSenders(k)
    /\ Goto(k, IF pc[k] = "unlist" THEN "served" ELSE "idle")
    /\ UNCHANGED <<cache, nextOrder, keyAuth, certSent, ord>>

\* cert_rx.changed(): the broadcast, or every sender gone without one.
FollowLeader(k) ==
    /\ pc[k] = "follower"
    /\ \/ ord[k] \in certSent /\ Goto(k, "served")
       \/ ord[k] \notin certSent /\ ord[k] \notin open /\ Goto(k, "idle")
    /\ UNCHANGED <<cache, inFlight, nextOrder, keyAuth, certSent, open, ord>>

\* Mutant: the senders outlive the session, as in a task nobody aborts.
AbortSessionLeaks(k) ==
    /\ pc[k] \notin {"idle", "served"}
    /\ Goto(k, "idle")
    /\ UNCHANGED <<cache, inFlight, nextOrder, keyAuth, certSent, open, ord>>

\* The session dies at an await: its frame, the AlpnPending or finalize task in
\* it included, is dropped, and nothing is unlisted.
AbortSession(k) ==
    /\ pc[k] \notin {"idle", "served"}
    /\ IF pc[k] \in Leading THEN DropSenders(k) ELSE UNCHANGED open
    /\ Goto(k, "idle")
    /\ UNCHANGED <<cache, inFlight, nextOrder, keyAuth, certSent, ord>>

\* A third of the certificate's lifetime is left.
CertDue ==
    /\ cache = "fresh"
    /\ cache' = "due"
    /\ UNCHANGED <<inFlight, nextOrder, keyAuth, certSent, open, pc, ord>>

-----------------------------------------------------------------------------

CallerStep(k) ==
    \/ Prepare(k) \/ ReadCache(k) \/ ProbeInFlight(k) \/ CheckEntry(k)
    \/ AwaitKeyAuth(k) \/ EvictEntry(k) \/ ClaimLeader(k)
    \/ SetupOrder(k) \/ SetupFailed(k)
    \/ StartFinalize(k) \/ FinalizeOrder(k) \/ StoreCert(k) \/ UnlistOrder(k)
    \/ FollowLeader(k) \/ AbortSession(k)

ProvNext == CertDue \/ \E k \in Callers : CallerStep(k)

ProvSpec == ProvInit /\ [][ProvNext]_provVars

\* The runtime schedules a ready task, the CA's answers come or fail, and a
\* leader's session goes on to finalize or is aborted.
ProvFairness ==
    \A k \in Callers :
        /\ WF_provVars(ReadCache(k) \/ ProbeInFlight(k) \/ CheckEntry(k)
                       \/ EvictEntry(k) \/ ClaimLeader(k))
        /\ WF_provVars(AwaitKeyAuth(k) \/ FollowLeader(k))
        /\ WF_provVars(SetupOrder(k) \/ SetupFailed(k))
        /\ WF_provVars(StartFinalize(k) \/ FinalizeOrder(k) \/ StoreCert(k) \/ UnlistOrder(k))

FairProvSpec == ProvSpec /\ ProvFairness

-----------------------------------------------------------------------------
(* Properties.                                                             *)

ProvTypeOK ==
    /\ cache \in {"none", "fresh", "due"}
    /\ inFlight \in Orders \cup {NoOrder}
    /\ nextOrder \in 0..MaxOrders
    /\ keyAuth \in SUBSET Orders
    /\ certSent \in SUBSET Orders
    /\ open \in SUBSET Orders
    /\ pc \in [Callers -> States]
    /\ ord \in [Callers -> Orders \cup {NoOrder}]

\* Senders live exactly as long as the caller that leads their order: whoever
\* waits on an order waits on a live leader, or its wakeup has already happened.
NobodyStranded ==
    /\ \A o \in open : \E k \in Callers : pc[k] \in Leading /\ ord[k] = o
    /\ \A k \in Callers : pc[k] \in Leading => ord[k] \in open

\* A follower shares a key_authorization that its leader obtained from the CA:
\* the order's challenge was published, and its leader is not still setting the
\* order up, nor one whose setup failed.
FollowersHaveChallenge ==
    \A k \in Callers : pc[k] = "follower" =>
        /\ ord[k] \in keyAuth
        /\ \A l \in Callers : ord[l] = ord[k] => pc[l] \notin {"setup", "setup_unlist"}

\* prepare() returns: it serves, leads, follows or fails, whatever stale entry
\* it meets, unless the bound on orders stops it.
PrepareReturns ==
    \A k \in Callers :
        pc[k] = "cache" ~>
            \/ pc[k] \in {"served", "idle", "leader", "follower"}
            \/ nextOrder = MaxOrders

\* A follower learns the outcome of its leader.
FollowersLearn == \A k \in Callers : pc[k] \in Awaiting ~> pc[k] \notin Awaiting

==============================================================================
