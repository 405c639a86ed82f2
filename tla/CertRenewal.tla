----------------------------- MODULE CertRenewal -----------------------------
(***************************************************************************)
(* The relay's own certificate (cert.rs): provisioned at start-up when the  *)
(* files on disk are missing or expired, served from a cache that is        *)
(* reloaded from disk, and renewed by background tasks that TLS handshakes  *)
(* trigger.  Certificates are numbered in the order they are issued; the    *)
(* key is generated once and kept.                                          *)
(***************************************************************************)
EXTENDS Naturals

CONSTANTS
    Handshakes,     \* handshakes in progress at a time
    MaxRenewals,    \* bound: renewals triggered in a run of the relay
    MaxDiskErrors   \* bound: failures to read or write the files

ASSUME RenewalAssumption ==
    /\ "free" \notin Handshakes
    /\ MaxRenewals \in Nat
    /\ MaxDiskErrors \in Nat

VARIABLES
    up,          \* the relay: starting, serving or exited
    disk,        \* the certificate on disk, 0 if there is none that is valid
    dueTo,       \* certificates up to this one are in their renewal window
    cache,       \* the cached certificate, 0 before the first load
    recent,      \* whether the cache was loaded within its 60 seconds
    cacheLock,   \* the handshake that holds the cache's mutex, if one does
    got,         \* what each handshake read from disk
    pc,          \* where each handshake is in resolve()
    renewing,    \* the flag that admits one renewal
    task,        \* renewal tasks; number 0 is the provisioning at start-up
    next,        \* the number of the next renewal
    challenge,   \* whether server_challenge holds an acceptor
    retryAt,     \* RenewalBackoff: when the next attempt may be made
    backoffHeld, \* whether a task holds the backoff's mutex
    diskErrors   \* disk failures so far

resolverVars == <<cache, recent, cacheLock, got, pc>>
taskVars == <<up, disk, task, challenge>>
backoffVars == <<retryAt, backoffHeld>>
vars == <<resolverVars, taskVars, backoffVars, dueTo, renewing, next, diskErrors>>

Free == "free"
Renewals == 0..MaxRenewals
Ended == {"unused", "done"}
TaskStates == Ended \cup
    {"order", "challenge", "ready", "polling", "clear_ok", "clear_failed", "write",
     "load", "apply", "settle", "failed", "release"}

\* determine_cert: a certificate that has not expired is used as it is, and is
\* provisioned first otherwise.
Init ==
    /\ disk \in {0, 1}
    /\ up = IF disk = 0 THEN "starting" ELSE "serving"
    /\ dueTo \in 0..disk
    /\ cache = 0 /\ recent = FALSE /\ cacheLock = Free
    /\ got = [h \in Handshakes |-> 0]
    /\ pc = [h \in Handshakes |-> "idle"]
    /\ renewing = FALSE
    /\ task = [r \in Renewals |-> IF r = 0 /\ disk = 0 THEN "order" ELSE "unused"]
    /\ next = 1
    /\ challenge = FALSE
    /\ retryAt = "none" /\ backoffHeld = FALSE
    /\ diskErrors = 0

-----------------------------------------------------------------------------
(* A handshake: resolve() and maybe_trigger_renewal().                      *)

Goto(h, s) == pc' = [pc EXCEPT ![h] = s]

\* A cache loaded within its time to live is used; the mutex is kept otherwise.
Resolve(h) ==
    /\ up = "serving"
    /\ pc[h] = "idle"
    /\ cacheLock = Free
    /\ IF cache # 0 /\ recent
       THEN Goto(h, "due") /\ UNCHANGED cacheLock
       ELSE Goto(h, "reload") /\ cacheLock' = h
    /\ UNCHANGED <<cache, recent, got, taskVars, backoffVars, dueTo, renewing, next,
                   diskErrors>>

\* Mutant: the mutex is released before the files are read.
ReloadReadUnlocked(h) ==
    /\ pc[h] = "reload"
    /\ got' = [got EXCEPT ![h] = disk]
    /\ Goto(h, "store")
    /\ cacheLock' = Free
    /\ UNCHANGED <<cache, recent, taskVars, backoffVars, dueTo, renewing, next, diskErrors>>

\* load_certified_key_from_paths, under the mutex.
ReloadRead(h) ==
    /\ pc[h] = "reload"
    /\ got' = [got EXCEPT ![h] = disk]
    /\ Goto(h, "store")
    /\ UNCHANGED <<cache, recent, cacheLock, taskVars, backoffVars, dueTo, renewing, next,
                   diskErrors>>

\* The load failed: the stale certificate is served and nothing is triggered.
ReloadFails(h) ==
    /\ pc[h] = "reload"
    /\ diskErrors < MaxDiskErrors
    /\ diskErrors' = diskErrors + 1
    /\ Goto(h, "idle")
    /\ cacheLock' = Free
    /\ UNCHANGED <<cache, recent, got, taskVars, backoffVars, dueTo, renewing, next>>

\* Mutant: maybe_trigger_renewal is called with the mutex still held.
StoreLocked(h) ==
    /\ pc[h] = "store"
    /\ cache' = got[h] /\ recent' = TRUE
    /\ got' = [got EXCEPT ![h] = 0]
    /\ Goto(h, "due")
    /\ UNCHANGED <<cacheLock, taskVars, backoffVars, dueTo, renewing, next, diskErrors>>

Store(h) ==
    /\ pc[h] = "store"
    /\ cache' = got[h] /\ recent' = TRUE
    /\ cacheLock' = Free
    /\ got' = [got EXCEPT ![h] = 0]
    /\ Goto(h, "due")
    /\ UNCHANGED <<taskVars, backoffVars, dueTo, renewing, next, diskErrors>>

\* The cached certificate is looked up again, and compared with its window.
CheckDue(h) ==
    /\ pc[h] = "due"
    /\ cacheLock = Free
    /\ Goto(h, IF cache # 0 /\ cache <= dueTo THEN "backoff" ELSE "idle")
    /\ UNCHANGED <<cache, recent, cacheLock, got, taskVars, backoffVars, dueTo, renewing,
                   next, diskErrors>>

\* Mutant: a time that has passed still holds renewals back.
CheckBackoffForever(h) ==
    /\ pc[h] = "backoff"
    /\ backoffHeld = FALSE
    /\ Goto(h, IF retryAt # "none" THEN "idle" ELSE "claim")
    /\ UNCHANGED <<cache, recent, cacheLock, got, taskVars, backoffVars, dueTo, renewing,
                   next, diskErrors>>

CheckBackoff(h) ==
    /\ pc[h] = "backoff"
    /\ backoffHeld = FALSE
    /\ Goto(h, IF retryAt = "future" THEN "idle" ELSE "claim")
    /\ UNCHANGED <<cache, recent, cacheLock, got, taskVars, backoffVars, dueTo, renewing,
                   next, diskErrors>>

\* Mutant: the flag is not looked at.
ClaimAlways(h) ==
    /\ pc[h] = "claim"
    /\ next <= MaxRenewals
    /\ Goto(h, "idle")
    /\ renewing' = TRUE
    /\ task' = [task EXCEPT ![next] = "order"]
    /\ next' = next + 1
    /\ UNCHANGED <<cache, recent, cacheLock, got, up, disk, challenge, backoffVars, dueTo,
                   diskErrors>>

\* compare_exchange on the flag; the winner spawns the task.  Bound: MaxRenewals.
Claim(h) ==
    /\ pc[h] = "claim"
    /\ renewing \/ next <= MaxRenewals
    /\ Goto(h, "idle")
    /\ IF renewing
       THEN UNCHANGED <<renewing, task, next>>
       ELSE /\ renewing' = TRUE
            /\ task' = [task EXCEPT ![next] = "order"]
            /\ next' = next + 1
    /\ UNCHANGED <<cache, recent, cacheLock, got, up, disk, challenge, backoffVars, dueTo,
                   diskErrors>>

-----------------------------------------------------------------------------
(* A renewal: provision_acme_cert() and what the task does with its result. *)

Step(r, from, to) == task[r] = from /\ task' = [task EXCEPT ![r] = to]

Frame == UNCHANGED <<resolverVars, dueTo, next>>

\* The key, the account, the order and its authorizations, or an error.
PlaceOrder(r) ==
    /\ Step(r, "order", "challenge") \/ Step(r, "order", "failed")
    /\ Frame /\ UNCHANGED <<up, disk, challenge, backoffVars, renewing, diskErrors>>

PublishChallenge(r) ==
    /\ Step(r, "challenge", "ready")
    /\ challenge' = TRUE
    /\ Frame /\ UNCHANGED <<up, disk, backoffVars, renewing, diskErrors>>

\* finalize_acme_order: set_ready, or the error of one of its requests.
MarkReady(r) ==
    /\ Step(r, "ready", "polling") \/ Step(r, "ready", "clear_failed")
    /\ Frame /\ UNCHANGED <<up, disk, challenge, backoffVars, renewing, diskErrors>>

\* The CA's probe is answered by the published acceptor (handle_acme), if there
\* is one; the CA may refuse for reasons of its own.
CaAnswers(r) ==
    /\ \/ challenge /\ Step(r, "polling", "clear_ok")
       \/ Step(r, "polling", "clear_failed")
    /\ Frame /\ UNCHANGED <<up, disk, challenge, backoffVars, renewing, diskErrors>>

\* Mutant: the acceptor is cleared on the way to success only.
ClearChallengeOnSuccess(r) ==
    /\ \/ Step(r, "clear_ok", "write") /\ challenge' = FALSE
       \/ Step(r, "clear_failed", "failed") /\ UNCHANGED challenge
    /\ Frame /\ UNCHANGED <<up, disk, backoffVars, renewing, diskErrors>>

\* "Clear the challenge acceptor on every path, error ones included."
ClearChallenge(r) ==
    /\ Step(r, "clear_ok", "write") \/ Step(r, "clear_failed", "failed")
    /\ challenge' = FALSE
    /\ Frame /\ UNCHANGED <<up, disk, backoffVars, renewing, diskErrors>>

\* write_atomic of the key, which has not changed, and of the chain.  A relay
\* that was waiting for its first certificate starts to serve.
WriteFiles(r) ==
    /\ Step(r, "write", IF r = 0 THEN "done" ELSE "load")
    /\ disk' = disk + 1
    /\ up' = "serving"
    /\ Frame /\ UNCHANGED <<challenge, backoffVars, renewing, diskErrors>>

LoadIssued(r) ==
    /\ Step(r, "load", "apply")
    /\ Frame /\ UNCHANGED <<up, disk, challenge, backoffVars, renewing, diskErrors>>

FilesFail(r) ==
    /\ Step(r, "write", "failed") \/ Step(r, "load", "failed")
    /\ diskErrors < MaxDiskErrors
    /\ diskErrors' = diskErrors + 1
    /\ Frame /\ UNCHANGED <<up, disk, challenge, backoffVars, renewing>>

\* The task locks the backoff, and the cache while it holds it.
LockBackoff(r) ==
    /\ Step(r, "apply", "settle")
    /\ backoffHeld = FALSE
    /\ backoffHeld' = TRUE
    /\ Frame
    /\ UNCHANGED <<up, disk, challenge, retryAt, renewing, diskErrors>>

\* The renewed certificate replaces the cached one and the backoff is reset.
ReplaceCache(r) ==
    /\ Step(r, "settle", "release")
    /\ cacheLock = Free
    /\ cache' = disk /\ recent' = TRUE
    /\ retryAt' = "none" /\ backoffHeld' = FALSE
    /\ UNCHANGED <<cacheLock, got, pc, up, disk, challenge, dueTo, next, renewing,
                   diskErrors>>

\* record_failure: the next attempt is renewal_retry_delay away.  At start-up the error
\* ends the relay.
RecordFailure(r) ==
    /\ \/ /\ r = 0
          /\ Step(r, "failed", "done")
          /\ up' = "exited"
          /\ UNCHANGED backoffVars
       \/ /\ r # 0
          /\ Step(r, "failed", "release")
          /\ backoffHeld = FALSE
          /\ retryAt' = "future"
          /\ UNCHANGED <<up, backoffHeld>>
    /\ Frame /\ UNCHANGED <<disk, challenge, renewing, diskErrors>>

\* RenewingGuard is dropped with the task, after the backoff's guard.
Release(r) ==
    /\ Step(r, "release", "done")
    /\ renewing' = FALSE
    /\ Frame /\ UNCHANGED <<up, disk, challenge, backoffVars, diskErrors>>

-----------------------------------------------------------------------------
(* Time.                                                                   *)

\* The certificate on disk enters its renewal window.
CertDue ==
    /\ dueTo < disk
    /\ dueTo' = disk
    /\ UNCHANGED <<resolverVars, taskVars, backoffVars, renewing, next, diskErrors>>

CacheExpires ==
    /\ recent
    /\ recent' = FALSE
    /\ UNCHANGED <<cache, cacheLock, got, pc, taskVars, backoffVars, dueTo, renewing, next,
                   diskErrors>>

RetryTimeComes ==
    /\ retryAt = "future"
    /\ retryAt' = "past"
    /\ UNCHANGED <<resolverVars, taskVars, backoffHeld, dueTo, renewing, next, diskErrors>>

-----------------------------------------------------------------------------

HandshakeStep(h) ==
    \/ ReloadRead(h) \/ ReloadFails(h) \/ Store(h)
    \/ CheckDue(h) \/ CheckBackoff(h) \/ Claim(h)

TaskStep(r) ==
    \/ PlaceOrder(r) \/ PublishChallenge(r) \/ MarkReady(r) \/ CaAnswers(r)
    \/ ClearChallenge(r) \/ WriteFiles(r) \/ LoadIssued(r) \/ FilesFail(r)
    \/ LockBackoff(r) \/ ReplaceCache(r) \/ RecordFailure(r) \/ Release(r)

Next ==
    \/ \E h \in Handshakes : Resolve(h) \/ HandshakeStep(h)
    \/ \E r \in Renewals : TaskStep(r)
    \/ CertDue \/ CacheExpires \/ RetryTimeComes

Spec == Init /\ [][Next]_vars

\* Handshakes and tasks that can go on do, a mutex that keeps being released is
\* acquired in the end, clocks advance, the CA answers, and agents keep
\* connecting to a relay that serves.
Fairness ==
    /\ \A h \in Handshakes : SF_vars(Resolve(h)) /\ SF_vars(HandshakeStep(h))
    /\ SF_vars(\E r \in Renewals : TaskStep(r))
    /\ WF_vars(CacheExpires) /\ WF_vars(RetryTimeComes)

FairSpec == Spec /\ Fairness

-----------------------------------------------------------------------------
(* Properties.                                                             *)

Running == {r \in Renewals : task[r] \notin Ended}

Flags ==
    /\ recent \in BOOLEAN /\ renewing \in BOOLEAN
    /\ challenge \in BOOLEAN /\ backoffHeld \in BOOLEAN

TypeOK ==
    /\ Flags
    /\ up \in {"starting", "serving", "exited"}
    /\ disk \in Nat /\ dueTo \in Nat /\ cache \in Nat
    /\ cacheLock \in Handshakes \cup {Free}
    /\ got \in [Handshakes -> Nat]
    /\ pc \in [Handshakes -> {"idle", "reload", "store", "due", "backoff", "claim"}]
    /\ task \in [Renewals -> TaskStates]
    /\ next \in 1..MaxRenewals + 1
    /\ retryAt \in {"none", "future", "past"}
    /\ diskErrors \in 0..MaxDiskErrors

\* The flag admits one renewal at a time and is never left set behind one: it
\* is set exactly while a renewal task runs.
OneRenewal ==
    /\ \A r, q \in Running : r = q
    /\ renewing <=> \E r \in Running : r # 0

\* The CA polls an order only while the relay answers its challenge, and an
\* acceptor is never left behind by an order that is over.
ChallengeServed ==
    challenge <=> \E r \in Renewals : task[r] \in {"ready", "polling", "clear_ok", "clear_failed"}

\* Handshakes never go back to an older certificate than one already cached:
\* a reload that read the disk before a renewal cannot overwrite its result.
CacheNeverGoesBack == [][cache' >= cache]_vars

\* No handshake is left blocked on the two mutexes.
HandshakeEnds ==
    \A h \in Handshakes : pc[h] # "idle" ~> (pc[h] = "idle" \/ next > MaxRenewals)

\* While agents keep connecting, a certificate in its window is replaced, or at
\* least a renewal is tried again: after every failure the next task starts.
DueIsTried ==
    \A r \in Renewals \ {0} :
        (up = "serving" /\ next = r /\ disk <= dueTo) ~> (next > r \/ disk > dueTo)

=============================================================================
