---------------------------- MODULE RenewalProofs ----------------------------
(***************************************************************************)
(* Proofs about CertRenewal, for any number of handshakes, renewals and     *)
(* disk failures.                                                           *)
(***************************************************************************)
EXTENDS CertRenewal, TLAPS

\* A certificate that is cached, or was read to be cached, is not newer than
\* the one on disk, and what a reload is about to store is not older than what
\* the cache holds, because the reload holds the cache's mutex.
CacheBehindDisk ==
    /\ cache <= disk
    /\ \A h \in Handshakes :
        /\ pc[h] \in {"reload", "store"} => cacheLock = h
        /\ pc[h] = "store" => got[h] \in cache..disk

\* Renewals are claimed in order, and the provisioning at start-up is over when
\* the relay serves.
TasksInOrder ==
    /\ \A r \in Renewals : r >= next => task[r] = "unused"
    /\ up = "serving" => task[0] \in Ended
    /\ up # "serving" => \A h \in Handshakes : pc[h] = "idle"

RenewalInv ==
    /\ TypeOK
    /\ TasksInOrder
    /\ OneRenewal
    /\ ChallengeServed
    /\ CacheBehindDisk
-----------------------------------------------------------------------------

\* The initial states satisfy the invariant: no task runs but the provisioning
\* at start-up, and nothing is cached.
LEMMA RenewalStarts == Init => RenewalInv
<1> SUFFICES ASSUME Init PROVE RenewalInv
  OBVIOUS
<1>0. MaxRenewals \in Nat /\ MaxDiskErrors \in Nat
  BY RenewalAssumption
<1>1. TypeOK
  <2>1. Flags
    BY Zenon DEF Init, Flags
  <2>2. task \in [Renewals -> TaskStates]
    BY DEF Init, TaskStates, Ended
  <2> QED
    BY <1>0, <2>1, <2>2 DEF Init, TypeOK
<1>2. TasksInOrder /\ OneRenewal /\ ChallengeServed
  BY <1>0 DEF Init, TasksInOrder, OneRenewal, ChallengeServed, Running, Renewals, Ended
<1>3. CacheBehindDisk
  BY <1>0 DEF Init, CacheBehindDisk
<1> QED
  BY <1>1, <1>2, <1>3 DEF RenewalInv

\* A step of a handshake preserves the invariant.  Only Claim touches a task, and
\* it starts one when none is running.
LEMMA HandshakeSteps ==
    ASSUME RenewalInv, NEW h \in Handshakes, Resolve(h) \/ HandshakeStep(h)
    PROVE  RenewalInv'
<1>0. MaxRenewals \in Nat /\ MaxDiskErrors \in Nat /\ Free \notin Handshakes
  BY RenewalAssumption DEF Free
<1> USE DEF RenewalInv, Goto, taskVars, backoffVars
<1>1. CASE Resolve(h)
  <2>0. Flags'
    BY <1>1, Zenon DEF Resolve, TypeOK, Flags
  <2>1. TypeOK'
    BY <1>0, <1>1, <2>0 DEF Resolve, TypeOK
  <2>2. TasksInOrder' /\ OneRenewal' /\ ChallengeServed'
    BY <1>0, <1>1 DEF Resolve, TypeOK, TasksInOrder, OneRenewal, ChallengeServed, Running
  <2>3. CacheBehindDisk'
    BY <1>0, <1>1 DEF Resolve, TypeOK, CacheBehindDisk
  <2> QED
    BY <2>1, <2>2, <2>3
<1>2. CASE ReloadRead(h) \/ ReloadFails(h) \/ Store(h)
  <2>0. Flags'
    BY <1>2, Zenon DEF ReloadRead, ReloadFails, Store, TypeOK, Flags
  <2>1. TypeOK'
    BY <1>0, <1>2, <2>0 DEF ReloadRead, ReloadFails, Store, TypeOK
  <2>2. TasksInOrder' /\ OneRenewal' /\ ChallengeServed'
    BY <1>0, <1>2
    DEF ReloadRead, ReloadFails, Store, TypeOK, TasksInOrder, OneRenewal,
        ChallengeServed, Running
  <2>3. CacheBehindDisk'
    BY <1>0, <1>2 DEF ReloadRead, ReloadFails, Store, TypeOK, CacheBehindDisk
  <2> QED
    BY <2>1, <2>2, <2>3
<1>3. CASE CheckDue(h) \/ CheckBackoff(h)
  <2>0. Flags'
    BY <1>3, Zenon DEF CheckDue, CheckBackoff, TypeOK, Flags
  <2>1. TypeOK'
    BY <1>0, <1>3, <2>0 DEF CheckDue, CheckBackoff, TypeOK
  <2>2. TasksInOrder' /\ OneRenewal' /\ ChallengeServed'
    BY <1>0, <1>3
    DEF CheckDue, CheckBackoff, TypeOK, TasksInOrder, OneRenewal, ChallengeServed, Running
  <2>3. CacheBehindDisk'
    BY <1>0, <1>3 DEF CheckDue, CheckBackoff, TypeOK, CacheBehindDisk
  <2> QED
    BY <2>1, <2>2, <2>3
<1>4. CASE Claim(h) /\ renewing
  <2>0. Flags' /\ UNCHANGED <<renewing, task, next, up, disk, challenge>>
    BY <1>4, Zenon DEF Claim, TypeOK, Flags
  <2>1. TypeOK'
    BY <1>0, <1>4, <2>0 DEF Claim, TypeOK
  <2>2. TasksInOrder' /\ OneRenewal' /\ ChallengeServed'
    BY <1>0, <1>4, <2>0
    DEF Claim, TypeOK, TasksInOrder, OneRenewal, ChallengeServed, Running
  <2>3. CacheBehindDisk'
    BY <1>0, <1>4 DEF Claim, TypeOK, CacheBehindDisk
  <2> QED
    BY <2>1, <2>2, <2>3
<1>5. CASE Claim(h) /\ ~renewing
  <2>0. /\ Flags'
        /\ renewing' = TRUE
        /\ task' = [task EXCEPT ![next] = "order"]
        /\ next' = next + 1
        /\ next <= MaxRenewals
        /\ UNCHANGED <<up, disk, challenge>>
    BY <1>5, Zenon DEF Claim, TypeOK, Flags
  <2>1. next \in Renewals /\ next # 0 /\ task \in [Renewals -> TaskStates]
    BY <1>0, <2>0 DEF TypeOK, Renewals
  <2>2. TypeOK'
    <3>1. task' \in [Renewals -> TaskStates] /\ next' \in 1..MaxRenewals + 1
      BY <1>0, <2>0, <2>1 DEF TaskStates, TypeOK
    <3> QED
      BY <1>0, <1>5, <2>0, <3>1 DEF Claim, TypeOK
  <2>3. TasksInOrder'
    BY <1>0, <1>5, <2>0, <2>1 DEF Claim, TypeOK, TasksInOrder, Renewals
  <2>4. \A r \in Renewals : task[r] \in Ended
    BY <1>0, <1>5 DEF Claim, TypeOK, TasksInOrder, OneRenewal, Running
  <2>5. OneRenewal'
    BY <1>0, <2>0, <2>1, <2>4 DEF OneRenewal, Running, Ended
  <2>6. ChallengeServed'
    BY <2>0, <2>1, <2>4 DEF ChallengeServed, Ended
  <2>7. CacheBehindDisk'
    BY <1>0, <1>5 DEF Claim, TypeOK, CacheBehindDisk
  <2> QED
    BY <2>2, <2>3, <2>5, <2>6, <2>7
<1> QED
  BY <1>1, <1>2, <1>3, <1>4, <1>5 DEF HandshakeStep

\* What a step of one task leaves of the others: it is the only one running, so
\* the flag and the order of the tasks depend on where it goes alone.
LEMMA OneTaskMoves ==
    ASSUME RenewalInv, NEW r \in Renewals,
           NEW from \in TaskStates \ Ended, NEW to \in TaskStates \ {"unused"},
           Step(r, from, to), next' = next
    PROVE  /\ task' \in [Renewals -> TaskStates]
           /\ \A q \in Renewals : q >= next' => task'[q] = "unused"
           /\ task[r] = from /\ task'[r] = to
           /\ \A q \in Renewals : q # r => task[q] \in Ended /\ task'[q] = task[q]
           /\ renewing <=> r # 0
           /\ challenge <=> from \in {"ready", "polling", "clear_ok", "clear_failed"}
<1>0. task \in [Renewals -> TaskStates] /\ next \in Nat /\ r \in Nat /\ MaxRenewals \in Nat
  BY RenewalAssumption DEF RenewalInv, TypeOK, Renewals
<1>1. task[r] = from /\ task'[r] = to /\ task' \in [Renewals -> TaskStates]
  BY <1>0 DEF Step
<1>2. \A q \in Renewals : q # r => task[q] \in Ended /\ task'[q] = task[q]
  BY <1>0, <1>1 DEF RenewalInv, OneRenewal, Running, Step
<1>3. ~(r >= next)
  BY <1>0, <1>1 DEF RenewalInv, TasksInOrder, Ended
<1>4. \A q \in Renewals : q >= next' => task'[q] = "unused"
  BY <1>0, <1>2, <1>3 DEF RenewalInv, TasksInOrder
<1>5. renewing <=> r # 0
  BY <1>1, <1>2, Zenon DEF RenewalInv, OneRenewal, Running
<1>6. challenge <=> from \in {"ready", "polling", "clear_ok", "clear_failed"}
  BY <1>1, <1>2 DEF RenewalInv, ChallengeServed, Ended
<1> QED
  BY <1>1, <1>2, <1>4, <1>5, <1>6

\* A step of a task preserves the invariant when it keeps the flag set while the
\* task goes on, and the challenge published while its order is open.
LEMMA TaskInvariant ==
    ASSUME RenewalInv, NEW r \in Renewals,
           NEW from \in TaskStates \ Ended, NEW to \in TaskStates \ {"unused"},
           Step(r, from, to), next' = next,
           challenge' <=> to \in {"ready", "polling", "clear_ok", "clear_failed"},
           renewing' <=> r # 0 /\ to # "done",
           up' = "serving" => r # 0 \/ to = "done",
           up' = up \/ up' = "serving" \/ r = 0,
           up' # "serving" => pc' = pc
    PROVE  TasksInOrder' /\ OneRenewal' /\ ChallengeServed'
<1>0. /\ \A q \in Renewals : q >= next' => task'[q] = "unused"
      /\ task[r] = from /\ task'[r] = to
      /\ \A q \in Renewals : q # r => task[q] \in Ended /\ task'[q] = task[q]
      /\ 0 \in Renewals
  BY OneTaskMoves, RenewalAssumption DEF Renewals
<1>1. TasksInOrder'
  <2>1. up' = "serving" => task'[0] \in Ended
    BY <1>0 DEF Ended
  <2>2. up' # "serving" => \A h \in Handshakes : pc'[h] = "idle"
    <3>1. r = 0 => up # "serving"
      BY <1>0 DEF RenewalInv, TasksInOrder
    <3> QED
      BY <3>1 DEF RenewalInv, TasksInOrder
  <2> QED
    BY <1>0, <2>1, <2>2 DEF TasksInOrder
<1>2. OneRenewal'
  BY <1>0 DEF OneRenewal, Running, Ended, TaskStates
<1>3. ChallengeServed'
  BY <1>0 DEF ChallengeServed, Ended
<1> QED
  BY <1>1, <1>2, <1>3

\* The steps of a task up to the writing of the files.
LEMMA OrderSteps ==
    ASSUME RenewalInv, NEW r \in Renewals,
           \/ PlaceOrder(r) \/ PublishChallenge(r) \/ MarkReady(r)
           \/ CaAnswers(r) \/ ClearChallenge(r)
    PROVE  RenewalInv'
<1> USE DEF Frame, resolverVars, backoffVars
<1>1. UNCHANGED <<resolverVars, up, disk, dueTo, next, renewing, backoffVars, diskErrors>>
  BY DEF PlaceOrder, PublishChallenge, MarkReady, CaAnswers, ClearChallenge
<1>2. PICK from \in TaskStates \ Ended, to \in TaskStates \ {"unused", "done"} :
        /\ Step(r, from, to)
        /\ challenge' \in BOOLEAN
        /\ challenge' <=> to \in {"ready", "polling", "clear_ok", "clear_failed"}
  <2> DEFINE Goes(from, to) == Step(r, from, to) /\ challenge' \in BOOLEAN
               /\ (challenge' <=> to \in {"ready", "polling", "clear_ok", "clear_failed"})
  <2>0. challenge \in BOOLEAN /\ next' = next
    BY <1>1 DEF RenewalInv, TypeOK, Flags
  <2>1. CASE PlaceOrder(r)
    <3>1. Step(r, "order", "challenge") \/ Step(r, "order", "failed")
      BY <2>1 DEF PlaceOrder
    <3>2. ~challenge /\ challenge' = challenge
      BY <2>0, <2>1, <3>1, OneTaskMoves DEF PlaceOrder, TaskStates, Ended
    <3>3. Goes("order", "challenge") \/ Goes("order", "failed")
      BY <2>0, <3>1, <3>2
    <3> QED
      BY <3>3 DEF TaskStates, Ended
  <2>2. CASE PublishChallenge(r)
    <3>1. Goes("challenge", "ready")
      BY <2>2 DEF PublishChallenge
    <3> QED
      BY <3>1 DEF TaskStates, Ended
  <2>3. CASE MarkReady(r)
    <3>1. Step(r, "ready", "polling") \/ Step(r, "ready", "clear_failed")
      BY <2>3 DEF MarkReady
    <3>2. challenge /\ challenge' = challenge
      BY <2>0, <2>3, <3>1, OneTaskMoves DEF MarkReady, TaskStates, Ended
    <3>3. Goes("ready", "polling") \/ Goes("ready", "clear_failed")
      BY <2>0, <3>1, <3>2
    <3> QED
      BY <3>3 DEF TaskStates, Ended
  <2>4. CASE CaAnswers(r)
    <3>1. Step(r, "polling", "clear_ok") \/ Step(r, "polling", "clear_failed")
      BY <2>4 DEF CaAnswers
    <3>2. challenge /\ challenge' = challenge
      BY <2>0, <2>4, <3>1, OneTaskMoves DEF CaAnswers, TaskStates, Ended
    <3>3. Goes("polling", "clear_ok") \/ Goes("polling", "clear_failed")
      BY <2>0, <3>1, <3>2
    <3> QED
      BY <3>3 DEF TaskStates, Ended
  <2>5. CASE ClearChallenge(r)
    <3>1. Goes("clear_ok", "write") \/ Goes("clear_failed", "failed")
      BY <2>5 DEF ClearChallenge
    <3> QED
      BY <3>1 DEF TaskStates, Ended
  <2> QED
    BY <2>1, <2>2, <2>3, <2>4, <2>5
<1>3. /\ task' \in [Renewals -> TaskStates]
      /\ task[r] = from
      /\ renewing <=> r # 0
  BY <1>1, <1>2, OneTaskMoves
<1>4. TypeOK'
  <2>1. Flags'
    BY <1>1, <1>2, Zenon DEF RenewalInv, TypeOK, Flags
  <2> QED
    BY <1>1, <1>3, <2>1 DEF RenewalInv, TypeOK
<1>5. up' = "serving" => r # 0
  BY <1>1, <1>2, <1>3 DEF RenewalInv, TasksInOrder
<1>6. TasksInOrder' /\ OneRenewal' /\ ChallengeServed'
  <2>1. renewing' <=> r # 0 /\ to # "done"
    BY <1>1, <1>2, <1>3
  <2> QED
    BY <1>1, <1>2, <1>5, <2>1, TaskInvariant
<1>7. CacheBehindDisk'
  BY <1>1 DEF RenewalInv, CacheBehindDisk
<1> QED
  BY <1>4, <1>6, <1>7 DEF RenewalInv

\* What the steps of a task that follow its order have in common: they leave the
\* challenge cleared, and each conjunct about tasks depends on where they go.
LEMMA LateTaskMoves ==
    ASSUME RenewalInv, NEW r \in Renewals,
           NEW from \in {"write", "load", "apply", "settle", "failed", "release"},
           NEW to \in {"load", "apply", "settle", "failed", "release", "done"},
           Step(r, from, to), next' = next, challenge' = challenge,
           \/ UNCHANGED renewing /\ (to # "done" \/ r = 0)
           \/ renewing' = FALSE /\ to = "done",
           \/ UNCHANGED up
           \/ up' = "serving" /\ (r # 0 \/ to = "done")
           \/ up' # "serving" /\ r = 0,
           UNCHANGED pc
    PROVE  /\ task' \in [Renewals -> TaskStates]
           /\ renewing' \in BOOLEAN
           /\ TasksInOrder' /\ OneRenewal' /\ ChallengeServed'
<1>1. from \in TaskStates \ Ended /\ to \in TaskStates \ {"unused"}
  BY DEF TaskStates, Ended
<1>2. /\ task' \in [Renewals -> TaskStates]
      /\ task[r] = from
      /\ renewing <=> r # 0
      /\ ~challenge
  BY <1>1, OneTaskMoves
<1>3. renewing \in BOOLEAN
  BY DEF RenewalInv, TypeOK, Flags
<1>4. renewing' <=> r # 0 /\ to # "done"
  BY <1>2, <1>3
<1>5. challenge' <=> to \in {"ready", "polling", "clear_ok", "clear_failed"}
  BY <1>2
<1>6. up = "serving" => r # 0
  BY <1>1, <1>2 DEF RenewalInv, TasksInOrder
<1>7. TasksInOrder' /\ OneRenewal' /\ ChallengeServed'
  BY <1>1, <1>4, <1>5, <1>6, TaskInvariant
<1>8. renewing' \in BOOLEAN
  BY <1>3, Zenon
<1> QED
  BY <1>2, <1>7, <1>8

\* The steps of a task from the writing of the files to its end.
LEMMA ResultSteps ==
    ASSUME RenewalInv, NEW r \in Renewals,
           \/ WriteFiles(r) \/ LoadIssued(r) \/ FilesFail(r) \/ LockBackoff(r)
           \/ ReplaceCache(r) \/ RecordFailure(r) \/ Release(r)
    PROVE  RenewalInv'
<1>0. MaxDiskErrors \in Nat /\ Free \notin Handshakes
  BY RenewalAssumption DEF Free
<1> USE DEF Frame, resolverVars, backoffVars
<1>a. ASSUME task' \in [Renewals -> TaskStates], renewing' \in BOOLEAN,
             recent' \in BOOLEAN, backoffHeld' \in BOOLEAN, challenge' = challenge,
             disk' \in Nat, cache' \in Nat,
             retryAt' \in {"none", "future", "past"}, diskErrors' \in 0..MaxDiskErrors,
             up' \in {"starting", "serving", "exited"},
             UNCHANGED <<dueTo, cacheLock, got, pc, next>>
      PROVE  TypeOK'
  <2>1. Flags'
    BY <1>a, Zenon DEF RenewalInv, TypeOK, Flags
  <2> QED
    BY <1>a, <2>1 DEF RenewalInv, TypeOK
<1>b. /\ disk \in Nat /\ cache \in Nat /\ diskErrors \in 0..MaxDiskErrors
      /\ retryAt \in {"none", "future", "past"} /\ up \in {"starting", "serving", "exited"}
      /\ recent \in BOOLEAN /\ backoffHeld \in BOOLEAN
  BY DEF RenewalInv, TypeOK, Flags
<1>1. CASE WriteFiles(r)
  <2>1. /\ task' \in [Renewals -> TaskStates]
        /\ renewing' \in BOOLEAN
        /\ TasksInOrder' /\ OneRenewal' /\ ChallengeServed'
    <3>0. UNCHANGED <<next, challenge, renewing, pc>> /\ up' = "serving"
      BY <1>1 DEF WriteFiles
    <3>1. CASE r = 0
      <4>1. Step(r, "write", "done")
        BY <1>1, <3>1 DEF WriteFiles
      <4> QED
        BY <3>0, <3>1, <4>1, LateTaskMoves
    <3>2. CASE r # 0
      <4>1. Step(r, "write", "load")
        BY <1>1, <3>2 DEF WriteFiles
      <4> QED
        BY <3>0, <3>2, <4>1, LateTaskMoves
    <3> QED
      BY <3>1, <3>2
  <2>2. TypeOK'
    BY <1>a, <1>b, <1>1, <2>1 DEF WriteFiles
  <2>3. CacheBehindDisk'
    BY <1>b, <1>1 DEF WriteFiles, RenewalInv, TypeOK, CacheBehindDisk
  <2> QED
    BY <2>1, <2>2, <2>3 DEF RenewalInv
<1>2. CASE LoadIssued(r) \/ FilesFail(r) \/ LockBackoff(r) \/ Release(r)
  <2>1. /\ task' \in [Renewals -> TaskStates]
        /\ renewing' \in BOOLEAN
        /\ TasksInOrder' /\ OneRenewal' /\ ChallengeServed'
    <3>1. CASE LoadIssued(r) \/ FilesFail(r) \/ LockBackoff(r)
      <4>1. /\ UNCHANGED <<next, challenge, renewing, pc, up>>
            /\ \/ Step(r, "load", "apply") \/ Step(r, "write", "failed")
               \/ Step(r, "load", "failed") \/ Step(r, "apply", "settle")
        BY <3>1 DEF LoadIssued, FilesFail, LockBackoff
      <4> QED
        BY <4>1, LateTaskMoves
    <3>2. CASE Release(r)
      <4>1. /\ UNCHANGED <<next, challenge, pc, up>> /\ renewing' = FALSE
            /\ Step(r, "release", "done")
        BY <3>2 DEF Release
      <4> QED
        BY <4>1, LateTaskMoves
    <3> QED
      BY <1>2, <3>1, <3>2
  <2>2. backoffHeld' \in BOOLEAN /\ recent' = recent
    BY <1>b, <1>2, Zenon DEF LoadIssued, FilesFail, LockBackoff, Release
  <2>3. TypeOK'
    BY <1>0, <1>a, <1>b, <1>2, <2>1, <2>2 DEF LoadIssued, FilesFail, LockBackoff, Release
  <2>4. CacheBehindDisk'
    BY <1>2 DEF LoadIssued, FilesFail, LockBackoff, Release, RenewalInv, CacheBehindDisk
  <2> QED
    BY <2>1, <2>3, <2>4 DEF RenewalInv
<1>3. CASE ReplaceCache(r)
  <2>1. /\ task' \in [Renewals -> TaskStates]
        /\ renewing' \in BOOLEAN
        /\ TasksInOrder' /\ OneRenewal' /\ ChallengeServed'
    <3>1. UNCHANGED <<next, challenge, renewing, pc, up>> /\ Step(r, "settle", "release")
      BY <1>3 DEF ReplaceCache
    <3> QED
      BY <3>1, LateTaskMoves
  <2>2. TypeOK'
    BY <1>a, <1>b, <1>3, <2>1 DEF ReplaceCache
  <2>3. CacheBehindDisk'
    BY <1>0, <1>b, <1>3 DEF ReplaceCache, RenewalInv, CacheBehindDisk
  <2> QED
    BY <2>1, <2>2, <2>3 DEF RenewalInv
<1>4. CASE RecordFailure(r)
  <2>1. /\ task' \in [Renewals -> TaskStates]
        /\ renewing' \in BOOLEAN
        /\ TasksInOrder' /\ OneRenewal' /\ ChallengeServed'
    <3>0. UNCHANGED <<next, challenge, renewing, pc>>
      BY <1>4 DEF RecordFailure
    <3>1. CASE r = 0
      <4>1. Step(r, "failed", "done") /\ up' # "serving"
        BY <1>4, <3>1 DEF RecordFailure
      <4> QED
        BY <3>0, <3>1, <4>1, LateTaskMoves
    <3>2. CASE r # 0
      <4>1. Step(r, "failed", "release") /\ UNCHANGED up
        BY <1>4, <3>2 DEF RecordFailure
      <4> QED
        BY <3>0, <4>1, LateTaskMoves
    <3> QED
      BY <3>1, <3>2
  <2>2. TypeOK'
    BY <1>a, <1>b, <1>4, <2>1 DEF RecordFailure
  <2>3. CacheBehindDisk'
    BY <1>4 DEF RecordFailure, RenewalInv, CacheBehindDisk
  <2> QED
    BY <2>1, <2>2, <2>3 DEF RenewalInv
<1> QED
  BY <1>1, <1>2, <1>3, <1>4

\* Every step preserves the invariant.
LEMMA RenewalPreserved == RenewalInv /\ [Next]_vars => RenewalInv'
<1> SUFFICES ASSUME RenewalInv, [Next]_vars PROVE RenewalInv'
  OBVIOUS
<1> USE DEF resolverVars, taskVars, backoffVars
<1>1. ASSUME NEW h \in Handshakes, Resolve(h) \/ HandshakeStep(h) PROVE RenewalInv'
  BY <1>1, HandshakeSteps
<1>2. ASSUME NEW r \in Renewals, TaskStep(r) PROVE RenewalInv'
  BY <1>2, OrderSteps, ResultSteps DEF TaskStep
<1>3. CASE CertDue \/ CacheExpires \/ RetryTimeComes
  <2>1. Flags'
    BY <1>3, Zenon DEF CertDue, CacheExpires, RetryTimeComes, RenewalInv, TypeOK, Flags
  <2>2. TypeOK'
    BY <1>3, <2>1 DEF CertDue, CacheExpires, RetryTimeComes, RenewalInv, TypeOK
  <2>3. UNCHANGED <<up, disk, cache, cacheLock, got, pc, renewing, task, next, challenge>>
    BY <1>3 DEF CertDue, CacheExpires, RetryTimeComes
  <2>4. TasksInOrder' /\ OneRenewal' /\ ChallengeServed' /\ CacheBehindDisk'
    BY <2>3
    DEF RenewalInv, TasksInOrder, OneRenewal, ChallengeServed, CacheBehindDisk, Running
  <2> QED
    BY <2>2, <2>4 DEF RenewalInv
<1>4. CASE UNCHANGED vars
  <2>1. Flags'
    BY <1>4, Zenon DEF vars, RenewalInv, TypeOK, Flags
  <2>2. TypeOK'
    BY <1>4, <2>1 DEF vars, RenewalInv, TypeOK
  <2>3. TasksInOrder' /\ OneRenewal' /\ ChallengeServed' /\ CacheBehindDisk'
    BY <1>4
    DEF vars, RenewalInv, TasksInOrder, OneRenewal, ChallengeServed, CacheBehindDisk,
        Running
  <2> QED
    BY <2>2, <2>3 DEF RenewalInv
<1> QED
  BY <1>1, <1>2, <1>3, <1>4 DEF Next

\* The inductive invariant of the relay's certificate holds in every state.
THEOREM RenewalInvariant == Spec => []RenewalInv
<1> QED
  BY RenewalStarts, RenewalPreserved, PTL DEF Spec

\* At most one renewal runs, and the renewing flag is set exactly while one does:
\* compare_exchange admits one and RenewingGuard always clears it.
THEOREM AtMostOneRenewal == Spec => []OneRenewal
<1>1. RenewalInv => OneRenewal
  BY DEF RenewalInv
<1> QED
  BY <1>1, RenewalInvariant, PTL

\* provision_acme_cert publishes its acceptor before the CA is told and clears it
\* on every path, so the relay answers the CA exactly while an order is open.
THEOREM ChallengeAlwaysServed == Spec => []ChallengeServed
<1>1. RenewalInv => ChallengeServed
  BY DEF RenewalInv
<1> QED
  BY <1>1, RenewalInvariant, PTL

\* The cached certificate is never replaced by an older one: resolve() keeps the
\* cache's mutex while it reads the disk, and a renewal writes the disk first.
THEOREM CacheOnlyAdvances == Spec => CacheNeverGoesBack
<1>1. RenewalInv /\ [Next]_vars => [cache' >= cache]_vars
  <2> SUFFICES ASSUME RenewalInv, Next PROVE cache' >= cache
    OBVIOUS
  <2>0. cache \in Nat /\ disk \in Nat /\ cache <= disk
    BY DEF RenewalInv, TypeOK, CacheBehindDisk
  <2> USE DEF resolverVars
  <2>1. ASSUME NEW h \in Handshakes, Store(h) PROVE cache' >= cache
    BY <2>0, <2>1 DEF Store, RenewalInv, CacheBehindDisk
  <2>2. ASSUME NEW r \in Renewals, ReplaceCache(r) PROVE cache' >= cache
    BY <2>0, <2>2 DEF ReplaceCache
  <2>3. ASSUME NEW h \in Handshakes, Resolve(h) \/ HandshakeStep(h), ~Store(h)
        PROVE  cache' = cache
    BY <2>3
    DEF HandshakeStep, Resolve, ReloadRead, ReloadFails, CheckDue, CheckBackoff, Claim
  <2>4. ASSUME NEW r \in Renewals, TaskStep(r), ~ReplaceCache(r)
        PROVE  cache' = cache
    BY <2>4
    DEF TaskStep, PlaceOrder, PublishChallenge, MarkReady, CaAnswers, ClearChallenge,
        WriteFiles, LoadIssued, FilesFail, LockBackoff, RecordFailure, Release, Frame
  <2>5. CertDue \/ CacheExpires \/ RetryTimeComes => cache' = cache
    BY DEF CertDue, CacheExpires, RetryTimeComes
  <2> QED
    BY <2>0, <2>1, <2>2, <2>3, <2>4, <2>5 DEF Next
<1> QED
  BY <1>1, RenewalInvariant, PTL DEF Spec, CacheNeverGoesBack

=============================================================================
