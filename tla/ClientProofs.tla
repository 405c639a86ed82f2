----------------------------- MODULE ClientProofs -----------------------------
(* Proofs about the client: ClientConn, for pools of any size and every retry  *)
(* policy, and CertProvisioner, for any number of callers and orders.          *)
EXTENDS ClientConn, CertProvisioner, FiniteSetTheorems, TLAPS

-----------------------------------------------------------------------------
(* The reconnect bookkeeping by itself: RetryState, for every policy that       *)
(* validate() accepts.                                                          *)

\* The inductive invariant: the bounds hold together, since a session is
\* booked from within them.
RetryInv == Retry!TypeOK /\ Retry!BudgetExact /\ Retry!BackoffBounded /\ Retry!NeverHammers

\* Doubling a backoff within the policy's bounds stays within them.
LEMMA DoubledBounded ==
    ASSUME NEW b \in Nat, BaseBackoff <= b, b <= MaxBackoff
    PROVE  /\ Retry!Doubled(b) \in Nat
           /\ b <= Retry!Doubled(b) /\ Retry!Doubled(b) <= MaxBackoff
  BY RetryAssumption DEF Retry!Doubled, Retry!AtMost

\* What a session can be, and the slot, keep their types.
SessionTypes ==
    SessionState \in {"down", "up", "lost", "plain", "rate"} /\ rejected \in BOOLEAN

\* Every step of the bookkeeping keeps them.
LEMMA SessionTypesStep == SessionTypes /\ Retry!Next => SessionTypes'
  <1> SUFFICES ASSUME SessionTypes, Retry!Next PROVE SessionTypes'
    OBVIOUS
  <1> USE DEF SessionTypes
  <1>1. CASE Retry!SessionUp BY Zenon, <1>1 DEF Retry!SessionUp
  <1>2. CASE Retry!SessionEnds
    <2>1. rejected' \in BOOLEAN BY Zenon, <1>2 DEF Retry!SessionEnds
    <2>2. SessionState' \in {"lost", "plain", "rate"} BY Zenon, <1>2 DEF Retry!SessionEnds
    <2> QED BY Zenon, <2>1, <2>2
  <1>3. CASE Retry!RelayRejects BY Zenon, <1>3 DEF Retry!RelayRejects
  <1>4. ASSUME NEW x, Retry!Book(x) PROVE SessionTypes' BY Zenon, <1>4 DEF Retry!Book
  <1>5. CASE Retry!WaitEnds BY Zenon, <1>5 DEF Retry!WaitEnds
  <1>6. CASE Retry!Stopped BY Zenon, <1>6 DEF Retry!Stopped
  <1> QED BY Zenon, <1>1, <1>2, <1>3, <1>4, <1>5, <1>6
             DEF Retry!Next, Retry!AttemptFails, Retry!AttemptRejected, Retry!RateLimited,
                 Retry!Recovered

\* Booking a failure with a backoff within the bounds keeps the invariant.
LEMMA CountFailureStep ==
    ASSUME RetryInv, RetryPhase = "attempt", NEW b \in Nat,
           BaseBackoff <= b, b <= MaxBackoff, Retry!CountFailure(b), SessionTypes'
    PROVE  RetryInv'
  <1> USE DEF RetryInv, SessionTypes, Retry!TypeOK, Retry!BudgetExact, Retry!BackoffBounded, Retry!NeverHammers
  <1>1. attempts' \in 0..AttemptsCap /\ (MaxAttempts # 0 => attempts' = attempts + 1)
    BY RetryAssumption
       DEF Retry!CountFailure, Retry!Failed, Retry!AtMost
  <1>2. CASE Retry!Exhausted(Retry!Failed(attempts))
    BY <1>1, <1>2, RetryAssumption
       DEF Retry!CountFailure, Retry!Exhausted
  <1>3. CASE ~Retry!Exhausted(Retry!Failed(attempts))
    <2>1. limited' \in BOOLEAN
      BY <1>3, Zenon DEF Retry!CountFailure
    <2> QED
      BY <1>1, <1>3, <2>1, RetryAssumption
         DEF Retry!CountFailure, Retry!Exhausted
  <1> QED BY <1>2, <1>3

\* The invariant holds initially: no attempt was made and the backoff is the base.
LEMMA RetryInvInit == Retry!Init => RetryInv
  <1> SUFFICES ASSUME Retry!Init PROVE RetryInv
    OBVIOUS
  <1> USE DEF RetryInv, Retry!TypeOK, Retry!BudgetExact, Retry!BackoffBounded, Retry!NeverHammers
  <1>1. limited \in BOOLEAN /\ rejected \in BOOLEAN
    BY Zenon DEF Retry!Init
  <1> QED
    BY <1>1, RetryAssumption DEF Retry!Init

\* Every step of the reconnect loop keeps the invariant.
LEMMA RetryInvStep == RetryInv /\ [Retry!Next]_(Retry!vars) => RetryInv'
  <1> SUFFICES ASSUME RetryInv, [Retry!Next]_(Retry!vars) PROVE RetryInv'
    OBVIOUS
  <1>1. CASE UNCHANGED Retry!vars
    <2>1. /\ UNCHANGED <<attempts, backoff, sleep, limited, rejected>>
          /\ RetryPhase' = RetryPhase /\ SessionState' = SessionState
      BY <1>1 DEF Retry!vars, Retry!counters
    <2> QED BY <2>1 DEF RetryInv, Retry!TypeOK, Retry!BudgetExact, Retry!BackoffBounded,
                        Retry!NeverHammers
  <1> SUFFICES ASSUME Retry!Next PROVE RetryInv'
    BY <1>1
  <1>2. SessionTypes'
    BY SessionTypesStep DEF RetryInv, Retry!TypeOK, SessionTypes
  <1> USE RetryAssumption, <1>2
      DEF RetryInv, SessionTypes, Retry!TypeOK, Retry!BudgetExact, Retry!BackoffBounded,
          Retry!NeverHammers
  <1>3. CASE Retry!SessionUp \/ Retry!SessionEnds \/ Retry!RelayRejects
    <2>1. UNCHANGED <<attempts, backoff, sleep, limited>> /\ RetryPhase' = RetryPhase
      BY Zenon, <1>3 DEF Retry!SessionUp, Retry!SessionEnds, Retry!RelayRejects, Retry!counters
    <2> QED BY <2>1
  <1>4. CASE Retry!AttemptFails
    BY <1>4, CountFailureStep DEF Retry!AttemptFails, Retry!Book
  <1>5. CASE Retry!AttemptRejected
    BY <1>5, CountFailureStep DEF Retry!AttemptRejected, Retry!Book
  <1>6. CASE Retry!RateLimited
    BY <1>6 DEF Retry!RateLimited, Retry!AtLeast, Retry!Book
  <1>7. CASE Retry!Recovered
    <2>1. limited' \in BOOLEAN
      BY Zenon, <1>7 DEF Retry!Recovered
    <2> QED
      BY <1>7, <2>1 DEF Retry!Recovered
  <1>8. CASE Retry!WaitEnds
    <2>1. backoff' \in Nat /\ BaseBackoff <= backoff' /\ backoff' <= MaxBackoff
      BY <1>8, DoubledBounded DEF Retry!WaitEnds
    <2> QED
      BY <1>8, <2>1 DEF Retry!WaitEnds
  <1>9. CASE Retry!Stopped
    <2>1. UNCHANGED <<attempts, backoff, sleep, limited>> /\ RetryPhase' = "stopped"
      BY <1>9 DEF Retry!Stopped, Retry!counters
    <2> QED BY <2>1
  <1> QED
    BY Zenon, <1>3, <1>4, <1>5, <1>6, <1>7, <1>8, <1>9 DEF Retry!Next

\* Under every policy: the types, the budget, the backoff's bounds and the
\* shortest sleep of the reconnect bookkeeping.
THEOREM RetryInvariant == Retry!Spec => []RetryInv
  BY RetryInvInit, RetryInvStep, PTL DEF Retry!Spec

\* Only a session that carried traffic shortens the backoff, and a rate-limited
\* attempt costs neither budget nor backoff.
LEMMA RetryActions ==
    Retry!Spec => Retry!BackoffResetOnlyByTraffic /\ Retry!RateLimitIsFree
  <1>1. RetryInv /\ [Retry!Next]_(Retry!vars)
            => [backoff' < backoff => attempts' = 0 /\ backoff' = BaseBackoff]_(Retry!vars)
    <2> SUFFICES ASSUME RetryInv, Retry!Next, backoff' < backoff
                 PROVE  attempts' = 0 /\ backoff' = BaseBackoff
      BY DEF Retry!vars
    <2>1. backoff \in Nat /\ BaseBackoff <= backoff /\ backoff <= MaxBackoff
      BY DEF RetryInv, Retry!TypeOK, Retry!BackoffBounded
    <2>2. ~(backoff' = backoff \/ backoff' = MaxBackoff \/ backoff' = Retry!Doubled(backoff))
      BY <2>1, DoubledBounded, RetryAssumption
    <2>3. CASE Retry!Recovered BY <2>3 DEF Retry!Recovered
    <2>4. Retry!Recovered \/ backoff' = backoff \/ backoff' = MaxBackoff
             \/ backoff' = Retry!Doubled(backoff)
      BY Zenon DEF Retry!Next, Retry!AttemptFails, Retry!AttemptRejected, Retry!CountFailure,
             Retry!RateLimited, Retry!WaitEnds, Retry!Stopped, Retry!counters,
             Retry!SessionUp, Retry!SessionEnds, Retry!RelayRejects
    <2> QED BY Zenon, <2>2, <2>3, <2>4
  <1>2. [Retry!Next]_(Retry!vars)
            => [limited' /\ RetryPhase' \in {"attempt", "wait"} =>
                    attempts' = attempts /\ backoff' = backoff]_(Retry!vars)
    BY Zenon DEF Retry!vars, Retry!Next, Retry!AttemptFails, Retry!AttemptRejected,
           Retry!CountFailure, Retry!RateLimited, Retry!Recovered, Retry!WaitEnds,
           Retry!Stopped, Retry!counters, Retry!SessionUp, Retry!SessionEnds,
           Retry!RelayRejects
  <1> QED
    BY <1>1, <1>2, RetryInvariant, PTL
       DEF Retry!Spec, Retry!BackoffResetOnlyByTraffic, Retry!RateLimitIsFree

-----------------------------------------------------------------------------
(* The task implements the reconnect bookkeeping.                          *)

\* Where connection_run is, seen as a state of the bookkeeping.
LEMMA PhaseOf ==
    /\ run = "wait" => RetryPhase = "wait"
    /\ run = "bailed" => RetryPhase = "gave_up"
    /\ run = "returned" => RetryPhase = "stopped"
    /\ run \notin {"wait", "bailed", "returned"} => RetryPhase = "attempt"
  BY DEF RetryPhase

\* The same in the next state.
LEMMA PhaseOfNext ==
    /\ run' = "wait" => RetryPhase' = "wait"
    /\ run' = "bailed" => RetryPhase' = "gave_up"
    /\ run' = "returned" => RetryPhase' = "stopped"
    /\ run' \notin {"wait", "bailed", "returned"} => RetryPhase' = "attempt"
  BY DEF RetryPhase

\* What the session has come to, seen from where connection_run is.
LEMMA SessionOf ==
    /\ run = "settle" => SessionState = outcome
    /\ run = "quic_up" => SessionState = "up"
    /\ run = "pool" /\ everUp => SessionState = "up"
    /\ run = "pool" /\ ~everUp => SessionState = "down"
    /\ run \notin {"settle", "quic_up", "pool"} => SessionState = "down"
  BY DEF SessionState

\* The same in the next state.
LEMMA SessionOfNext ==
    /\ run' = "settle" => SessionState' = outcome'
    /\ run' = "quic_up" => SessionState' = "up"
    /\ run' = "pool" /\ everUp' => SessionState' = "up"
    /\ run' = "pool" /\ ~everUp' => SessionState' = "down"
    /\ run' \notin {"settle", "quic_up", "pool"} => SessionState' = "down"
  BY DEF SessionState

\* The task and the bookkeeping count with the same policy.
LEMMA SamePolicy ==
    /\ \A n : Retry!Failed(n) = Failed(n) /\ (Retry!Exhausted(n) <=> Exhausted(n))
    /\ \A x, y : Retry!AtLeast(x, y) = AtLeast(x, y)
    /\ \A b : Retry!Doubled(b) = Doubled(b)
  BY DEF Failed, Exhausted, AtLeast, AtMost, Doubled,
         Retry!Failed, Retry!Exhausted, Retry!AtLeast, Retry!AtMost, Retry!Doubled

\* What the booking of a session rests on: a pool that has a member up, or signalled
\* that its last one went down, was up, and the slots hold what they may.
BooksInv ==
    /\ live \in Int
    /\ outcome \in {"lost", "plain", "rate"}
    /\ failed \in {"none", "plain", "rate"}
    /\ run = "pool" => (live > 0 => everUp) /\ (wentDown => everUp)

\* No pool runs at first.
LEMMA BooksInvInit == Init => BooksInv
  BY DEF Init, BooksInv

\* Every step of the task, the members and the late members keeps it.
LEMMA BooksInvStep == BooksInv /\ [Next]_vars => BooksInv'
  <1> SUFFICES ASSUME BooksInv, [Next]_vars PROVE BooksInv'
    OBVIOUS
  <1> DEFINE Pool == <<live, everUp, wentDown, outcome, failed>>
  <1>1. CASE UNCHANGED Pool /\ (run' = "pool" => run = "pool")
    BY <1>1 DEF BooksInv
  <1>2. CASE /\ UNCHANGED <<live, failed>> /\ run' # "pool"
             /\ outcome' \in {"lost", "plain", "rate"}
    BY <1>2 DEF BooksInv
  <1>3. CASE PoolStarts
    BY <1>3 DEF PoolStarts, BooksInv
  <1>4. TakeFailure \in {"plain", "rate"}
    BY DEF BooksInv, TakeFailure
  <1>5. CASE LoopStep
    <2>1. CASE HeadStopped BY <1>1, <2>1 DEF HeadStopped, poolVars
    <2>2. CASE QuicConnected BY <1>1, <2>2 DEF QuicConnected, poolVars
    <2>3. CASE QuicFails BY <1>2, <2>3 DEF QuicFails, poolVars, BooksInv
    <2>4. CASE QuicAborted \/ QuicEstablished
      BY <1>1, <2>4 DEF QuicAborted, QuicEstablished, poolVars
    <2>5. CASE QuicEnds BY <1>2, <2>5 DEF QuicEnds, poolVars, BooksInv
    <2>6. CASE Settle
      <3>1. run' # "pool"
        BY <2>6 DEF Settle, SettleRejected, SettleFailed, SettleLimited, SettleLost, Charge
      <3> QED BY <1>1, <2>6, <3>1 DEF Settle, poolVars
    <2>7. CASE WaitEnds \/ WaitStopped BY <1>1, <2>7 DEF WaitEnds, WaitStopped, poolVars
    <2> QED BY Zenon, <1>3, <1>5, <2>1, <2>2, <2>3, <2>4, <2>5, <2>6, <2>7 DEF LoopStep
  <1>6. CASE SessionLoop
    <2>1. UNCHANGED <<live, failed>> /\ run' # "pool"
      BY <1>6 DEF SessionLoop, SessionFrame, poolVars, PoolStopped, PoolRejected, PoolDown,
                  PoolDrained
    <2>2. outcome' \in {"lost", "plain", "rate"}
      BY <1>4, <1>6 DEF SessionLoop, PoolStopped, PoolRejected, PoolDown, PoolDrained, BooksInv
    <2> QED BY <1>2, <2>1, <2>2
  <1>7. CASE Stop \/ UNCHANGED vars
    BY <1>1, <1>7 DEF Stop, vars, poolVars
  <1>8. ASSUME NEW m \in Members, MemberStep(m) PROVE BooksInv'
    <2>1. run' = run /\ outcome' = outcome
      BY <1>8 DEF MemberStep, MemberFrame, MemberFails, MemberRejected, Up, Down, ParkDeclined,
                  Park, Unpark, BackOff, Reconnect
    <2>2. CASE MemberFails(m) BY <2>1, <2>2 DEF MemberFails, poolVars, BooksInv
    <2>3. CASE Up(m)
      <3>1. live' = live + 1 /\ everUp' = TRUE /\ failed' = failed
        BY Zenon, <2>3 DEF Up
      <3> QED BY <2>1, <3>1 DEF BooksInv
    <2>4. CASE Down(m)
      <3>1. /\ run = "pool" /\ live' = live - 1 /\ everUp' = everUp /\ failed' = failed
            /\ wentDown' => wentDown \/ live = 1
        BY Zenon, <2>4 DEF Down, MemberGoto
      <3>2. live' \in Int /\ (live' > 0 => everUp') /\ (live = 1 => everUp')
        BY <3>1 DEF BooksInv
      <3> QED BY Zenon, <2>1, <3>1, <3>2 DEF BooksInv
    <2>5. CASE \/ MemberRejected(m) \/ ParkDeclined(m) \/ Park(m) \/ Unpark(m)
               \/ BackOff(m) \/ Reconnect(m)
      BY <1>1, <2>1, <2>5 DEF MemberRejected, ParkDeclined, Park, Unpark, BackOff, Reconnect,
                              poolVars
    <2> QED BY Zenon, <1>8, <2>2, <2>3, <2>4, <2>5 DEF MemberStep
  <1>9. ASSUME NEW m \in Members, LateStep(m) PROVE BooksInv'
    BY <1>1, <1>9 DEF LateStep, LateFrame, poolVars, LateUp, LateDown, LateRejected,
                      LateCancelled
  <1> QED BY Zenon, <1>5, <1>6, <1>7, <1>8, <1>9 DEF Next

\* What the loop books: one of the bookkeeping's own steps, the one for what the
\* session came to.
LEMMA SettleImplements == BooksInv /\ Settle => Retry!Next
  <1> SUFFICES ASSUME BooksInv, Settle PROVE Retry!Next
    OBVIOUS
  <1>1. /\ RetryPhase = "attempt"
        /\ SessionState = outcome /\ outcome \in {"lost", "plain", "rate"}
        /\ rejected' = FALSE
    BY PhaseOf, SessionOf DEF Settle, BooksInv
  <1>2. SessionState' = "down"
    <2>1. run' \in {"wait", "bailed"}
      BY DEF Settle, SettleRejected, SettleFailed, SettleLimited, SettleLost, Charge
    <2> QED BY <2>1, SessionOfNext
  <1>3. CASE SettleRejected
    <2>1. Retry!CountFailure(MaxBackoff)
      BY <1>3, PhaseOfNext, SamePolicy DEF SettleRejected, Charge, Retry!CountFailure
    <2>2. Retry!Book("rejected")
      BY <1>1, <1>2, <1>3 DEF SettleRejected, Retry!Book
    <2> QED BY Zenon, <2>1, <2>2 DEF Retry!Next, Retry!AttemptRejected
  <1>4. CASE SettleFailed
    <2>1. Retry!CountFailure(backoff)
      BY <1>4, PhaseOfNext, SamePolicy DEF SettleFailed, Charge, Retry!CountFailure
    <2>2. Retry!Book("plain")
      BY <1>1, <1>2, <1>4 DEF SettleFailed, Retry!Book
    <2> QED BY Zenon, <2>1, <2>2 DEF Retry!Next, Retry!AttemptFails
  <1>5. CASE SettleLimited
    <2>1. Retry!Book("rate")
      BY <1>1, <1>2, <1>5 DEF SettleLimited, Retry!Book
    <2>2. Retry!RateLimited
      BY <1>5, <2>1, PhaseOfNext, SamePolicy DEF SettleLimited, Retry!RateLimited
    <2> QED BY Zenon, <2>2 DEF Retry!Next
  <1>6. CASE SettleLost
    <2>1. Retry!Book("lost")
      BY <1>1, <1>2, <1>6 DEF SettleLost, Retry!Book
    <2>2. Retry!Recovered
      BY <1>6, <2>1, PhaseOfNext DEF SettleLost, Retry!Recovered
    <2> QED BY Zenon, <2>2 DEF Retry!Next
  <1> QED
    BY Zenon, <1>3, <1>4, <1>5, <1>6 DEF Settle

\* The shapes of the other steps.  Each leaves the counters alone, and the slot
\* too unless a rejection is written to it.
Written == rejected' = rejected \/ rejected' = TRUE

\* A task that returns is stopped.
LEMMA ReturnImplements ==
    ASSUME UNCHANGED retryVars, Written, run' = "returned",
           run \in {"attempt", "quic", "quic_up", "pool", "wait"}
    PROVE  Retry!Next
  <1>1. RetryPhase \in {"attempt", "wait"} /\ RetryPhase' = "stopped"
    BY PhaseOf, PhaseOfNext
  <1>2. SessionState \in {"down", "up"} /\ SessionState' = "down"
    BY SessionOf, SessionOfNext
  <1>3. Retry!Stopped
    BY Zenon, <1>1, <1>2 DEF Retry!Stopped, Retry!counters, retryVars, Written
  <1> QED BY Zenon, <1>3 DEF Retry!Next

\* A step of anybody that leaves the loop where it is, and what the session has come
\* to, is a stutter or writes the slot.
LEMMA ElsewhereImplements ==
    ASSUME UNCHANGED retryVars, Written, RetryPhase' = RetryPhase, SessionState' = SessionState
    PROVE  [Retry!Next]_(Retry!vars)
  <1>1. CASE rejected' = rejected
    BY Zenon, <1>1 DEF Retry!vars, Retry!counters, retryVars
  <1>2. CASE rejected' = TRUE
    BY Zenon, <1>2 DEF Retry!Next, Retry!RelayRejects, Retry!counters, retryVars
  <1> QED BY Zenon, <1>1, <1>2 DEF Written

\* A session that ends is lost if it was up, and NeverUp if not or if it is rejected.
LEMMA EndImplements ==
    ASSUME UNCHANGED retryVars, Written, run' = "settle", run \in {"quic", "quic_up", "pool"},
           \/ SessionState = "up" /\ outcome' = "lost"
           \/ SessionState = "down" /\ outcome' \in {"plain", "rate"}
           \/ SessionState = "up" /\ rejected' /\ outcome' \in {"plain", "rate"}
    PROVE  Retry!Next
  <1>1. RetryPhase = "attempt" /\ RetryPhase' = "attempt" /\ SessionState' = outcome'
    BY PhaseOf, PhaseOfNext, SessionOfNext
  <1>2. Retry!SessionEnds
    BY Zenon, <1>1 DEF Retry!SessionEnds, Retry!counters, retryVars, Written
  <1> QED BY Zenon, <1>2 DEF Retry!Next

\* The first control exchange to complete brings the session up.
LEMMA UpImplements ==
    ASSUME UNCHANGED retryVars, UNCHANGED rejected, RetryPhase = "attempt",
           RetryPhase' = "attempt", SessionState = "down", SessionState' = "up"
    PROVE  Retry!Next
  BY Zenon DEF Retry!Next, Retry!SessionUp, Retry!counters, retryVars

\* Every step of the task is a step of the bookkeeping or leaves it alone.
LEMMA StepImplements == BooksInv /\ [Next]_vars => [Retry!Next]_(Retry!vars)
  <1> SUFFICES ASSUME BooksInv, [Next]_vars PROVE [Retry!Next]_(Retry!vars)
    OBVIOUS
  <1>1. CASE LoopStep
    <2>1. CASE Settle BY Zenon, <2>1, SettleImplements
    <2>2. CASE WaitEnds
      <3>1. /\ RetryPhase = "wait" /\ RetryPhase' = "attempt"
            /\ SessionState = "down" /\ SessionState' = "down"
        BY <2>2, PhaseOf, PhaseOfNext, SessionOf, SessionOfNext DEF WaitEnds
      <3>2. Retry!WaitEnds BY <2>2, <3>1, SamePolicy DEF WaitEnds, Retry!WaitEnds
      <3> QED BY Zenon, <3>2 DEF Retry!Next
    <2>3. CASE HeadStopped \/ QuicAborted \/ WaitStopped
      BY Zenon, <2>3, ReturnImplements DEF HeadStopped, QuicAborted, WaitStopped, Written
    <2>4. CASE QuicConnected \/ PoolStarts
      <3>1. /\ RetryPhase = "attempt" /\ RetryPhase' = "attempt"
            /\ SessionState = "down" /\ SessionState' = "down"
        BY <2>4, PhaseOf, PhaseOfNext, SessionOf, SessionOfNext DEF QuicConnected, PoolStarts
      <3>2. UNCHANGED retryVars /\ Written
        BY Zenon, <2>4 DEF QuicConnected, PoolStarts, Written
      <3> QED BY Zenon, <3>1, <3>2, ElsewhereImplements
    <2>5. CASE QuicFails
      <3>1. UNCHANGED retryVars /\ Written /\ run = "quic"
        BY Zenon, <2>5 DEF QuicFails, Written
      <3>2. SessionState = "down" BY <3>1, SessionOf
      <3>3. CASE run' = "returned" BY <3>1, <3>3, ReturnImplements
      <3>4. CASE run' = "settle" /\ outcome' \in {"plain", "rate"}
        BY <3>1, <3>2, <3>4, EndImplements
      <3> QED BY <2>5, <3>3, <3>4 DEF QuicFails
    <2>6. CASE QuicEstablished
      <3>1. /\ RetryPhase = "attempt" /\ RetryPhase' = "attempt"
            /\ SessionState = "down" /\ SessionState' = "up"
        BY <2>6, PhaseOf, PhaseOfNext, SessionOf, SessionOfNext DEF QuicEstablished
      <3> QED BY Zenon, <2>6, <3>1, UpImplements DEF QuicEstablished
    <2>7. CASE QuicEnds
      <3>1. UNCHANGED retryVars /\ Written /\ run = "quic_up"
        BY Zenon, <2>7 DEF QuicEnds, Written
      <3>2. SessionState = "up" BY <3>1, SessionOf
      <3>3. CASE run' = "returned" BY <3>1, <3>3, ReturnImplements
      <3>4. CASE run' = "settle" /\ outcome' = "lost" BY <3>1, <3>2, <3>4, EndImplements
      <3> QED BY <2>7, <3>3, <3>4 DEF QuicEnds
    <2> QED BY Zenon, <1>1, <2>1, <2>2, <2>3, <2>4, <2>5, <2>6, <2>7 DEF LoopStep
  <1>2. CASE SessionLoop
    <2>1. UNCHANGED retryVars /\ UNCHANGED rejected /\ Written /\ run = "pool"
      BY Zenon, <1>2 DEF SessionLoop, SessionFrame, PoolStopped, PoolRejected, PoolDown,
                         PoolDrained, Written
    <2>2. /\ everUp => SessionState = "up"
          /\ ~everUp => SessionState = "down"
      BY <2>1, SessionOf
    <2>3. TakeFailure \in {"plain", "rate"}
      BY DEF BooksInv, TakeFailure
    <2>4. CASE PoolStopped BY <2>1, <2>4, ReturnImplements DEF PoolStopped
    <2>5. CASE PoolRejected
      <3>1. run' = "settle" /\ outcome' \in {"plain", "rate"} /\ rejected'
        BY Zenon, <2>1, <2>3, <2>5 DEF PoolRejected
      <3> QED BY <2>1, <2>2, <3>1, EndImplements
    <2>6. CASE PoolDown
      <3>1. run' = "settle" /\ outcome' = "lost" /\ everUp
        BY <2>1, <2>6 DEF PoolDown, BooksInv
      <3> QED BY <2>1, <2>2, <3>1, EndImplements
    <2>7. CASE PoolDrained
      <3>1. run' = "settle" /\ outcome' = IF everUp THEN "lost" ELSE TakeFailure
        BY Zenon, <2>7 DEF PoolDrained
      <3> QED BY <2>1, <2>2, <2>3, <3>1, EndImplements
    <2> QED BY Zenon, <1>2, <2>4, <2>5, <2>6, <2>7 DEF SessionLoop
  <1>3. ASSUME UNCHANGED retryVars, Written, run' = run, outcome' = outcome, everUp' = everUp
        PROVE  [Retry!Next]_(Retry!vars)
    BY <1>3, ElsewhereImplements DEF RetryPhase, SessionState
  <1>4. CASE Stop \/ UNCHANGED vars
    BY Zenon, <1>3, <1>4 DEF Stop, vars, poolVars, Written
  <1>5. ASSUME NEW m \in Members, MemberStep(m) PROVE [Retry!Next]_(Retry!vars)
    <2>1. CASE Up(m)
      <3>1. /\ UNCHANGED retryVars /\ UNCHANGED rejected /\ run = "pool" /\ run' = "pool"
            /\ everUp'
        BY Zenon, <2>1 DEF Up, MemberGoto, MemberFrame
      <3>2. RetryPhase = "attempt" /\ RetryPhase' = "attempt" /\ SessionState' = "up"
        BY <3>1, PhaseOf, PhaseOfNext, SessionOfNext
      <3>3. CASE SessionState = "up"
        BY Zenon, <3>1, <3>2, <3>3, ElsewhereImplements DEF Written
      <3>4. CASE SessionState = "down"
        BY Zenon, <3>1, <3>2, <3>4, UpImplements
      <3> QED BY <3>1, <3>3, <3>4, SessionOf
    <2>2. CASE \/ MemberFails(m) \/ MemberRejected(m) \/ Down(m) \/ ParkDeclined(m)
               \/ Park(m) \/ Unpark(m) \/ BackOff(m) \/ Reconnect(m)
      BY Zenon, <1>3, <2>2 DEF MemberFrame, MemberFails, MemberRejected, Down, ParkDeclined,
                               Park, Unpark, BackOff, Reconnect, poolVars, Written
    <2> QED BY Zenon, <1>5, <2>1, <2>2 DEF MemberStep
  <1>6. ASSUME NEW m \in Members, LateStep(m) PROVE [Retry!Next]_(Retry!vars)
    BY Zenon, <1>3, <1>6 DEF LateStep, LateFrame, LateUp, LateDown, LateRejected,
                             LateCancelled, poolVars, Written
  <1> QED
    BY Zenon, <1>1, <1>2, <1>4, <1>5, <1>6 DEF Next

\* connection_run, with its transports, its pool and stop(), implements the
\* bookkeeping of RetryState, and so has every property proved of that.
THEOREM ImplementsRetry == Spec => BooksOnce
  <1>1. Init => Retry!Init
    BY PhaseOf, SessionOf DEF Init, Retry!Init
  <1> QED
    BY <1>1, BooksInvInit, BooksInvStep, StepImplements, PTL DEF Spec, BooksOnce, Retry!Spec

\* connection_run gives up exactly when its budget of consecutive failures is spent,
\* whatever its transports, pool members and late members do.
THEOREM BudgetIsKept == Spec => []BudgetKept
  BY ImplementsRetry, RetryInvariant, PTL DEF BooksOnce, RetryInv, BudgetKept

\* No sleep of connection_run is shorter than base_backoff, and its backoff stays
\* between base_backoff and max_backoff.
THEOREM BackoffWithinPolicy == Spec => [](Retry!BackoffBounded /\ Retry!NeverHammers)
  BY ImplementsRetry, RetryInvariant, PTL DEF BooksOnce, RetryInv

\* Only a session that carried traffic shortens the backoff of connection_run.
THEOREM OnlyTrafficResets == Spec => Retry!BackoffResetOnlyByTraffic
  BY ImplementsRetry, RetryActions, PTL DEF BooksOnce

\* An attempt of connection_run that the CA rate-limited costs neither budget nor
\* backoff.
THEOREM RateLimitFree == Spec => Retry!RateLimitIsFree
  BY ImplementsRetry, RetryActions, PTL DEF BooksOnce

-----------------------------------------------------------------------------
(* The pool's counters and wakeups.                                        *)

\* The members a map puts in a state.
Where(f, s) == {n \in Members : f[n] = s}

\* Any set of members is finite and has a natural size.
LEMMA WhereFinite ==
    ASSUME NEW f, NEW s
    PROVE  IsFiniteSet(Where(f, s)) /\ Cardinality(Where(f, s)) \in Nat
  <1>1. Where(f, s) \subseteq Members
    BY DEF Where
  <1> QED BY <1>1, ClientConnAssumption, FS_Subset, FS_CardinalityType

\* The part of the type invariant the pool's counters need.
PoolTypes ==
    /\ member \in [Members -> MemberStates]
    /\ live \in Nat /\ parked \in Nat
    /\ woken \in SUBSET Members

\* The inductive invariant.  That the last member to park signals the session
\* loop rests on parked counting the parked members exactly.
PoolInv == PoolTypes /\ PoolStateExact /\ NoLostWakeup

\* No pool runs at first.
LEMMA PoolInvInit == Init => PoolInv
  BY DEF Init, PoolInv, PoolTypes, PoolStateExact, NoLostWakeup, MemberStates

\* A fresh pool has nobody up and nobody parked.
LEMMA PoolStartsInv == PoolInv /\ PoolStarts => PoolInv'
  <1> SUFFICES ASSUME PoolInv, PoolStarts PROVE PoolInv'
    OBVIOUS
  <1>1. In("up")' = {} /\ In("parked")' = {}
    BY DEF PoolStarts, In
  <1>2. PoolTypes'
    BY DEF PoolStarts, PoolTypes, MemberStates
  <1>3. live' = 0 /\ parked' = 0 /\ everUp' = FALSE
    BY DEF PoolStarts
  <1>4. PoolStateExact'
    BY <1>1, <1>3, FS_EmptySet DEF PoolStateExact
  <1>5. NoLostWakeup'
    BY <1>1, <1>3, ClientConnAssumption DEF NoLostWakeup
  <1> QED BY <1>2, <1>4, <1>5 DEF PoolInv

\* What a member of the running pool does keeps the counters exact and every
\* wakeup delivered.
LEMMA MemberInv ==
    ASSUME PoolInv, NEW m \in Members, MemberStep(m)
    PROVE  PoolInv'
  <1> USE DEF MemberGoto, MemberFrame, MemberStates, poolVars
  <1>0. run = "pool" /\ run' = "pool"
    BY DEF MemberStep, MemberFails, MemberRejected, Up, Down, ParkDeclined, Park, Unpark,
           BackOff, Reconnect
  <1>1. PICK to \in MemberStates : member[m] # to /\ member' = [member EXCEPT ![m] = to]
    BY DEF MemberStep, MemberFails, MemberRejected, Up, Down, ParkDeclined, Park, Unpark,
           BackOff, Reconnect
  <1>2. member' \in [Members -> MemberStates] /\ member'[m] = to
    BY <1>1 DEF PoolInv, PoolTypes
  <1>3. \A s : In(s) = Where(member, s) /\ In(s)' = Where(member', s)
    BY DEF In, Where
  \* The member moves one unit of the counts.
  <1>4. /\ Cardinality(Where(member', to)) = Cardinality(Where(member, to)) + 1
        /\ Cardinality(Where(member, member[m])) = Cardinality(Where(member', member[m])) + 1
        /\ \A s : s # to /\ s # member[m] => Where(member', s) = Where(member, s)
    <2>1. \A n \in Members \ {m} : member'[n] = member[n]
      BY <1>1 DEF PoolInv, PoolTypes
    <2>2. /\ Where(member', to) = Where(member, to) \cup {m}
          /\ m \notin Where(member, to)
      BY <1>1, <1>2, <2>1 DEF Where
    <2>3. /\ Where(member, member[m]) = Where(member', member[m]) \cup {m}
          /\ m \notin Where(member', member[m])
      BY <1>1, <1>2, <2>1 DEF Where
    <2>4. Cardinality(Where(member', to)) = Cardinality(Where(member, to)) + 1
      BY <2>2, WhereFinite, FS_AddElement
    <2>5. Cardinality(Where(member, member[m])) = Cardinality(Where(member', member[m])) + 1
      BY <2>3, WhereFinite, FS_AddElement
    <2>6. \A s : s # to /\ s # member[m] => Where(member', s) = Where(member, s)
      BY <1>1, <1>2, <2>1 DEF Where
    <2> QED BY <2>4, <2>5, <2>6
  <1>5. \A s : Cardinality(Where(member, s)) \in Nat /\ Cardinality(Where(member', s)) \in Nat
    BY WhereFinite
  <1>6. live = Cardinality(Where(member, "up")) /\ parked = Cardinality(Where(member, "parked"))
    BY <1>0, <1>3 DEF PoolInv, PoolStateExact
  <1>7. /\ live > 0 => Where(member, "parked") \subseteq woken
        /\ everUp /\ live = 0 => wentDown
        /\ Where(member, "parked") = Members => allParked
    BY <1>0, <1>3 DEF PoolInv, NoLostWakeup
  <1>8. SUFFICES /\ live' \in Nat /\ parked' \in Nat /\ woken' \in SUBSET Members
                 /\ live' = Cardinality(Where(member', "up"))
                 /\ parked' = Cardinality(Where(member', "parked"))
                 /\ live' > 0 => Where(member', "parked") \subseteq woken'
                 /\ everUp' /\ live' = 0 => wentDown'
                 /\ Where(member', "parked") = Members => allParked'
    BY <1>0, <1>2, <1>3 DEF PoolInv, PoolTypes, PoolStateExact, NoLostWakeup
  <1>9. live \in Nat /\ parked \in Nat /\ woken \in SUBSET Members
    BY DEF PoolInv, PoolTypes
  <1>10. CASE /\ UNCHANGED poolVars
              /\ member[m] \notin {"up", "parked"} /\ to \notin {"up", "parked"}
    BY <1>10, <1>4, <1>6, <1>7, <1>9
  <1>11. CASE MemberFails(m) \/ MemberRejected(m) \/ ParkDeclined(m) \/ BackOff(m) \/ Reconnect(m)
    BY <1>1, <1>2, <1>10, <1>11
       DEF MemberFails, MemberRejected, ParkDeclined, BackOff, Reconnect, PoolInv, PoolTypes
  <1>12. CASE Up(m)
    <2>1. member[m] = "connecting" /\ to = "up" /\ live' = live + 1
      BY <1>2, <1>12 DEF Up, PoolInv, PoolTypes
    <2>2. Where(member', "parked") = Where(member, "parked")
      BY <2>1, <1>4
    <2>3. UNCHANGED <<parked, wentDown, allParked>>
      BY <1>12 DEF Up
    <2>4. woken' \in SUBSET Members /\ Where(member', "parked") \subseteq woken'
      BY <1>7, <1>9, <1>12, <2>2 DEF Up, Where
    <2> QED BY <1>4, <1>6, <1>7, <1>9, <2>1, <2>2, <2>3, <2>4
  <1>13. CASE Down(m)
    <2>1. member[m] = "up" /\ to = "served" /\ live' = live - 1
      BY <1>2, <1>13 DEF Down, PoolInv, PoolTypes
    <2>2. Where(member', "parked") = Where(member, "parked")
      BY <2>1, <1>4
    <2>3. UNCHANGED <<everUp, parked, allParked, woken>>
      BY <1>13 DEF Down
    <2>4. live = Cardinality(Where(member', "up")) + 1
      BY <1>4, <1>6, <2>1
    <2>5. live' = 0 => live = 1
      BY <1>9, <2>1
    <2>6. live' = 0 => wentDown'
      BY <1>13, <2>5, Zenon DEF Down
    <2> QED BY <1>5, <1>6, <1>7, <1>9, <2>1, <2>2, <2>3, <2>4, <2>6
  <1>14. CASE Park(m)
    <2>1. member[m] = "failed" /\ to = "parked" /\ parked' = parked + 1 /\ live = 0
      BY <1>2, <1>14 DEF Park, PoolInv, PoolTypes
    <2>2. Where(member', "up") = Where(member, "up")
      BY <2>1, <1>4
    <2>3. UNCHANGED <<live, everUp, wentDown>> /\ woken' \in SUBSET Members
      BY <1>9, <1>14 DEF Park
    <2>4. parked' = Cardinality(Where(member', "parked"))
      BY <1>4, <1>6, <2>1
    <2>5. parked + 1 >= Cardinality(Members) => allParked'
      BY <1>14 DEF Park
    <2>6. Where(member', "parked") = Members => allParked'
      BY <1>5, <2>1, <2>4, <2>5
    <2> QED BY <1>6, <1>7, <1>9, <2>1, <2>2, <2>3, <2>4, <2>6
  <1>15. CASE Unpark(m)
    <2>1. member[m] = "parked" /\ to \in {"served", "returned"} /\ parked' = parked - 1
      BY <1>2, <1>15 DEF Unpark, PoolInv, PoolTypes
    <2>2. Where(member', "up") = Where(member, "up")
      BY <2>1, <1>4
    <2>3. UNCHANGED <<live, everUp, wentDown, allParked>> /\ woken' = woken \ {m}
      BY <1>15 DEF Unpark
    <2>4. parked = Cardinality(Where(member', "parked")) + 1
      BY <1>4, <1>6, <2>1
    <2>5. Where(member', "parked") = Where(member, "parked") \ {m}
      BY <1>1, <1>2, <2>1 DEF Where, PoolInv, PoolTypes
    <2> QED BY <1>5, <1>6, <1>7, <1>9, <2>1, <2>2, <2>3, <2>4, <2>5
  <1> QED
    BY <1>11, <1>12, <1>13, <1>14, <1>15 DEF MemberStep

\* Every step keeps the invariant: outside a running pool nothing is claimed,
\* and what runs beside one does not touch it.
LEMMA PoolInvStep == PoolInv /\ [Next]_vars => PoolInv'
  <1> SUFFICES ASSUME PoolInv, [Next]_vars PROVE PoolInv'
    OBVIOUS
  <1>1. CASE PoolStarts
    BY <1>1, PoolStartsInv
  <1>2. ASSUME NEW m \in Members, MemberStep(m) PROVE PoolInv'
    BY <1>2, MemberInv
  <1>3. CASE UNCHANGED <<member, poolVars>> /\ (run' = "pool" => run = "pool")
    BY <1>3 DEF poolVars, PoolInv, PoolTypes, PoolStateExact, NoLostWakeup, In
  <1>4. CASE LoopStep
    BY <1>1, <1>3, <1>4
       DEF LoopStep, HeadStopped, QuicConnected, QuicFails, QuicAborted, QuicEstablished,
           QuicEnds, Settle, SettleRejected, SettleFailed, SettleLimited, SettleLost, Charge,
           WaitEnds, WaitStopped
  <1>5. CASE SessionLoop
    <2>1. run' # "pool" /\ UNCHANGED poolVars /\ member' = [m \in Members |-> "off"]
      BY <1>5 DEF SessionLoop, SessionFrame, DropMembers, PoolStopped, PoolRejected,
                  PoolDown, PoolDrained
    <2> QED
      BY <2>1 DEF poolVars, PoolInv, PoolTypes, PoolStateExact, NoLostWakeup, MemberStates
  <1>6. CASE Stop \/ UNCHANGED vars
    BY <1>3, <1>6 DEF Stop, vars
  <1>7. ASSUME NEW m \in Members, LateStep(m) PROVE PoolInv'
    BY <1>3, <1>7 DEF LateStep, LateFrame, LateUp, LateDown, LateRejected, LateCancelled
  <1> QED
    BY <1>2, <1>4, <1>5, <1>6, <1>7 DEF Next

\* PoolState counts exactly the members that are up and parked, and no wakeup
\* between members and session loop is lost, for pools of every size.
THEOREM PoolInvariant == Spec => []PoolInv
  BY PoolInvInit, PoolInvStep, PTL DEF Spec

\* The counters alone.
THEOREM PoolCountersExact == Spec => []PoolStateExact
  BY PoolInvariant, PTL DEF PoolInv

\* The wakeups alone: a session whose pool went down, or all of whose members
\* are parked, has been told so, and a parked member of a live pool woken.
THEOREM WakeupsDelivered == Spec => []NoLostWakeup
  BY PoolInvariant, PTL DEF PoolInv

-----------------------------------------------------------------------------
(* The certificate provisioner, for any number of callers and orders.          *)

\* Orders are numbered as they are claimed: what a caller holds, what is
\* published and what is open was claimed before.
OrdersClaimed ==
    /\ \A k \in Callers : ord[k] # NoOrder => ord[k] <= nextOrder
    /\ \A o \in open \cup keyAuth : o <= nextOrder
    /\ inFlight # NoOrder => inFlight <= nextOrder

\* An order has one leader, and a leader has an order.
LeadersDistinct ==
    /\ \A k \in Callers : pc[k] \in Leading => ord[k] # NoOrder
    /\ \A k, l \in Callers :
           pc[k] \in Leading /\ pc[l] \in Leading /\ ord[k] = ord[l] => k = l

\* An order whose leader is setting it up has published nothing.
SetupIsUnpublished ==
    \A k \in Callers : pc[k] \in {"setup", "setup_unlist"} => ord[k] \notin keyAuth

\* A follower holds an order whose challenge was published.
FollowsPublished == \A k \in Callers : pc[k] = "follower" => ord[k] \in keyAuth

\* The inductive invariant.  That an open order has a live leader survives a
\* leader dropping its senders only because no other leader shares the order,
\* and leaders stay distinct only because a claimed number is new.
ProvisionerInv ==
    /\ ProvTypeOK /\ OrdersClaimed /\ LeadersDistinct
    /\ NobodyStranded /\ SetupIsUnpublished /\ FollowsPublished

\* The invariant holds before the first call.
LEMMA ProvisionerInvInit == ProvInit => ProvisionerInv
  BY ProvisionerAssumption
     DEF ProvInit, ProvisionerInv, ProvTypeOK, OrdersClaimed, LeadersDistinct,
         NobodyStranded, SetupIsUnpublished, FollowsPublished, States, Leading, Awaiting, Orders

\* Each critical section keeps the types; that a leader has an order is needed
\* where it publishes or broadcasts.
LEMMA ProvTypeOKStep == ProvTypeOK /\ LeadersDistinct /\ [ProvNext]_provVars => ProvTypeOK'
  <1> SUFFICES ASSUME ProvTypeOK, LeadersDistinct, [ProvNext]_provVars PROVE ProvTypeOK'
    OBVIOUS
  <1> USE ProvisionerAssumption
      DEF ProvTypeOK, Goto, DropSenders, States, Leading, Awaiting, Orders
  <1>1. CASE CertDue
    BY <1>1 DEF CertDue
  <1>2. CASE UNCHANGED provVars
    BY <1>2 DEF provVars
  <1>3. ASSUME NEW k \in Callers, CallerStep(k) PROVE ProvTypeOK'
    <2>1. CASE Prepare(k) BY <2>1 DEF Prepare
    <2>2. CASE ReadCache(k) BY <2>2 DEF ReadCache
    <2>3. CASE ProbeInFlight(k) BY <2>3 DEF ProbeInFlight
    <2>4. CASE CheckEntry(k) BY <2>4 DEF CheckEntry
    <2>5. CASE AwaitKeyAuth(k) BY <2>5 DEF AwaitKeyAuth
    <2>6. CASE EvictEntry(k) BY <2>6 DEF EvictEntry
    <2>7. CASE ClaimLeader(k)
      <3>1. CASE inFlight # NoOrder BY <2>7, <3>1 DEF ClaimLeader
      <3>2. CASE inFlight = NoOrder
        <4>1. nextOrder' = nextOrder + 1 /\ nextOrder' \in 1..MaxOrders
          BY <2>7, <3>2 DEF ClaimLeader
        <4>2. /\ inFlight' \in Orders
              /\ open' \in SUBSET Orders
              /\ UNCHANGED <<cache, keyAuth, certSent>>
          BY <2>7, <3>2, <4>1 DEF ClaimLeader
        <4>3. ord' \in [Callers -> Orders \cup {NoOrder}]
          BY <2>7, <3>2, <4>1 DEF ClaimLeader
        <4>4. pc' \in [Callers -> States]
          BY <2>7, <3>2 DEF ClaimLeader
        <4> QED BY <4>1, <4>2, <4>3, <4>4
      <3> QED BY <3>1, <3>2
    <2>8. CASE SetupOrder(k) BY <2>8 DEF SetupOrder, LeadersDistinct
    <2>9. CASE SetupFailed(k) BY <2>9 DEF SetupFailed
    <2>10. CASE StartFinalize(k) BY <2>10 DEF StartFinalize
    <2>11. CASE FinalizeOrder(k) BY <2>11 DEF FinalizeOrder
    <2>12. CASE StoreCert(k) BY <2>12 DEF StoreCert, LeadersDistinct
    <2>13. CASE UnlistOrder(k) BY <2>13 DEF UnlistOrder
    <2>14. CASE FollowLeader(k) BY <2>14 DEF FollowLeader
    <2>15. CASE AbortSession(k) BY <2>15 DEF AbortSession
    <2> QED
      BY <1>3, <2>1, <2>2, <2>3, <2>4, <2>5, <2>6, <2>7, <2>8, <2>9, <2>10, <2>11,
         <2>12, <2>13, <2>14, <2>15 DEF CallerStep
  <1> QED
    BY <1>1, <1>2, <1>3 DEF ProvNext

\* Each step of a caller keeps the rest of the invariant.  The cases follow what
\* a step does to the orders: nothing, hold one, claim one, publish one, drop one.
LEMMA CallerStepInv ==
    ASSUME ProvisionerInv, ProvTypeOK', NEW k \in Callers, CallerStep(k)
    PROVE  ProvisionerInv'
  <1> USE ProvisionerAssumption
      DEF ProvisionerInv, OrdersClaimed, LeadersDistinct, NobodyStranded,
          SetupIsUnpublished, FollowsPublished, ProvTypeOK, Goto, DropSenders,
          States, Leading, Awaiting, Orders
  <1>1. CASE Prepare(k) BY <1>1 DEF Prepare
  <1>2. CASE ReadCache(k) BY <1>2 DEF ReadCache
  <1>3. CASE ProbeInFlight(k) BY <1>3 DEF ProbeInFlight
  <1>4. CASE CheckEntry(k) BY <1>4 DEF CheckEntry
  <1>5. CASE AwaitKeyAuth(k) BY <1>5 DEF AwaitKeyAuth
  <1>6. CASE EvictEntry(k) BY <1>6 DEF EvictEntry
  <1>7. CASE ClaimLeader(k) BY <1>7 DEF ClaimLeader
  <1>8. CASE SetupOrder(k) BY <1>8 DEF SetupOrder
  <1>9. CASE SetupFailed(k) BY <1>9 DEF SetupFailed
  <1>10. CASE StartFinalize(k) BY <1>10 DEF StartFinalize
  <1>11. CASE FinalizeOrder(k) BY <1>11 DEF FinalizeOrder
  <1>12. CASE StoreCert(k) BY <1>12 DEF StoreCert
  <1>13. CASE UnlistOrder(k) BY <1>13 DEF UnlistOrder
  <1>14. CASE FollowLeader(k) BY <1>14 DEF FollowLeader
  <1>15. CASE AbortSession(k) BY <1>15 DEF AbortSession
  <1> QED
    BY <1>1, <1>2, <1>3, <1>4, <1>5, <1>6, <1>7, <1>8, <1>9, <1>10, <1>11, <1>12,
       <1>13, <1>14, <1>15 DEF CallerStep

\* Every step keeps the invariant.
LEMMA ProvisionerInvStep == ProvisionerInv /\ [ProvNext]_provVars => ProvisionerInv'
  <1> SUFFICES ASSUME ProvisionerInv, [ProvNext]_provVars PROVE ProvisionerInv'
    OBVIOUS
  <1>1. ProvTypeOK'
    BY ProvTypeOKStep DEF ProvisionerInv
  <1>2. ASSUME NEW k \in Callers, CallerStep(k) PROVE ProvisionerInv'
    BY <1>1, <1>2, CallerStepInv
  <1>3. CASE CertDue
    BY <1>1, <1>3
       DEF CertDue, ProvisionerInv, OrdersClaimed, LeadersDistinct, NobodyStranded,
           SetupIsUnpublished, FollowsPublished
  <1>4. CASE UNCHANGED provVars
    BY <1>1, <1>4
       DEF provVars, ProvisionerInv, OrdersClaimed, LeadersDistinct, NobodyStranded,
           SetupIsUnpublished, FollowsPublished
  <1> QED
    BY <1>2, <1>3, <1>4 DEF ProvNext

\* The inductive invariant holds of every behaviour of the provisioner.
THEOREM ProvisionerInvariant == ProvSpec => []ProvisionerInv
  BY ProvisionerInvInit, ProvisionerInvStep, PTL DEF ProvSpec

\* Whoever waits on an order waits on a live leader or has been woken: the
\* senders of an order live exactly as long as the caller that leads it.
THEOREM NoWaiterStranded == ProvSpec => []NobodyStranded
  BY ProvisionerInvariant, PTL DEF ProvisionerInv

\* A follower never shares a challenge its leader did not obtain.
THEOREM FollowersShareChallenge == ProvSpec => []FollowersHaveChallenge
  <1>1. ProvisionerInv => FollowersHaveChallenge
    BY DEF ProvisionerInv, SetupIsUnpublished, FollowsPublished, FollowersHaveChallenge
  <1> QED
    BY <1>1, ProvisionerInvariant, PTL

==============================================================================
