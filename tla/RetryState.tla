----------------------------- MODULE RetryState -----------------------------
(***************************************************************************)
(* The attempts-and-backoff bookkeeping of one connection's reconnect loop: *)
(* what a session that failed, was rejected, was rate-limited by the CA or  *)
(* carried traffic costs, and how long the loop sleeps before the next one. *)
(* A session is booked by what it came to, and a rejection comes first.     *)
(***************************************************************************)
EXTENDS RetryPolicy

VARIABLES
    attempts,  \* consecutive attempts that never carried traffic
    backoff,   \* the current backoff
    st,        \* attempt: a session runs; wait: sleeping; gave_up; stopped
    sleep,     \* what the latest wait sleeps
    limited,   \* whether that is the CA's retry time
    session,   \* down: carried no traffic; up: did; then lost, plain or rate
    slot       \* the RejectSlot holds a reason

counters == <<attempts, backoff, sleep, limited>>
vars == <<counters, st, session, slot>>

Init ==
    /\ attempts = 0
    /\ backoff = BaseBackoff
    /\ st = "attempt"
    /\ sleep = 0
    /\ limited = FALSE
    /\ session = "down"
    /\ slot = FALSE

-----------------------------------------------------------------------------
(* The session.                                                            *)

\* A control exchange completed.
SessionUp ==
    /\ st = "attempt"
    /\ session = "down"
    /\ session' = "up"
    /\ UNCHANGED <<counters, st, slot>>

\* The session is over: lost if it carried traffic, NeverUp if it did not, or if
\* the relay's rejection ended it.
SessionEnds ==
    /\ st = "attempt"
    /\ slot' \in {slot, TRUE}
    /\ \/ session = "up" /\ session' = "lost"
       \/ session = "down" /\ session' \in {"plain", "rate"}
       \/ session = "up" /\ slot' /\ session' \in {"plain", "rate"}
    /\ UNCHANGED <<counters, st>>

\* A member is rejected, of this session's pool or of the one dropped before it.
RelayRejects ==
    /\ slot' = TRUE
    /\ UNCHANGED <<counters, st, session>>

-----------------------------------------------------------------------------
(* What it costs.                                                          *)

\* The loop takes what the session came to, and clears the slot.
Book(result) ==
    /\ st = "attempt"
    /\ session \in {"lost", "plain", "rate"}
    /\ result = IF slot THEN "rejected" ELSE session
    /\ session' = "down"
    /\ slot' = FALSE

\* Gives up, or sleeps the backoff.
CountFailure(b) ==
    /\ attempts' = Failed(attempts)
    /\ backoff' = b
    /\ IF Exhausted(Failed(attempts))
       THEN st' = "gave_up" /\ UNCHANGED <<sleep, limited>>
       ELSE st' = "wait" /\ sleep' = b /\ limited' = FALSE

\* NeverUp: one failed attempt.
AttemptFails == Book("plain") /\ CountFailure(backoff)

\* The relay rejected: a failed attempt that backs off the most.
AttemptRejected == Book("rejected") /\ CountFailure(MaxBackoff)

\* NeverUp with the CA's retry time: not counted, and never shorter than the base.
RateLimited ==
    /\ Book("rate")
    /\ \E r \in RetryAfters : sleep' = AtLeast(AtLeast(r, 0), BaseBackoff)
    /\ limited' = TRUE
    /\ st' = "wait"
    /\ UNCHANGED <<attempts, backoff>>

\* Lost: the session carried traffic, which clears the budget.
Recovered ==
    /\ Book("lost")
    /\ attempts' = 0
    /\ backoff' = BaseBackoff
    /\ sleep' = BaseBackoff
    /\ limited' = FALSE
    /\ st' = "wait"

\* The sleep is over; a backoff that was slept doubles.
WaitEnds ==
    /\ st = "wait"
    /\ st' = "attempt"
    /\ backoff' = IF limited THEN backoff ELSE Doubled(backoff)
    /\ UNCHANGED <<attempts, sleep, limited, session, slot>>

\* stop() ends the session or the sleep.
Stopped ==
    /\ st \in {"attempt", "wait"}
    /\ session \in {"down", "up"}
    /\ st' = "stopped"
    /\ session' = "down"
    /\ slot' \in {slot, TRUE}
    /\ UNCHANGED counters

Next ==
    \/ SessionUp \/ SessionEnds \/ RelayRejects
    \/ AttemptFails \/ AttemptRejected \/ RateLimited \/ Recovered
    \/ WaitEnds \/ Stopped

Spec == Init /\ [][Next]_vars

-----------------------------------------------------------------------------
(* Properties.                                                             *)

TypeOK ==
    /\ attempts \in 0..AttemptsCap
    /\ backoff \in Nat
    /\ st \in {"attempt", "wait", "gave_up", "stopped"}
    /\ sleep \in Nat
    /\ limited \in BOOLEAN
    /\ session \in {"down", "up", "lost", "plain", "rate"}
    /\ slot \in BOOLEAN

\* The loop gives up exactly when the budget is spent, never under an
\* unlimited policy, and never runs on past its budget.
BudgetExact ==
    /\ st \in {"attempt", "wait"} /\ MaxAttempts # 0 => attempts < MaxAttempts
    /\ st = "gave_up" => MaxAttempts # 0 /\ attempts = MaxAttempts

\* The backoff stays between its base and its ceiling.
BackoffBounded == BaseBackoff <= backoff /\ backoff <= MaxBackoff

\* No retry comes sooner than the base backoff, not even when the CA's retry
\* time has already passed.
NeverHammers == st = "wait" => sleep >= BaseBackoff

\* Consecutive failures never shorten the backoff: only a session that carried
\* traffic does.
BackoffResetOnlyByTraffic ==
    [][backoff' < backoff => attempts' = 0 /\ backoff' = BaseBackoff]_vars

\* A rate-limited attempt is free: neither its end nor its sleep moves the
\* budget or the backoff.
RateLimitIsFree ==
    [][limited' /\ st' \in {"attempt", "wait"} =>
           attempts' = attempts /\ backoff' = backoff]_vars

==============================================================================
