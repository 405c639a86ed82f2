----------------------------- MODULE RetryPolicy -----------------------------
(***************************************************************************)
(* ReconnectPolicy, and the arithmetic of the reconnect loop on it.          *)
(***************************************************************************)
EXTENDS Integers

CONSTANTS
    MaxAttempts,   \* max_attempts; 0 means unlimited
    BaseBackoff,   \* base_backoff
    MaxBackoff,    \* max_backoff
    AttemptsCap,   \* where the u32 attempt counter saturates
    RetryAfters    \* how far away the CA's retry time may be; negative is past

\* What ReconnectPolicy::validate lets through.
ASSUME RetryAssumption ==
    /\ AttemptsCap \in Nat
    /\ MaxAttempts \in 0..AttemptsCap
    /\ BaseBackoff \in Nat \ {0}
    /\ MaxBackoff \in Nat
    /\ BaseBackoff <= MaxBackoff
    /\ RetryAfters \subseteq Int

AtLeast(x, y) == IF x < y THEN y ELSE x
AtMost(x, y) == IF x > y THEN y ELSE x

\* Mutant: off by one.
ExhaustedLate(n) == MaxAttempts # 0 /\ n > MaxAttempts

Exhausted(n) == MaxAttempts # 0 /\ n >= MaxAttempts

\* failed(): a saturating increment.
Failed(n) == AtMost(n + 1, AttemptsCap)

\* The doubling after a wait that slept the backoff.
Doubled(b) == AtMost(2 * b, MaxBackoff)

==============================================================================
