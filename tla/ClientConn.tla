----------------------------- MODULE ClientConn -----------------------------
(***************************************************************************)
(* One connection task of the client: its reconnect loop, the QUIC session  *)
(* it tries first, the pool of H2 members it falls back to, and the events  *)
(* the application hears.  The members of a pool that was dropped may still *)
(* finish the poll they are in: aborting a task does not wait for it.       *)
(***************************************************************************)
EXTENDS RetryPolicy, FiniteSets

CONSTANTS
    Members,      \* the pool's members; pool_size is their number
    ForceH2,      \* force_h2
    Rejects,      \* whether the relay ever rejects an attempt
    Lingers       \* whether dropping a pool may catch a member in mid-poll

ASSUME ClientConnAssumption ==
    /\ IsFiniteSet(Members) /\ Members # {}
    /\ {ForceH2, Rejects, Lingers} \subseteq BOOLEAN

VARIABLES
    run,       \* where connection_run is
    outcome,   \* the session's outcome: lost, plain or rate (both NeverUp)
    attempts, backoff, sleep, limited,   \* its RetryState
    rejected,  \* the RejectSlot holds a reason
    stopReq,   \* stop() was called
    member,    \* where each member of the running pool is
    live, everUp, parked,   \* PoolState
    wentDown, allParked,    \* the stored permits of the two Notifys
    woken,     \* the parked members whose came_up receiver has changed
    failed,    \* H2Shared.failed
    late,      \* what the members of the previous, dropped pool are still doing
    lateLive,  \* that pool's live count
    heard      \* the last two events the application heard

retryVars == <<attempts, backoff, sleep, limited>>
poolVars == <<live, everUp, parked, wentDown, allParked, woken>>
lateVars == <<late, lateLive>>
vars == <<run, outcome, retryVars, rejected, stopReq, member, poolVars, failed,
          lateVars, heard>>

RunStates == {"attempt", "quic", "quic_up", "pool", "settle", "wait",
              "returned", "bailed"}
MemberStates == {"off", "connecting", "failed", "parked", "up", "served",
                 "backoff", "returned"}
Events == {"none", "established", "lost", "attempt_failed"}

\* The reconnect bookkeeping this task drives.
RetryPhase ==
    CASE run = "wait" -> "wait"
      [] run = "bailed" -> "gave_up"
      [] run = "returned" -> "stopped"
      [] OTHER -> "attempt"
SessionState ==
    CASE run = "settle" -> outcome
      [] run = "quic_up" \/ (run = "pool" /\ everUp) -> "up"
      [] OTHER -> "down"
Retry == INSTANCE RetryState WITH
             st <- RetryPhase, session <- SessionState, slot <- rejected

Init ==
    /\ run = "attempt" /\ outcome = "plain"
    /\ attempts = 0 /\ backoff = BaseBackoff /\ sleep = 0 /\ limited = FALSE
    /\ rejected = FALSE /\ stopReq = FALSE
    /\ member = [m \in Members |-> "off"]
    /\ live = 0 /\ everUp = FALSE /\ parked = 0
    /\ wentDown = FALSE /\ allParked = FALSE /\ woken = {}
    /\ failed = "none"
    /\ late = [m \in Members |-> "off"] /\ lateLive = 0
    /\ heard = <<"none", "none">>

Emit(ev) == heard' = <<heard[2], ev>>
Silent == UNCHANGED heard

Stop ==
    /\ ~stopReq
    /\ stopReq' = TRUE
    /\ UNCHANGED <<run, outcome, retryVars, rejected, member, poolVars, failed,
                   lateVars, heard>>

-----------------------------------------------------------------------------
(* The reconnect loop and the QUIC session.                                *)

\* The loop's head sees stop().
HeadStopped ==
    /\ run = "attempt" /\ stopReq
    /\ run' = "returned"
    /\ UNCHANGED <<outcome, retryVars, rejected, stopReq, member, poolVars,
                   failed, lateVars, heard>>

\* quic_attempt reaches the relay.
QuicConnected ==
    /\ run = "attempt" /\ ~stopReq /\ ~ForceH2
    /\ run' = "quic"
    /\ UNCHANGED <<outcome, retryVars, rejected, stopReq, member, poolVars,
                   failed, lateVars, heard>>

\* force_h2, no UDP socket, or no QUIC connection: a fresh pool takes the attempt.
PoolStarts ==
    /\ run = "attempt" /\ ~stopReq
    /\ run' = "pool"
    /\ member' = [m \in Members |-> "connecting"]
    /\ live' = 0 /\ everUp' = FALSE /\ parked' = 0
    /\ wentDown' = FALSE /\ allParked' = FALSE /\ woken' = {}
    /\ failed' = "none"
    /\ UNCHANGED <<outcome, retryVars, rejected, stopReq, lateVars, heard>>

\* The control exchange ends without the relay's acceptance.
QuicFails ==
    /\ run = "quic"
    /\ \/ UNCHANGED rejected
       \/ Rejects /\ rejected' = TRUE
    /\ IF stopReq
       THEN run' = "returned" /\ UNCHANGED outcome
       ELSE run' = "settle" /\ outcome' \in {"plain", "rate"}
    /\ UNCHANGED <<retryVars, stopReq, member, poolVars, failed, lateVars, heard>>

\* run() saw stop() and dropped its tasks: this one ends at its await.  Nothing
\* else ends an exchange that hangs; elsewhere the task returns by itself.
QuicAborted ==
    /\ run = "quic" /\ stopReq
    /\ run' = "returned"
    /\ UNCHANGED <<outcome, retryVars, rejected, stopReq, member, poolVars,
                   failed, lateVars, heard>>

QuicEstablished ==
    /\ run = "quic"
    /\ run' = "quic_up"
    /\ Emit("established")
    /\ UNCHANGED <<outcome, retryVars, rejected, stopReq, member, poolVars,
                   failed, lateVars>>

\* The connection ends, or the session sees stop().
QuicEnds ==
    /\ run = "quic_up"
    /\ IF stopReq
       THEN run' = "returned" /\ UNCHANGED <<outcome, heard>>
       ELSE run' = "settle" /\ outcome' = "lost" /\ Emit("lost")
    /\ UNCHANGED <<retryVars, rejected, stopReq, member, poolVars, failed, lateVars>>

\* Mutant: the failure is not added to the count.
ChargeNothing(b) ==
    /\ UNCHANGED attempts
    /\ backoff' = b
    /\ IF Exhausted(attempts)
       THEN run' = "bailed" /\ UNCHANGED <<sleep, limited, heard>>
       ELSE /\ run' = "wait" /\ sleep' = b /\ limited' = FALSE
            /\ Emit("attempt_failed")

\* The task bails on an exhausted budget, or reports the attempt and sleeps b.
Charge(b) ==
    /\ attempts' = Failed(attempts)
    /\ backoff' = b
    /\ IF Exhausted(Failed(attempts))
       THEN run' = "bailed" /\ UNCHANGED <<sleep, limited, heard>>
       ELSE /\ run' = "wait" /\ sleep' = b /\ limited' = FALSE
            /\ Emit("attempt_failed")

SettleRejected == rejected /\ Charge(MaxBackoff)

SettleFailed == ~rejected /\ outcome = "plain" /\ Charge(backoff)

SettleLimited ==
    /\ ~rejected /\ outcome = "rate"
    /\ run' = "wait"
    /\ \E r \in RetryAfters :
           sleep' = AtLeast(AtLeast(r, 0), BaseBackoff)
    /\ limited' = TRUE
    /\ Emit("attempt_failed")
    /\ UNCHANGED <<attempts, backoff>>

SettleLost ==
    /\ ~rejected /\ outcome = "lost"
    /\ run' = "wait"
    /\ attempts' = 0 /\ backoff' = BaseBackoff
    /\ sleep' = BaseBackoff /\ limited' = FALSE
    /\ Silent

\* connection_run takes the rejection slot and books the session.
Settle ==
    /\ run = "settle"
    /\ SettleRejected \/ SettleFailed \/ SettleLimited \/ SettleLost
    /\ rejected' = FALSE
    /\ UNCHANGED <<outcome, stopReq, member, poolVars, failed, lateVars>>

WaitEnds ==
    /\ run = "wait"
    /\ run' = "attempt"
    /\ backoff' = IF limited THEN backoff ELSE Doubled(backoff)
    /\ UNCHANGED <<outcome, attempts, sleep, limited, rejected, stopReq, member,
                   poolVars, failed, lateVars, heard>>

WaitStopped ==
    /\ run = "wait" /\ stopReq
    /\ run' = "returned"
    /\ UNCHANGED <<outcome, retryVars, rejected, stopReq, member, poolVars,
                   failed, lateVars, heard>>

-----------------------------------------------------------------------------
(* One member of the pool: drive and attempt.                              *)

MemberGoto(m, from, to) ==
    /\ run = "pool" /\ member[m] = from
    /\ member' = [member EXCEPT ![m] = to]

\* What a member leaves alone whatever it does.
MemberFrame ==
    UNCHANGED <<run, outcome, retryVars, stopReq, lateVars>>

\* record_failure: no connection, a failed exchange, or no TLS acceptor.
MemberFails(m) ==
    /\ MemberGoto(m, "connecting", "failed")
    /\ failed' \in {"plain", "rate"}
    /\ MemberFrame /\ UNCHANGED <<rejected, poolVars, heard>>

MemberRejected(m) ==
    /\ Rejects
    /\ MemberGoto(m, "connecting", "failed")
    /\ rejected' = TRUE
    /\ MemberFrame /\ UNCHANGED <<poolVars, failed, heard>>

\* Mutant: the transition is reported, and wakes nobody.
UpWakesNobody(m) ==
    /\ MemberGoto(m, "connecting", "up")
    /\ live' = live + 1
    /\ everUp' = TRUE
    /\ IF live = 0 THEN Emit("established") ELSE Silent
    /\ MemberFrame
    /\ UNCHANGED <<rejected, parked, wentDown, allParked, woken, failed>>

\* The 0 to 1 transition wakes every parked member.
Up(m) ==
    /\ MemberGoto(m, "connecting", "up")
    /\ live' = live + 1
    /\ everUp' = TRUE
    /\ IF live = 0
       THEN woken' = {n \in Members : member[n] = "parked"} /\ Emit("established")
       ELSE UNCHANGED woken /\ Silent
    /\ MemberFrame /\ UNCHANGED <<rejected, parked, wentDown, allParked, failed>>

\* The 1 to 0 transition is lost, unless stop() was seen.
Down(m) ==
    /\ MemberGoto(m, "up", "served")
    /\ live' = live - 1
    /\ wentDown' = (wentDown \/ live = 1)
    /\ IF live = 1 /\ ~stopReq THEN Emit("lost") ELSE Silent
    /\ MemberFrame /\ UNCHANGED <<rejected, everUp, parked, allParked, woken, failed>>

\* A sibling is up: the member retries like one that served.
ParkDeclined(m) ==
    /\ live > 0
    /\ MemberGoto(m, "failed", "served")
    /\ MemberFrame /\ UNCHANGED <<rejected, poolVars, failed, heard>>

\* Mutant: off by one in the count that ends the session.
ParkSignalsLate(m) ==
    /\ live = 0
    /\ MemberGoto(m, "failed", "parked")
    /\ parked' = parked + 1
    /\ allParked' = (allParked \/ parked >= Cardinality(Members))
    /\ woken' = woken \ {m}
    /\ MemberFrame /\ UNCHANGED <<rejected, live, everUp, wentDown, failed, heard>>

Park(m) ==
    /\ live = 0
    /\ MemberGoto(m, "failed", "parked")
    /\ parked' = parked + 1
    /\ allParked' = (allParked \/ parked + 1 >= Cardinality(Members))
    /\ woken' = woken \ {m}
    /\ MemberFrame /\ UNCHANGED <<rejected, live, everUp, wentDown, failed, heard>>

\* Mutant: a woken member is still counted as parked.
UnparkUncounted(m) ==
    /\ \/ m \in woken /\ MemberGoto(m, "parked", "served")
       \/ stopReq /\ MemberGoto(m, "parked", "returned")
    /\ woken' = woken \ {m}
    /\ MemberFrame
    /\ UNCHANGED <<rejected, live, everUp, parked, wentDown, allParked, failed, heard>>

\* The pool came up, or stop(): either may win.
Unpark(m) ==
    /\ \/ m \in woken /\ MemberGoto(m, "parked", "served")
       \/ stopReq /\ MemberGoto(m, "parked", "returned")
    /\ parked' = parked - 1
    /\ woken' = woken \ {m}
    /\ MemberFrame
    /\ UNCHANGED <<rejected, live, everUp, wentDown, allParked, failed, heard>>

\* After an attempt: return on stop(), or back off.
BackOff(m) ==
    /\ MemberGoto(m, "served", IF stopReq THEN "returned" ELSE "backoff")
    /\ MemberFrame /\ UNCHANGED <<rejected, poolVars, failed, heard>>

Reconnect(m) ==
    /\ \/ MemberGoto(m, "backoff", "connecting")
       \/ stopReq /\ MemberGoto(m, "backoff", "returned")
    /\ MemberFrame /\ UNCHANGED <<rejected, poolVars, failed, heard>>

MemberStep(m) ==
    \/ MemberFails(m) \/ MemberRejected(m) \/ Up(m) \/ Down(m)
    \/ ParkDeclined(m) \/ Park(m) \/ Unpark(m) \/ BackOff(m) \/ Reconnect(m)

-----------------------------------------------------------------------------
(* The pool's session loop.  Its branches race, and the one that wins drops *)
(* the members.                                                            *)

\* The members a drop catches in the middle of a poll finish that poll.
DropMembers ==
    /\ \E L \in SUBSET {m \in Members : Lingers /\ member[m] \in {"connecting", "up"}} :
           late' = [m \in Members |-> IF m \in L THEN member[m] ELSE "off"]
    /\ lateLive' = live
    /\ member' = [m \in Members |-> "off"]

TakeFailure == IF failed = "none" THEN "plain" ELSE failed

SessionFrame ==
    /\ DropMembers
    /\ UNCHANGED <<retryVars, rejected, stopReq, poolVars, failed, heard>>

\* Mutant: stop() is looked at only while nobody is up.
PoolStoppedWhenIdle ==
    /\ run = "pool" /\ stopReq /\ live = 0
    /\ run' = "returned" /\ UNCHANGED outcome
    /\ SessionFrame

PoolStopped ==
    /\ run = "pool" /\ stopReq
    /\ run' = "returned" /\ UNCHANGED outcome
    /\ SessionFrame

PoolRejected ==
    /\ run = "pool" /\ rejected
    /\ run' = "settle" /\ outcome' = TakeFailure
    /\ SessionFrame

PoolDown ==
    /\ run = "pool" /\ wentDown
    /\ run' = "settle" /\ outcome' = "lost"
    /\ SessionFrame

\* Mutant: a drained pool is charged, although it was up.
PoolDrainedForgets ==
    /\ run = "pool"
    /\ allParked \/ \A m \in Members : member[m] = "returned"
    /\ run' = "settle" /\ outcome' = TakeFailure
    /\ SessionFrame

\* Every member is parked, or has returned.
PoolDrained ==
    /\ run = "pool"
    /\ allParked \/ \A m \in Members : member[m] = "returned"
    /\ run' = "settle" /\ outcome' = IF everUp THEN "lost" ELSE TakeFailure
    /\ SessionFrame

SessionLoop == PoolStopped \/ PoolRejected \/ PoolDown \/ PoolDrained

-----------------------------------------------------------------------------
(* The last poll of a member of the dropped pool.                          *)

LateFrame ==
    UNCHANGED <<run, outcome, retryVars, stopReq, member, poolVars, failed>>

LateUp(m) ==
    /\ late[m] = "connecting"
    /\ late' = [late EXCEPT ![m] = "off"]
    /\ lateLive' = lateLive + 1
    /\ IF lateLive = 0 THEN Emit("established") ELSE Silent
    /\ LateFrame /\ UNCHANGED rejected

LateDown(m) ==
    /\ late[m] = "up"
    /\ late' = [late EXCEPT ![m] = "off"]
    /\ lateLive' = lateLive - 1
    /\ IF lateLive = 1 /\ ~stopReq THEN Emit("lost") ELSE Silent
    /\ LateFrame /\ UNCHANGED rejected

LateRejected(m) ==
    /\ Rejects /\ late[m] = "connecting"
    /\ late' = [late EXCEPT ![m] = "off"]
    /\ rejected' = TRUE
    /\ LateFrame /\ UNCHANGED <<lateLive, heard>>

\* It reaches an await and is cancelled.
LateCancelled(m) ==
    /\ late[m] # "off"
    /\ late' = [late EXCEPT ![m] = "off"]
    /\ LateFrame /\ UNCHANGED <<lateLive, rejected, heard>>

LateStep(m) == LateUp(m) \/ LateDown(m) \/ LateRejected(m) \/ LateCancelled(m)

-----------------------------------------------------------------------------
LoopStep ==
    \/ HeadStopped \/ QuicConnected \/ PoolStarts
    \/ QuicFails \/ QuicAborted \/ QuicEstablished \/ QuicEnds
    \/ Settle \/ WaitEnds \/ WaitStopped

Next ==
    \/ Stop
    \/ LoopStep
    \/ SessionLoop
    \/ \E m \in Members : MemberStep(m) \/ LateStep(m)

Spec == Init /\ [][Next]_vars

\* What needs nobody but this process: tasks that can run do, sleeps end, a
\* connect is over within its timeout.  Nothing obliges a control exchange to
\* end, as the CA and the relay may keep it waiting, or an established
\* connection to drop.
Fairness ==
    /\ WF_vars(HeadStopped \/ QuicConnected \/ PoolStarts)
    /\ WF_vars(QuicAborted)
    /\ WF_vars(stopReq /\ QuicEnds)
    /\ WF_vars(Settle)
    /\ WF_vars(WaitEnds \/ WaitStopped)
    /\ WF_vars(SessionLoop)
    /\ \A m \in Members :
           /\ WF_vars(ParkDeclined(m) \/ Park(m))
           /\ WF_vars(Unpark(m))
           /\ WF_vars(BackOff(m))
           /\ WF_vars(Reconnect(m))

FairSpec == Spec /\ Fairness


-----------------------------------------------------------------------------
(* Properties.                                                             *)

In(state) == {m \in Members : member[m] = state}

TypeOK ==
    /\ run \in RunStates
    /\ outcome \in {"lost", "plain", "rate"}
    /\ attempts \in 0..AttemptsCap /\ backoff \in Nat /\ sleep \in Nat
    /\ limited \in BOOLEAN /\ rejected \in BOOLEAN /\ stopReq \in BOOLEAN
    /\ member \in [Members -> MemberStates]
    /\ live \in Nat /\ parked \in Nat /\ everUp \in BOOLEAN
    /\ wentDown \in BOOLEAN /\ allParked \in BOOLEAN
    /\ woken \in SUBSET Members
    /\ failed \in {"none", "plain", "rate"}
    /\ late \in [Members -> {"off", "connecting", "up"}]
    /\ lateLive \in Nat
    /\ heard \in Events \X Events

\* While a pool runs, PoolState counts exactly the members that are up and the
\* members that are parked, whatever their order of failing, waking and dying.
PoolStateExact ==
    run = "pool" => live = Cardinality(In("up")) /\ parked = Cardinality(In("parked"))

\* No wakeup is lost between the members and the session loop: a member parked
\* in a pool that is up has been woken; a pool that was up and has nobody up has
\* signalled it; a pool all of whose members are parked has signalled it.
NoLostWakeup ==
    run = "pool" =>
        /\ live > 0 => In("parked") \subseteq woken
        /\ everUp /\ live = 0 => wentDown
        /\ In("parked") = Members => allParked

\* The loop's counters are the bookkeeping of RetryState: whatever the transports,
\* the members and stop() do, a session is booked once and by what it came to.  One
\* that carried traffic clears the budget and one that did not is charged, or free
\* if the CA rate-limited it.  A rejection found in the slot goes before all that,
\* also one left by a member of the pool dropped before, and then a session that
\* carried traffic is charged.
BooksOnce == Retry!Spec

\* The task gives up exactly when its budget of consecutive failures is spent, and
\* never makes an attempt past it, whichever of the slot, the pool and the QUIC
\* session a failure is read from.
BudgetKept == Retry!BudgetExact

\* A pool with nobody up does not sit there.  One that was up ends as soon as its last
\* member is down, whatever the others do; one that never was ends when all its members
\* failed, so that only a member whose control exchange never ends can hold it.
PoolSettles ==
    \/ []<>(run # "pool" \/ live > 0)
    \/ \E m \in Members : <>[](run = "pool" /\ ~everUp /\ member[m] = "connecting")

\* After stop() the connection task ends, wherever it is: connecting, in an exchange,
\* in a pool of which members are up, parked or backing off, settling or sleeping.
StopEndsTask == stopReq ~> run \in {"returned", "bailed"}

\* Under a limited budget a connection that, from some time on, never carries traffic
\* and is not rate-limited gives up: every attempt, with its pool of members that fail
\* and park, comes to an end and is charged.  The one exception is a control exchange
\* that hangs for ever, on QUIC or in a member of the pool.
GivesUpEventually ==
    LET NoTraffic == run # "quic_up" /\ (run = "pool" => live = 0)
    IN  MaxAttempts # 0 /\ <>[](NoTraffic /\ ~limited) =>
            \/ <>(run \in {"bailed", "returned"})
            \/ <>[](run = "quic")
            \/ \E m \in Members : <>[](run = "pool" /\ member[m] = "connecting")

\* AttemptFailed is about a connection that is not established: it never follows
\* an Established directly.
FailureAfterLost == heard # <<"established", "attempt_failed">>

==============================================================================
