---------------------------- MODULE TunnelEvents ----------------------------
(***************************************************************************)
(* The event stream of a tunnel: the supervisor that runs one task per      *)
(* connection (TunnelClient::run in client.rs), and the run() of the FFI    *)
(* crate that hands every event to the foreign handler, can be cancelled at *)
(* each of its awaits, and leaves a TerminalGuard to finish the stream.     *)
(*                                                                          *)
(* Events are numbered in the order they are sent.  The handler has seen an *)
(* event when on_event returned.                                            *)
(***************************************************************************)
EXTENDS Naturals, Sequences

CONSTANTS
    Conns,      \* the connections: one or two for each relay address
    MaxEvents   \* bound: events sent by running connections

ASSUME EventsAssumption == MaxEvents \in Nat

VARIABLES
    stop,        \* stop(): not called, flag stored, watch channel set
    pc,          \* where run(), or the guard's tail after a cancel, is
    cancelled,   \* whether the foreign side dropped run()
    outcome,     \* the terminal event to deliver, once it is known
    hand,        \* the event taken from the queue that is being delivered
    announced,   \* the flag of that name
    terminal,    \* the flag of that name
    sup,         \* the supervisor task
    stopSeen,    \* the channel was set when the supervisor subscribed
    conn,        \* the connection tasks
    sent,        \* events sent so far
    taken,       \* how many of them were taken from the queue
    out,         \* what the handler has seen
    atEnd,       \* how many had been sent when the supervisor ended
    dropped      \* the event in hand when run() was cancelled, 0 if none was

supVars == <<sup, stopSeen, conn, atEnd>>
runVars == <<pc, cancelled, outcome, hand, announced, terminal, taken, out, dropped>>
vars == <<stop, supVars, sent, runVars>>

Event(c, kind) == [from |-> c, kind |-> kind]

\* What on_event is called with: the event of number n, or Started or a terminal.
Call(name, n) == [name |-> name, n |-> n]

Kinds == {"established", "other", "gave_up"}
Terminals == {"stopped", "failed"}

Init ==
    /\ stop = "no"
    /\ pc = "idle" /\ cancelled = FALSE /\ outcome = "none" /\ hand = 0
    /\ announced = FALSE /\ terminal = FALSE
    /\ sup = "none" /\ stopSeen = FALSE /\ conn = [c \in Conns |-> "none"]
    /\ sent = <<>> /\ taken = 0 /\ out = <<>> /\ atEnd = 0 /\ dropped = 0

-----------------------------------------------------------------------------
(* stop(): the flag, then the watch channel that the supervisor and the     *)
(* connections listen to.                                                   *)

StopSent == stop = "sent"

StopFlag ==
    /\ stop = "no"
    /\ stop' = "flag"
    /\ UNCHANGED <<supVars, sent, runVars>>

StopSend ==
    /\ stop = "flag"
    /\ stop' = "sent"
    /\ UNCHANGED <<supVars, sent, runVars>>

-----------------------------------------------------------------------------
(* The connections and the supervisor.                                     *)

Send(c, kind) == sent' = Append(sent, Event(c, kind))

\* A connection reports what happens to it.
ConnReports(c) ==
    /\ conn[c] = "running"
    /\ Len(sent) < MaxEvents
    /\ \E kind \in {"established", "other"} : Send(c, kind)
    /\ UNCHANGED <<stop, supVars, runVars>>

\* connection_run returns an error once its budget is spent.
ConnGivesUp(c) ==
    /\ conn[c] = "running"
    /\ conn' = [conn EXCEPT ![c] = "failed"]
    /\ UNCHANGED <<stop, sup, stopSeen, atEnd, sent, runVars>>

\* connection_run returns Ok once it is told to stop.
ConnStops(c) ==
    /\ conn[c] = "running"
    /\ StopSent
    /\ conn' = [conn EXCEPT ![c] = "stopped"]
    /\ UNCHANGED <<stop, sup, stopSeen, atEnd, sent, runVars>>

\* A connection that is aborted in the middle of a poll may still report.
ConnAborted(c) ==
    /\ conn[c] = "aborting"
    /\ conn' = [conn EXCEPT ![c] = "gone"]
    /\ \/ UNCHANGED sent
       \/ Len(sent) < MaxEvents /\ \E kind \in {"established", "other"} : Send(c, kind)
    /\ UNCHANGED <<stop, sup, stopSeen, atEnd, runVars>>

\* The connections are spawned and the stop channel is subscribed to.
SupStarts ==
    /\ sup = "spawned"
    /\ sup' = "head"
    /\ conn' = [c \in Conns |-> "running"]
    /\ stopSeen' = StopSent
    /\ UNCHANGED <<stop, atEnd, sent, runVars>>

\* Dropping the task set aborts the connections that are left.
SupEnds(result) ==
    /\ sup' = result
    /\ atEnd' = Len(sent)
    /\ conn' = [c \in Conns |->
                  IF conn[c] \in {"none", "joined"} THEN conn[c] ELSE "aborting"]
    /\ UNCHANGED stopSeen

\* Mutant: the loop does not look at the channel's value.
SupHeadUnchecked ==
    /\ sup = "head"
    /\ sup' = "select"
    /\ UNCHANGED <<stop, stopSeen, conn, atEnd, sent, runVars>>

SupHead ==
    /\ sup = "head"
    /\ IF StopSent
       THEN SupEnds("ok")
       ELSE sup' = "select" /\ UNCHANGED <<stopSeen, conn, atEnd>>
    /\ UNCHANGED <<stop, sent, runVars>>

\* stop.changed(): the channel was set after it was subscribed to.
SupStopped ==
    /\ sup = "select"
    /\ StopSent /\ ~stopSeen
    /\ SupEnds("ok")
    /\ UNCHANGED <<stop, sent, runVars>>

\* Mutant: a connection that gave up is not reported.
SupJoinsSilently(c) ==
    /\ sup = "select"
    /\ conn[c] \in {"failed", "stopped"}
    /\ conn' = [conn EXCEPT ![c] = "joined"]
    /\ sup' = "head"
    /\ UNCHANGED <<stop, stopSeen, atEnd, sent, runVars>>

\* A connection task has ended; only one that failed is reported.
SupJoins(c) ==
    /\ sup = "select"
    /\ conn[c] \in {"failed", "stopped"}
    /\ conn' = [conn EXCEPT ![c] = "joined"]
    /\ IF conn[c] = "failed" THEN Send(c, "gave_up") ELSE UNCHANGED sent
    /\ sup' = "head"
    /\ UNCHANGED <<stop, stopSeen, atEnd, runVars>>

SupAllGaveUp ==
    /\ sup = "select"
    /\ \A c \in Conns : conn[c] = "joined"
    /\ SupEnds("err")
    /\ UNCHANGED <<stop, sent, runVars>>

-----------------------------------------------------------------------------
(* run() of the FFI crate, and the tail of its guard.                       *)

RunCalled ==
    /\ pc = "idle"
    /\ pc' = "check"
    /\ UNCHANGED <<stop, supVars, sent, cancelled, outcome, hand, announced, terminal,
                   taken, out, dropped>>

\* A tunnel that was told to stop is not started, and one without a runtime fails.
RunStarts ==
    /\ pc = "check"
    /\ \/ /\ stop # "no"
          /\ pc' = "terminal" /\ outcome' = "stopped"
          /\ UNCHANGED sup
       \/ /\ stop = "no"
          /\ pc' = "terminal" /\ outcome' = "failed"
          /\ UNCHANGED sup
       \/ /\ stop = "no"
          /\ pc' = "select"
          /\ sup' = "spawned"
          /\ UNCHANGED outcome
    /\ UNCHANGED <<stop, stopSeen, conn, atEnd, sent, cancelled, hand, announced, terminal,
                   taken, out, dropped>>

Queued == taken < Len(sent)

\* Mutant: a channel that keeps the latest event only.
TakeLatest ==
    /\ Queued
    /\ taken' = Len(sent)
    /\ hand' = Len(sent)
    /\ pc' = IF sent[Len(sent)].kind = "established" /\ ~announced
             THEN "announce" ELSE "deliver"

\* Takes the next event and starts to deliver it, with Started first if due.
Take ==
    /\ Queued
    /\ taken' = taken + 1
    /\ hand' = taken + 1
    /\ pc' = IF sent[taken + 1].kind = "established" /\ ~announced
             THEN "announce" ELSE "deliver"

TakeNext ==
    /\ pc = "select"
    /\ Take
    /\ UNCHANGED <<stop, supVars, sent, cancelled, outcome, announced, terminal, out,
                   dropped>>

\* The supervisor's task has ended.  Events may have been queued since the
\* biased select polled the queue.
Joined ==
    /\ pc = "select"
    /\ sup \in {"ok", "err"}
    /\ outcome' = IF sup = "ok" THEN "stopped" ELSE "failed"
    /\ pc' = "drain"
    /\ UNCHANGED <<stop, supVars, sent, cancelled, hand, announced, terminal, taken, out,
                   dropped>>

\* Mutant: the flag is stored before Started is delivered.
AnnounceAfterFlag ==
    /\ pc = "announce"
    /\ IF announced
       THEN out' = Append(out, Call("started", 0)) /\ pc' = "deliver" /\ UNCHANGED announced
       ELSE announced' = TRUE /\ UNCHANGED <<out, pc>>
    /\ UNCHANGED <<stop, supVars, sent, cancelled, outcome, hand, terminal, taken, dropped>>

\* on_event(Started) returns.
Announce ==
    /\ pc = "announce"
    /\ out' = Append(out, Call("started", 0))
    /\ announced' = TRUE
    /\ pc' = "deliver"
    /\ UNCHANGED <<stop, supVars, sent, cancelled, outcome, hand, terminal, taken, dropped>>

\* on_event returns; run() goes back to its loop, or to its drain.
Deliver ==
    /\ pc = "deliver"
    /\ out' = Append(out, Call("event", hand))
    /\ hand' = 0
    /\ pc' = IF outcome = "none" THEN "select" ELSE "drain"
    /\ UNCHANGED <<stop, supVars, sent, cancelled, outcome, announced, terminal, taken,
                   dropped>>

\* Mutant: what is still queued is left there.
DrainNothing ==
    /\ pc = "drain"
    /\ pc' = "terminal"
    /\ UNCHANGED <<stop, supVars, sent, cancelled, outcome, hand, announced, terminal,
                   taken, out, dropped>>

Drain ==
    /\ pc = "drain"
    /\ Take \/ (~Queued /\ pc' = "terminal" /\ UNCHANGED <<taken, hand>>)
    /\ UNCHANGED <<stop, supVars, sent, cancelled, outcome, announced, terminal, out,
                   dropped>>

\* deliver_terminal, or the last lines of the guard's tail.
DeliverTerminal ==
    /\ pc = "terminal"
    /\ out' = Append(out, Call(outcome, 0))
    /\ terminal' = TRUE
    /\ pc' = "returned"
    /\ UNCHANGED <<stop, supVars, sent, cancelled, outcome, hand, announced, taken,
                   dropped>>

\* Mutant: the guard does not look at what was delivered.
CancelLate ==
    /\ ~cancelled
    /\ pc \in {"select", "announce", "deliver", "terminal", "returned"}
    /\ cancelled' = TRUE
    /\ pc' = "shutdown" /\ outcome' = "stopped"
    /\ dropped' = hand /\ hand' = 0
    /\ UNCHANGED <<stop, supVars, sent, announced, terminal, taken, out>>

\* run() is dropped at one of its awaits.  The guard's drop finds no terminal
\* event delivered and spawns the tail.
Cancel ==
    /\ ~cancelled
    /\ pc \in {"select", "announce", "deliver", "terminal"}
    /\ cancelled' = TRUE
    /\ pc' = "shutdown" /\ outcome' = "stopped"
    /\ dropped' = hand /\ hand' = 0
    /\ UNCHANGED <<stop, supVars, sent, announced, terminal, taken, out>>

\* tunnel.shutdown(): the supervisor is aborted, if it has not ended, and its end
\* awaited.
Shutdown ==
    /\ pc = "shutdown"
    /\ pc' = "drain"
    /\ IF sup \in {"spawned", "head", "select"}
       THEN SupEnds("aborted")
       ELSE UNCHANGED supVars
    /\ UNCHANGED <<stop, sent, cancelled, outcome, hand, announced, terminal, taken, out,
                   dropped>>

-----------------------------------------------------------------------------

ConnStep(c) == ConnReports(c) \/ ConnGivesUp(c) \/ ConnStops(c) \/ ConnAborted(c)

SupStep ==
    \/ SupStarts \/ SupHead \/ SupStopped \/ SupAllGaveUp
    \/ \E c \in Conns : SupJoins(c)

RunStep ==
    \/ RunStarts \/ TakeNext \/ Joined \/ Announce \/ Deliver \/ Drain
    \/ DeliverTerminal \/ Shutdown

Next ==
    \/ StopFlag \/ StopSend \/ RunCalled \/ Cancel
    \/ \E c \in Conns : ConnStep(c)
    \/ SupStep \/ RunStep

Spec == Init /\ [][Next]_vars

\* Tasks that can go on do, and on_event returns.  Nothing makes the caller stop
\* or cancel, or a connection fail.
Fairness == WF_vars(StopSend) /\ WF_vars(SupStep) /\ WF_vars(RunStep)

FairSpec == Spec /\ Fairness

-----------------------------------------------------------------------------
(* Properties.                                                             *)

TypeOK ==
    /\ stop \in {"no", "flag", "sent"}
    /\ pc \in {"idle", "check", "select", "announce", "deliver", "drain", "terminal",
               "shutdown", "returned"}
    /\ cancelled \in BOOLEAN /\ announced \in BOOLEAN
    /\ terminal \in BOOLEAN /\ stopSeen \in BOOLEAN
    /\ outcome \in {"none"} \cup Terminals
    /\ sup \in {"none", "spawned", "head", "select", "ok", "err", "aborted"}
    /\ conn \in [Conns -> {"none", "running", "failed", "stopped", "joined", "aborting",
                           "gone"}]
    /\ sent \in Seq([from : Conns, kind : Kinds])
    /\ taken \in 0..Len(sent) /\ hand \in 0..taken /\ dropped \in 0..taken
    /\ out \in Seq([name : {"started", "event"} \cup Terminals, n : 0..taken])
    /\ atEnd \in 0..Len(sent)

\* The tunnel has ended: its supervisor has, or was never started.
Ended ==
    \/ sup \in {"ok", "err", "aborted"}
    \/ sup = "none" /\ pc \in {"shutdown", "drain", "terminal", "returned"}

\* The stream as the application sees it.  The event in hand is not yet told.
Stream == INSTANCE EventStream
    WITH Events <- [from : Conns, kind : Kinds],
         pos <- IF hand = 0 THEN taken ELSE taken - 1,
         lost <- dropped # 0, open <- ~Ended, due <- atEnd, told <- out

\* run(), its guard and the supervisor keep the promise of the comment on run(),
\* wherever the foreign side cancels and whenever it stops: Started once and before
\* any ConnectionEstablished, every event in the order it was sent, none that was
\* sent before the tunnel ended missing but for one in hand at a cancel, and one
\* terminal event with nothing after it.
ImplementsStream == Stream!Spec

Seen(call) == \E k \in 1..Len(out) : out[k] = call
SeenEvent(i) == Seen(Call("event", i))

\* Failed means that no connection is left: each of them was reported to have
\* given up before the stream ended.  It is never the end of a tunnel whose
\* connections stopped on request.
FailedMeansAllGaveUp ==
    (Seen(Call("failed", 0)) /\ sup # "none") =>
        \A c \in Conns : \E i \in 1..Len(sent) :
            sent[i] = Event(c, "gave_up") /\ SeenEvent(i)

\* A run() that is stopped, cancelled or left without connections ends its
\* stream: stop() is noticed whenever it is called.
StreamEnds ==
    (/\ pc # "idle"
     /\ \/ stop # "no"
        \/ cancelled
        \/ \A c \in Conns : conn[c] \in {"failed", "joined"}) ~> pc = "returned"

=============================================================================
