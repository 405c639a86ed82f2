---------------------------- MODULE EventStream ----------------------------
(***************************************************************************)
(* What the comment on run() in the FFI crate promises of the stream of     *)
(* events, without the tasks, flags and awaits that produce it: Started,    *)
(* then events in the order they happened, then exactly one terminal event. *)
(* TunnelEvents implements this specification.                              *)
(***************************************************************************)
EXTENDS Naturals, Sequences

CONSTANT Events     \* what a tunnel can report; an event has a kind

VARIABLES
    sent,   \* what the tunnel has reported
    pos,    \* how many of these are dealt with: told, or lost
    lost,   \* an event was lost with a cancelled run()
    open,   \* the tunnel has not ended
    due,    \* how much had been reported when it ended
    told    \* the calls of the handler that have returned

vars == <<sent, pos, lost, open, due, told>>

\* What the handler is called with: the event of number n, or Started or a terminal.
Call(name, n) == [name |-> name, n |-> n]

Terminals == {"stopped", "failed"}

Over == Len(told) > 0 /\ told[Len(told)].name \in Terminals

HasStarted == \E k \in 1..Len(told) : told[k].name = "started"

Init ==
    /\ sent = <<>> /\ pos = 0 /\ lost = FALSE
    /\ open = TRUE /\ due = 0 /\ told = <<>>

\* Something happens to a connection.  What is reported after the end of the
\* tunnel need not be told.
Report ==
    /\ \E e \in Events : sent' = Append(sent, e)
    /\ UNCHANGED <<pos, lost, open, due, told>>

TunnelEnds ==
    /\ open
    /\ open' = FALSE /\ due' = Len(sent)
    /\ UNCHANGED <<sent, pos, lost, told>>

\* Started is told once, when the next event is the first Established.
TellStarted ==
    /\ ~Over /\ ~HasStarted
    /\ pos < Len(sent) /\ sent[pos + 1].kind = "established"
    /\ told' = Append(told, Call("started", 0))
    /\ UNCHANGED <<sent, pos, lost, open, due>>

\* The next event, and Established only after Started.
TellEvent ==
    /\ ~Over
    /\ pos < Len(sent)
    /\ sent[pos + 1].kind = "established" => HasStarted
    /\ told' = Append(told, Call("event", pos + 1))
    /\ pos' = pos + 1
    /\ UNCHANGED <<sent, lost, open, due>>

\* run() is cancelled with an event in hand; this happens once at most.
Lose ==
    /\ ~Over /\ ~lost
    /\ pos < Len(sent)
    /\ pos' = pos + 1 /\ lost' = TRUE
    /\ UNCHANGED <<sent, open, due, told>>

\* The terminal event comes last, after all that the tunnel reported.
TellEnd ==
    /\ ~Over /\ ~open /\ pos >= due
    /\ \E name \in Terminals : told' = Append(told, Call(name, 0))
    /\ UNCHANGED <<sent, pos, lost, open, due>>

Next == Report \/ TunnelEnds \/ TellStarted \/ TellEvent \/ Lose \/ TellEnd

Spec == Init /\ [][Next]_vars

=============================================================================
