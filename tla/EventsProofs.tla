---------------------------- MODULE EventsProofs ----------------------------
(***************************************************************************)
(* Proofs about TunnelEvents, for any set of connections and any number of   *)
(* events: run(), its guard and the supervisor implement EventStream, and    *)
(* Failed is told only of a tunnel all of whose connections gave up.  At the  *)
(* end, proofs about TunnelWrapper, which carries these events to the         *)
(* application.                                                              *)
(***************************************************************************)
EXTENDS TunnelEvents, TunnelWrapper, TLAPS

Sent == [from : Conns, kind : Kinds]
Calls == [name : {"started", "event"} \cup Terminals, n : Nat]
ConnStates == {"none", "running", "failed", "stopped", "joined", "aborting", "gone"}
Delivering == {"announce", "deliver"}

\* The types the proof needs.  What is in hand is the last event taken.
Types ==
    /\ sent \in Seq(Sent) /\ out \in Seq(Calls)
    /\ taken \in 0..Len(sent) /\ hand \in {0, taken}
    /\ atEnd \in 0..Len(sent)
    /\ conn \in [Conns -> ConnStates]
    /\ outcome \in {"none"} \cup Terminals
    /\ sup \in {"none", "spawned", "head", "select", "ok", "err", "aborted"}

\* The supervisor against run(): nothing is sent before it starts, and run() drains
\* and ends its stream only when it has ended.
Supervised ==
    /\ sup = "none" => sent = <<>> /\ \A c \in Conns : conn[c] = "none"
    /\ sup = "none" => pc \notin Delivering \cup {"select"}
    /\ sup # "none" => pc \notin {"idle", "check"}
    /\ pc \in {"drain", "terminal", "returned"} => Ended
    /\ pc \in Delivering /\ outcome # "none" => Ended

\* Where run() is tells what is in hand, what was announced and what is still due.
Delivered ==
    /\ hand # 0 <=> pc \in Delivering
    /\ pc = "announce" => sent[taken].kind = "established" /\ ~announced
    /\ pc = "deliver" /\ sent[taken].kind = "established" => announced
    /\ announced <=> Stream!HasStarted
    /\ Stream!Over <=> pc = "returned"
    /\ dropped # 0 => cancelled
    /\ pc \in {"terminal", "returned"} => taken >= atEnd
    /\ pc \in {"drain", "terminal", "shutdown"} => outcome # "none"
    /\ pc \in {"idle", "check", "select"} => outcome = "none"

StreamInv == Types /\ Supervised /\ Delivered

\* The connection was reported to have given up, among the first n events.
ReportedBy(c, n) == \E i \in 1..n : sent[i] = Event(c, "gave_up")

\* A connection that was joined without such a report was told to stop, and when the
\* supervisor waits in its select, it has seen that nobody was.
GivenUp ==
    /\ \A c \in Conns :
        /\ conn[c] = "stopped" => StopSent
        /\ conn[c] = "joined" => StopSent \/ ReportedBy(c, Len(sent))
        /\ conn[c] = "joined" /\ sup = "select" => ReportedBy(c, Len(sent))
        /\ sup = "err" => ReportedBy(c, atEnd)
    /\ cancelled => outcome = "stopped"
    /\ outcome = "failed" => sup \in {"none", "err"}

\* Unless one was dropped, the events taken are told but for the one in hand.
ToldSoFar ==
    /\ dropped = 0 => \A i \in 1..taken : i = hand \/ SeenEvent(i)
    /\ Seen(Call("failed", 0)) => outcome = "failed" /\ pc = "returned"

FailedInv == StreamInv /\ GivenUp /\ ToldSoFar

-----------------------------------------------------------------------------
(* Appending to a sequence.                                                *)

\* What Append leaves and what it adds.
LEMMA Appended ==
    ASSUME NEW S, NEW s \in Seq(S), NEW e \in S
    PROVE  /\ Append(s, e) \in Seq(S)
           /\ Len(s) \in Nat
           /\ Len(Append(s, e)) = Len(s) + 1
           /\ \A k \in 1..Len(s) : Append(s, e)[k] = s[k]
           /\ Append(s, e)[Len(s) + 1] = e
  OBVIOUS

\* A call of the handler that is not the terminal one.
LEMMA Told ==
    ASSUME Types, NEW call \in Calls, out' = Append(out, call)
    PROVE  /\ out' \in Seq(Calls)
           /\ Stream!Over' <=> call.name \in Terminals
           /\ Stream!HasStarted' <=> Stream!HasStarted \/ call.name = "started"
<1>1. /\ out' \in Seq(Calls) /\ Len(out) \in Nat /\ Len(out') = Len(out) + 1
      /\ \A k \in 1..Len(out) : out'[k] = out[k]
      /\ out'[Len(out) + 1] = call
  BY Appended DEF Types
<1>2. Stream!Over' <=> call.name \in Terminals
  BY <1>1 DEF Stream!Over, Stream!Terminals, Terminals
<1>3. Stream!HasStarted' <=> Stream!HasStarted \/ call.name = "started"
  BY <1>1 DEF Stream!HasStarted
<1> QED
  BY <1>1, <1>2, <1>3

\* An event that is sent.
LEMMA SentOne ==
    ASSUME Types, NEW c \in Conns, NEW kind \in Kinds, Send(c, kind)
    PROVE  /\ sent' \in Seq(Sent) /\ Len(sent) \in Nat /\ Len(sent') = Len(sent) + 1
           /\ \A k \in 1..Len(sent) : sent'[k] = sent[k]
           /\ sent'[Len(sent) + 1] = Event(c, kind)
           /\ \E e \in Sent : sent' = Append(sent, e)
<1>1. Event(c, kind) \in Sent
  BY DEF Event, Sent
<1> QED
  BY <1>1, Appended DEF Types, Send

-----------------------------------------------------------------------------
(* run(), its guard and the supervisor implement EventStream.               *)

\* A step that the application does not see.
LEMMA Unseen ==
    ASSUME UNCHANGED <<sent, atEnd, out>>, Ended' <=> Ended, dropped' # 0 <=> dropped # 0,
           (IF hand' = 0 THEN taken' ELSE taken' - 1) = (IF hand = 0 THEN taken ELSE taken - 1)
    PROVE  UNCHANGED Stream!vars
  BY DEF Stream!vars

\* What was told does not change while out does not.
LEMMA OutUnchanged ==
    out' = out => (Stream!Over' <=> Stream!Over) /\ (Stream!HasStarted' <=> Stream!HasStarted)
  BY DEF Stream!Over, Stream!HasStarted

\* The stream starts empty.
LEMMA StreamStarts == Init => StreamInv /\ Stream!Init
<1> SUFFICES ASSUME Init PROVE StreamInv /\ Stream!Init
  OBVIOUS
<1>1. Types
  BY DEF Init, Types, ConnStates
<1>2. ~Ended
  BY DEF Init, Ended
<1>3. Supervised
  BY DEF Init, Supervised, Delivering
<1>4. Delivered
  BY DEF Init, Delivered, Delivering, Stream!HasStarted, Stream!Over
<1>5. Stream!Init
  BY <1>2 DEF Init, Stream!Init
<1> QED
  BY <1>1, <1>3, <1>4, <1>5 DEF StreamInv

\* A step of stop() or of a connection, or of the supervisor with a connection: at
\* most one event is sent, which is a report.
LEMMA ReportSteps ==
    ASSUME StreamInv,
           UNCHANGED <<runVars, atEnd>>, Ended' <=> Ended,
           sup' = sup \/ (sup # "none" /\ sup' \in {"head", "select"}),
           conn' \in [Conns -> ConnStates],
           sup = "none" => UNCHANGED <<conn, sent>>,
           UNCHANGED sent \/ \E c \in Conns, kind \in Kinds : Send(c, kind)
    PROVE  StreamInv' /\ [Stream!Next]_(Stream!vars)
<1>1. CASE UNCHANGED sent
  <2>1. Types'
    BY <1>1 DEF StreamInv, Types, runVars
  <2>2. Supervised'
    BY <1>1 DEF StreamInv, Supervised, runVars
  <2>3. Delivered'
    BY <1>1, OutUnchanged DEF StreamInv, Delivered, runVars
  <2>4. UNCHANGED Stream!vars
    BY <1>1, Unseen DEF runVars
  <2> QED
    BY <2>1, <2>2, <2>3, <2>4 DEF StreamInv
<1>2. ASSUME NEW c \in Conns, NEW kind \in Kinds, Send(c, kind)
      PROVE  StreamInv' /\ [Stream!Next]_(Stream!vars)
  <2>0. /\ sent' \in Seq(Sent) /\ Len(sent) \in Nat /\ Len(sent') = Len(sent) + 1
        /\ \A k \in 1..Len(sent) : sent'[k] = sent[k]
        /\ \E e \in Sent : sent' = Append(sent, e)
    BY <1>2, SentOne DEF StreamInv
  <2>1. Types'
    BY <2>0 DEF StreamInv, Types, runVars
  <2>2. Supervised'
    BY <1>2, <2>0 DEF StreamInv, Supervised, runVars
  <2>3. Delivered'
    <3>1. pc \in Delivering => taken \in 1..Len(sent)
      BY <2>0 DEF StreamInv, Types, Delivered
    <3> QED
      BY <2>0, <3>1, OutUnchanged DEF StreamInv, Delivered, Delivering, runVars
  <2>4. Stream!Report
    BY <2>0 DEF Stream!Report, Sent, runVars
  <2> QED
    BY <2>1, <2>2, <2>3, <2>4 DEF StreamInv, Stream!Next
<1> QED
  BY <1>1, <1>2

\* The supervisor ends, by itself or in the guard's shutdown: the tunnel has ended,
\* and what was sent until now is due.
LEMMA EndSteps ==
    ASSUME StreamInv, sup \in {"spawned", "head", "select"},
           NEW result \in {"ok", "err", "aborted"}, SupEnds(result),
           UNCHANGED <<sent, cancelled, outcome, hand, announced, taken, out, dropped>>,
           UNCHANGED pc \/ (pc = "shutdown" /\ pc' = "drain")
    PROVE  StreamInv' /\ [Stream!Next]_(Stream!vars)
<1>0. ~Ended /\ Ended' /\ sup' = result /\ atEnd' = Len(sent) /\ Len(sent) \in Nat
  BY DEF SupEnds, Ended, StreamInv, Types
<1>1. Types'
  BY <1>0 DEF StreamInv, Types, SupEnds, ConnStates
<1>2. Supervised'
  BY <1>0 DEF StreamInv, Supervised
<1>3. Delivered'
  BY <1>0, OutUnchanged DEF StreamInv, Supervised, Delivered, Delivering
<1>4. Stream!TunnelEnds
  BY <1>0 DEF Stream!TunnelEnds
<1> QED
  BY <1>1, <1>2, <1>3, <1>4 DEF StreamInv, Stream!Next

\* A step of the supervisor.
LEMMA SupervisorSteps ==
    ASSUME StreamInv, SupStep
    PROVE  StreamInv' /\ [Stream!Next]_(Stream!vars)
<1>1. CASE SupStarts
  <2>1. (Ended' <=> Ended) /\ conn' \in [Conns -> ConnStates]
    BY <1>1 DEF SupStarts, Ended, ConnStates
  <2> QED
    BY <1>1, <2>1, ReportSteps DEF SupStarts
<1>2. CASE SupHead
  <2>1. CASE StopSent
    BY <1>2, <2>1, EndSteps DEF SupHead, runVars
  <2>2. CASE ~StopSent
    <3>1. (Ended' <=> Ended) /\ sup = "head" /\ sup' = "select" /\ UNCHANGED <<sent, conn>>
      BY <1>2, <2>2 DEF SupHead, Ended
    <3>2. UNCHANGED <<runVars, atEnd>>
      BY <1>2, <2>2 DEF SupHead
    <3> QED
      BY <3>1, <3>2, ReportSteps DEF StreamInv, Types
  <2> QED
    BY <2>1, <2>2
<1>3. CASE SupStopped
  BY <1>3, EndSteps DEF SupStopped, runVars
<1>4. CASE SupAllGaveUp
  BY <1>4, EndSteps DEF SupAllGaveUp, runVars
<1>5. ASSUME NEW c \in Conns, SupJoins(c) PROVE StreamInv' /\ [Stream!Next]_(Stream!vars)
  <2>1. (Ended' <=> Ended) /\ sup = "select" /\ sup' = "head" /\ UNCHANGED <<runVars, atEnd>>
    BY <1>5 DEF SupJoins, Ended
  <2>2. conn' \in [Conns -> ConnStates]
    BY <1>5 DEF SupJoins, StreamInv, Types, ConnStates
  <2>3. UNCHANGED sent \/ Send(c, "gave_up")
    BY <1>5 DEF SupJoins
  <2>4. "gave_up" \in Kinds
    BY DEF Kinds
  <2> QED
    BY <2>1, <2>2, <2>3, <2>4, ReportSteps
<1> QED
  BY <1>1, <1>2, <1>3, <1>4, <1>5 DEF SupStep

\* A step of stop() or of a connection.
LEMMA ConnectionSteps ==
    ASSUME StreamInv, StopFlag \/ StopSend \/ \E c \in Conns : ConnStep(c)
    PROVE  StreamInv' /\ [Stream!Next]_(Stream!vars)
<1>1. CASE StopFlag \/ StopSend
  <2>1. UNCHANGED <<supVars, sent, runVars>>
    BY <1>1 DEF StopFlag, StopSend
  <2>2. (Ended' <=> Ended) /\ UNCHANGED <<sup, conn, atEnd, sent, runVars>>
    BY <2>1 DEF Ended, supVars, runVars
  <2> QED
    BY <2>2, ReportSteps DEF StreamInv, Types
<1>2. ASSUME NEW c \in Conns, ConnStep(c) PROVE StreamInv' /\ [Stream!Next]_(Stream!vars)
  <2>1. UNCHANGED <<sup, atEnd, runVars>>
    BY <1>2 DEF ConnStep, ConnReports, ConnGivesUp, ConnStops, ConnAborted, supVars
  <2>2. Ended' <=> Ended
    BY <2>1 DEF Ended, runVars
  <2>3. UNCHANGED sent \/ \E kind \in Kinds : Send(c, kind)
    BY <1>2 DEF ConnStep, ConnReports, ConnGivesUp, ConnStops, ConnAborted, Kinds
  <2>4. conn' \in [Conns -> ConnStates]
    BY <1>2
       DEF ConnStep, ConnReports, ConnGivesUp, ConnStops, ConnAborted, supVars, StreamInv,
           Types, ConnStates
  <2>5. conn[c] # "none"
    BY <1>2 DEF ConnStep, ConnReports, ConnGivesUp, ConnStops, ConnAborted
  <2>6. sup # "none"
    BY <2>5 DEF StreamInv, Supervised
  <2> QED
    BY <2>1, <2>2, <2>3, <2>4, <2>6, ReportSteps
<1> QED
  BY <1>1, <1>2

\* Taking an event: it is in hand, and not yet told.
LEMMA TakeSteps ==
    ASSUME StreamInv, Take, pc \in {"select", "drain"},
           UNCHANGED <<stop, supVars, sent, cancelled, outcome, announced, terminal, out,
                       dropped>>
    PROVE  StreamInv' /\ [Stream!Next]_(Stream!vars)
<1>0. /\ UNCHANGED <<sup, conn, atEnd>> /\ taken' = taken + 1 /\ hand' = taken'
      /\ taken \in Nat /\ taken' \in 1..Len(sent) /\ hand = 0 /\ pc' \in Delivering
  BY DEF Take, Queued, supVars, StreamInv, Types, Delivered, Delivering
<1>1. Ended' <=> Ended
  BY <1>0 DEF StreamInv, Supervised, Ended, Delivering, Take, Queued
<1>2. Types'
  BY <1>0 DEF StreamInv, Types
<1>3. Supervised'
  BY <1>0, <1>1 DEF StreamInv, Supervised, Delivered, Delivering, Ended
<1>4. Delivered'
  BY <1>0, OutUnchanged DEF StreamInv, Delivered, Delivering, Take
<1>5. UNCHANGED Stream!vars
  BY <1>0, <1>1, Unseen
<1> QED
  BY <1>2, <1>3, <1>4, <1>5 DEF StreamInv

\* Started, or the event in hand, is told.
LEMMA DeliverSteps ==
    ASSUME StreamInv, Announce \/ Deliver
    PROVE  StreamInv' /\ [Stream!Next]_(Stream!vars)
<1>0. /\ UNCHANGED <<sup, conn, atEnd, sent, cancelled, outcome, taken, dropped>>
      /\ hand = taken /\ taken \in 1..Len(sent) /\ Len(sent) \in Nat /\ pc \in Delivering
  BY DEF Announce, Deliver, supVars, StreamInv, Types, Delivered, Delivering
<1>1. Ended' <=> Ended
  BY <1>0 DEF StreamInv, Supervised, Ended, Delivering, Announce, Deliver
<1>2. CASE Announce
  <2>1. /\ Call("started", 0) \in Calls /\ out' = Append(out, Call("started", 0))
        /\ Call("started", 0).name = "started" /\ "started" \notin Terminals
    BY <1>2 DEF Announce, Call, Calls, Terminals
  <2>2. out' \in Seq(Calls) /\ ~Stream!Over' /\ Stream!HasStarted'
    BY <2>1, Told DEF StreamInv
  <2>3. Types'
    BY <1>0, <1>2, <2>2 DEF StreamInv, Types, Announce
  <2>4. Supervised'
    BY <1>0, <1>1, <1>2 DEF StreamInv, Supervised, Announce, Delivering
  <2>5. Delivered'
    BY <1>0, <1>2, <2>2 DEF StreamInv, Delivered, Announce, Delivering
  <2>6. Stream!TellStarted
    <3>1. ~Stream!Over /\ ~Stream!HasStarted /\ sent[taken].kind = "established"
      BY <1>2 DEF StreamInv, Delivered, Announce
    <3>2. hand # 0 /\ hand' = hand
      BY <1>0, <1>2 DEF Announce
    <3>3. Stream!Call("started", 0) = Call("started", 0)
      BY DEF Stream!Call, Call
    <3> QED
      BY <1>0, <1>1, <2>1, <3>1, <3>2, <3>3 DEF Stream!TellStarted
  <2> QED
    BY <2>3, <2>4, <2>5, <2>6 DEF StreamInv, Stream!Next
<1>3. CASE Deliver
  <2>1. /\ Call("event", hand) \in Calls /\ out' = Append(out, Call("event", hand))
        /\ Call("event", hand).name = "event" /\ "event" \notin Terminals
    BY <1>0, <1>3 DEF Deliver, Call, Calls, Terminals
  <2>2. out' \in Seq(Calls) /\ ~Stream!Over' /\ (Stream!HasStarted' <=> Stream!HasStarted)
    BY <2>1, Told DEF StreamInv
  <2>3. Types'
    BY <1>0, <1>3, <2>2 DEF StreamInv, Types, Deliver
  <2>4. Supervised'
    BY <1>0, <1>1, <1>3 DEF StreamInv, Supervised, Deliver, Delivering
  <2>5. Delivered'
    BY <1>0, <1>3, <2>2 DEF StreamInv, Delivered, Deliver, Delivering
  <2>6. Stream!TellEvent
    <3>1. ~Stream!Over /\ (sent[taken].kind = "established" => Stream!HasStarted)
      BY <1>3 DEF StreamInv, Delivered, Deliver
    <3>2. hand # 0 /\ hand' = 0
      BY <1>0, <1>3 DEF Deliver
    <3>3. Stream!Call("event", taken) = Call("event", hand)
      BY <1>0 DEF Stream!Call, Call
    <3> QED
      BY <1>0, <1>1, <2>1, <3>1, <3>2, <3>3 DEF Stream!TellEvent
  <2> QED
    BY <2>3, <2>4, <2>5, <2>6 DEF StreamInv, Stream!Next
<1> QED
  BY <1>2, <1>3

\* The terminal event is told when nothing is due.
LEMMA TerminalStep ==
    ASSUME StreamInv, DeliverTerminal
    PROVE  StreamInv' /\ [Stream!Next]_(Stream!vars)
<1>0. /\ UNCHANGED <<sup, conn, atEnd, sent, cancelled, outcome, hand, announced, taken, dropped>>
      /\ pc = "terminal" /\ pc' = "returned" /\ outcome \in Terminals /\ hand = 0
      /\ taken >= atEnd
  BY DEF DeliverTerminal, supVars, StreamInv, Types, Delivered, Delivering
<1>1. Ended /\ Ended'
  BY <1>0 DEF StreamInv, Supervised, Ended
<1>2. /\ Call(outcome, 0) \in Calls /\ out' = Append(out, Call(outcome, 0))
      /\ Call(outcome, 0).name \in Terminals /\ Call(outcome, 0).name # "started"
  BY <1>0 DEF DeliverTerminal, Call, Calls, Terminals
<1>3. out' \in Seq(Calls) /\ Stream!Over' /\ (Stream!HasStarted' <=> Stream!HasStarted)
  BY <1>2, Told DEF StreamInv
<1>4. Types'
  BY <1>0, <1>3 DEF StreamInv, Types
<1>5. Supervised'
  BY <1>0, <1>1 DEF StreamInv, Supervised, Delivering
<1>6. Delivered'
  BY <1>0, <1>3 DEF StreamInv, Delivered, Delivering
<1>7. Stream!TellEnd
  <2>1. ~Stream!Over
    BY <1>0 DEF StreamInv, Delivered
  <2>2. Stream!Call(outcome, 0) = Call(outcome, 0) /\ outcome \in Stream!Terminals
    BY <1>0 DEF Stream!Call, Call, Stream!Terminals, Terminals
  <2> QED
    BY <1>0, <1>1, <1>2, <2>1, <2>2 DEF Stream!TellEnd
<1> QED
  BY <1>4, <1>5, <1>6, <1>7 DEF StreamInv, Stream!Next

\* run() is called, and starts the tunnel or ends at once.
LEMMA StartSteps ==
    ASSUME StreamInv, RunCalled \/ RunStarts
    PROVE  StreamInv' /\ [Stream!Next]_(Stream!vars)
<1>0. /\ UNCHANGED <<conn, atEnd, sent, cancelled, hand, announced, taken, out, dropped>>
      /\ pc \in {"idle", "check"} /\ sup = "none" /\ hand = 0 /\ ~Ended
      /\ sent = <<>> /\ Len(sent) = 0 /\ atEnd = 0 /\ outcome = "none"
  BY DEF RunCalled, RunStarts, supVars, StreamInv, Types, Supervised, Delivered, Delivering,
         Ended
<1>1. Types'
  BY <1>0 DEF StreamInv, Types, RunCalled, RunStarts, supVars, Terminals
<1>2. CASE UNCHANGED sup
  <2>1. /\ pc' \in {"check", "terminal"}
        /\ pc' = "terminal" => outcome' # "none"
        /\ pc' = "check" => outcome' = "none"
    BY <1>0, <1>2 DEF RunCalled, RunStarts
  <2>2. Ended' <=> pc' = "terminal"
    BY <1>0, <1>2, <2>1 DEF Ended
  <2>3. Supervised'
    BY <1>0, <1>2, <2>1, <2>2 DEF StreamInv, Supervised, Delivering
  <2>4. Delivered'
    BY <1>0, <2>1, OutUnchanged DEF StreamInv, Types, Delivered, Delivering
  <2>5. CASE pc' = "terminal"
    BY <1>0, <2>2, <2>3, <2>4, <2>5, <1>1 DEF StreamInv, Stream!Next, Stream!TunnelEnds
  <2>6. CASE pc' = "check"
    BY <1>0, <1>1, <2>2, <2>3, <2>4, <2>6, Unseen DEF StreamInv
  <2> QED
    BY <2>1, <2>5, <2>6
<1>3. CASE ~UNCHANGED sup
  <2>1. sup' = "spawned" /\ pc' = "select" /\ outcome' = "none"
    BY <1>0, <1>3 DEF RunCalled, RunStarts, supVars
  <2>2. ~Ended'
    BY <2>1 DEF Ended
  <2>3. Supervised'
    BY <1>0, <2>1 DEF StreamInv, Supervised, Delivering
  <2>4. Delivered'
    BY <1>0, <2>1, OutUnchanged DEF StreamInv, Delivered, Delivering
  <2> QED
    BY <1>0, <1>1, <2>2, <2>3, <2>4, Unseen DEF StreamInv
<1> QED
  BY <1>2, <1>3

\* The loop sees the supervisor's end, or the drain finds the queue empty.
LEMMA LeaveSteps ==
    ASSUME StreamInv,
           Joined \/ (Drain /\ ~Queued) \/ (Shutdown /\ sup \notin {"spawned", "head", "select"})
    PROVE  StreamInv' /\ [Stream!Next]_(Stream!vars)
<1>0. /\ UNCHANGED <<sup, conn, atEnd, sent, cancelled, hand, announced, taken, out, dropped>>
      /\ hand = 0 /\ pc' \in {"drain", "terminal"}
      /\ outcome' \in Terminals
      /\ pc' = "terminal" => pc = "drain" /\ taken >= Len(sent)
      /\ pc \in {"select", "drain", "shutdown"}
  BY DEF Joined, Drain, Take, Queued, Shutdown, supVars, StreamInv, Types, Delivered, Delivering,
         Terminals
<1>1. Ended /\ Ended'
  <2>1. sup = "none" => pc \in {"drain", "shutdown"}
    BY <1>0 DEF StreamInv, Supervised
  <2>2. sup \in {"ok", "err", "aborted"} \/ sup = "none" \/ Ended
    BY <1>0 DEF Joined, Shutdown, Drain, StreamInv, Types, Supervised
  <2> QED
    BY <1>0, <2>1, <2>2 DEF Ended
<1>2. Types'
  BY <1>0 DEF StreamInv, Types
<1>3. Supervised'
  BY <1>0, <1>1 DEF StreamInv, Supervised, Delivering
<1>4. Delivered'
  BY <1>0, OutUnchanged DEF StreamInv, Types, Delivered, Delivering, Terminals
<1>5. UNCHANGED Stream!vars
  BY <1>0, <1>1, Unseen
<1> QED
  BY <1>2, <1>3, <1>4, <1>5 DEF StreamInv

\* run() is dropped: the event in hand, if there is one, is lost.
LEMMA CancelStep ==
    ASSUME StreamInv, Cancel
    PROVE  StreamInv' /\ [Stream!Next]_(Stream!vars)
<1>0. /\ UNCHANGED <<sup, conn, atEnd, sent, announced, taken, out>>
      /\ pc \in Delivering \cup {"select", "terminal"} /\ pc' = "shutdown"
      /\ outcome' = "stopped" /\ cancelled' = TRUE
      /\ hand' = 0 /\ dropped' = hand /\ dropped = 0
  BY DEF Cancel, supVars, StreamInv, Delivered, Delivering
<1>1. Ended' <=> Ended
  BY <1>0 DEF StreamInv, Supervised, Ended, Delivering
<1>2. Types'
  BY <1>0 DEF StreamInv, Types, Terminals
<1>3. Supervised'
  BY <1>0 DEF StreamInv, Supervised, Delivering
<1>4. Delivered'
  BY <1>0, OutUnchanged DEF StreamInv, Delivered, Delivering
<1>5. CASE hand = 0
  BY <1>0, <1>1, <1>2, <1>3, <1>4, <1>5, Unseen DEF StreamInv
<1>6. CASE hand # 0
  <2>1. hand = taken /\ taken \in 1..Len(sent) /\ Len(sent) \in Nat /\ ~Stream!Over
    BY <1>0, <1>6 DEF StreamInv, Types, Delivered, Delivering
  <2>2. Stream!Lose
    BY <1>0, <1>1, <1>6, <2>1 DEF Stream!Lose
  <2> QED
    BY <1>2, <1>3, <1>4, <2>2 DEF StreamInv, Stream!Next
<1> QED
  BY <1>5, <1>6

\* Every step keeps the invariant and is a step of the stream, or one that the
\* application does not see.
LEMMA StepImplements ==
    ASSUME StreamInv, [Next]_vars
    PROVE  StreamInv' /\ [Stream!Next]_(Stream!vars)
<1>1. CASE StopFlag \/ StopSend \/ \E c \in Conns : ConnStep(c)
  BY <1>1, ConnectionSteps
<1>2. CASE SupStep
  BY <1>2, SupervisorSteps
<1>3. CASE RunCalled \/ RunStarts
  BY <1>3, StartSteps
<1>4. CASE TakeNext
  BY <1>4, TakeSteps DEF TakeNext
<1>5. CASE Drain
  <2>1. CASE Take
    BY <1>5, <2>1, TakeSteps DEF Drain
  <2>2. CASE ~Take
    BY <1>5, <2>2, LeaveSteps DEF Drain
  <2> QED
    BY <2>1, <2>2
<1>6. CASE Shutdown
  <2>1. CASE sup \in {"spawned", "head", "select"}
    BY <1>6, <2>1, EndSteps DEF Shutdown
  <2>2. CASE sup \notin {"spawned", "head", "select"}
    BY <1>6, <2>2, LeaveSteps
  <2> QED
    BY <2>1, <2>2
<1>7. CASE Joined
  BY <1>7, LeaveSteps
<1>8. CASE Announce \/ Deliver
  BY <1>8, DeliverSteps
<1>9. CASE DeliverTerminal
  BY <1>9, TerminalStep
<1>10. CASE Cancel
  BY <1>10, CancelStep
<1>11. CASE UNCHANGED vars
  <2>1. (Ended' <=> Ended) /\ UNCHANGED <<runVars, sup, atEnd, conn, sent>>
    BY <1>11 DEF vars, supVars, runVars, Ended
  <2> QED
    BY <2>1, ReportSteps DEF StreamInv, Types
<1> QED
  BY <1>1, <1>2, <1>3, <1>4, <1>5, <1>6, <1>7, <1>8, <1>9, <1>10, <1>11 DEF Next, RunStep

\* The stream of a tunnel keeps the promise of the comment on run(): whenever stop()
\* is called and wherever run() is cancelled, for any number of connections and events.
THEOREM StreamImplemented == Spec => ImplementsStream
<1>1. StreamInv /\ [Next]_vars => StreamInv' /\ [Stream!Next]_(Stream!vars)
  BY StepImplements
<1> QED
  BY <1>1, StreamStarts, PTL DEF Spec, ImplementsStream, Stream!Spec

-----------------------------------------------------------------------------
(* Failed is told only when every connection gave up.                       *)

\* A report stays where it is while more is sent.
LEMMA ReportStays ==
    ASSUME Types, UNCHANGED sent \/ \E c \in Conns, kind \in Kinds : Send(c, kind),
           NEW d \in Conns, NEW n \in 0..Len(sent), NEW m \in Nat, n <= m,
           ReportedBy(d, n)
    PROVE  \E i \in 1..m : sent'[i] = Event(d, "gave_up")
<1>1. \A k \in 1..Len(sent) : sent'[k] = sent[k]
  BY SentOne
<1> QED
  BY <1>1 DEF ReportedBy, Types

\* A call is seen once it has returned, and stays so.
LEMMA SeenGrows ==
    ASSUME Types, NEW call \in Calls, out' = Append(out, call), NEW x
    PROVE  Seen(x)' <=> Seen(x) \/ x = call
<1>1. /\ Len(out) \in Nat /\ Len(out') = Len(out) + 1
      /\ \A k \in 1..Len(out) : out'[k] = out[k]
      /\ out'[Len(out) + 1] = call
  BY Appended DEF Types
<1> QED
  BY <1>1 DEF Seen

\* A step of stop(), of a connection or of the supervisor: a connection is joined with
\* its report or after a stop, and the supervisor fails only if none was stopped.
LEMMA GivenUpSteps ==
    ASSUME FailedInv, StopFlag \/ StopSend \/ SupStep \/ \E c \in Conns : ConnStep(c)
    PROVE  GivenUp'
<1>0. Types /\ StreamInv' /\ GivenUp
  BY StepImplements DEF FailedInv, StreamInv, Next
<1>1. UNCHANGED <<cancelled, outcome>>
  BY DEF StopFlag, StopSend, SupStep, ConnStep, ConnReports, ConnGivesUp, ConnStops, ConnAborted,
         SupStarts, SupHead, SupStopped, SupAllGaveUp, SupJoins, runVars
<1>2. UNCHANGED sent \/ \E c \in Conns, kind \in Kinds : Send(c, kind)
  BY DEF StopFlag, StopSend, SupStep, ConnStep, ConnReports, ConnGivesUp, ConnStops, ConnAborted,
         SupStarts, SupHead, SupStopped, SupAllGaveUp, SupJoins, Kinds
<1>3. Len(sent) \in Nat /\ Len(sent') \in Nat /\ Len(sent) <= Len(sent') /\ atEnd \in 0..Len(sent)
  BY <1>0, <1>2, SentOne DEF Types
<1>4. ASSUME NEW d \in Conns, ReportedBy(d, Len(sent)) PROVE ReportedBy(d, Len(sent))'
  BY <1>0, <1>2, <1>3, <1>4, ReportStays DEF ReportedBy
<1>5. StopSent => StopSent'
  BY DEF StopFlag, StopSend, SupStep, ConnStep, ConnReports, ConnGivesUp, ConnStops, ConnAborted,
         SupStarts, SupHead, SupStopped, SupAllGaveUp, SupJoins, StopSent
<1>6. outcome' = "failed" => sup' \in {"none", "err"}
  BY <1>0, <1>1 DEF GivenUp, StopFlag, StopSend, SupStep, ConnStep, ConnReports, ConnGivesUp,
         ConnStops, ConnAborted, SupStarts, SupHead, SupStopped, SupAllGaveUp, SupJoins, supVars
<1>7. ASSUME NEW d \in Conns
      PROVE  /\ conn'[d] = "stopped" => StopSent'
             /\ conn'[d] = "joined" => StopSent' \/ ReportedBy(d, Len(sent))'
             /\ conn'[d] = "joined" /\ sup' = "select" => ReportedBy(d, Len(sent))'
             /\ sup' = "err" => ReportedBy(d, atEnd)'
  <2>0. /\ conn[d] = "stopped" => StopSent
        /\ conn[d] = "joined" => StopSent \/ ReportedBy(d, Len(sent))
        /\ conn[d] = "joined" /\ sup = "select" => ReportedBy(d, Len(sent))
        /\ sup = "err" => ReportedBy(d, atEnd)
        /\ conn \in [Conns -> ConnStates]
    BY <1>0 DEF GivenUp, Types
  <2>1. CASE StopFlag \/ StopSend
    BY <1>4, <1>5, <2>0, <2>1 DEF StopFlag, StopSend, supVars, ReportedBy
  <2>2. ASSUME NEW c \in Conns, ConnStep(c)
        PROVE  /\ UNCHANGED <<sup, atEnd>>
               /\ conn'[d] = "stopped" => conn[d] = "stopped" \/ StopSent
               /\ conn'[d] = "joined" => conn[d] = "joined"
    BY <2>0, <2>2 DEF ConnStep, ConnReports, ConnGivesUp, ConnStops, ConnAborted, supVars
  <2>3. CASE \E c \in Conns : ConnStep(c)
    <3>1. UNCHANGED atEnd /\ (sup = "err" => ReportedBy(d, atEnd)')
      BY <1>0, <1>2, <1>3, <2>0, <2>2, <2>3, ReportStays DEF ReportedBy
    <3> QED
      BY <1>4, <1>5, <2>0, <2>2, <2>3, <3>1
  <2>4. CASE SupStarts
    BY <2>4 DEF SupStarts
  <2>5. ASSUME NEW c \in Conns, SupJoins(c)
        PROVE  /\ sup' = "head"
               /\ conn'[d] = "stopped" => StopSent
               /\ conn'[d] = "joined" => StopSent' \/ ReportedBy(d, Len(sent))'
    <3>1. sup' = "head" /\ UNCHANGED stop /\ conn' = [conn EXCEPT ![c] = "joined"]
      BY <2>5 DEF SupJoins
    <3>2. CASE d = c /\ conn[c] = "failed"
      <4>1. Send(c, "gave_up") /\ "gave_up" \in Kinds
        BY <2>5, <3>2 DEF SupJoins, Kinds
      <4> QED
        BY <1>0, <2>0, <3>1, <3>2, <4>1, SentOne DEF ReportedBy, FailedInv, StreamInv
    <3>3. CASE d = c /\ conn[c] = "stopped"
      BY <1>5, <2>0, <3>1, <3>3
    <3>4. CASE d # c
      BY <1>4, <1>5, <2>0, <3>1, <3>4
    <3> QED
      BY <2>5, <3>2, <3>3, <3>4 DEF SupJoins
  <2>6. CASE SupHead \/ SupStopped
    <3>1. UNCHANGED <<stop, sent>> /\ sup' \in {"ok", "select"} /\ (sup' = "select" => ~StopSent)
      BY <2>6 DEF SupHead, SupStopped, SupEnds
    <3>2. (conn'[d] = "joined" => conn[d] = "joined") /\ (conn'[d] = "stopped" => conn[d] = "stopped")
      BY <2>6 DEF SupHead, SupStopped, SupEnds
    <3> QED
      BY <1>4, <1>5, <2>0, <3>1, <3>2
  <2>7. CASE SupAllGaveUp
    <3>1. UNCHANGED <<stop, sent>> /\ sup = "select" /\ sup' = "err" /\ atEnd' = Len(sent)
      BY <2>7 DEF SupAllGaveUp, SupEnds
    <3>2. conn[d] = "joined" /\ conn'[d] = "joined"
      BY <2>7 DEF SupAllGaveUp, SupEnds
    <3> QED
      BY <2>0, <3>1, <3>2 DEF ReportedBy
  <2> QED
    BY <1>5, <2>1, <2>3, <2>4, <2>5, <2>6, <2>7 DEF SupStep
<1> QED
  BY <1>0, <1>1, <1>6, <1>7 DEF GivenUp

\* A step of run() or of its guard leaves the reports alone.  Its outcome is failed if
\* the supervisor failed or was never started.
LEMMA OutcomeSteps ==
    ASSUME FailedInv, RunCalled \/ Cancel \/ RunStep \/ UNCHANGED vars
    PROVE  GivenUp'
<1>0. GivenUp /\ Types /\ Delivered /\ Supervised
  BY DEF FailedInv, StreamInv
<1>1. UNCHANGED <<stop, sent>>
  BY DEF RunCalled, Cancel, RunStep, RunStarts, TakeNext, Joined, Announce, Deliver, Drain,
         DeliverTerminal, Shutdown, vars
<1>2. cancelled' => outcome' = "stopped"
  BY <1>0
     DEF RunCalled, Cancel, RunStep, RunStarts, TakeNext, Joined, Announce, Deliver, Drain,
         DeliverTerminal, Shutdown, vars, runVars, GivenUp, Delivered
<1>3. outcome' = "failed" => sup' \in {"none", "err"}
  BY <1>0
     DEF RunCalled, Cancel, RunStep, RunStarts, TakeNext, Joined, Announce, Deliver, Drain,
         DeliverTerminal, Shutdown, SupEnds, vars, runVars, supVars, GivenUp, Delivered, Supervised
<1>4. CASE UNCHANGED <<conn, atEnd>> /\ (sup' = sup \/ (sup = "none" /\ sup' = "spawned"))
  BY <1>0, <1>1, <1>2, <1>3, <1>4 DEF GivenUp, ReportedBy, StopSent
<1>5. CASE Shutdown /\ SupEnds("aborted")
  BY <1>0, <1>1, <1>2, <1>3, <1>5 DEF GivenUp, ReportedBy, StopSent, SupEnds
<1>6. CASE RunStarts
  BY <1>0, <1>4, <1>6 DEF RunStarts, Supervised
<1>7. CASE Shutdown
  BY <1>4, <1>5, <1>7 DEF Shutdown, supVars
<1> QED
  BY <1>4, <1>6, <1>7
     DEF RunCalled, Cancel, RunStep, TakeNext, Joined, Announce, Deliver, Drain,
         DeliverTerminal, vars, supVars

\* Every step keeps track of what was told.
LEMMA ToldSteps ==
    ASSUME FailedInv, [Next]_vars
    PROVE  ToldSoFar'
<1>0. /\ ToldSoFar /\ Types /\ Delivered /\ taken \in Nat
  BY DEF FailedInv, StreamInv, Types
<1>1. CASE UNCHANGED <<out, taken, hand, dropped, outcome, pc>>
  BY <1>0, <1>1 DEF ToldSoFar, Seen, SeenEvent
<1>2. CASE UNCHANGED <<out, taken, hand, dropped>> /\ pc # "returned"
  BY <1>0, <1>2 DEF ToldSoFar, Seen, SeenEvent
<1>3. CASE UNCHANGED <<out, dropped>> /\ Take /\ pc \in {"select", "drain"}
  <2>1. taken' = taken + 1 /\ hand' = taken' /\ hand = 0
    BY <1>0, <1>3 DEF Take, Delivered, Delivering
  <2> QED
    BY <1>0, <1>3, <2>1 DEF ToldSoFar, Seen, SeenEvent
<1>4. CASE Announce
  <2>1. /\ Call("started", 0) \in Calls /\ Call("started", 0) # Call("failed", 0)
        /\ \A i : Call("started", 0) # Call("event", i)
    BY DEF Call, Calls
  <2>2. \A x : Seen(x)' <=> Seen(x) \/ x = Call("started", 0)
    BY <1>0, <1>4, <2>1, SeenGrows DEF Announce
  <2>3. pc # "returned" /\ UNCHANGED <<taken, hand, dropped>>
    BY <1>4 DEF Announce
  <2> QED
    BY <1>0, <2>1, <2>2, <2>3 DEF ToldSoFar, SeenEvent
<1>5. CASE Deliver
  <2>1. hand \in Nat /\ Call("event", hand) \in Calls /\ Call("event", hand) # Call("failed", 0)
    BY <1>0 DEF Call, Calls, Types
  <2>2. \A x : Seen(x)' <=> Seen(x) \/ x = Call("event", hand)
    BY <1>0, <1>5, <2>1, SeenGrows DEF Deliver
  <2>3. pc # "returned" /\ UNCHANGED <<taken, dropped>> /\ hand' = 0
    BY <1>5 DEF Deliver
  <2> QED
    BY <1>0, <2>1, <2>2, <2>3 DEF ToldSoFar, SeenEvent
<1>6. CASE DeliverTerminal
  <2>1. outcome \in Terminals /\ pc = "terminal" /\ pc' = "returned"
    BY <1>0, <1>6 DEF DeliverTerminal, Delivered, Types
  <2>2. /\ Call(outcome, 0) \in Calls /\ \A i : Call(outcome, 0) # Call("event", i)
        /\ Call(outcome, 0) = Call("failed", 0) => outcome = "failed"
    BY <2>1 DEF Call, Calls, Terminals
  <2>3. \A x : Seen(x)' <=> Seen(x) \/ x = Call(outcome, 0)
    BY <1>0, <1>6, <2>2, SeenGrows DEF DeliverTerminal
  <2>4. UNCHANGED <<taken, dropped, hand, outcome>>
    BY <1>6 DEF DeliverTerminal
  <2> QED
    BY <1>0, <2>1, <2>2, <2>3, <2>4 DEF ToldSoFar, SeenEvent
<1>7. CASE Cancel
  <2>1. pc # "returned" /\ UNCHANGED <<out, taken>> /\ dropped' = hand /\ hand' = 0 /\ dropped = 0
    BY <1>0, <1>7 DEF Cancel, Delivered
  <2> QED
    BY <1>0, <2>1 DEF ToldSoFar, Seen, SeenEvent
<1>8. CASE StopFlag \/ StopSend \/ SupStep \/ (\E c \in Conns : ConnStep(c)) \/ UNCHANGED vars
  BY <1>1, <1>8
     DEF StopFlag, StopSend, SupStep, ConnStep, ConnReports, ConnGivesUp, ConnStops, ConnAborted,
         SupStarts, SupHead, SupStopped, SupAllGaveUp, SupJoins, runVars, vars
<1>9. CASE RunCalled \/ RunStarts \/ TakeNext \/ Joined \/ Drain \/ Shutdown
  BY <1>2, <1>3, <1>9 DEF RunCalled, RunStarts, TakeNext, Joined, Drain, Shutdown
<1> QED
  BY <1>4, <1>5, <1>6, <1>7, <1>8, <1>9 DEF Next, RunStep

\* Failed ends the stream only of a tunnel each of whose connections was reported to
\* have given up, and whose reports were all told: never of one that was stopped.
THEOREM FailedIsTrue == Spec => []FailedMeansAllGaveUp
<1>1. Init => FailedInv
  <2> SUFFICES ASSUME Init PROVE FailedInv
    OBVIOUS
  <2>1. StreamInv
    BY StreamStarts
  <2>2. GivenUp /\ ToldSoFar
    BY DEF Init, GivenUp, ToldSoFar, Seen
  <2> QED
    BY <2>1, <2>2 DEF FailedInv
<1>2. FailedInv /\ [Next]_vars => FailedInv'
  <2> SUFFICES ASSUME FailedInv, [Next]_vars PROVE FailedInv'
    OBVIOUS
  <2>1. StreamInv'
    BY StepImplements DEF FailedInv
  <2>2. GivenUp'
    BY GivenUpSteps, OutcomeSteps DEF Next
  <2> QED
    BY <2>1, <2>2, ToldSteps DEF FailedInv
<1>3. FailedInv => FailedMeansAllGaveUp
  <2> SUFFICES ASSUME FailedInv, Seen(Call("failed", 0)), sup # "none", NEW c \in Conns
               PROVE  \E i \in 1..Len(sent) : sent[i] = Event(c, "gave_up") /\ SeenEvent(i)
    BY DEF FailedMeansAllGaveUp
  <2>1. outcome = "failed" /\ pc = "returned"
    BY DEF FailedInv, ToldSoFar
  <2>2. sup = "err" /\ ~cancelled
    BY <2>1 DEF FailedInv, GivenUp
  <2>3. PICK i \in 1..atEnd : sent[i] = Event(c, "gave_up")
    BY <2>2 DEF FailedInv, GivenUp, ReportedBy
  <2>4. dropped = 0 /\ hand = 0 /\ taken >= atEnd /\ taken \in 0..Len(sent) /\ atEnd \in Nat
        /\ Len(sent) \in Nat
    BY <2>1, <2>2 DEF FailedInv, StreamInv, Types, Delivered, Delivering
  <2>5. SeenEvent(i) /\ i \in 1..Len(sent)
    BY <2>3, <2>4 DEF FailedInv, ToldSoFar
  <2> QED
    BY <2>3, <2>5
<1> QED
  BY <1>1, <1>2, <1>3, PTL DEF Spec

-----------------------------------------------------------------------------
(* The flow of the Kotlin wrapper, which the native run's events are emitted    *)
(* into, for any number of callers and events and any buffer.  The native run   *)
(* and the wrapper's catch block can both emit a terminal event: the invariant  *)
(* says whose turn it is.                                                       *)

Ending == {"finally", "closing", "closed", "done"}

WrapperTypes ==
    /\ job \in {"created", "calling", "running", "failing"} \cup Ending
    /\ native \in {"idle", "starting", "tunnel", "ending", "ended"}
    /\ flow \in Seq({"event"} \cup FlowEnds)

\* The native run lives inside runJob's call of it, and knows its end when it ends.
WrapperTurns ==
    /\ native \in {"starting", "tunnel", "ending"} => job = "running"
    /\ native = "idle" => job # "running"
    /\ native = "ended" => job = "running" \/ job \in Ending
    /\ native = "ending" => nativeEnd \in FlowEnds

\* Somebody has emitted the terminal event.
FlowFinished == native = "ended" \/ job \in Ending

LastIsTerminal == Len(flow) > 0 /\ flow[Len(flow)] \in FlowEnds

\* A terminal event is last, and is there exactly when somebody has emitted it.
FlowTold ==
    /\ \A i \in 1..Len(flow) : flow[i] \in FlowEnds => i = Len(flow) /\ FlowFinished
    /\ FlowFinished => LastIsTerminal

WrapperInv == WrapperTypes /\ WrapperTurns /\ FlowTold

\* An emission of the terminal event, into a flow that has none yet.
LEMMA EmitTerminal ==
    ASSUME WrapperTypes, FlowTold, ~FlowFinished, NEW e \in FlowEnds,
           flow' = Append(flow, e)
    PROVE  /\ flow' \in Seq({"event"} \cup FlowEnds)
           /\ \A i \in 1..Len(flow') : flow'[i] \in FlowEnds => i = Len(flow')
           /\ LastIsTerminal'
<1>1. flow \in Seq({"event"} \cup FlowEnds) /\ e \in {"event"} \cup FlowEnds
    BY DEF WrapperTypes
<1>2. /\ Len(flow') = Len(flow) + 1 /\ Len(flow) \in Nat
      /\ flow'[Len(flow) + 1] = e
      /\ \A i \in 1..Len(flow) : flow'[i] = flow[i]
      /\ flow' \in Seq({"event"} \cup FlowEnds)
    BY <1>1
<1>3. \A i \in 1..Len(flow) : flow[i] \notin FlowEnds
    BY DEF FlowTold
<1> QED BY <1>2, <1>3 DEF LastIsTerminal

\* Every step, of the application, the coroutines or the native run, keeps the invariant.
LEMMA WrapperSteps == WrapperInv /\ [WrapperNext]_(wrapperVars) => WrapperInv'
<1> SUFFICES ASSUME WrapperInv, [WrapperNext]_(wrapperVars) PROVE WrapperInv'
    OBVIOUS
<1> USE DEF WrapperInv, WrapperTurns, FlowFinished, Ending
\* Steps that leave the job, the native run and the flow alone.
<1>1. ASSUME UNCHANGED <<job, native, nativeEnd, flow>> PROVE WrapperInv'
    BY <1>1 DEF WrapperTypes, FlowTold, LastIsTerminal
<1>2. CASE \/ ParentCancels \/ Subscribe
           \/ Collect \/ CollectorHangs
           \/ \E k \in Callers : Close(k) \/ CloseReturns(k)
           \/ StopperStops \/ CleanupStep \/ UNCHANGED wrapperVars
    BY <1>1, <1>2
        DEF ParentCancels, Subscribe, Collect,
            CollectorHangs, Close, CloseReturns, StopperStops,
            CleanupStep, CleanupJoins, CleanupCancels,
            CleanupCloses, kotlinVars, nativeVars, wrapperVars
\* Steps of the job or of the native run that emit nothing.
<1>3. CASE \/ JobStarts \/ CallRun \/ RunReturns
           \/ JobCancelsStopper \/ JobCloses \/ JobCompletes
           \/ NativeStarts \/ NativeStops \/ NativeFails
    <2>1. flow' = flow
        BY <1>3
            DEF JobStarts, CallRun, RunReturns,
                JobCancelsStopper, JobCloses, JobCompletes,
                NativeStarts, NativeStops, NativeFails
    <2>2. WrapperTypes' /\ WrapperTurns' /\ FlowFinished' = FlowFinished
        BY <1>3
            DEF WrapperTypes, JobStarts, CallRun, RunReturns,
                JobCancelsStopper, JobCloses, JobCompletes,
                NativeStarts, NativeStops, NativeFails,
                kotlinVars, nativeVars, FlowEnds
    <2> QED BY <2>1, <2>2 DEF FlowTold, LastIsTerminal
<1>4. CASE ReportFailure
    <2>1. /\ ~FlowFinished /\ FlowFinished' /\ flow' = Append(flow, "failed") /\ native' = native
          /\ job' = "finally" /\ job = "failing"
        BY <1>4 DEF ReportFailure, Emit, WrapperTypes, nativeVars
    <2>2. "failed" \in FlowEnds
        BY DEF FlowEnds
    <2> HIDE DEF FlowFinished
    <2> QED BY <2>1, <2>2, EmitTerminal DEF WrapperTypes, FlowTold
<1>5. CASE NativeEnds
    <2>1. /\ ~FlowFinished /\ FlowFinished' /\ nativeEnd \in FlowEnds /\ job = "running"
          /\ flow' = Append(flow, nativeEnd) /\ native' = "ended" /\ job' = job
        BY <1>5 DEF NativeEnds, Emit, WrapperTypes, kotlinVars
    <2> HIDE DEF FlowFinished
    <2> QED BY <2>1, EmitTerminal DEF WrapperTypes, FlowTold
<1>6. CASE NativeEvent
    <2>1. /\ ~FlowFinished /\ flow' = Append(flow, "event") /\ UNCHANGED <<job, native, nativeEnd>>
        BY <1>6
            DEF NativeEvent, Emit, kotlinVars, nativeVars
    <2>2. flow \in Seq({"event"} \cup FlowEnds) /\ "event" \notin FlowEnds
        BY DEF WrapperTypes, FlowEnds
    <2>3. /\ Len(flow') = Len(flow) + 1 /\ Len(flow) \in Nat
          /\ flow'[Len(flow) + 1] = "event"
          /\ \A i \in 1..Len(flow) : flow'[i] = flow[i]
          /\ flow' \in Seq({"event"} \cup FlowEnds)
        BY <2>1, <2>2
    <2>4. \A i \in 1..Len(flow) : flow[i] \notin FlowEnds
        BY <2>1 DEF FlowTold
    <2>5. \A i \in 1..Len(flow') : flow'[i] \notin FlowEnds
        BY <2>2, <2>3, <2>4
    <2> QED BY <2>1, <2>3, <2>5 DEF WrapperTypes, FlowTold
<1> QED BY <1>2, <1>3, <1>4, <1>5, <1>6 DEF WrapperNext, JobStep

\* Whose turn it is to end the flow: the native run's while runJob is in inner.run(),
\* the catch block's if that call threw.
THEOREM WrapperInvariant == WrapperSpec => []WrapperInv
<1>1. WrapperInit => WrapperInv
    BY DEF WrapperInit, WrapperInv, WrapperTypes, WrapperTurns, FlowTold, FlowFinished,
           Ending
<1> QED BY <1>1, WrapperSteps, PTL DEF WrapperSpec

\* "Exactly one terminal event always ends [events]": nothing follows it, and it has
\* been emitted when runJob gets to its finally block, whoever closes or cancels when.
THEOREM OneEndAlways == WrapperSpec => []OneEnd
<1>1. WrapperInv => OneEnd
    BY DEF WrapperInv, FlowTold, FlowFinished, Ending, LastIsTerminal, OneEnd
<1> QED BY <1>1, WrapperInvariant, PTL

=============================================================================
