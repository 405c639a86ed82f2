------------------------------ MODULE H2Stream ------------------------------
(***************************************************************************)
(* Streams of one HTTP/2 connection in one direction: the adapters that     *)
(* carry a tunnel's bytes (H2Send and H2Recv in tunnel-common), the reader  *)
(* of control bodies (collect_h2_body), and the flow control of the h2      *)
(* library they drive.  All streams share the connection's window.          *)
(*                                                                          *)
(* Byte i of a stream is the number i.  A frame is what one send_data sent.  *)
(***************************************************************************)
EXTENDS Naturals, Sequences, FiniteSets, FiniteSetsExt

CONSTANTS
    Pipes,          \* streams that carry tunnel bytes
    Bodies,         \* streams whose body is collected
    STREAM_WINDOW, CONN_WINDOW,
    MAX_BODY,       \* the limit given to collect_h2_body
    PipeBytes, BodyBytes,   \* bounds: bytes a writer sends on a stream
    WriteMax,       \* bound: the copier's buffer
    ReadMax         \* bound: what a reader asks for at a time

Streams == Pipes \cup Bodies

Bytes(s) == IF s \in Pipes THEN PipeBytes ELSE BodyBytes

ASSUME StreamAssumption ==
    /\ Pipes \cap Bodies = {}
    /\ \A n \in {STREAM_WINDOW, CONN_WINDOW, WriteMax, ReadMax} : n \in Nat \ {0}
    /\ MAX_BODY \in Nat /\ PipeBytes \in Nat /\ BodyBytes \in Nat

VARIABLES
    wr,       \* the writing end: ready, blocked on capacity, shut, or failed
    fin,      \* its source has ended
    taken,    \* bytes the copier took from its source
    chunk,    \* those it has not yet written
    want,     \* h2: the capacity reserved for the stream
    cap,      \* h2: the capacity assigned to it
    swin,     \* h2: what the peer's stream window allows
    cwin,     \* h2: what is not assigned of the peer's connection window
    wire,     \* frames sent and not taken by the reader
    scred,    \* released by the reader, not yet back in swin
    ccred,    \* released by the readers, not yet back in cwin
    buf,      \* the rest of a frame that H2Recv keeps
    out,      \* bytes handed to the reader's caller
    rd,       \* the reading end: open, eof, or gone
    stalled   \* the reader's caller has stopped to read

h2Vars == <<want, cap, swin, cwin, scred, ccred>>
writerVars == <<wr, fin, taken, chunk>>
readerVars == <<buf, out, rd>>
vars == <<writerVars, h2Vars, wire, readerVars, stalled>>

Frame(data, end) == [data |-> data, end |-> end]

Init ==
    /\ wr = [s \in Streams |-> "ready"] /\ fin = [s \in Streams |-> FALSE]
    /\ taken = [s \in Streams |-> 0] /\ chunk = [s \in Streams |-> <<>>]
    /\ want = [s \in Streams |-> 0] /\ cap = [s \in Streams |-> 0]
    /\ swin = [s \in Streams |-> STREAM_WINDOW] /\ cwin = CONN_WINDOW
    /\ wire = [s \in Streams |-> <<>>]
    /\ scred = [s \in Streams |-> 0] /\ ccred = 0
    /\ buf = [s \in Streams |-> <<>>] /\ out = [s \in Streams |-> <<>>]
    /\ rd = [s \in Streams |-> "open"] /\ stalled = [s \in Streams |-> FALSE]

-----------------------------------------------------------------------------
(* The writing end: a copier that owns an H2Send.                          *)

\* The copier takes bytes from its source once it has written the last ones.
CopierReads(s) ==
    /\ wr[s] = "ready" /\ chunk[s] = <<>> /\ ~fin[s]
    /\ \E k \in 1..WriteMax :
        /\ taken[s] + k <= Bytes(s)
        /\ chunk' = [chunk EXCEPT ![s] = [i \in 1..k |-> taken[s] + i]]
        /\ taken' = [taken EXCEPT ![s] = @ + k]
    /\ UNCHANGED <<wr, fin, h2Vars, wire, readerVars, stalled>>

SourceEnds(s) ==
    /\ wr[s] = "ready" /\ chunk[s] = <<>> /\ ~fin[s]
    /\ fin' = [fin EXCEPT ![s] = TRUE]
    /\ UNCHANGED <<wr, taken, chunk, h2Vars, wire, readerVars, stalled>>

\* poll_write: sends as much as there is capacity for.
SendData(s) ==
    LET n == Min({cap[s], Len(chunk[s])}) IN
    /\ cap[s] > 0
    /\ wire' = [wire EXCEPT ![s] = Append(@, Frame(SubSeq(chunk[s], 1, n), FALSE))]
    /\ chunk' = [chunk EXCEPT ![s] = SubSeq(@, n + 1, Len(@))]
    /\ cap' = [cap EXCEPT ![s] = @ - n]
    /\ swin' = [swin EXCEPT ![s] = @ - n]
    /\ want' = [want EXCEPT ![s] = IF @ > n THEN @ - n ELSE 0]
    /\ UNCHANGED <<wr, fin, taken, cwin, scred, ccred>>

\* Mutant: waits for capacity that nobody was asked for.
ReserveNothing(s) ==
    /\ cap[s] = 0
    /\ wr' = [wr EXCEPT ![s] = "blocked"]
    /\ UNCHANGED <<fin, taken, chunk, want, cap, swin, cwin, scred, ccred, wire>>

\* poll_write without capacity reserves some and waits for it, also when it was
\* woken for nothing.
ReserveCapacity(s) ==
    /\ cap[s] = 0
    /\ wr' = [wr EXCEPT ![s] = "blocked"]
    /\ want' = [want EXCEPT ![s] = Len(chunk[s])]
    /\ UNCHANGED <<fin, taken, chunk, cap, swin, cwin, scred, ccred, wire>>

PollWrite(s) ==
    /\ wr[s] = "ready" /\ chunk[s] # <<>>
    /\ SendData(s) \/ ReserveCapacity(s)
    /\ UNCHANGED <<readerVars, stalled>>

\* poll_shutdown: an empty frame that ends the stream needs no capacity.
PollShutdown(s) ==
    /\ wr[s] = "ready" /\ chunk[s] = <<>> /\ fin[s]
    /\ wire' = [wire EXCEPT ![s] = Append(@, Frame(<<>>, TRUE))]
    /\ wr' = [wr EXCEPT ![s] = "shut"]
    /\ UNCHANGED <<fin, taken, chunk, h2Vars, readerVars, stalled>>

\* The stream is reset: the copier gets an error from poll_write, or is dropped
\* itself.  h2 takes back the capacity that was assigned.
WriterFails(s) ==
    /\ wr[s] \in {"ready", "blocked"}
    /\ wr' = [wr EXCEPT ![s] = "failed"]
    /\ cwin' = cwin + cap[s]
    /\ cap' = [cap EXCEPT ![s] = 0] /\ want' = [want EXCEPT ![s] = 0]
    /\ UNCHANGED <<fin, taken, chunk, swin, scred, ccred, wire, readerVars, stalled>>

-----------------------------------------------------------------------------
(* The flow control of h2.                                                 *)

\* Capacity is assigned to a stream that asked for it, and its writer woken.
AssignCapacity(s) ==
    LET k == Min({want[s] - cap[s], swin[s] - cap[s], cwin}) IN
    /\ want[s] > cap[s] /\ k > 0
    /\ cap' = [cap EXCEPT ![s] = @ + k]
    /\ cwin' = cwin - k
    /\ wr' = [wr EXCEPT ![s] = IF @ = "blocked" THEN "ready" ELSE @]
    /\ UNCHANGED <<fin, taken, chunk, want, swin, scred, ccred, wire, readerVars, stalled>>

\* poll_capacity may report readiness without capacity.
WakeForNothing(s) ==
    /\ wr[s] = "blocked"
    /\ wr' = [wr EXCEPT ![s] = "ready"]
    /\ UNCHANGED <<fin, taken, chunk, h2Vars, wire, readerVars, stalled>>

\* WINDOW_UPDATE frames bring what was released back to the sender.
UpdateStreamWindow(s) ==
    /\ scred[s] > 0
    /\ swin' = [swin EXCEPT ![s] = @ + scred[s]]
    /\ scred' = [scred EXCEPT ![s] = 0]
    /\ UNCHANGED <<writerVars, want, cap, cwin, ccred, wire, readerVars, stalled>>

UpdateConnWindow ==
    /\ ccred > 0
    /\ cwin' = cwin + ccred /\ ccred' = 0
    /\ UNCHANGED <<writerVars, want, cap, swin, scred, wire, readerVars, stalled>>

\* What nobody will read any more is released by h2, to the connection only.
Discard(s) ==
    /\ rd[s] = "gone" /\ wire[s] # <<>>
    /\ wire' = [wire EXCEPT ![s] = Tail(@)]
    /\ ccred' = ccred + Len(Head(wire[s]).data)
    /\ UNCHANGED <<writerVars, want, cap, swin, cwin, scred, readerVars, stalled>>

-----------------------------------------------------------------------------
(* The reading end: H2Recv, or collect_h2_body.                            *)

Reading(s) == rd[s] = "open" /\ ~stalled[s]

\* poll_data returned a frame; its bytes are released whether they fit or not.
Release(s, n) ==
    /\ scred' = [scred EXCEPT ![s] = @ + n]
    /\ ccred' = ccred + n
    /\ UNCHANGED <<want, cap, swin, cwin>>

\* poll_read hands out what H2Recv kept before it asks for another frame.
ReadBuffered(s, room) ==
    LET n == Min({room, Len(buf[s])}) IN
    /\ buf[s] # <<>>
    /\ out' = [out EXCEPT ![s] = @ \o SubSeq(buf[s], 1, n)]
    /\ buf' = [buf EXCEPT ![s] = SubSeq(@, n + 1, Len(@))]
    /\ UNCHANGED <<wire, h2Vars, rd>>

\* Mutant: a frame is asked for although some bytes of the last one are kept.
ReadFrameFirst(s, room) ==
    /\ wire[s] # <<>> /\ ~Head(wire[s]).end
    /\ LET data == Head(wire[s]).data
           n == Min({room, Len(data)}) IN
       /\ Release(s, Len(data))
       /\ out' = [out EXCEPT ![s] = @ \o SubSeq(data, 1, n)]
       /\ buf' = [buf EXCEPT ![s] = SubSeq(data, n + 1, Len(data))]
    /\ wire' = [wire EXCEPT ![s] = Tail(@)]
    /\ UNCHANGED rd

\* Mutant: only what was handed out is released.
ReadFrameReleasesPart(s, room) ==
    /\ buf[s] = <<>> /\ wire[s] # <<>> /\ ~Head(wire[s]).end
    /\ LET data == Head(wire[s]).data
           n == Min({room, Len(data)}) IN
       /\ Release(s, n)
       /\ out' = [out EXCEPT ![s] = @ \o SubSeq(data, 1, n)]
       /\ buf' = [buf EXCEPT ![s] = SubSeq(data, n + 1, Len(data))]
    /\ wire' = [wire EXCEPT ![s] = Tail(@)]
    /\ UNCHANGED rd

\* What does not fit into the caller's room is kept.
ReadFrame(s, room) ==
    /\ buf[s] = <<>> /\ wire[s] # <<>> /\ ~Head(wire[s]).end
    /\ LET data == Head(wire[s]).data
           n == Min({room, Len(data)}) IN
       /\ Release(s, Len(data))
       /\ out' = [out EXCEPT ![s] = @ \o SubSeq(data, 1, n)]
       /\ buf' = [buf EXCEPT ![s] = SubSeq(data, n + 1, Len(data))]
    /\ wire' = [wire EXCEPT ![s] = Tail(@)]
    /\ UNCHANGED rd

\* Nothing filled in means the end of the stream to the caller.
ReadEnd(s) ==
    /\ buf[s] = <<>> /\ wire[s] # <<>> /\ Head(wire[s]).end
    /\ wire' = [wire EXCEPT ![s] = Tail(@)]
    /\ rd' = [rd EXCEPT ![s] = "eof"]
    /\ UNCHANGED <<h2Vars, buf, out>>

PollRead(s) ==
    /\ s \in Pipes /\ Reading(s)
    /\ ReadEnd(s) \/ \E room \in 1..ReadMax : ReadBuffered(s, room) \/ ReadFrame(s, room)
    /\ UNCHANGED <<writerVars, stalled>>

\* A chunk that would exceed the limit ends the collection, unreleased: h2 releases
\* it when the stream is dropped.
CollectChunk(s) ==
    /\ ~Head(wire[s]).end
    /\ LET data == Head(wire[s]).data IN
       IF Len(out[s]) + Len(data) > MAX_BODY
       THEN /\ rd' = [rd EXCEPT ![s] = "gone"]
            /\ ccred' = ccred + Len(data)
            /\ UNCHANGED <<want, cap, swin, cwin, scred, out>>
       ELSE /\ Release(s, Len(data))
            /\ out' = [out EXCEPT ![s] = @ \o data]
            /\ UNCHANGED rd
    /\ wire' = [wire EXCEPT ![s] = Tail(@)]
    /\ UNCHANGED buf

CollectBody(s) ==
    /\ s \in Bodies /\ Reading(s) /\ wire[s] # <<>>
    /\ CollectChunk(s) \/ ReadEnd(s)
    /\ UNCHANGED <<writerVars, stalled>>

\* The reader is dropped with its pipe, or gets the error of a reset stream; what
\* H2Recv kept was released when it was taken.
ReaderGone(s) ==
    /\ rd[s] = "open"
    /\ rd' = [rd EXCEPT ![s] = "gone"]
    /\ buf' = [buf EXCEPT ![s] = <<>>]
    /\ UNCHANGED <<writerVars, h2Vars, wire, out, stalled>>

\* The local service, or the user, stops to read; the copier that owns the H2Recv
\* then stops too.  A body is collected without waiting for anybody.
ReaderStalls(s) ==
    /\ s \in Pipes /\ rd[s] = "open" /\ ~stalled[s]
    /\ stalled' = [stalled EXCEPT ![s] = TRUE]
    /\ UNCHANGED <<writerVars, h2Vars, wire, readerVars>>

-----------------------------------------------------------------------------

WriterStep(s) == CopierReads(s) \/ SourceEnds(s) \/ PollWrite(s) \/ PollShutdown(s)

ReaderStep(s) == PollRead(s) \/ CollectBody(s)

Next ==
    \/ \E s \in Streams :
        \/ WriterStep(s) \/ WriterFails(s)
        \/ AssignCapacity(s) \/ WakeForNothing(s) \/ UpdateStreamWindow(s) \/ Discard(s)
        \/ ReaderStep(s) \/ ReaderGone(s) \/ ReaderStalls(s)
    \/ UpdateConnWindow

Spec == Init /\ [][Next]_vars

\* The tasks run while they can, and h2 hands out windows.  The other end of a reset
\* stream learns of it.  Nothing makes a source end or a caller read.
WriterRuns(s) == PollWrite(s) \/ PollShutdown(s) \/ (rd[s] = "gone" /\ WriterFails(s))
ReaderRuns(s) == ReaderStep(s) \/ (wr[s] = "failed" /\ ReaderGone(s))
LibraryRuns(s) == AssignCapacity(s) \/ UpdateStreamWindow(s) \/ Discard(s)

Fairness ==
    /\ \A s \in Streams :
        WF_vars(WriterRuns(s)) /\ WF_vars(ReaderRuns(s)) /\ WF_vars(LibraryRuns(s))
    /\ WF_vars(UpdateConnWindow)

FairSpec == Spec /\ Fairness

-----------------------------------------------------------------------------
(* Properties.                                                             *)

\* The bytes of a sequence of frames, each as the frame it is in and its place there.
BytesOf(frames) == UNION {{j} \X (1..Len(frames[j].data)) : j \in 1..Len(frames)}

\* How many bytes of a stream are on the wire.
InFlight(s) == Cardinality(BytesOf(wire[s]))

\* What a stream holds of the connection's window: the capacity assigned to it, and
\* its bytes on the wire.
Charged(s) == ({0} \X (1..cap[s])) \cup BytesOf(wire[s])

TypeOK ==
    /\ wr \in [Streams -> {"ready", "blocked", "shut", "failed"}]
    /\ rd \in [Streams -> {"open", "eof", "gone"}]
    /\ fin \in [Streams -> BOOLEAN] /\ stalled \in [Streams -> BOOLEAN]
    /\ taken \in [Streams -> Nat] /\ \A s \in Streams : taken[s] <= Bytes(s)
    /\ \A q \in {chunk, buf, out} : q \in [Streams -> Seq(Nat)]
    /\ wire \in [Streams -> Seq([data : Seq(Nat), end : BOOLEAN])]
    /\ want \in [Streams -> 0..WriteMax]
    /\ \A w \in {cap, swin, scred} : w \in [Streams -> 0..STREAM_WINDOW]
    /\ cwin \in 0..CONN_WINDOW /\ ccred \in 0..CONN_WINDOW

\* The adapters hand out every byte once and in order, although writes are cut by
\* the window and reads by the caller's room; the end is reported only after the
\* last byte that was written; and a collected body is within its limit.
DeliversExactly ==
    \A s \in Streams :
        /\ out[s] = [i \in 1..Len(out[s]) |-> i] /\ Len(out[s]) <= taken[s]
        /\ rd[s] = "eof" => fin[s] /\ Len(out[s]) = taken[s]
        /\ s \in Bodies => Len(out[s]) <= MAX_BODY

\* No window leaks: every byte of the connection's window is unassigned, assigned
\* to a stream, on the wire, or released; whoever fails, and whatever H2Recv still
\* keeps.  The same holds for a stream that is read.
WindowConserved ==
    /\ cwin + ccred + Cardinality(UNION {{s} \X Charged(s) : s \in Streams}) = CONN_WINDOW
    /\ \A s \in Streams : rd[s] = "open" => swin[s] + InFlight(s) + scred[s] = STREAM_WINDOW

\* The caller of some reader has stopped to read.  The window of the connection is
\* shared, and is no larger than that of one stream.
SomeoneStalls == \E t \in Streams : stalled[t] /\ rd[t] = "open"

\* What a copier took from its source is handed out, and the end of the source
\* reported, however small the windows are and however often poll_capacity wakes
\* the writer for nothing; unless the stream is reset or some reader is stalled.
WriteCompletes ==
    \A s \in Streams :
        fin[s] \/ Len(out[s]) < taken[s]
            ~> rd[s] # "open" \/ SomeoneStalls \/ (~fin[s] /\ Len(out[s]) = taken[s])

=============================================================================
