------------------------------ MODULE H2Proofs ------------------------------
(***************************************************************************)
(* Proofs about H2Stream, for any streams, windows, limits and buffers:      *)
(* every byte is handed out once and in order, no window leaks, and the       *)
(* streams do not deadlock over the window they share.  The invariant is that *)
(* of H2Invariant; H2Ends has the steps of a writer and of a pipe's reader.   *)
(***************************************************************************)
EXTENDS H2Ends

-----------------------------------------------------------------------------
(* The collector of a body, and a reader that goes.                        *)

\* A chunk is added to a body, or is too much for it; then it is released to the
\* connection only.
LEMMA CollectChunkStep ==
    ASSUME Inv, NEW s \in Bodies, rd[s] = "open", wire[s] # <<>>, CollectChunk(s),
           UNCHANGED writerVars
    PROVE  Inv'
  <1> DEFINE o == out[s]
             data == Head(wire[s]).data
             len == Len(data)
             hi == taken[s] - Len(chunk[s])
             kept == ~(Len(o) + len > MAX_BODY)
  <1>1. s \in Streams
    BY DEF Streams
  <1>2. /\ Sized(s) /\ Written(s) /\ Handed(s) /\ Windows(s)
        /\ o \in Seq(Nat) /\ Len(o) \in Nat
    BY <1>1, AtStream
  <1>3. /\ taken[s] \in Nat /\ swin[s] \in Nat /\ scred[s] \in Nat /\ cap[s] \in Nat
        /\ cwin \in Nat /\ ccred \in Nat /\ InFlight(s) \in Nat
    BY <1>1, AtStream
  <1>4. /\ ccred' = ccred + len /\ wire' = [wire EXCEPT ![s] = Tail(@)] /\ buf' = buf
        /\ wr' = wr /\ taken' = taken /\ chunk' = chunk /\ fin' = fin /\ want' = want
        /\ cap' = cap /\ swin' = swin /\ cwin' = cwin
    BY Zenon DEF CollectChunk, Release, writerVars
  <1>5. /\ data \in Seq(Nat) /\ len \in Nat /\ hi \in Nat /\ hi <= taken[s]
        /\ Tail(wire[s]) \in Seq(Frames) /\ Ends(Tail(wire[s]), wr[s])
        /\ IsFiniteSet(BytesOf(Tail(wire[s])))
        /\ Cardinality(BytesOf(Tail(wire[s]))) \in Nat
        /\ InFlight(s) = Cardinality(BytesOf(Tail(wire[s]))) + len
    BY Zenon, <1>1, FirstFrame
  <1>6. MAX_BODY \in Nat
    BY StreamAssumption
  <1>7. \/ /\ ~kept /\ rd' = [rd EXCEPT ![s] = "gone"] /\ scred' = scred /\ out' = out
        \/ /\ kept /\ rd' = rd /\ scred' = [scred EXCEPT ![s] = @ + len]
           /\ out' = [out EXCEPT ![s] = o \o data]
    BY Zenon DEF CollectChunk, Release
  <1>8. buf[s] = <<>> /\ Run(o, 0) /\ Len(o) <= MAX_BODY /\ Len(o) <= taken[s]
    BY <1>2 DEF Handed
  <1>9. Len(out[s]) + Len(buf[s]) = Len(o)
    <2>1. Len(buf[s]) = 0
      BY <1>8
    <2> QED BY <1>2, <2>1
  <1>10. /\ Run(data, Len(out[s]) + Len(buf[s])) /\ Len(out[s]) + Len(buf[s]) + len <= hi
         /\ Covers(Tail(wire[s]), Len(out[s]) + Len(buf[s]) + len, hi)
    BY Zenon, <1>1, FirstFrame
  <1> HIDE DEF hi, kept, len
  <1>11. Run(data, Len(o)) /\ Len(o) + len <= hi /\ Covers(Tail(wire[s]), Len(o) + len, hi)
    BY Zenon, <1>9, <1>10
  <1> HIDE DEF data, o
  <1>12. o \o data \in Seq(Nat) /\ Len(o \o data) = Len(o) + len /\ Run(o \o data, 0)
    <2>1. Run(data, 0 + Len(o))
      BY <1>2, <1>11
    <2> QED BY <1>2, <1>5, <1>8, <2>1, RunJoin DEF len
  <1>13. wire'[s] = Tail(wire[s])
    BY <1>1, <1>4 DEF Inv, Types
  <1>14. IsFiniteSet(BytesOf(wire'[s])) /\ InFlight(s)' \in Nat /\ InFlight(s) = InFlight(s)' + len
    BY <1>5, <1>13 DEF InFlight
  <1>15. Types'
    <2>1. scred[s] \in Nat /\ ccred \in Nat /\ len \in Nat
      BY Zenon, <1>3, <1>5
    <2>2. scred[s] + len \in Nat /\ ccred + len \in Nat
      BY <2>1
    <2>3. /\ rd \in [Streams -> {"open", "eof", "gone"}] /\ scred \in [Streams -> Nat]
          /\ out \in [Streams -> Seq(Nat)]
      BY Zenon DEF Inv, Types
    <2>4. /\ rd' \in [Streams -> {"open", "eof", "gone"}] /\ scred' \in [Streams -> Nat]
          /\ out' \in [Streams -> Seq(Nat)]
      <3>1. CASE kept /\ rd' = rd /\ scred' = [scred EXCEPT ![s] = @ + len]
                 /\ out' = [out EXCEPT ![s] = o \o data]
        BY <1>1, <1>12, <2>2, <2>3, <3>1
      <3>2. CASE ~kept /\ rd' = [rd EXCEPT ![s] = "gone"] /\ scred' = scred /\ out' = out
        BY <1>1, <2>3, <3>2
      <3> QED BY Zenon, <1>7, <3>1, <3>2
    <2> QED BY Zenon, <1>1, <1>4, <1>5, <2>2, <2>4 DEF Inv, Types
  <1>16. \A t \in Streams \ {s} : Untouched(t)
    BY <1>4, <1>7 DEF Inv, Types, Untouched
  <1>17. Sized(s)' /\ Written(s)'
    BY <1>2, <1>4, <1>5, <1>13 DEF Sized, Written
  <1>18. \/ /\ rd'[s] = "gone" /\ scred'[s] = scred[s] /\ out'[s] = o
         \/ /\ kept /\ rd'[s] = "open" /\ scred'[s] = scred[s] + len /\ out'[s] = o \o data
    BY <1>1, <1>7 DEF Inv, Types, o
  <1>19. buf'[s] = <<>> /\ taken'[s] = taken[s] /\ swin'[s] = swin[s]
    BY <1>4, <1>8
  <1>20. Handed(s)' /\ Windows(s)'
    <2>1. CASE rd'[s] = "gone" /\ scred'[s] = scred[s] /\ out'[s] = o
      <3>1. Handed(s)'
        BY <1>8, <1>19, <2>1 DEF Handed
      <3>2. swin[s] + scred[s] + InFlight(s) <= STREAM_WINDOW /\ STREAM_WINDOW \in Nat
        BY <1>2, StreamAssumption DEF Windows
      <3>3. len \in Nat
        BY <1>5
      <3>4. swin[s] + scred[s] + InFlight(s)' <= STREAM_WINDOW
        BY <1>3, <1>14, <3>2, <3>3
      <3>5. Windows(s)'
        BY <1>2, <1>4, <1>14, <1>19, <2>1, <3>4 DEF Windows
      <3> QED BY <3>1, <3>5
    <2>2. CASE kept /\ rd'[s] = "open" /\ scred'[s] = scred[s] + len /\ out'[s] = o \o data
      <3>1. Len(out'[s]) = Len(o) + len /\ Len(buf'[s]) = 0
        BY <1>12, <1>19, <2>2
      <3>2. len \in Nat
        BY <1>5
      <3>3. Len(o) + len \in Nat /\ Len(o) + len <= taken[s] /\ (Len(o) + len) + 0 = Len(o) + len
        BY <1>2, <1>3, <1>5, <1>11, <3>2
      <3>4. Len(o) + len <= MAX_BODY
        BY <1>6, <2>2, <3>3 DEF kept
      <3>5. Len(out'[s]) + Len(buf'[s]) = Len(o) + len
        BY <3>1, <3>3
      <3>6. Run(buf'[s], Len(out'[s]))
        BY <1>19 DEF Run
      <3>7. Covers(wire'[s], Len(out'[s]) + Len(buf'[s]), taken'[s] - Len(chunk'[s]))
        BY Zenon, <1>4, <1>11, <1>13, <3>5 DEF hi
      <3>8. Run(out'[s], 0) /\ Len(out'[s]) <= taken'[s] /\ Len(out'[s]) <= MAX_BODY
        BY <1>12, <1>19, <2>2, <3>1, <3>3, <3>4
      <3>9. Handed(s)'
        BY <1>19, <2>2, <3>6, <3>7, <3>8 DEF Handed
      <3>10. swin[s] + (scred[s] + len) + InFlight(s)' = swin[s] + scred[s] + InFlight(s)
        BY <1>3, <1>14, <3>2
      <3>11. Windows(s)'
        BY <1>2, <1>4, <1>14, <1>19, <2>2, <3>10 DEF Windows
      <3> QED BY <3>9, <3>11
    <2> QED BY <1>18, <2>1, <2>2
  <1>21. cwin' + ccred' + cap'[s] + InFlight(s)' = cwin + ccred + cap[s] + InFlight(s)
    <2>1. len \in Nat
      BY <1>5
    <2> QED BY <1>3, <1>4, <1>14, <2>1
  <1> QED BY <1>1, <1>15, <1>16, <1>17, <1>20, <1>21, OneStream DEF StreamInv

\* A reader that goes takes nothing along that was not released.
LEMMA ReaderGoneStep ==
    ASSUME Inv, NEW s \in Streams, ReaderGone(s)
    PROVE  Inv'
  <1>1. /\ rd' = [rd EXCEPT ![s] = "gone"] /\ buf' = [buf EXCEPT ![s] = <<>>]
        /\ wr' = wr /\ taken' = taken /\ chunk' = chunk /\ fin' = fin /\ want' = want
        /\ cap' = cap /\ swin' = swin /\ scred' = scred /\ wire' = wire /\ out' = out
        /\ cwin' = cwin /\ ccred' = ccred
    BY DEF ReaderGone, writerVars, h2Vars
  <1>2. Sized(s) /\ Written(s) /\ Handed(s) /\ Windows(s)
    BY AtStream
  <1>3. Types'
    BY <1>1 DEF Inv, Types
  <1>4. \A t \in Streams \ {s} : Untouched(t)
    BY <1>1 DEF Inv, Types, Untouched
  <1>5. rd'[s] = "gone" /\ buf'[s] = <<>>
    BY <1>1 DEF Inv, Types
  <1>6. Sized(s)' /\ Written(s)' /\ Handed(s)'
    BY Zenon, <1>1, <1>2, <1>5 DEF Sized, Written, Handed
  <1>7. Windows(s)'
    BY <1>1, <1>2, <1>5 DEF Windows, InFlight
  <1>8. cwin' + ccred' + cap'[s] + InFlight(s)' = cwin + ccred + cap[s] + InFlight(s)
    BY <1>1 DEF InFlight
  <1> QED BY <1>3, <1>4, <1>6, <1>7, <1>8, OneStream DEF StreamInv

\* A reader that only stops to read leaves everything else alone.
LEMMA NothingMoved ==
    ASSUME Inv, UNCHANGED <<writerVars, h2Vars, wire, readerVars>>
    PROVE  Inv'
  <1>1. /\ wr' = wr /\ taken' = taken /\ chunk' = chunk /\ fin' = fin /\ want' = want
        /\ cap' = cap /\ swin' = swin /\ scred' = scred /\ wire' = wire /\ buf' = buf
        /\ out' = out /\ rd' = rd /\ cwin' = cwin /\ ccred' = ccred
    BY DEF writerVars, h2Vars, readerVars
  <1>2. Types'
    BY <1>1 DEF Inv, Types
  <1>3. \A t \in Streams : StreamInv(t)'
    <2>1. \A t \in Streams : Untouched(t)
      BY <1>1 DEF Untouched
    <2> QED BY <2>1, UntouchedKeeps DEF Inv
  <1>4. Conn'
    <2>1. Holdings' = Holdings
      BY <1>1 DEF Holdings, Charged
    <2> QED BY <1>1, <2>1 DEF Inv, Conn
  <1> QED BY <1>2, <1>3, <1>4 DEF Inv

-----------------------------------------------------------------------------
(* The invariant holds, and with it the properties.                        *)

\* The streams start empty, with their windows full.
LEMMA InvInit == Init => Flags /\ Inv
  <1> SUFFICES ASSUME Init PROVE Flags /\ Inv
    OBVIOUS
  <1>1. Flags
    BY DEF Init, Flags
  <1>2. STREAM_WINDOW \in Nat /\ CONN_WINDOW \in Nat /\ WriteMax \in Nat /\ MAX_BODY \in Nat
        /\ PipeBytes \in Nat /\ BodyBytes \in Nat
    BY Zenon, StreamAssumption
  <1>3. Types
    <2>1. <<>> \in Seq(Nat) /\ <<>> \in Seq(Frames)
      OBVIOUS
    <2> QED BY <1>2, <2>1 DEF Init, Types
  <1>4. BytesOf(<<>>) = {}
    BY DEF BytesOf
  <1>5. ASSUME NEW s \in Streams PROVE StreamInv(s)
    <2>1. /\ wr[s] = "ready" /\ rd[s] = "open" /\ taken[s] = 0 /\ chunk[s] = <<>>
          /\ buf[s] = <<>> /\ out[s] = <<>> /\ wire[s] = <<>> /\ want[s] = 0 /\ cap[s] = 0
          /\ swin[s] = STREAM_WINDOW /\ scred[s] = 0
      BY DEF Init
    <2>2. Len(<<>>) = 0 /\ 0 - 0 = 0 /\ 0 + 0 = 0
      OBVIOUS
    <2>3. Sized(s)
      BY <1>2, <2>1, <2>2 DEF Sized, Bytes
    <2>4. Run(<<>>, 0) /\ Ends(<<>>, "ready") /\ Covers(<<>>, 0, 0)
      BY CoversNothing DEF Run, Ends
    <2>5. Written(s)
      BY <2>1, <2>2, <2>4 DEF Written
    <2>6. Handed(s)
      <3>1. 0 <= MAX_BODY
        BY <1>2
      <3> QED BY <2>1, <2>2, <2>4, <3>1 DEF Handed
    <2>7. IsFiniteSet(BytesOf(wire[s])) /\ InFlight(s) = 0
      BY Zenon, <1>4, <2>1, FS_EmptySet DEF InFlight
    <2>8. Windows(s)
      BY <1>2, <2>1, <2>7 DEF Windows
    <2> QED BY <2>3, <2>5, <2>6, <2>8 DEF StreamInv
  <1>6. Conn
    <2>1. \A s \in Streams : Holdings[s] = {}
      BY <1>4 DEF Init, Holdings, Charged
    <2>2. Total(Streams, Holdings) = {}
      <3> HIDE DEF Holdings
      <3> QED BY <2>1 DEF Total
    <2>3. IsFiniteSet({}) /\ Cardinality({}) = 0
      BY FS_EmptySet
    <2>4. cwin = CONN_WINDOW /\ ccred = 0
      BY DEF Init
    <2> QED BY <1>2, <2>2, <2>3, <2>4 DEF Conn
  <1> QED BY <1>1, <1>3, <1>5, <1>6 DEF Inv

\* Every step keeps the flags Boolean.
LEMMA FlagsStep == Flags /\ [Next]_vars => Flags'
  <1> SUFFICES ASSUME Flags, [Next]_vars PROVE Flags'
    OBVIOUS
  <1>1. \/ \E s \in Streams : fin' = [fin EXCEPT ![s] = TRUE] /\ stalled' = stalled
        \/ \E s \in Streams : fin' = fin /\ stalled' = [stalled EXCEPT ![s] = TRUE]
        \/ fin' = fin /\ stalled' = stalled
    BY Zenon DEF Next, vars, writerVars, WriterStep, ReaderStep, CopierReads, SourceEnds,
           PollWrite, SendData, ReserveCapacity, PollShutdown, WriterFails, AssignCapacity,
           WakeForNothing, UpdateStreamWindow, UpdateConnWindow, Discard, PollRead,
           CollectBody, ReaderGone, ReaderStalls
  <1> QED BY <1>1, Zenon DEF Flags

\* Every step keeps the invariant.
LEMMA InvStep == Flags /\ Inv /\ [Next]_vars => Inv'
  <1> SUFFICES ASSUME Flags, Inv, [Next]_vars PROVE Inv'
    OBVIOUS
  <1>1. ASSUME NEW s \in Streams, WriterStep(s) PROVE Inv'
    <2>1. CASE CopierReads(s)
      BY <2>1, CopierReadsStep
    <2>2. CASE SourceEnds(s)
      BY <2>2, SourceEndsStep
    <2>3. CASE PollWrite(s)
      <3>1. SendData(s) \/ ReserveCapacity(s)
        BY <2>3 DEF PollWrite
      <3> QED BY <2>3, <3>1, SendDataStep, ReserveCapacityStep
    <2>4. CASE PollShutdown(s)
      BY <2>4, PollShutdownStep
    <2> QED BY <1>1, <2>1, <2>2, <2>3, <2>4 DEF WriterStep
  <1>2. ASSUME NEW s \in Streams, ReaderStep(s) PROVE Inv'
    <2>1. CASE PollRead(s)
      <3>1. /\ s \in Pipes /\ rd[s] = "open" /\ UNCHANGED writerVars
            /\ ReadEnd(s) \/ \E room \in 1..ReadMax : ReadBuffered(s, room) \/ ReadFrame(s, room)
        BY <2>1 DEF PollRead, Reading
      <3> QED BY <3>1, ReadEndStep, ReadBufferedStep, ReadFrameStep
    <2>2. CASE CollectBody(s)
      <3>1. /\ s \in Bodies /\ rd[s] = "open" /\ wire[s] # <<>> /\ UNCHANGED writerVars
            /\ CollectChunk(s) \/ ReadEnd(s)
        BY <2>2 DEF CollectBody, Reading
      <3> QED BY <3>1, ReadEndStep, CollectChunkStep
    <2> QED BY <1>2, <2>1, <2>2 DEF ReaderStep
  <1>3. ASSUME NEW s \in Streams, ReaderStalls(s) PROVE Inv'
    BY <1>3, NothingMoved DEF ReaderStalls
  <1>4. CASE UNCHANGED vars
    BY <1>4, NothingMoved DEF vars
  <1> QED BY <1>1, <1>2, <1>3, <1>4, WriterFailsStep, AssignCapacityStep,
             WakeForNothingStep, UpdateStreamWindowStep, UpdateConnWindowStep,
             DiscardStep, ReaderGoneStep DEF Next

\* The invariant of all streams and of the connection's window.
THEOREM StreamInvariant == Spec => [](Flags /\ Inv)
  <1>1. (Flags /\ Inv) /\ [Next]_vars => (Flags /\ Inv)'
    BY FlagsStep, InvStep
  <1> QED BY <1>1, InvInit, PTL DEF Spec

\* Type correctness: no window, capacity or credit leaves its bounds, and no more
\* capacity is asked for than the copier's buffer holds.
THEOREM StreamsTyped == Spec => []TypeOK
  <1>1. Flags /\ Inv => TypeOK
    <2> SUFFICES ASSUME Flags, Inv PROVE TypeOK
      OBVIOUS
    <2>1. ASSUME NEW s \in Streams
          PROVE  /\ taken[s] <= Bytes(s) /\ want[s] \in 0..WriteMax
                 /\ cap[s] \in 0..STREAM_WINDOW /\ swin[s] \in 0..STREAM_WINDOW
                 /\ scred[s] \in 0..STREAM_WINDOW
      <3>1. /\ want[s] \in Nat /\ cap[s] \in Nat /\ swin[s] \in Nat /\ scred[s] \in Nat
            /\ InFlight(s) \in Nat
        BY AtStream
      <3>2. Sized(s) /\ Windows(s)
        BY AtStream
      <3>3. cap[s] <= swin[s] /\ swin[s] + scred[s] + InFlight(s) <= STREAM_WINDOW
        BY <3>2 DEF Windows
      <3>4. taken[s] <= Bytes(s) /\ want[s] <= WriteMax
        BY <3>2 DEF Sized
      <3>5. STREAM_WINDOW \in Nat /\ WriteMax \in Nat
        BY StreamAssumption
      <3> QED BY <3>1, <3>3, <3>4, <3>5
    <2>2. /\ want \in [Streams -> 0..WriteMax] /\ cap \in [Streams -> 0..STREAM_WINDOW]
          /\ swin \in [Streams -> 0..STREAM_WINDOW] /\ scred \in [Streams -> 0..STREAM_WINDOW]
      BY <2>1 DEF Inv, Types
    <2>3. cwin \in 0..CONN_WINDOW /\ ccred \in 0..CONN_WINDOW
      <3>1. Cardinality(Total(Streams, Holdings)) \in Nat
        BY FS_CardinalityType DEF Inv, Conn
      <3>2. /\ cwin \in Nat /\ ccred \in Nat /\ CONN_WINDOW \in Nat
            /\ cwin + ccred + Cardinality(Total(Streams, Holdings)) = CONN_WINDOW
        BY Zenon, StreamAssumption DEF Inv, Types, Conn
      <3> QED BY <3>1, <3>2
    <2>4. /\ wr \in [Streams -> {"ready", "blocked", "shut", "failed"}]
          /\ rd \in [Streams -> {"open", "eof", "gone"}] /\ taken \in [Streams -> Nat]
          /\ chunk \in [Streams -> Seq(Nat)] /\ buf \in [Streams -> Seq(Nat)]
          /\ out \in [Streams -> Seq(Nat)]
          /\ wire \in [Streams -> Seq([data : Seq(Nat), end : BOOLEAN])]
      BY DEF Inv, Types, Frames
    <2> QED BY <2>1, <2>2, <2>3, <2>4, Zenon DEF TypeOK, Flags
  <1> QED BY <1>1, StreamInvariant, PTL

\* Every byte is handed out once and in order, the end only after the last byte, and a
\* collected body is within its limit: for H2Send, H2Recv and collect_h2_body, whatever
\* the windows, the buffers and the number of streams.
THEOREM DeliveryIsExact == Spec => []DeliversExactly
  <1>1. Inv => DeliversExactly
    <2> SUFFICES ASSUME Inv, NEW s \in Streams
                 PROVE  /\ out[s] = [i \in 1..Len(out[s]) |-> i] /\ Len(out[s]) <= taken[s]
                        /\ rd[s] = "eof" => fin[s] /\ Len(out[s]) = taken[s]
                        /\ s \in Bodies => Len(out[s]) <= MAX_BODY
      BY DEF DeliversExactly
    <2>1. out[s] \in Seq(Nat) /\ Handed(s)
      BY AtStream
    <2> DEFINE o == out[s]
    <2>2. o = [i \in 1..Len(o) |-> i]
      <3>1. o \in Seq(Nat) /\ Run(o, 0)
        BY <2>1 DEF Handed
      <3> HIDE DEF o
      <3>2. o = [i \in 1..Len(o) |-> o[i]]
        BY <3>1
      <3>3. \A i \in 1..Len(o) : o[i] = i
        BY <3>1 DEF Run
      <3> QED BY <3>2, <3>3
    <2> QED BY <2>1, <2>2 DEF Handed
  <1> QED BY <1>1, StreamInvariant, PTL

\* No window leaks: neither the connection's, whoever fails, nor that of a stream that
\* is read.
THEOREM NoWindowLeaks == Spec => []WindowConserved
  <1>1. Inv => WindowConserved
    <2> SUFFICES ASSUME Inv PROVE WindowConserved
      OBVIOUS
    <2>1. UNION {{s} \X Charged(s) : s \in Streams} = Total(Streams, Holdings)
      BY DEF Total, Holdings
    <2>2. ASSUME NEW s \in Streams, rd[s] = "open"
          PROVE  swin[s] + InFlight(s) + scred[s] = STREAM_WINDOW
      <3>1. swin[s] \in Nat /\ scred[s] \in Nat /\ InFlight(s) \in Nat
        BY AtStream
      <3>2. swin[s] + scred[s] + InFlight(s) = STREAM_WINDOW
        BY <2>2, AtStream DEF Windows
      <3> QED BY <3>1, <3>2
    <2> QED BY <2>1, <2>2 DEF Inv, Conn, WindowConserved
  <1> QED BY <1>1, StreamInvariant, PTL

-----------------------------------------------------------------------------
(* The streams do not wait for each other in a circle.                     *)

\* Capacity is asked for what is to be written, and assigned for what was asked; only a
\* writer that has some to write waits for it; and nothing follows an end that was read.
Asked(s) ==
    /\ cap[s] <= want[s] /\ want[s] <= Len(chunk[s])
    /\ wr[s] = "blocked" => cap[s] = 0 /\ want[s] > 0
    /\ wr[s] = "failed" => want[s] = 0
    /\ rd[s] = "eof" => wr[s] = "shut" /\ wire[s] = <<>>

\* Some step other than that of a source can be taken for the stream: a window update, a
\* frame to take or to discard, bytes to write, capacity to assign.
CanMove(t) ==
    \/ scred[t] > 0
    \/ wire[t] # <<>> /\ (rd[t] = "gone" \/ Reading(t))
    \/ wr[t] = "ready" /\ chunk[t] # <<>>
    \/ want[t] > cap[t] /\ swin[t] > cap[t] /\ cwin > 0

\* While nobody has stopped to read, a writer that waits for capacity does so because
\* something can still move.
NeverStuck ==
    \A s \in Streams :
        wr[s] = "blocked" /\ rd[s] = "open" /\ ~SomeoneStalls =>
            ccred > 0 \/ \E t \in Streams : CanMove(t)

\* What Asked speaks of is left alone.
Still(t) ==
    /\ cap'[t] = cap[t] /\ want'[t] = want[t] /\ chunk'[t] = chunk[t]
    /\ wr'[t] = wr[t] /\ rd'[t] = rd[t] /\ wire'[t] = wire[t]

\* The steps of a writer.
LEMMA AskedWriter ==
    ASSUME Inv, NEW s \in Streams, Asked(s), WriterStep(s) \/ WriterFails(s)
    PROVE  Asked(s)' /\ \A t \in Streams \ {s} : Still(t)
  <1>1. /\ cap[s] \in Nat /\ want[s] \in Nat /\ cap[s] <= want[s]
        /\ cap \in [Streams -> Nat] /\ want \in [Streams -> Nat]
        /\ chunk \in [Streams -> Seq(Nat)] /\ wire \in [Streams -> Seq(Frames)]
        /\ wr \in [Streams -> {"ready", "blocked", "shut", "failed"}]
    BY DEF Inv, Types, Asked
  <1>2. chunk[s] \in Seq(Nat) /\ Len(chunk[s]) \in Nat /\ want[s] <= Len(chunk[s])
    BY AtStream DEF Asked
  <1>3. wr[s] # "shut" => rd[s] # "eof"
    BY DEF Asked
  <1>4. CASE CopierReads(s)
    <2>1. PICK k \in 1..WriteMax :
              chunk' = [chunk EXCEPT ![s] = [i \in 1..k |-> taken[s] + i]]
      BY <1>4 DEF CopierReads
    <2> DEFINE c == [i \in 1..k |-> taken[s] + i]
    <2>2. k \in Nat /\ Len(c) = k
      BY StreamAssumption
    <2>3. chunk' = [chunk EXCEPT ![s] = c]
      BY <2>1
    <2> HIDE DEF c
    <2>4. chunk'[s] = c /\ \A t \in Streams \ {s} : Still(t)
      BY <1>1, <1>4, <2>3 DEF CopierReads, Still, h2Vars, readerVars
    <2>5. /\ cap' = cap /\ want' = want /\ wr' = wr /\ rd' = rd /\ wire' = wire
          /\ chunk[s] = <<>> /\ wr[s] = "ready"
      BY <1>4 DEF CopierReads, h2Vars, readerVars
    <2>6. want[s] = 0
      <3>1. Len(chunk[s]) = 0
        BY <2>5
      <3> QED BY <1>1, <1>2, <3>1
    <2>7. want'[s] <= Len(chunk'[s])
      BY <2>2, <2>4, <2>5, <2>6
    <2> QED BY <1>1, <1>3, <2>4, <2>5, <2>7 DEF Asked
  <1>5. CASE SourceEnds(s)
    <2>1. \A t \in Streams : Still(t)
      BY <1>5 DEF SourceEnds, Still, h2Vars, readerVars
    <2> QED BY <2>1 DEF Asked, Still
  <1>6. CASE PollWrite(s) /\ SendData(s)
    <2> DEFINE c == chunk[s]
               n == Min({cap[s], Len(c)})
               rest == SubSeq(c, n + 1, Len(c))
    <2>1. /\ cap' = [cap EXCEPT ![s] = @ - n] /\ chunk' = [chunk EXCEPT ![s] = rest]
          /\ want' = [want EXCEPT ![s] = IF @ > n THEN @ - n ELSE 0]
          /\ \E f : wire' = [wire EXCEPT ![s] = Append(@, f)]
          /\ wr' = wr /\ rd' = rd /\ wr[s] = "ready"
      BY Zenon, <1>6 DEF PollWrite, SendData, readerVars
    <2>2. n \in Nat /\ n <= cap[s] /\ n <= Len(c)
      BY Zenon, <1>1, <1>2, MinOfTwo
    <2>3. c \in Seq(Nat) /\ Len(c) \in Nat /\ want[s] <= Len(c)
      BY <1>2
    <2> HIDE DEF n
    <2>4. /\ cap'[s] = cap[s] - n /\ want'[s] = IF want[s] > n THEN want[s] - n ELSE 0
          /\ chunk'[s] = rest /\ \A t \in Streams \ {s} : Still(t)
      BY Zenon, <1>1, <2>1 DEF Still
    <2> HIDE DEF c
    <2>5. Len(rest) = Len(c) - n
      BY <2>2, <2>3
    <2> HIDE DEF rest
    <2>6. cap'[s] <= want'[s] /\ want'[s] <= Len(rest)
      BY <1>1, <2>2, <2>3, <2>4, <2>5
    <2> QED BY <1>3, <2>1, <2>4, <2>6 DEF Asked
  <1>7. CASE PollWrite(s) /\ ReserveCapacity(s)
    <2>1. /\ cap[s] = 0 /\ cap' = cap /\ want' = [want EXCEPT ![s] = Len(chunk[s])]
          /\ wr' = [wr EXCEPT ![s] = "blocked"] /\ chunk' = chunk /\ wire' = wire /\ rd' = rd
          /\ wr[s] = "ready" /\ chunk[s] # <<>>
      BY <1>7 DEF PollWrite, ReserveCapacity, readerVars
    <2>2. /\ want'[s] = Len(chunk[s]) /\ wr'[s] = "blocked"
          /\ \A t \in Streams \ {s} : Still(t)
      BY <1>1, <2>1 DEF Still
    <2>3. Len(chunk[s]) > 0
      BY <1>2, <2>1
    <2>4. /\ cap'[s] = 0 /\ cap'[s] <= want'[s] /\ want'[s] > 0
          /\ want'[s] <= Len(chunk'[s])
      BY <1>2, <2>1, <2>2, <2>3
    <2> QED BY <1>3, <2>1, <2>2, <2>4 DEF Asked
  <1>8. CASE PollShutdown(s)
    <2>1. /\ cap' = cap /\ want' = want /\ chunk' = chunk /\ rd' = rd /\ wr[s] = "ready"
          /\ wr' = [wr EXCEPT ![s] = "shut"]
          /\ \E f : wire' = [wire EXCEPT ![s] = Append(@, f)]
      BY Zenon, <1>8 DEF PollShutdown, h2Vars, readerVars
    <2>2. wr'[s] = "shut" /\ \A t \in Streams \ {s} : Still(t)
      BY <1>1, <2>1 DEF Still
    <2> QED BY <1>3, <2>1, <2>2 DEF Asked
  <1>9. CASE WriterFails(s)
    <2>1. /\ cap' = [cap EXCEPT ![s] = 0] /\ want' = [want EXCEPT ![s] = 0]
          /\ chunk' = chunk /\ wire' = wire /\ rd' = rd /\ wr[s] # "shut"
          /\ wr' = [wr EXCEPT ![s] = "failed"]
      BY <1>9 DEF WriterFails, readerVars
    <2>2. /\ cap'[s] = 0 /\ want'[s] = 0 /\ wr'[s] = "failed"
          /\ \A t \in Streams \ {s} : Still(t)
      BY <1>1, <2>1 DEF Still
    <2>3. cap'[s] <= want'[s] /\ want'[s] <= Len(chunk'[s])
      BY <1>2, <2>1, <2>2
    <2> QED BY <1>3, <2>1, <2>2, <2>3 DEF Asked
  <1> QED BY <1>4, <1>5, <1>6, <1>7, <1>8, <1>9 DEF WriterStep, PollWrite

\* The steps of the library.
LEMMA AskedLibrary ==
    ASSUME Inv, NEW s \in Streams, Asked(s),
           AssignCapacity(s) \/ WakeForNothing(s) \/ UpdateStreamWindow(s) \/ Discard(s)
    PROVE  Asked(s)' /\ \A t \in Streams \ {s} : Still(t)
  <1>1. /\ cap[s] \in Nat /\ want[s] \in Nat /\ swin[s] \in Nat /\ cwin \in Nat
        /\ cap \in [Streams -> Nat] /\ wire \in [Streams -> Seq(Frames)]
        /\ wr \in [Streams -> {"ready", "blocked", "shut", "failed"}]
    BY DEF Inv, Types
  <1>2. CASE AssignCapacity(s)
    <2> DEFINE k == Min({want[s] - cap[s], swin[s] - cap[s], cwin})
    <2>1. /\ cap' = [cap EXCEPT ![s] = @ + k] /\ want' = want /\ chunk' = chunk
          /\ wire' = wire /\ rd' = rd /\ want[s] > cap[s]
          /\ wr' = [wr EXCEPT ![s] = IF @ = "blocked" THEN "ready" ELSE @]
      BY <1>2 DEF AssignCapacity, readerVars
    <2>2. k \in Int /\ k <= want[s] - cap[s]
      <3>1. want[s] - cap[s] \in Int /\ swin[s] - cap[s] \in Int /\ cwin \in Int
        BY <1>1
      <3> QED BY Zenon, <3>1, MinOfThree
    <2> HIDE DEF k
    <2>3. /\ cap'[s] = cap[s] + k /\ \A t \in Streams \ {s} : Still(t)
          /\ wr'[s] = IF wr[s] = "blocked" THEN "ready" ELSE wr[s]
      BY <1>1, <2>1 DEF Still
    <2>4. cap'[s] <= want'[s]
      BY <1>1, <2>1, <2>2, <2>3
    <2>5. /\ wr'[s] # "blocked" /\ (wr'[s] = "failed" => wr[s] = "failed")
          /\ (wr[s] = "shut" => wr'[s] = "shut")
      BY <2>3
    <2> QED BY <2>1, <2>3, <2>4, <2>5 DEF Asked
  <1>3. CASE WakeForNothing(s)
    <2>1. /\ cap' = cap /\ want' = want /\ chunk' = chunk /\ wire' = wire /\ rd' = rd
          /\ wr[s] = "blocked" /\ wr' = [wr EXCEPT ![s] = "ready"]
      BY <1>3 DEF WakeForNothing, h2Vars, readerVars
    <2>2. wr'[s] = "ready" /\ \A t \in Streams \ {s} : Still(t)
      BY Zenon, <1>1, <2>1 DEF Still
    <2> QED BY <2>1, <2>2 DEF Asked
  <1>4. CASE UpdateStreamWindow(s)
    <2>1. \A t \in Streams : Still(t)
      BY <1>4 DEF UpdateStreamWindow, Still, writerVars, readerVars
    <2> QED BY Zenon, <2>1 DEF Asked, Still
  <1>5. CASE Discard(s)
    <2>1. /\ cap' = cap /\ want' = want /\ chunk' = chunk /\ wr' = wr /\ rd' = rd
          /\ rd[s] = "gone" /\ wire' = [wire EXCEPT ![s] = Tail(@)]
      BY <1>5 DEF Discard, writerVars, readerVars
    <2>2. \A t \in Streams \ {s} : Still(t)
      BY <1>1, <2>1 DEF Still
    <2> QED BY <2>1, <2>2 DEF Asked
  <1> QED BY <1>2, <1>3, <1>4, <1>5

\* The steps of a reader: an end that is read leaves nothing behind it.
LEMMA AskedReader ==
    ASSUME Inv, NEW s \in Streams, Asked(s),
           ReaderStep(s) \/ ReaderGone(s) \/ ReaderStalls(s)
    PROVE  Asked(s)' /\ \A t \in Streams \ {s} : Still(t)
  <1>1. /\ wire \in [Streams -> Seq(Frames)] /\ rd \in [Streams -> {"open", "eof", "gone"}]
        /\ wire[s] \in Seq(Frames)
    BY DEF Inv, Types
  <1>2. CASE rd[s] = "open" /\ ReadEnd(s) /\ UNCHANGED writerVars
    <2>1. /\ wire[s] # <<>> /\ Head(wire[s]).end /\ wire' = [wire EXCEPT ![s] = Tail(@)]
          /\ rd' = [rd EXCEPT ![s] = "eof"]
          /\ cap' = cap /\ want' = want /\ chunk' = chunk /\ wr' = wr
      BY <1>2 DEF ReadEnd, writerVars, h2Vars
    <2>2. /\ wire'[s] = Tail(wire[s]) /\ rd'[s] = "eof"
          /\ \A t \in Streams \ {s} : Still(t)
      BY Zenon, <1>1, <2>1 DEF Still
    <2>3. Len(wire[s]) = 1 /\ wr[s] = "shut"
      BY <1>1, <2>1, AtStream, EndsTaken DEF Written
    <2>4. Tail(wire[s]) = <<>>
      <3>1. ASSUME NEW q \in Seq(Frames), Len(q) = 1 PROVE Tail(q) = <<>>
        <4>1. Tail(q) \in Seq(Frames) /\ Len(Tail(q)) = 0
          BY <3>1
        <4>2. ASSUME NEW r \in Seq(Frames), Len(r) = 0 PROVE r = <<>>
          BY <4>2
        <4> QED BY Zenon, <4>1, <4>2
      <3> QED BY <1>1, <2>3, <3>1
    <2> QED BY Zenon, <2>1, <2>2, <2>3, <2>4 DEF Asked
  <1>3. CASE /\ rd[s] = "open" /\ UNCHANGED writerVars
             /\ \E room \in 1..ReadMax : ReadBuffered(s, room)
    <2>1. \A t \in Streams : Still(t)
      BY <1>3 DEF ReadBuffered, Still, writerVars, h2Vars
    <2> QED BY Zenon, <2>1 DEF Asked, Still
  <1>4. CASE /\ rd[s] = "open" /\ UNCHANGED writerVars
             /\ \/ \E room \in 1..ReadMax : ReadFrame(s, room)
                \/ CollectChunk(s)
    <2>1. /\ wire' = [wire EXCEPT ![s] = Tail(@)] /\ cap' = cap /\ want' = want
          /\ chunk' = chunk /\ wr' = wr /\ (rd' = rd \/ rd' = [rd EXCEPT ![s] = "gone"])
      BY Zenon, <1>4 DEF ReadFrame, CollectChunk, Release, writerVars
    <2>2. rd'[s] # "eof" /\ \A t \in Streams \ {s} : Still(t)
      BY <1>1, <1>4, <2>1 DEF Still
    <2> QED BY <2>1, <2>2 DEF Asked
  <1>5. CASE ReaderGone(s)
    <2>1. /\ cap' = cap /\ want' = want /\ chunk' = chunk /\ wr' = wr /\ wire' = wire
          /\ rd' = [rd EXCEPT ![s] = "gone"]
      BY <1>5 DEF ReaderGone, writerVars, h2Vars
    <2>2. rd'[s] = "gone" /\ \A t \in Streams \ {s} : Still(t)
      BY Zenon, <1>1, <2>1 DEF Still
    <2> QED BY <2>1, <2>2 DEF Asked
  <1>6. CASE ReaderStalls(s)
    <2>1. \A t \in Streams : Still(t)
      BY Zenon, <1>6 DEF ReaderStalls, Still, writerVars, h2Vars, readerVars
    <2> QED BY <2>1 DEF Asked, Still
  <1>7. CASE ReaderStep(s)
    <2>1. /\ rd[s] = "open" /\ UNCHANGED writerVars
          /\ \/ ReadEnd(s) \/ CollectChunk(s)
             \/ \E room \in 1..ReadMax : ReadBuffered(s, room) \/ ReadFrame(s, room)
      BY <1>7 DEF ReaderStep, PollRead, CollectBody, Reading
    <2> QED BY <1>2, <1>3, <1>4, <2>1
  <1> QED BY <1>5, <1>6, <1>7

\* Capacity is asked for before it is waited for, and never held by a stream that has
\* nothing to write.
THEOREM CapacityIsAsked == Spec => [](\A s \in Streams : Asked(s))
  <1> DEFINE All == \A s \in Streams : Asked(s)
  <1>1. Init => All
    <2> SUFFICES ASSUME Init, NEW s \in Streams PROVE Asked(s)
      OBVIOUS
    <2>1. cap[s] = 0 /\ want[s] = 0 /\ chunk[s] = <<>> /\ wr[s] = "ready" /\ rd[s] = "open"
      BY DEF Init
    <2>2. Len(<<>>) = 0 /\ 0 <= 0
      OBVIOUS
    <2> QED BY <2>1, <2>2 DEF Asked
  <1>2. Inv /\ All /\ [Next]_vars => All'
    <2> SUFFICES ASSUME Inv, All, [Next]_vars PROVE All'
      OBVIOUS
    <2>1. ASSUME NEW t \in Streams, Still(t) PROVE Asked(t)'
      BY <2>1 DEF Asked, Still
    <2>2. CASE UpdateConnWindow \/ UNCHANGED vars
      <3>1. \A t \in Streams : Still(t)
        BY <2>2 DEF UpdateConnWindow, Still, vars, writerVars, h2Vars, readerVars
      <3> QED BY <2>1, <3>1
    <2>3. ASSUME NEW s \in Streams,
                 \/ WriterStep(s) \/ WriterFails(s)
                 \/ AssignCapacity(s) \/ WakeForNothing(s) \/ UpdateStreamWindow(s) \/ Discard(s)
                 \/ ReaderStep(s) \/ ReaderGone(s) \/ ReaderStalls(s)
          PROVE  All'
      <3>1. Asked(s)' /\ \A t \in Streams \ {s} : Still(t)
        BY <2>3, AskedWriter, AskedLibrary, AskedReader
      <3> QED BY <2>1, <3>1
    <2> QED BY <2>2, <2>3 DEF Next
  <1> HIDE DEF All
  <1>3. Spec => []All
    BY <1>1, <1>2, StreamInvariant, PTL DEF Spec
  <1> QED BY <1>3 DEF All

\* The flow control never deadlocks, however many streams share the connection and
\* however small its window: the safety part of WriteCompletes.
THEOREM FlowNeverStuck == Spec => []NeverStuck
  <1>1. Flags /\ Inv /\ (\A s \in Streams : Asked(s)) => NeverStuck
    <2> SUFFICES ASSUME Flags, Inv, \A t \in Streams : Asked(t),
                        NEW s \in Streams, wr[s] = "blocked", rd[s] = "open", ~SomeoneStalls,
                        ~(ccred > 0), \A t \in Streams : ~CanMove(t)
                 PROVE  FALSE
      BY DEF NeverStuck
    <2>1. ccred = 0
      BY DEF Inv, Types
    <2>2. ASSUME NEW t \in Streams PROVE wire[t] = <<>> /\ cap[t] = 0 /\ scred[t] = 0
      <3>1. /\ rd[t] \in {"open", "eof", "gone"} /\ scred[t] \in Nat
            /\ wr[t] \in {"ready", "blocked", "shut", "failed"}
        BY AtStream
      <3>2. rd[t] = "open" => Reading(t)
        BY DEF SomeoneStalls, Reading
      <3>3. wire[t] = <<>>
        BY <3>1, <3>2 DEF Asked, CanMove
      <3>4. scred[t] = 0
        BY <3>1 DEF CanMove
      <3>5. chunk[t] = <<>> => cap[t] = 0
        <4>1. cap[t] \in Nat /\ want[t] \in Nat
          BY AtStream
        <4>2. cap[t] <= want[t] /\ want[t] <= Len(chunk[t])
          BY DEF Asked
        <4> QED BY <4>1, <4>2
      <3>6. cap[t] = 0
        <4>1. CASE wr[t] = "ready"
          BY <3>5, <4>1 DEF CanMove
        <4>2. CASE wr[t] = "blocked"
          BY <4>2 DEF Asked
        <4>3. CASE wr[t] = "shut"
          BY <3>5, <4>3, AtStream DEF Written
        <4>4. CASE wr[t] = "failed"
          <5>1. cap[t] \in Nat /\ want[t] = 0 /\ cap[t] <= want[t]
            BY <4>4, AtStream DEF Asked
          <5> QED BY <5>1
        <4> QED BY <3>1, <4>1, <4>2, <4>3, <4>4
      <3> QED BY <3>3, <3>4, <3>6
    <2>3. BytesOf(<<>>) = {}
      BY DEF BytesOf
    <2>4. Total(Streams, Holdings) = {}
      <3>1. \A t \in Streams : Holdings[t] = {}
        BY <2>2, <2>3 DEF Holdings, Charged
      <3> HIDE DEF Holdings
      <3> QED BY <3>1 DEF Total
    <2>5. cwin > 0
      <3>1. Cardinality({}) = 0
        BY FS_EmptySet
      <3>2. cwin + ccred + Cardinality(Total(Streams, Holdings)) = CONN_WINDOW /\ cwin \in Nat
        BY DEF Inv, Conn, Types
      <3>3. CONN_WINDOW \in Nat \ {0}
        BY Zenon, StreamAssumption
      <3> QED BY <2>1, <2>4, <3>1, <3>2, <3>3
    <2>6. swin[s] > 0
      <3>1. InFlight(s) = 0
        BY Zenon, <2>2, <2>3, FS_EmptySet DEF InFlight
      <3>2. swin[s] + scred[s] + InFlight(s) = STREAM_WINDOW /\ swin[s] \in Nat
        BY AtStream DEF Windows
      <3>3. STREAM_WINDOW \in Nat \ {0}
        BY StreamAssumption
      <3> QED BY <2>2, <3>1, <3>2, <3>3
    <2>7. want[s] > 0 /\ cap[s] = 0
      BY DEF Asked
    <2> QED BY <2>5, <2>6, <2>7 DEF CanMove
  <1> QED BY <1>1, CapacityIsAsked, StreamInvariant, PTL

==============================================================================
