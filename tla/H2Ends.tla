------------------------------- MODULE H2Ends -------------------------------
(***************************************************************************)
(* Every step of the writing end of a stream and of the reading end of a     *)
(* pipe keeps the inductive invariant of H2Stream.                           *)
(***************************************************************************)
EXTENDS H2Invariant

-----------------------------------------------------------------------------
(* The steps of the writing end.                                           *)

\* The copier takes the next bytes of its source.
LEMMA CopierReadsStep ==
    ASSUME Inv, NEW s \in Streams, CopierReads(s)
    PROVE  Inv'
  <1>1. PICK k \in 1..WriteMax :
            /\ taken[s] + k <= Bytes(s)
            /\ chunk' = [chunk EXCEPT ![s] = [i \in 1..k |-> taken[s] + i]]
            /\ taken' = [taken EXCEPT ![s] = @ + k]
    BY Zenon DEF CopierReads
  <1> DEFINE c == [i \in 1..k |-> taken[s] + i]
  <1>2. WriteMax \in Nat /\ k \in Nat /\ k <= WriteMax /\ taken[s] \in Nat
    BY StreamAssumption, AtStream
  <1>3. c \in Seq(Nat) /\ Len(c) = k /\ Run(c, taken[s])
    <2>1. \A i \in 1..k : taken[s] + i \in Nat
      BY <1>2
    <2>2. c \in Seq(Nat) /\ Len(c) = k
      BY <1>2, <2>1
    <2>3. \A i \in 1..k : c[i] = taken[s] + i
      OBVIOUS
    <2> HIDE DEF c
    <2> QED BY <2>2, <2>3 DEF Run
  <1>4. chunk' = [chunk EXCEPT ![s] = c]
    BY <1>1
  <1> HIDE DEF c
  <1>5. Types'
    <2>1. chunk' \in [Streams -> Seq(Nat)]
      BY <1>3, <1>4 DEF Inv, Types
    <2>2. taken' \in [Streams -> Nat]
      BY <1>1, <1>2 DEF Inv, Types
    <2> QED BY Zenon, <2>1, <2>2 DEF Inv, Types, CopierReads, h2Vars, readerVars
  <1>6. \A t \in Streams \ {s} : Untouched(t)
    BY <1>1 DEF Inv, Types, CopierReads, Untouched, h2Vars, readerVars
  <1>7. /\ chunk'[s] = c /\ taken'[s] = taken[s] + k /\ chunk[s] = <<>> /\ wr[s] = "ready"
        /\ ~fin[s] /\ wr' = wr /\ fin' = fin /\ want' = want /\ cap' = cap /\ swin' = swin
        /\ scred' = scred /\ wire' = wire /\ buf' = buf /\ out' = out /\ rd' = rd
        /\ cwin' = cwin /\ ccred' = ccred
    BY <1>1, <1>4 DEF Inv, Types, CopierReads, h2Vars, readerVars
  <1>8. Sized(s)'
    BY <1>1, <1>2, <1>3, <1>7, AtStream DEF Sized, Bytes
  <1>9. Written(s)'
    BY <1>2, <1>3, <1>7, AtStream DEF Written
  <1>10. Handed(s)'
    <2>1. taken'[s] - Len(chunk'[s]) = taken[s] - Len(chunk[s])
      <3>1. Len(chunk[s]) = 0 /\ Len(chunk'[s]) = k
        BY <1>3, <1>7
      <3> QED BY <1>2, <1>7, <3>1
    <2>2. Len(out[s]) <= taken'[s]
      <3>1. Len(out[s]) \in Nat /\ Handed(s)
        BY AtStream
      <3> QED BY <1>2, <1>7, <3>1 DEF Handed
    <2> QED BY Zenon, <1>7, <2>1, <2>2, AtStream DEF Handed
  <1>11. Windows(s)'
    BY <1>7, AtStream DEF Windows, InFlight
  <1>12. cwin' + ccred' + cap'[s] + InFlight(s)' = cwin + ccred + cap[s] + InFlight(s)
    BY <1>7 DEF InFlight
  <1> QED BY <1>5, <1>6, <1>8, <1>9, <1>10, <1>11, <1>12, OneStream DEF StreamInv

\* The source ends.
LEMMA SourceEndsStep ==
    ASSUME Inv, Flags, NEW s \in Streams, SourceEnds(s)
    PROVE  Inv'
  <1>1. /\ fin'[s] = TRUE /\ \A t \in Streams \ {s} : fin'[t] = fin[t]
        /\ ~fin[s]
    BY DEF Flags, SourceEnds
  <1>2. /\ wr' = wr /\ taken' = taken /\ chunk' = chunk /\ want' = want /\ cap' = cap
        /\ swin' = swin /\ scred' = scred /\ wire' = wire /\ buf' = buf /\ out' = out
        /\ rd' = rd /\ cwin' = cwin /\ ccred' = ccred
    BY DEF SourceEnds, h2Vars, readerVars
  <1>3. Types'
    BY <1>2 DEF Inv, Types
  <1>4. \A t \in Streams \ {s} : Untouched(t)
    BY <1>1, <1>2 DEF Untouched
  <1>5. Sized(s)'
    BY <1>2, AtStream DEF Sized
  <1>6. Written(s)'
    BY <1>1, <1>2, AtStream DEF Written
  <1>7. Handed(s)'
    BY Zenon, <1>1, <1>2, AtStream DEF Handed
  <1>8. Windows(s)'
    BY <1>2, AtStream DEF Windows, InFlight
  <1>9. cwin' + ccred' + cap'[s] + InFlight(s)' = cwin + ccred + cap[s] + InFlight(s)
    BY <1>2 DEF InFlight
  <1> QED BY <1>3, <1>4, <1>5, <1>6, <1>7, <1>8, <1>9, OneStream DEF StreamInv

\* What there is capacity for is sent: it leaves the chunk and the windows, and is on
\* the wire.
LEMMA SendDataStep ==
    ASSUME Inv, NEW s \in Streams, PollWrite(s), SendData(s)
    PROVE  Inv'
  <1> DEFINE c == chunk[s]
             n == Min({cap[s], Len(c)})
             sent == SubSeq(c, 1, n)
             rest == SubSeq(c, n + 1, Len(c))
             f == Frame(sent, FALSE)
             lo == taken[s] - Len(c)
  <1>1. /\ cap[s] \in Nat /\ swin[s] \in Nat /\ taken[s] \in Nat /\ want[s] \in Nat
        /\ InFlight(s) \in Nat /\ scred[s] \in Nat /\ cwin \in Nat /\ ccred \in Nat
    BY AtStream
  <1>2. /\ c \in Seq(Nat) /\ Len(c) \in Nat /\ wire[s] \in Seq(Frames)
        /\ Sized(s) /\ Written(s) /\ Handed(s) /\ Windows(s)
    BY AtStream
  <1>3. n \in Nat /\ n <= cap[s] /\ n <= Len(c)
    BY Zenon, <1>1, <1>2, MinOfTwo
  <1>4. /\ wire' = [wire EXCEPT ![s] = Append(@, f)] /\ chunk' = [chunk EXCEPT ![s] = rest]
        /\ cap' = [cap EXCEPT ![s] = @ - n] /\ swin' = [swin EXCEPT ![s] = @ - n]
        /\ want' = [want EXCEPT ![s] = IF @ > n THEN @ - n ELSE 0]
        /\ wr' = wr /\ fin' = fin /\ taken' = taken /\ cwin' = cwin /\ scred' = scred
        /\ ccred' = ccred /\ buf' = buf /\ out' = out /\ rd' = rd /\ wr[s] = "ready"
    BY DEF SendData, PollWrite, readerVars
  <1>5. lo \in Nat /\ lo + Len(c) = taken[s] /\ Run(c, lo)
    BY <1>1, <1>2 DEF Written
  <1> HIDE DEF n
  <1>6. /\ sent \in Seq(Nat) /\ Len(sent) = n /\ Run(sent, lo)
        /\ rest \in Seq(Nat) /\ Len(rest) = Len(c) - n /\ Run(rest, lo + n)
    <2>1. n \in 0..Len(c)
      BY <1>2, <1>3
    <2> QED BY Zenon, <1>2, <1>5, <2>1, RunCut
  <1> HIDE DEF sent, rest
  <1>7. f \in Frames /\ f.data = sent /\ ~f.end
    BY <1>6 DEF Frame, Frames
  <1> HIDE DEF f
  <1>8. /\ wire'[s] = Append(wire[s], f) /\ chunk'[s] = rest
        /\ cap'[s] = cap[s] - n /\ swin'[s] = swin[s] - n
        /\ want'[s] = IF want[s] > n THEN want[s] - n ELSE 0
    BY <1>4 DEF Inv, Types
  <1>9. /\ wr'[s] = "ready" /\ taken'[s] = taken[s] /\ scred'[s] = scred[s]
        /\ cwin' = cwin /\ ccred' = ccred
    BY <1>4
  <1>10. n <= swin[s] /\ cap[s] <= swin[s]
    BY <1>1, <1>2, <1>3 DEF Windows
  <1>11. Types'
    <2>1. wire' \in [Streams -> Seq(Frames)]
      BY <1>2, <1>4, <1>7 DEF Inv, Types
    <2>2. chunk' \in [Streams -> Seq(Nat)]
      BY <1>4, <1>6 DEF Inv, Types
    <2>3. cap[s] - n \in Nat /\ swin[s] - n \in Nat /\ (want[s] > n => want[s] - n \in Nat)
      BY <1>1, <1>3, <1>10
    <2>4. /\ cap' \in [Streams -> Nat] /\ swin' \in [Streams -> Nat]
          /\ want' \in [Streams -> Nat]
      BY <1>4, <2>3 DEF Inv, Types
    <2> QED BY Zenon, <1>4, <2>1, <2>2, <2>4 DEF Inv, Types
  <1>12. \A t \in Streams \ {s} : Untouched(t)
    BY <1>4 DEF Inv, Types, Untouched
  <1>13. Len(c) \in Nat
    BY <1>2
  <1> HIDE DEF c, lo
  <1>14. Sized(s)'
    <2>1. taken[s] <= Bytes(s) /\ Len(c) <= WriteMax /\ want[s] <= WriteMax
      BY <1>2 DEF Sized, c
    <2>2. WriteMax \in Nat
      BY StreamAssumption
    <2>3. Len(rest) <= WriteMax
      BY <1>3, <1>6, <1>13, <2>1, <2>2
    <2>4. want'[s] <= WriteMax
      BY <1>1, <1>3, <1>8, <2>1, <2>2
    <2> QED BY <1>8, <1>9, <2>1, <2>3, <2>4 DEF Sized, Bytes
  <1>15. Len(chunk'[s]) <= taken'[s] /\ taken'[s] - Len(chunk'[s]) = lo + n
    <2>1. Len(rest) <= taken[s] /\ taken[s] - Len(rest) = lo + n
      BY <1>1, <1>3, <1>5, <1>6, <1>13
    <2> QED BY <1>8, <1>9, <2>1
  <1>16. Written(s)'
    <2>1. Ends(wire'[s], wr'[s])
      BY <1>2, <1>4, <1>7, <1>8, EndsData DEF Written
    <2>2. Run(chunk'[s], taken'[s] - Len(chunk'[s]))
      BY <1>6, <1>8, <1>15
    <2> QED BY <1>9, <1>15, <2>1, <2>2 DEF Written
  <1>17. Handed(s)'
    <2>1. ASSUME rd[s] = "open"
          PROVE  Covers(wire'[s], Len(out[s]) + Len(buf[s]), lo + n)
      <3>1. Covers(wire[s], Len(out[s]) + Len(buf[s]), lo)
        BY Zenon, <1>2, <2>1 DEF Handed, lo, c
      <3>2. Len(out[s]) + Len(buf[s]) \in Nat
        BY Zenon, AtStream, LengthSum
      <3> QED BY Zenon, <1>2, <1>5, <1>6, <1>7, <1>8, <3>1, <3>2, CoversSent
    <2> QED BY Zenon, <1>2, <1>4, <1>15, <2>1 DEF Handed
  <1>18. IsFiniteSet(BytesOf(wire'[s])) /\ InFlight(s)' = InFlight(s) + n
    BY <1>2, <1>6, <1>7, <1>8, BytesSent DEF Windows, InFlight
  <1>19. Windows(s)'
    <2>1. cap'[s] <= swin'[s]
      BY <1>1, <1>3, <1>8, <1>10
    <2>2. swin'[s] + scred'[s] + InFlight(s)' = swin[s] + scred[s] + InFlight(s)
      BY <1>1, <1>3, <1>8, <1>9, <1>18
    <2> QED BY <1>2, <1>4, <1>18, <2>1, <2>2 DEF Windows
  <1>20. cwin' + ccred' + cap'[s] + InFlight(s)' = cwin + ccred + cap[s] + InFlight(s)
    BY <1>1, <1>3, <1>8, <1>9, <1>18
  <1> QED BY <1>11, <1>12, <1>14, <1>16, <1>17, <1>19, <1>20, OneStream DEF StreamInv

\* Capacity is asked for.
LEMMA ReserveCapacityStep ==
    ASSUME Inv, NEW s \in Streams, PollWrite(s), ReserveCapacity(s)
    PROVE  Inv'
  <1>1. /\ wr' = [wr EXCEPT ![s] = "blocked"] /\ want' = [want EXCEPT ![s] = Len(chunk[s])]
        /\ taken' = taken /\ chunk' = chunk /\ fin' = fin /\ cap' = cap /\ swin' = swin
        /\ scred' = scred /\ wire' = wire /\ buf' = buf /\ out' = out /\ rd' = rd
        /\ cwin' = cwin /\ ccred' = ccred /\ wr[s] = "ready"
    BY DEF ReserveCapacity, PollWrite, readerVars
  <1>2. /\ Len(chunk[s]) \in Nat
        /\ Sized(s) /\ Written(s) /\ Handed(s) /\ Windows(s)
    BY AtStream
  <1>3. Types'
    BY <1>1, <1>2 DEF Inv, Types
  <1>4. \A t \in Streams \ {s} : Untouched(t)
    BY <1>1 DEF Inv, Types, Untouched
  <1>5. wr'[s] = "blocked" /\ want'[s] = Len(chunk[s])
    BY <1>1 DEF Inv, Types
  <1>6. Sized(s)'
    BY <1>1, <1>2, <1>5 DEF Sized
  <1>7. Written(s)'
    <2>1. Ends(wire[s], "blocked")
      BY <1>1, <1>2, EndsAny DEF Written
    <2> QED BY <1>1, <1>2, <1>5, <2>1 DEF Written
  <1>8. Handed(s)'
    BY Zenon, <1>1, <1>2 DEF Handed
  <1>9. Windows(s)'
    BY <1>1, <1>2 DEF Windows, InFlight
  <1>10. cwin' + ccred' + cap'[s] + InFlight(s)' = cwin + ccred + cap[s] + InFlight(s)
    BY <1>1 DEF InFlight
  <1> QED BY <1>3, <1>4, <1>6, <1>7, <1>8, <1>9, <1>10, OneStream DEF StreamInv

\* The end is sent, behind everything that was written.
LEMMA PollShutdownStep ==
    ASSUME Inv, NEW s \in Streams, PollShutdown(s)
    PROVE  Inv'
  <1> DEFINE f == Frame(<<>>, TRUE)
  <1>1. /\ wire' = [wire EXCEPT ![s] = Append(@, f)] /\ wr' = [wr EXCEPT ![s] = "shut"]
        /\ taken' = taken /\ chunk' = chunk /\ fin' = fin /\ want' = want /\ cap' = cap
        /\ swin' = swin /\ scred' = scred /\ buf' = buf /\ out' = out /\ rd' = rd
        /\ cwin' = cwin /\ ccred' = ccred
    BY DEF PollShutdown, h2Vars, readerVars
  <1>2. /\ wire[s] \in Seq(Frames) /\ taken[s] \in Nat /\ InFlight(s) \in Nat
        /\ Sized(s) /\ Written(s) /\ Handed(s) /\ Windows(s)
    BY AtStream
  <1>3. wr[s] = "ready" /\ chunk[s] = <<>> /\ fin[s]
    BY DEF PollShutdown
  <1>4. f \in Frames /\ f.data = <<>> /\ Len(f.data) = 0
    BY DEF Frame, Frames
  <1> HIDE DEF f
  <1>5. Types'
    <2>1. Append(wire[s], f) \in Seq(Frames)
      BY <1>2, <1>4
    <2> QED BY <1>1, <2>1 DEF Inv, Types
  <1>6. \A t \in Streams \ {s} : Untouched(t)
    BY <1>1 DEF Inv, Types, Untouched
  <1>7. wr'[s] = "shut" /\ wire'[s] = Append(wire[s], f)
    BY <1>1 DEF Inv, Types
  <1>8. Sized(s)'
    BY <1>1, <1>2 DEF Sized
  <1>9. Written(s)'
    <2>1. Ends(wire'[s], "shut")
      BY <1>2, <1>3, <1>4, <1>7, EndsShut DEF Written
    <2> QED BY <1>1, <1>2, <1>3, <1>7, <2>1 DEF Written
  <1>10. Handed(s)'
    <2>1. ASSUME rd[s] = "open"
          PROVE  Covers(wire'[s], Len(out[s]) + Len(buf[s]), taken[s] - Len(chunk[s]))
      <3> DEFINE lo == Len(out[s]) + Len(buf[s])
                 hi == taken[s] - Len(chunk[s])
      <3>1. Covers(wire[s], lo, hi)
        BY Zenon, <1>2, <2>1 DEF Handed
      <3>2. lo \in Nat
        BY Zenon, AtStream, LengthSum
      <3>3. hi \in Nat
        BY <1>2, <1>3
      <3>4. Run(f.data, hi)
        BY <1>4 DEF Run
      <3> HIDE DEF lo, hi
      <3>5. Covers(Append(wire[s], f), lo, hi + Len(f.data))
        BY <1>2, <1>4, <3>1, <3>2, <3>3, <3>4, CoversSent
      <3>6. hi + Len(f.data) = hi
        BY <1>4, <3>3
      <3>7. Covers(Append(wire[s], f), lo, hi)
        BY <3>5, <3>6
      <3> QED BY Zenon, <1>7, <3>7 DEF lo, hi
    <2> QED BY Zenon, <1>1, <1>2, <2>1 DEF Handed
  <1>11. IsFiniteSet(BytesOf(wire'[s])) /\ InFlight(s)' = InFlight(s)
    BY <1>2, <1>4, <1>7, BytesSent DEF Windows, InFlight
  <1>12. Windows(s)'
    BY <1>1, <1>2, <1>11 DEF Windows
  <1>13. cwin' + ccred' + cap'[s] + InFlight(s)' = cwin + ccred + cap[s] + InFlight(s)
    BY <1>1, <1>11
  <1> QED BY <1>5, <1>6, <1>8, <1>9, <1>10, <1>12, <1>13, OneStream DEF StreamInv

\* The capacity of a stream that is reset goes back to the connection.
LEMMA WriterFailsStep ==
    ASSUME Inv, NEW s \in Streams, WriterFails(s)
    PROVE  Inv'
  <1>1. /\ wr' = [wr EXCEPT ![s] = "failed"] /\ cwin' = cwin + cap[s]
        /\ cap' = [cap EXCEPT ![s] = 0] /\ want' = [want EXCEPT ![s] = 0]
        /\ taken' = taken /\ chunk' = chunk /\ fin' = fin /\ swin' = swin
        /\ scred' = scred /\ wire' = wire /\ buf' = buf /\ out' = out /\ rd' = rd
        /\ ccred' = ccred /\ wr[s] # "shut"
    BY DEF WriterFails, readerVars
  <1>2. cap[s] \in Nat /\ swin[s] \in Nat /\ cwin \in Nat /\ ccred \in Nat /\ InFlight(s) \in Nat
    BY AtStream
  <1>3. Sized(s) /\ Written(s) /\ Handed(s) /\ Windows(s)
    BY AtStream
  <1>4. Types'
    <2>1. cwin' \in Nat
      BY <1>1, <1>2
    <2> QED BY Zenon, <1>1, <2>1 DEF Inv, Types
  <1>5. \A t \in Streams \ {s} : Untouched(t)
    BY <1>1 DEF Inv, Types, Untouched
  <1>6. wr'[s] = "failed" /\ want'[s] = 0 /\ cap'[s] = 0
    BY <1>1 DEF Inv, Types
  <1>7. Sized(s)'
    <2>1. 0 <= WriteMax
      BY StreamAssumption
    <2> QED BY <1>1, <1>3, <1>6, <2>1 DEF Sized
  <1>8. Written(s)'
    <2>1. Ends(wire[s], "failed")
      BY <1>1, <1>3, EndsAny DEF Written
    <2> QED BY <1>1, <1>3, <1>6, <2>1 DEF Written
  <1>9. Handed(s)'
    BY Zenon, <1>1, <1>3 DEF Handed
  <1>10. Windows(s)'
    <2>1. cap'[s] <= swin'[s]
      BY <1>1, <1>2, <1>6
    <2> QED BY <1>1, <1>3, <2>1 DEF Windows, InFlight
  <1>11. cwin' + ccred' + cap'[s] + InFlight(s)' = cwin + ccred + cap[s] + InFlight(s)
    <2>1. InFlight(s)' = InFlight(s)
      BY <1>1 DEF InFlight
    <2> QED BY <1>1, <1>2, <1>6, <2>1
  <1> QED BY <1>4, <1>5, <1>7, <1>8, <1>9, <1>10, <1>11, OneStream DEF StreamInv

-----------------------------------------------------------------------------
(* The steps of the reading end.                                           *)

\* The frame that a reader takes goes on where it stopped; an end frame means that it
\* has everything.
LEMMA FirstFrame ==
    ASSUME Inv, NEW s \in Streams, wire[s] # <<>>
    PROVE  LET f == Head(wire[s])
               lo == Len(out[s]) + Len(buf[s])
               hi == taken[s] - Len(chunk[s]) IN
           /\ f.data \in Seq(Nat) /\ Len(f.data) \in Nat /\ Tail(wire[s]) \in Seq(Frames)
           /\ lo \in Nat /\ hi \in Nat /\ hi <= taken[s]
           /\ IsFiniteSet(BytesOf(Tail(wire[s])))
           /\ Cardinality(BytesOf(Tail(wire[s]))) \in Nat
           /\ InFlight(s) = Cardinality(BytesOf(Tail(wire[s]))) + Len(f.data)
           /\ Ends(Tail(wire[s]), wr[s])
           /\ rd[s] = "open" =>
                /\ Run(f.data, lo) /\ lo + Len(f.data) <= hi
                /\ Covers(Tail(wire[s]), lo + Len(f.data), hi)
           /\ f.end => Len(f.data) = 0 /\ fin[s] /\ (rd[s] = "open" => lo = taken[s])
  <1> DEFINE f == Head(wire[s])
             r == Tail(wire[s])
             lo == Len(out[s]) + Len(buf[s])
             hi == taken[s] - Len(chunk[s])
  <1>1. /\ wire[s] \in Seq(Frames) /\ taken[s] \in Nat
        /\ Written(s) /\ Handed(s) /\ Windows(s)
    BY AtStream
  <1>2. f \in Frames /\ r \in Seq(Frames)
    BY <1>1
  <1>3. f.data \in Seq(Nat) /\ Len(f.data) \in Nat
    BY <1>2 DEF Frames
  <1>4. lo \in Nat
    BY Zenon, AtStream, LengthSum
  <1>5. hi \in Nat /\ hi <= taken[s]
    <2> DEFINE c == Len(chunk[s])
    <2>1. c \in Nat /\ c <= taken[s]
      BY <1>1, AtStream DEF Written
    <2> HIDE DEF c
    <2>2. taken[s] - c \in Nat /\ taken[s] - c <= taken[s]
      BY <1>1, <2>1
    <2> QED BY <2>2 DEF c
  <1>6. /\ IsFiniteSet(BytesOf(r)) /\ InFlight(s) = Cardinality(BytesOf(r)) + Len(f.data)
    BY <1>1, BytesTaken DEF Windows, InFlight
  <1>7. Cardinality(BytesOf(r)) \in Nat
    BY <1>6, FS_CardinalityType
  <1>8. /\ Ends(r, wr[s])
        /\ f.end => Len(wire[s]) = 1 /\ f.data = <<>> /\ wr[s] = "shut"
    BY <1>1, EndsTaken DEF Written
  <1>9. ASSUME rd[s] = "open"
        PROVE  /\ Run(f.data, lo) /\ lo + Len(f.data) <= hi
               /\ Covers(r, lo + Len(f.data), hi)
               /\ Len(wire[s]) = 1 => lo + Len(f.data) = hi
    <2>1. Covers(wire[s], lo, hi)
      BY Zenon, <1>1, <1>9 DEF Handed
    <2> HIDE DEF lo, hi
    <2> QED BY <1>1, <1>4, <1>5, <2>1, CoversTaken
  <1>10. ASSUME f.end
         PROVE  Len(f.data) = 0 /\ fin[s] /\ (rd[s] = "open" => lo = taken[s])
    <2>1. Len(wire[s]) = 1 /\ Len(f.data) = 0 /\ fin[s] /\ chunk[s] = <<>>
      BY <1>1, <1>8, <1>10 DEF Written
    <2>2. hi = taken[s]
      BY <1>1, <2>1
    <2> HIDE DEF lo, hi
    <2>3. rd[s] = "open" => lo = taken[s]
      BY <1>4, <1>9, <2>1, <2>2
    <2> QED BY <2>1, <2>3
  <1> QED BY Zenon, <1>2, <1>3, <1>4, <1>5, <1>6, <1>7, <1>8, <1>9, <1>10

\* The end is reported.
LEMMA ReadEndStep ==
    ASSUME Inv, NEW s \in Streams, rd[s] = "open", ReadEnd(s), UNCHANGED writerVars
    PROVE  Inv'
  <1> DEFINE f == Head(wire[s])
  <1>1. /\ wire[s] # <<>> /\ f.end /\ buf[s] = <<>>
        /\ wire' = [wire EXCEPT ![s] = Tail(@)] /\ rd' = [rd EXCEPT ![s] = "eof"]
        /\ wr' = wr /\ taken' = taken /\ chunk' = chunk /\ fin' = fin /\ want' = want
        /\ cap' = cap /\ swin' = swin /\ scred' = scred /\ buf' = buf /\ out' = out
        /\ cwin' = cwin /\ ccred' = ccred
    BY DEF ReadEnd, writerVars, h2Vars
  <1>2. Sized(s) /\ Written(s) /\ Handed(s) /\ Windows(s)
    BY AtStream
  <1>3. /\ Tail(wire[s]) \in Seq(Frames) /\ Ends(Tail(wire[s]), wr[s])
        /\ IsFiniteSet(BytesOf(Tail(wire[s])))
        /\ Cardinality(BytesOf(Tail(wire[s]))) \in Nat
        /\ InFlight(s) = Cardinality(BytesOf(Tail(wire[s]))) + Len(f.data)
        /\ Len(f.data) = 0 /\ fin[s] /\ Len(out[s]) + Len(buf[s]) = taken[s]
    BY Zenon, <1>1, FirstFrame
  <1>4. Types'
    BY Zenon, <1>1, <1>3 DEF Inv, Types
  <1>5. \A t \in Streams \ {s} : Untouched(t)
    BY <1>1 DEF Inv, Types, Untouched
  <1>6. wire'[s] = Tail(wire[s]) /\ rd'[s] = "eof"
    BY <1>1 DEF Inv, Types
  <1>7. InFlight(s)' = InFlight(s)
    BY <1>3, <1>6 DEF InFlight
  <1>8. Sized(s)' /\ Written(s)'
    BY Zenon, <1>1, <1>2, <1>3, <1>6 DEF Sized, Written
  <1>9. Handed(s)'
    <2>1. Len(buf[s]) = 0 /\ Len(out[s]) \in Nat
      BY <1>1, AtStream
    <2>2. Len(out[s]) = taken[s]
      BY <1>3, <2>1
    <2> QED BY Zenon, <1>1, <1>2, <1>3, <1>6, <2>2 DEF Handed
  <1>10. Windows(s)'
    BY <1>1, <1>2, <1>3, <1>6, <1>7 DEF Windows
  <1>11. cwin' + ccred' + cap'[s] + InFlight(s)' = cwin + ccred + cap[s] + InFlight(s)
    BY <1>1, <1>7
  <1> QED BY <1>4, <1>5, <1>8, <1>9, <1>10, <1>11, OneStream DEF StreamInv

\* What was kept is handed out next.
LEMMA ReadBufferedStep ==
    ASSUME Inv, NEW s \in Pipes, NEW room \in 1..ReadMax,
           rd[s] = "open", ReadBuffered(s, room), UNCHANGED writerVars
    PROVE  Inv'
  <1> DEFINE b == buf[s]
             o == out[s]
             n == Min({room, Len(b)})
             given == SubSeq(b, 1, n)
             rest == SubSeq(b, n + 1, Len(b))
             hi == taken[s] - Len(chunk[s])
  <1>1. s \in Streams /\ s \notin Bodies
    BY StreamAssumption DEF Streams
  <1>2. b \in Seq(Nat) /\ o \in Seq(Nat) /\ Len(b) \in Nat /\ Len(o) \in Nat
    BY <1>1, AtStream
  <1>3. /\ Sized(s) /\ Written(s) /\ Handed(s) /\ Windows(s) /\ taken[s] \in Nat
        /\ wire[s] \in Seq(Frames) /\ Len(chunk[s]) \in Nat
    BY <1>1, AtStream
  <1>4. n \in 0..Len(b)
    <2>1. room \in Nat
      BY StreamAssumption
    <2> HIDE DEF b
    <2> QED BY <1>2, <2>1, MinOfTwo
  <1>5. /\ out' = [out EXCEPT ![s] = o \o given] /\ buf' = [buf EXCEPT ![s] = rest]
        /\ wr' = wr /\ taken' = taken /\ chunk' = chunk /\ fin' = fin /\ want' = want
        /\ cap' = cap /\ swin' = swin /\ scred' = scred /\ wire' = wire /\ rd' = rd
        /\ cwin' = cwin /\ ccred' = ccred
    BY DEF ReadBuffered, writerVars, h2Vars
  <1>6. Run(o, 0) /\ Run(b, Len(o)) /\ Covers(wire[s], Len(o) + Len(b), hi)
    BY Zenon, <1>3 DEF Handed
  <1>7. hi \in Nat /\ hi <= taken[s]
    <2> DEFINE c == Len(chunk[s])
    <2>1. c \in Nat /\ c <= taken[s]
      BY <1>3 DEF Written
    <2> HIDE DEF c
    <2>2. taken[s] - c \in Nat /\ taken[s] - c <= taken[s]
      BY <1>3, <2>1
    <2> QED BY <2>2 DEF c
  <1> HIDE DEF n, b, o, hi
  <1>8. /\ given \in Seq(Nat) /\ Len(given) = n /\ Run(given, Len(o))
        /\ rest \in Seq(Nat) /\ Len(rest) = Len(b) - n /\ Run(rest, Len(o) + n)
    BY Zenon, <1>2, <1>4, <1>6, RunCut
  <1> HIDE DEF given, rest
  <1>9. o \o given \in Seq(Nat) /\ Len(o \o given) = Len(o) + n /\ Run(o \o given, 0)
    <2>1. Run(given, 0 + Len(o))
      BY <1>2, <1>8
    <2> QED BY Zenon, <1>2, <1>6, <1>8, <2>1, RunJoin
  <1>10. out'[s] = o \o given /\ buf'[s] = rest
    BY <1>1, <1>5 DEF Inv, Types
  <1>11. /\ Len(out'[s]) = Len(o) + n /\ Len(out'[s]) + Len(buf'[s]) = Len(o) + Len(b)
         /\ Len(o) + n <= taken[s]
    <2>1. Len(o) + Len(b) <= hi
      <3>1. Len(o) + Len(b) \in Nat
        BY <1>2
      <3> QED BY <1>3, <1>6, <1>7, <3>1, CoversOrder
    <2>2. (Len(o) + n) + (Len(b) - n) = Len(o) + Len(b) /\ Len(o) + n <= taken[s]
      BY <1>2, <1>3, <1>4, <1>7, <2>1
    <2> QED BY Zenon, <1>8, <1>9, <1>10, <2>2
  <1>12. Types'
    BY Zenon, <1>1, <1>5, <1>8, <1>9 DEF Inv, Types
  <1>13. \A t \in Streams \ {s} : Untouched(t)
    BY <1>5 DEF Inv, Types, Untouched
  <1>14. Sized(s)' /\ Written(s)'
    BY <1>3, <1>5 DEF Sized, Written
  <1>15. Handed(s)'
    <2>1. Run(buf'[s], Len(out'[s])) /\ Run(out'[s], 0) /\ Len(out'[s]) <= taken'[s]
      BY Zenon, <1>5, <1>8, <1>9, <1>10, <1>11
    <2>2. Covers(wire'[s], Len(out'[s]) + Len(buf'[s]), taken'[s] - Len(chunk'[s]))
      BY Zenon, <1>5, <1>6, <1>11 DEF hi
    <2>3. rd'[s] = "open"
      BY <1>5
    <2> QED BY Zenon, <1>1, <2>1, <2>2, <2>3 DEF Handed
  <1>16. Windows(s)'
    BY <1>3, <1>5 DEF Windows, InFlight
  <1>17. cwin' + ccred' + cap'[s] + InFlight(s)' = cwin + ccred + cap[s] + InFlight(s)
    BY Zenon, <1>5 DEF InFlight
  <1> QED BY <1>1, <1>12, <1>13, <1>14, <1>15, <1>16, <1>17, OneStream DEF StreamInv

\* A frame is taken and released: what fits is handed out, and the rest kept.
LEMMA ReadFrameStep ==
    ASSUME Inv, NEW s \in Pipes, NEW room \in 1..ReadMax,
           rd[s] = "open", ReadFrame(s, room), UNCHANGED writerVars
    PROVE  Inv'
  <1> DEFINE o == out[s]
             data == Head(wire[s]).data
             len == Len(data)
             n == Min({room, len})
             given == SubSeq(data, 1, n)
             rest == SubSeq(data, n + 1, len)
             hi == taken[s] - Len(chunk[s])
  <1>1. s \in Streams /\ s \notin Bodies
    BY StreamAssumption DEF Streams
  <1>2. /\ Sized(s) /\ Written(s) /\ Handed(s) /\ Windows(s)
        /\ o \in Seq(Nat) /\ Len(o) \in Nat
    BY <1>1, AtStream
  <1>3. /\ taken[s] \in Nat /\ swin[s] \in Nat /\ scred[s] \in Nat /\ cap[s] \in Nat
        /\ cwin \in Nat /\ ccred \in Nat /\ InFlight(s) \in Nat
    BY <1>1, AtStream
  <1>4. /\ out' = [out EXCEPT ![s] = o \o given] /\ buf' = [buf EXCEPT ![s] = rest]
        /\ scred' = [scred EXCEPT ![s] = @ + len] /\ ccred' = ccred + len
        /\ wire' = [wire EXCEPT ![s] = Tail(@)] /\ buf[s] = <<>> /\ wire[s] # <<>>
        /\ wr' = wr /\ taken' = taken /\ chunk' = chunk /\ fin' = fin /\ want' = want
        /\ cap' = cap /\ swin' = swin /\ rd' = rd /\ cwin' = cwin
    BY DEF ReadFrame, Release, writerVars
  <1>5. /\ data \in Seq(Nat) /\ len \in Nat /\ hi \in Nat /\ hi <= taken[s]
        /\ Tail(wire[s]) \in Seq(Frames) /\ Ends(Tail(wire[s]), wr[s])
        /\ IsFiniteSet(BytesOf(Tail(wire[s])))
        /\ Cardinality(BytesOf(Tail(wire[s]))) \in Nat
        /\ InFlight(s) = Cardinality(BytesOf(Tail(wire[s]))) + len
    BY Zenon, <1>1, <1>4, FirstFrame
  <1>6. Len(out[s]) + Len(buf[s]) = Len(o)
    <2>1. Len(buf[s]) = 0
      BY <1>4
    <2> QED BY <1>2, <2>1
  <1>7. /\ Run(data, Len(out[s]) + Len(buf[s])) /\ Len(out[s]) + Len(buf[s]) + len <= hi
        /\ Covers(Tail(wire[s]), Len(out[s]) + Len(buf[s]) + len, hi)
    BY Zenon, <1>1, <1>4, FirstFrame
  <1>8. n \in 0..len
    <2>1. room \in Nat
      BY StreamAssumption
    <2> HIDE DEF len
    <2> QED BY <1>5, <2>1, MinOfTwo
  <1>9. Run(o, 0)
    BY <1>2 DEF Handed
  <1> HIDE DEF n, o, hi
  <1>10. /\ Run(data, Len(o)) /\ Len(o) + len <= hi
         /\ Covers(Tail(wire[s]), Len(o) + len, hi)
    BY Zenon, <1>6, <1>7
  <1> HIDE DEF data
  <1>11. /\ given \in Seq(Nat) /\ Len(given) = n /\ Run(given, Len(o))
         /\ rest \in Seq(Nat) /\ Len(rest) = len - n /\ Run(rest, Len(o) + n)
    BY Zenon, <1>2, <1>5, <1>8, <1>10, RunCut
  <1> HIDE DEF given, rest, len
  <1>12. o \o given \in Seq(Nat) /\ Len(o \o given) = Len(o) + n /\ Run(o \o given, 0)
    <2>1. Run(given, 0 + Len(o))
      BY <1>2, <1>11
    <2> QED BY Zenon, <1>2, <1>9, <1>11, <2>1, RunJoin
  <1>13. /\ out'[s] = o \o given /\ buf'[s] = rest /\ scred'[s] = scred[s] + len
         /\ wire'[s] = Tail(wire[s])
    BY <1>1, <1>4 DEF Inv, Types
  <1>14. /\ Len(out'[s]) = Len(o) + n /\ Len(out'[s]) + Len(buf'[s]) = Len(o) + len
         /\ Len(o) + n <= taken[s]
    <2>1. (Len(o) + n) + (len - n) = Len(o) + len /\ Len(o) + n <= taken[s]
      BY <1>2, <1>3, <1>5, <1>8, <1>10
    <2> QED BY Zenon, <1>11, <1>12, <1>13, <2>1
  <1>15. Types'
    <2>1. scred[s] + len \in Nat /\ ccred + len \in Nat
      BY <1>3, <1>5
    <2> QED BY Zenon, <1>1, <1>4, <1>5, <1>11, <1>12, <2>1 DEF Inv, Types
  <1>16. \A t \in Streams \ {s} : Untouched(t)
    BY <1>4 DEF Inv, Types, Untouched
  <1>17. Sized(s)' /\ Written(s)'
    BY <1>2, <1>4, <1>5, <1>13 DEF Sized, Written
  <1>18. Handed(s)'
    <2>1. Run(buf'[s], Len(out'[s])) /\ Run(out'[s], 0) /\ Len(out'[s]) <= taken'[s]
      BY Zenon, <1>4, <1>11, <1>12, <1>13, <1>14
    <2>2. Covers(wire'[s], Len(out'[s]) + Len(buf'[s]), taken'[s] - Len(chunk'[s]))
      BY Zenon, <1>4, <1>10, <1>13, <1>14 DEF hi
    <2>3. rd'[s] = "open"
      BY <1>4
    <2> QED BY Zenon, <1>1, <2>1, <2>2, <2>3 DEF Handed
  <1>19. IsFiniteSet(BytesOf(wire'[s])) /\ InFlight(s)' \in Nat /\ InFlight(s) = InFlight(s)' + len
    BY <1>5, <1>13 DEF InFlight
  <1>20. Windows(s)'
    <2>1. swin'[s] = swin[s] /\ scred'[s] = scred[s] + len /\ len \in Nat
      BY <1>4, <1>5, <1>13
    <2>2. swin'[s] + scred'[s] + InFlight(s)' = swin[s] + scred[s] + InFlight(s)
      BY <1>3, <1>19, <2>1
    <2> QED BY <1>2, <1>4, <1>19, <2>2 DEF Windows
  <1>21. cwin' + ccred' + cap'[s] + InFlight(s)' = cwin + ccred + cap[s] + InFlight(s)
    BY <1>3, <1>4, <1>5, <1>19
  <1> QED BY <1>1, <1>15, <1>16, <1>17, <1>18, <1>20, <1>21, OneStream DEF StreamInv

=============================================================================
