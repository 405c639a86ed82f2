---------------------------- MODULE H2Invariant ----------------------------
(***************************************************************************)
(* The inductive invariant of H2Stream, the lemmas about frames and byte     *)
(* counts that it needs, and that the library keeps it, for any streams,     *)
(* windows, limits and buffers.  H2Ends goes on with the ends of a stream.   *)
(***************************************************************************)
EXTENDS H2Stream, FiniteSetTheorems, TLAPS

Frames == [data : Seq(Nat), end : BOOLEAN]

-----------------------------------------------------------------------------
(* Numbers.                                                                *)

\* The smaller of two numbers.
LEMMA MinOfTwo ==
    ASSUME NEW a \in Nat, NEW b \in Nat
    PROVE  /\ Min({a, b}) \in Nat /\ Min({a, b}) \in {a, b}
           /\ Min({a, b}) <= a /\ Min({a, b}) <= b
  <1>1. \E x \in {a, b} : \A y \in {a, b} : x <= y
    OBVIOUS
  <1> QED BY <1>1 DEF Min

\* The smallest of three numbers.
LEMMA MinOfThree ==
    ASSUME NEW a \in Int, NEW b \in Int, NEW c \in Int
    PROVE  /\ Min({a, b, c}) \in Int
           /\ Min({a, b, c}) <= a /\ Min({a, b, c}) <= b /\ Min({a, b, c}) <= c
  <1>1. \E x \in {a, b, c} : \A y \in {a, b, c} : x <= y
    OBVIOUS
  <1> QED BY <1>1 DEF Min

\* Lengths add up to a length.
LEMMA LengthSum ==
    ASSUME NEW p \in Seq(Nat), NEW q \in Seq(Nat)
    PROVE  Len(p) + Len(q) \in Nat
  OBVIOUS

-----------------------------------------------------------------------------
(* Runs of bytes: byte lo + 1, byte lo + 2, and so on.                     *)

Run(bytes, lo) == \A i \in 1..Len(bytes) : bytes[i] = lo + i

\* A run that is cut in two: by the capacity when it is written, by the caller's
\* room when it is read.
LEMMA RunCut ==
    ASSUME NEW q \in Seq(Nat), NEW lo \in Nat, Run(q, lo), NEW n \in 0..Len(q)
    PROVE  /\ SubSeq(q, 1, n) \in Seq(Nat) /\ Len(SubSeq(q, 1, n)) = n
           /\ Run(SubSeq(q, 1, n), lo)
           /\ SubSeq(q, n + 1, Len(q)) \in Seq(Nat)
           /\ Len(SubSeq(q, n + 1, Len(q))) = Len(q) - n
           /\ Run(SubSeq(q, n + 1, Len(q)), lo + n)
  <1>1. /\ SubSeq(q, 1, n) \in Seq(Nat) /\ Len(SubSeq(q, 1, n)) = n
        /\ \A i \in 1..n : SubSeq(q, 1, n)[i] = q[i]
    OBVIOUS
  <1>2. /\ SubSeq(q, n + 1, Len(q)) \in Seq(Nat)
        /\ Len(SubSeq(q, n + 1, Len(q))) = Len(q) - n
        /\ \A i \in 1..(Len(q) - n) : SubSeq(q, n + 1, Len(q))[i] = q[n + i]
    OBVIOUS
  <1> QED BY <1>1, <1>2 DEF Run

\* Two runs, the second of which goes on where the first ends.
LEMMA RunJoin ==
    ASSUME NEW p \in Seq(Nat), NEW q \in Seq(Nat), NEW lo \in Nat,
           Run(p, lo), Run(q, lo + Len(p))
    PROVE  /\ p \o q \in Seq(Nat) /\ Len(p \o q) = Len(p) + Len(q)
           /\ Run(p \o q, lo)
  <1>1. /\ p \o q \in Seq(Nat) /\ Len(p \o q) = Len(p) + Len(q)
        /\ \A i \in 1..Len(p) : (p \o q)[i] = p[i]
        /\ \A i \in 1..Len(q) : (p \o q)[Len(p) + i] = q[i]
    OBVIOUS
  <1>2. ASSUME NEW i \in 1..Len(p \o q) PROVE (p \o q)[i] = lo + i
    <2>1. CASE i <= Len(p)
      BY <1>1, <2>1 DEF Run
    <2>2. CASE i > Len(p)
      <3>1. i - Len(p) \in 1..Len(q) /\ Len(p) + (i - Len(p)) = i
        BY <1>1, <2>2
      <3> QED BY <1>1, <3>1 DEF Run
    <2> QED BY <2>1, <2>2, <1>1
  <1> QED BY <1>1, <1>2 DEF Run

-----------------------------------------------------------------------------
(* Frames that follow each other.                                          *)

\* Offsets that the frames begin and end at: each frame is a run, and begins where the
\* one before it ends.
Offsets(frames, lo, hi, pos) ==
    /\ pos[1] = lo /\ pos[Len(frames) + 1] = hi
    /\ \A j \in 1..(Len(frames) + 1) : pos[j] <= hi
    /\ \A j \in 1..Len(frames) :
        pos[j + 1] = pos[j] + Len(frames[j].data) /\ Run(frames[j].data, pos[j])

\* The frames hold the bytes after lo up to hi, in order.
Covers(frames, lo, hi) ==
    \E pos \in [1..(Len(frames) + 1) -> Nat] : Offsets(frames, lo, hi, pos)

\* No frame, no byte.
LEMMA CoversNothing ==
    ASSUME NEW lo \in Nat
    PROVE  Covers(<<>>, lo, lo)
  <1> DEFINE pos == [j \in 1..1 |-> lo]
  <1>1. pos \in [1..(Len(<<>>) + 1) -> Nat] /\ Offsets(<<>>, lo, lo, pos)
    BY DEF Offsets
  <1> QED BY <1>1 DEF Covers

\* A frame that is sent goes on where the last one ended.
LEMMA CoversSent ==
    ASSUME NEW q \in Seq(Frames), NEW lo \in Nat, NEW hi \in Nat, Covers(q, lo, hi),
           NEW f \in Frames, Run(f.data, hi)
    PROVE  Covers(Append(q, f), lo, hi + Len(f.data))
  <1>1. PICK pos \in [1..(Len(q) + 1) -> Nat] : Offsets(q, lo, hi, pos)
    BY DEF Covers
  <1> DEFINE r == Append(q, f)
             new == [j \in 1..(Len(r) + 1) |->
                         IF j = Len(r) + 1 THEN hi + Len(f.data) ELSE pos[j]]
  <1>2. Len(f.data) \in Nat
    BY DEF Frames
  <1>3. /\ Len(q) \in Nat /\ Len(r) = Len(q) + 1 /\ r[Len(q) + 1] = f
        /\ \A j \in 1..Len(q) : r[j] = q[j]
    OBVIOUS
  <1>4. new \in [1..(Len(r) + 1) -> Nat]
    BY <1>2, <1>3
  <1>5. /\ new[Len(r) + 1] = hi + Len(f.data)
        /\ \A j \in 1..(Len(q) + 1) : new[j] = pos[j]
    BY <1>3
  <1> HIDE DEF r, new
  <1>6. new[1] = lo /\ \A j \in 1..(Len(r) + 1) : new[j] <= hi + Len(f.data)
    <2>1. new[1] = lo
      BY <1>1, <1>3, <1>5 DEF Offsets
    <2>2. ASSUME NEW j \in 1..(Len(r) + 1) PROVE new[j] <= hi + Len(f.data)
      <3>1. CASE j = Len(r) + 1
        BY <1>2, <1>5, <3>1
      <3>2. CASE j \in 1..(Len(q) + 1)
        <4>1. new[j] = pos[j] /\ pos[j] \in Nat /\ pos[j] <= hi
          BY <1>1, <1>5, <3>2 DEF Offsets
        <4> QED BY <1>2, <4>1
      <3> QED BY <1>3, <3>1, <3>2
    <2> QED BY <2>1, <2>2
  <1>7. ASSUME NEW j \in 1..Len(r)
        PROVE  new[j + 1] = new[j] + Len(r[j].data) /\ Run(r[j].data, new[j])
    <2>1. CASE j \in 1..Len(q)
      BY <1>1, <1>3, <1>5, <2>1 DEF Offsets
    <2>2. CASE j = Len(q) + 1
      BY <1>1, <1>3, <1>5, <2>2 DEF Offsets
    <2> QED BY <1>3, <2>1, <2>2
  <1>8. Offsets(r, lo, hi + Len(f.data), new)
    BY <1>5, <1>6, <1>7 DEF Offsets
  <1> QED BY <1>4, <1>8 DEF Covers, r

\* The first frame begins at lo; the others go on where it ends.
LEMMA CoversTaken ==
    ASSUME NEW q \in Seq(Frames), q # <<>>, NEW lo \in Nat, NEW hi \in Nat,
           Covers(q, lo, hi)
    PROVE  LET d == Head(q).data IN
           /\ Run(d, lo) /\ lo + Len(d) <= hi
           /\ Covers(Tail(q), lo + Len(d), hi)
           /\ Len(q) = 1 => lo + Len(d) = hi
  <1>1. PICK pos \in [1..(Len(q) + 1) -> Nat] : Offsets(q, lo, hi, pos)
    BY DEF Covers
  <1> DEFINE d == Head(q).data
             r == Tail(q)
             new == [j \in 1..(Len(r) + 1) |-> pos[j + 1]]
  <1>2. /\ Len(q) \in Nat /\ Len(q) > 0 /\ Head(q) = q[1] /\ Len(r) = Len(q) - 1
        /\ \A j \in 1..Len(r) : r[j] = q[j + 1]
        /\ Head(q) \in Frames
    OBVIOUS
  <1>3. Len(d) \in Nat
    BY <1>2 DEF Frames
  <1>4. Run(d, lo) /\ pos[2] = lo + Len(d) /\ lo + Len(d) <= hi /\ (Len(q) = 1 => lo + Len(d) = hi)
    BY <1>1, <1>2 DEF Offsets
  <1>5. new \in [1..(Len(r) + 1) -> Nat] /\ \A j \in 1..(Len(r) + 1) : new[j] = pos[j + 1]
    BY <1>2
  <1> HIDE DEF new, r, d
  <1>6. ASSUME NEW j \in 1..Len(r)
        PROVE  new[j + 1] = new[j] + Len(r[j].data) /\ Run(r[j].data, new[j])
    <2>1. j + 1 \in 1..Len(q) /\ j + 1 \in 1..(Len(r) + 1)
      BY <1>2
    <2>2. /\ pos[(j + 1) + 1] = pos[j + 1] + Len(q[j + 1].data)
          /\ Run(q[j + 1].data, pos[j + 1])
      BY <1>1, <2>1 DEF Offsets
    <2>3. r[j] = q[j + 1] /\ new[j] = pos[j + 1] /\ new[j + 1] = pos[(j + 1) + 1]
      BY <1>2, <1>5, <2>1
    <2> QED BY <2>2, <2>3
  <1>7. new[1] = lo + Len(d) /\ new[Len(r) + 1] = hi
    BY <1>1, <1>2, <1>4, <1>5 DEF Offsets
  <1>8. Offsets(r, lo + Len(d), hi, new)
    BY <1>1, <1>2, <1>3, <1>5, <1>6, <1>7 DEF Offsets
  <1>9. Covers(r, lo + Len(d), hi)
    BY <1>5, <1>8 DEF Covers
  <1> QED BY <1>4, <1>9 DEF d, r

\* Frames do not run backwards.
LEMMA CoversOrder ==
    ASSUME NEW q \in Seq(Frames), NEW lo \in Nat, NEW hi \in Nat, Covers(q, lo, hi)
    PROVE  lo <= hi
  <1>1. 1 \in 1..(Len(q) + 1)
    OBVIOUS
  <1> QED BY <1>1 DEF Covers, Offsets

-----------------------------------------------------------------------------
(* Counting bytes.                                                         *)

\* Disjoint finite sets add up.
LEMMA DisjointSum ==
    ASSUME NEW A, NEW B, IsFiniteSet(A), IsFiniteSet(B), A \cap B = {}
    PROVE  /\ IsFiniteSet(A \cup B)
           /\ Cardinality(A \cup B) = Cardinality(A) + Cardinality(B)
  <1>1. Cardinality(A) \in Nat /\ Cardinality(B) \in Nat
    BY FS_CardinalityType
  <1>2. Cardinality(A \cap B) = 0
    BY FS_EmptySet
  <1>3. /\ IsFiniteSet(A \cup B)
        /\ Cardinality(A \cup B) = Cardinality(A) + Cardinality(B) - Cardinality(A \cap B)
    BY FS_Union
  <1> QED BY <1>1, <1>2, <1>3

\* As many pairs as second components.
LEMMA PairsWith ==
    ASSUME NEW x, NEW A, IsFiniteSet(A)
    PROVE  IsFiniteSet({x} \X A) /\ Cardinality({x} \X A) = Cardinality(A)
  <1>1. IsFiniteSet({x}) /\ Cardinality({x}) = 1
    BY Zenon, FS_Singleton
  <1>2. Cardinality(A) \in Nat
    BY FS_CardinalityType
  <1>3. /\ IsFiniteSet({x} \X A)
        /\ Cardinality({x} \X A) = Cardinality({x}) * Cardinality(A)
    BY <1>1, FS_Product
  <1>4. 1 * Cardinality(A) = Cardinality(A)
    BY <1>2
  <1> QED BY <1>1, <1>3, <1>4

\* The bytes 1 to n, in a frame of number j.
LEMMA FrameSize ==
    ASSUME NEW j, NEW n \in Nat
    PROVE  IsFiniteSet({j} \X (1..n)) /\ Cardinality({j} \X (1..n)) = n
  <1>1. IsFiniteSet(1..n) /\ Cardinality(1..n) = n
    BY FS_Interval
  <1> QED BY Zenon, <1>1, PairsWith

\* A byte is a frame of the sequence and a place in it.
LEMMA ByteOf ==
    ASSUME NEW q
    PROVE  \A b : b \in BytesOf(q) <=>
               \E j \in 1..Len(q) : \E i \in 1..Len(q[j].data) : b = <<j, i>>
  BY DEF BytesOf

\* Sending a frame adds its bytes.
LEMMA BytesSent ==
    ASSUME NEW q \in Seq(Frames), NEW f \in Frames, IsFiniteSet(BytesOf(q))
    PROVE  /\ IsFiniteSet(BytesOf(Append(q, f)))
           /\ Cardinality(BytesOf(Append(q, f))) = Cardinality(BytesOf(q)) + Len(f.data)
  <1> DEFINE r == Append(q, f)
             new == {Len(r)} \X (1..Len(f.data))
  <1>1. Len(f.data) \in Nat
    BY DEF Frames
  <1>2. /\ Len(q) \in Nat /\ Len(r) = Len(q) + 1 /\ r[Len(r)] = f
        /\ \A j \in 1..Len(q) : r[j] = q[j]
    OBVIOUS
  <1>3. IsFiniteSet(new) /\ Cardinality(new) = Len(f.data)
    BY Zenon, <1>1, FrameSize
  <1>4. \A b : b \in new <=> \E i \in 1..Len(f.data) : b = <<Len(r), i>>
    OBVIOUS
  <1> HIDE DEF new, r
  <1>5. BytesOf(r) = BytesOf(q) \cup new
    <2>1. ASSUME NEW b \in BytesOf(r) PROVE b \in BytesOf(q) \cup new
      <3>1. PICK j \in 1..Len(r) : \E i \in 1..Len(r[j].data) : b = <<j, i>>
        BY ByteOf
      <3>2. CASE j = Len(r)
        BY <1>2, <1>4, <3>1, <3>2
      <3>3. CASE j \in 1..Len(q)
        BY <1>2, <3>1, <3>3, ByteOf
      <3> QED BY <1>2, <3>2, <3>3
    <2>2. ASSUME NEW b \in BytesOf(q) PROVE b \in BytesOf(r)
      <3>1. PICK j \in 1..Len(q) : \E i \in 1..Len(q[j].data) : b = <<j, i>>
        BY ByteOf
      <3>2. j \in 1..Len(r) /\ r[j] = q[j]
        BY <1>2
      <3> QED BY <3>1, <3>2, ByteOf
    <2>3. ASSUME NEW b \in new PROVE b \in BytesOf(r)
      <3>1. Len(r) \in 1..Len(r)
        BY <1>2
      <3> QED BY <1>2, <1>4, <3>1, ByteOf
    <2> QED BY <2>1, <2>2, <2>3
  <1>6. BytesOf(q) \cap new = {}
    <2> SUFFICES ASSUME NEW b \in BytesOf(q), b \in new PROVE FALSE
      OBVIOUS
    <2>1. PICK j \in 1..Len(q) : \E i \in 1..Len(q[j].data) : b = <<j, i>>
      BY ByteOf
    <2>2. PICK h \in 1..Len(f.data) : b = <<Len(r), h>>
      BY <1>4
    <2>3. j = Len(r)
      BY <2>1, <2>2
    <2> QED BY <1>2, <2>3
  <1>7. /\ IsFiniteSet(BytesOf(r))
        /\ Cardinality(BytesOf(r)) = Cardinality(BytesOf(q)) + Len(f.data)
    BY Zenon, <1>3, <1>5, <1>6, DisjointSum
  <1> QED BY <1>7 DEF r

\* Taking a frame takes its bytes, and renumbers the frames behind it.
LEMMA BytesTaken ==
    ASSUME NEW q \in Seq(Frames), q # <<>>, IsFiniteSet(BytesOf(q))
    PROVE  /\ IsFiniteSet(BytesOf(Tail(q)))
           /\ Cardinality(BytesOf(q)) = Cardinality(BytesOf(Tail(q))) + Len(Head(q).data)
  <1> DEFINE r == Tail(q)
             n == Len(Head(q).data)
             first == {1} \X (1..n)
             rest == {b \in BytesOf(q) : b[1] # 1}
             shift == [b \in rest |-> <<b[1] - 1, b[2]>>]
  <1>1. /\ Len(q) \in Nat /\ Len(q) > 0 /\ Head(q) = q[1] /\ Head(q) \in Frames
        /\ Len(r) = Len(q) - 1 /\ \A j \in 1..Len(r) : r[j] = q[j + 1]
    OBVIOUS
  <1>2. n \in Nat
    BY <1>1 DEF Frames
  <1>3. IsFiniteSet(first) /\ Cardinality(first) = n
    BY Zenon, <1>2, FrameSize
  <1>4. \A b : b \in first <=> \E i \in 1..n : b = <<1, i>>
    OBVIOUS
  <1>5. \A b : b \in rest <=> \E j \in 1..Len(r) : \E i \in 1..Len(r[j].data) : b = <<j + 1, i>>
    <2>1. ASSUME NEW b \in rest
          PROVE  \E j \in 1..Len(r) : \E i \in 1..Len(r[j].data) : b = <<j + 1, i>>
      <3>1. PICK h \in 1..Len(q) : \E i \in 1..Len(q[h].data) : b = <<h, i>>
        BY ByteOf
      <3>2. h # 1
        BY <3>1
      <3>3. h - 1 \in 1..Len(r) /\ (h - 1) + 1 = h /\ r[h - 1] = q[h]
        BY <1>1, <3>2
      <3> QED BY <3>1, <3>3
    <2>2. ASSUME NEW b, NEW j \in 1..Len(r), NEW i \in 1..Len(r[j].data), b = <<j + 1, i>>
          PROVE  b \in rest
      <3>1. j + 1 \in 1..Len(q) /\ j + 1 # 1 /\ r[j] = q[j + 1]
        BY <1>1
      <3>2. b \in BytesOf(q)
        BY <2>2, <3>1, ByteOf
      <3> QED BY <2>2, <3>1, <3>2
    <2> QED BY <2>1, <2>2
  <1>6. BytesOf(q) = first \cup rest /\ first \cap rest = {}
    <2>1. ASSUME NEW b \in BytesOf(q) PROVE b \in first \/ b \in rest
      <3>1. PICK h \in 1..Len(q) : \E i \in 1..Len(q[h].data) : b = <<h, i>>
        BY ByteOf
      <3>2. CASE h = 1
        BY <1>1, <1>4, <3>1, <3>2
      <3>3. CASE h # 1
        BY <3>1, <3>3
      <3> QED BY <3>2, <3>3
    <2>2. ASSUME NEW b \in first PROVE b \in BytesOf(q) /\ b \notin rest
      <3>1. 1 \in 1..Len(q)
        BY <1>1
      <3> QED BY <1>1, <1>4, <3>1, ByteOf
    <2>3. rest \subseteq BytesOf(q)
      OBVIOUS
    <2> HIDE DEF first, rest
    <2> QED BY <2>1, <2>2, <2>3
  <1>7. IsFiniteSet(rest)
    BY FS_Subset
  <1> HIDE DEF r
  <1>8. shift \in Bijection(rest, BytesOf(r))
    <2>1. ASSUME NEW b \in rest
          PROVE  /\ shift[b] \in BytesOf(r)
                 /\ \A c \in rest : shift[b] = shift[c] => b = c
      <3>1. PICK j \in 1..Len(r) : \E i \in 1..Len(r[j].data) : b = <<j + 1, i>>
        BY <1>5
      <3>2. shift[b] \in BytesOf(r)
        <4>1. PICK i \in 1..Len(r[j].data) : b = <<j + 1, i>>
          BY <3>1
        <4>2. shift[b] = <<j, i>>
          BY <4>1
        <4> QED BY <4>2, ByteOf
      <3>3. ASSUME NEW c \in rest, shift[b] = shift[c] PROVE b = c
        <4>1. PICK h \in 1..Len(r) : \E i \in 1..Len(r[h].data) : c = <<h + 1, i>>
          BY <1>5
        <4> QED BY <3>1, <3>3, <4>1
      <3> QED BY Zenon, <3>2, <3>3
    <2>2. ASSUME NEW c \in BytesOf(r) PROVE \E b \in rest : shift[b] = c
      <3>1. PICK j \in 1..Len(r) : \E i \in 1..Len(r[j].data) : c = <<j, i>>
        BY ByteOf
      <3>2. PICK i \in 1..Len(r[j].data) : c = <<j, i>>
        BY <3>1
      <3>3. <<j + 1, i>> \in rest
        BY <1>5
      <3>4. shift[<<j + 1, i>>] = <<j, i>>
        BY <3>3
      <3> QED BY Zenon, <3>2, <3>3, <3>4
    <2>3. DOMAIN shift = rest /\ shift = [b \in rest |-> shift[b]]
      OBVIOUS
    <2> HIDE DEF shift, rest
    <2> QED BY <2>1, <2>2, <2>3 DEF Bijection, Injection, Surjection, IsInjective
  <1>9. IsFiniteSet(BytesOf(r)) /\ Cardinality(BytesOf(r)) = Cardinality(rest)
    BY <1>7, <1>8, FS_Bijection DEF ExistsBijection
  <1>10. Cardinality(rest) \in Nat
    BY <1>7, FS_CardinalityType
  <1> HIDE DEF first, rest, shift, n
  <1>11. Cardinality(BytesOf(q)) = Cardinality(BytesOf(r)) + n
    <2>1. Cardinality(first \cup rest) = Cardinality(first) + Cardinality(rest)
      BY <1>3, <1>6, <1>7, DisjointSum
    <2> QED BY <1>2, <1>3, <1>6, <1>9, <1>10, <2>1
  <1> QED BY <1>9, <1>11 DEF r, n

\* Assigned capacity and bytes on the wire, counted together.
LEMMA ChargedSize ==
    ASSUME NEW c \in Nat, NEW q, IsFiniteSet(BytesOf(q))
    PROVE  LET held == ({0} \X (1..c)) \cup BytesOf(q) IN
           IsFiniteSet(held) /\ Cardinality(held) = c + Cardinality(BytesOf(q))
  <1> DEFINE assigned == {0} \X (1..c)
  <1>1. IsFiniteSet(assigned) /\ Cardinality(assigned) = c
    BY Zenon, FrameSize
  <1>2. assigned \cap BytesOf(q) = {}
    <2> SUFFICES ASSUME NEW b \in BytesOf(q), b \in assigned PROVE FALSE
      OBVIOUS
    <2>1. PICK j \in 1..Len(q) : \E i \in 1..Len(q[j].data) : b = <<j, i>>
      BY ByteOf
    <2>2. j = 0
      BY <2>1
    <2> QED BY <2>2
  <1> HIDE DEF assigned
  <1>3. /\ IsFiniteSet(assigned \cup BytesOf(q))
        /\ Cardinality(assigned \cup BytesOf(q)) = c + Cardinality(BytesOf(q))
    BY Zenon, <1>1, <1>2, DisjointSum
  <1> QED BY <1>3 DEF assigned

\* What the members of S hold, each its own.
Total(S, F) == UNION {{s} \X F[s] : s \in S}

\* When one member holds something else, the total changes by the difference.
LEMMA TotalChanged ==
    ASSUME NEW S, NEW F, NEW G, NEW x \in S, \A y \in S \ {x} : G[y] = F[y],
           IsFiniteSet(Total(S, F)), IsFiniteSet(F[x]), IsFiniteSet(G[x])
    PROVE  /\ IsFiniteSet(Total(S, G))
           /\ Cardinality(Total(S, G)) + Cardinality(F[x])
                  = Cardinality(Total(S, F)) + Cardinality(G[x])
  <1> DEFINE others == Total(S \ {x}, F)
             old == {x} \X F[x]
             new == {x} \X G[x]
  <1>1. \A T, H, p : p \in Total(T, H) <=> \E s \in T : \E e \in H[s] : p = <<s, e>>
    BY DEF Total
  <1>2. /\ \A p : p \in old <=> \E e \in F[x] : p = <<x, e>>
        /\ \A p : p \in new <=> \E e \in G[x] : p = <<x, e>>
    OBVIOUS
  <1>3. /\ IsFiniteSet(old) /\ Cardinality(old) = Cardinality(F[x])
        /\ IsFiniteSet(new) /\ Cardinality(new) = Cardinality(G[x])
    BY Zenon, PairsWith
  <1> HIDE DEF others, old, new
  <1>4. Total(S, F) = others \cup old
    BY <1>1, <1>2 DEF others
  <1>5. Total(S, G) = others \cup new
    <2>1. ASSUME NEW p PROVE p \in Total(S, G) <=> p \in others \/ p \in new
      BY <1>1, <1>2 DEF others
    <2> QED BY <2>1
  <1>6. others \cap old = {} /\ others \cap new = {}
    <2>1. ASSUME NEW p \in others PROVE p \notin old /\ p \notin new
      <3>1. PICK s \in S \ {x} : \E e \in F[s] : p = <<s, e>>
        BY <1>1 DEF others
      <3> QED BY <1>2, <3>1
    <2> QED BY <2>1
  <1>7. IsFiniteSet(others)
    BY <1>4, FS_Subset
  <1>8. /\ Cardinality(others) \in Nat
        /\ Cardinality(F[x]) \in Nat /\ Cardinality(G[x]) \in Nat
    BY <1>7, FS_CardinalityType
  <1>9. /\ Cardinality(others \cup old) = Cardinality(others) + Cardinality(old)
        /\ Cardinality(others \cup new) = Cardinality(others) + Cardinality(new)
        /\ IsFiniteSet(others \cup new)
    BY <1>3, <1>6, <1>7, DisjointSum
  <1> QED BY <1>3, <1>4, <1>5, <1>8, <1>9

-----------------------------------------------------------------------------
(* The inductive invariant.                                                *)

\* Only the last frame ends the stream, it is empty, and its writer is shut.
Ends(frames, w) ==
    \A j \in 1..Len(frames) :
        frames[j].end => j = Len(frames) /\ frames[j].data = <<>> /\ w = "shut"

Types ==
    /\ wr \in [Streams -> {"ready", "blocked", "shut", "failed"}]
    /\ rd \in [Streams -> {"open", "eof", "gone"}]
    /\ taken \in [Streams -> Nat]
    /\ chunk \in [Streams -> Seq(Nat)] /\ buf \in [Streams -> Seq(Nat)]
    /\ out \in [Streams -> Seq(Nat)] /\ wire \in [Streams -> Seq(Frames)]
    /\ want \in [Streams -> Nat] /\ cap \in [Streams -> Nat]
    /\ swin \in [Streams -> Nat] /\ scred \in [Streams -> Nat]
    /\ cwin \in Nat /\ ccred \in Nat

Flags == fin \in [Streams -> BOOLEAN] /\ stalled \in [Streams -> BOOLEAN]

Sized(s) == taken[s] <= Bytes(s) /\ Len(chunk[s]) <= WriteMax /\ want[s] <= WriteMax

\* The writing end: the bytes not yet written are the last that were taken.
Written(s) ==
    /\ Len(chunk[s]) <= taken[s] /\ Run(chunk[s], taken[s] - Len(chunk[s]))
    /\ wr[s] = "shut" => fin[s] /\ chunk[s] = <<>>
    /\ Ends(wire[s], wr[s])

\* The reading end: what it kept goes on where it handed out, and the wire where it kept.
Handed(s) ==
    /\ Run(out[s], 0) /\ Len(out[s]) <= taken[s]
    /\ s \in Bodies => Len(out[s]) <= MAX_BODY /\ buf[s] = <<>>
    /\ rd[s] = "open" =>
        /\ Run(buf[s], Len(out[s]))
        /\ Covers(wire[s], Len(out[s]) + Len(buf[s]), taken[s] - Len(chunk[s]))
    /\ rd[s] = "eof" => fin[s] /\ Len(out[s]) = taken[s]

\* Capacity is within the stream's window, of which only a reader that has gone
\* withholds credit.
Windows(s) ==
    /\ IsFiniteSet(BytesOf(wire[s])) /\ cap[s] <= swin[s]
    /\ swin[s] + scred[s] + InFlight(s) <= STREAM_WINDOW
    /\ rd[s] = "open" => swin[s] + scred[s] + InFlight(s) = STREAM_WINDOW

StreamInv(s) == Sized(s) /\ Written(s) /\ Handed(s) /\ Windows(s)

Holdings == [s \in Streams |-> Charged(s)]

\* Every byte of the connection's window is accounted for.
Conn ==
    /\ IsFiniteSet(Total(Streams, Holdings))
    /\ cwin + ccred + Cardinality(Total(Streams, Holdings)) = CONN_WINDOW

Inv == Types /\ Conn /\ \A s \in Streams : StreamInv(s)

-----------------------------------------------------------------------------
(* What a step leaves alone.                                               *)

\* A writer that is not shut has sent no end.
LEMMA EndsAny ==
    ASSUME NEW q, NEW w, NEW v, Ends(q, w), w # "shut"
    PROVE  Ends(q, v)
  BY DEF Ends

\* After data, no frame ends the stream.
LEMMA EndsData ==
    ASSUME NEW q \in Seq(Frames), NEW w, Ends(q, w), w # "shut",
           NEW f \in Frames, ~f.end
    PROVE  Ends(Append(q, f), w)
  <1>1. /\ Len(q) \in Nat /\ Len(Append(q, f)) = Len(q) + 1
        /\ Append(q, f)[Len(q) + 1] = f /\ \A j \in 1..Len(q) : Append(q, f)[j] = q[j]
    OBVIOUS
  <1>2. ASSUME NEW j \in 1..Len(Append(q, f)) PROVE ~Append(q, f)[j].end
    <2>1. CASE j \in 1..Len(q)
      BY <1>1, <2>1 DEF Ends
    <2>2. CASE j = Len(q) + 1
      BY <1>1, <2>2
    <2> QED BY <1>1, <2>1, <2>2
  <1> QED BY <1>2 DEF Ends

\* The end comes last.
LEMMA EndsShut ==
    ASSUME NEW q \in Seq(Frames), NEW w, Ends(q, w), w # "shut",
           NEW f \in Frames, f.data = <<>>
    PROVE  Ends(Append(q, f), "shut")
  <1>1. /\ Len(q) \in Nat /\ Len(Append(q, f)) = Len(q) + 1
        /\ Append(q, f)[Len(q) + 1] = f /\ \A j \in 1..Len(q) : Append(q, f)[j] = q[j]
    OBVIOUS
  <1>2. ASSUME NEW j \in 1..Len(Append(q, f)), Append(q, f)[j].end
        PROVE  j = Len(Append(q, f)) /\ Append(q, f)[j].data = <<>>
    <2>1. CASE j \in 1..Len(q)
      BY <1>1, <1>2, <2>1 DEF Ends
    <2>2. CASE j = Len(q) + 1
      BY <1>1, <2>2
    <2> QED BY <1>1, <2>1, <2>2
  <1> QED BY <1>2 DEF Ends

\* A reader that meets the end has met the last frame.
LEMMA EndsTaken ==
    ASSUME NEW q \in Seq(Frames), q # <<>>, NEW w, Ends(q, w)
    PROVE  /\ Ends(Tail(q), w)
           /\ Head(q).end => Len(q) = 1 /\ Head(q).data = <<>> /\ w = "shut"
  <1> DEFINE r == Tail(q)
  <1>1. /\ Len(q) \in Nat /\ Len(q) > 0 /\ Head(q) = q[1] /\ Len(r) = Len(q) - 1
        /\ \A j \in 1..Len(r) : r[j] = q[j + 1]
    OBVIOUS
  <1> HIDE DEF r
  <1>2. ASSUME Head(q).end PROVE Len(q) = 1 /\ Head(q).data = <<>> /\ w = "shut"
    <2>1. 1 \in 1..Len(q) /\ q[1].end
      BY <1>1, <1>2
    <2>2. 1 = Len(q) /\ q[1].data = <<>> /\ w = "shut"
      BY Zenon, <2>1 DEF Ends
    <2> QED BY Zenon, <1>1, <2>2
  <1>3. ASSUME NEW j \in 1..Len(r), r[j].end
        PROVE  j = Len(r) /\ r[j].data = <<>> /\ w = "shut"
    <2>1. j + 1 \in 1..Len(q) /\ q[j + 1].end
      BY <1>1, <1>3
    <2>2. j + 1 = Len(q) /\ q[j + 1].data = <<>> /\ w = "shut"
      BY <2>1 DEF Ends
    <2> QED BY <1>1, <2>2
  <1>4. Ends(r, w)
    BY <1>3 DEF Ends
  <1> QED BY <1>2, <1>4 DEF r

\* The step leaves a stream alone.
Untouched(t) ==
    /\ wr'[t] = wr[t] /\ fin'[t] = fin[t] /\ taken'[t] = taken[t] /\ chunk'[t] = chunk[t]
    /\ want'[t] = want[t] /\ cap'[t] = cap[t] /\ swin'[t] = swin[t] /\ scred'[t] = scred[t]
    /\ wire'[t] = wire[t] /\ buf'[t] = buf[t] /\ out'[t] = out[t] /\ rd'[t] = rd[t]

\* Then its invariant stays.
LEMMA UntouchedKeeps ==
    ASSUME NEW t \in Streams, StreamInv(t), Untouched(t)
    PROVE  StreamInv(t)'
  <1>1. Sized(t)'
    BY DEF StreamInv, Sized, Untouched
  <1>2. Written(t)'
    BY DEF StreamInv, Written, Untouched
  <1>3. Handed(t)'
    BY Zenon DEF StreamInv, Handed, Untouched
  <1>4. Windows(t)'
    BY DEF StreamInv, Windows, InFlight, Untouched
  <1> QED BY <1>1, <1>2, <1>3, <1>4 DEF StreamInv

\* A step of one stream: its own invariant, and what it takes from the connection's
\* window and gives back, make the invariant of all.
LEMMA OneStream ==
    ASSUME Inv, NEW s \in Streams, Types', StreamInv(s)',
           \A t \in Streams \ {s} : Untouched(t),
           cwin' + ccred' + cap'[s] + InFlight(s)' = cwin + ccred + cap[s] + InFlight(s)
    PROVE  Inv'
  <1>1. \A t \in Streams : StreamInv(t)'
    BY UntouchedKeeps DEF Inv
  <1>2. /\ cap[s] \in Nat /\ cap'[s] \in Nat
        /\ cwin \in Nat /\ ccred \in Nat /\ cwin' \in Nat /\ ccred' \in Nat
    BY DEF Inv, Types
  <1>3. IsFiniteSet(BytesOf(wire[s])) /\ IsFiniteSet(BytesOf(wire'[s]))
    BY DEF Inv, StreamInv, Windows
  <1>4. /\ IsFiniteSet(Holdings[s])
        /\ Cardinality(Holdings[s]) = cap[s] + InFlight(s)
    BY <1>2, <1>3, ChargedSize DEF Holdings, Charged, InFlight
  <1>5. /\ IsFiniteSet(Holdings'[s])
        /\ Cardinality(Holdings'[s]) = cap'[s] + InFlight(s)'
    BY <1>2, <1>3, ChargedSize DEF Holdings, Charged, InFlight
  <1>6. \A t \in Streams \ {s} : Holdings'[t] = Holdings[t]
    BY DEF Holdings, Charged, Untouched
  <1>7. /\ IsFiniteSet(Total(Streams, Holdings))
        /\ cwin + ccred + Cardinality(Total(Streams, Holdings)) = CONN_WINDOW
    BY DEF Inv, Conn
  <1>8. /\ IsFiniteSet(Total(Streams, Holdings'))
        /\ Cardinality(Total(Streams, Holdings')) + Cardinality(Holdings[s])
               = Cardinality(Total(Streams, Holdings)) + Cardinality(Holdings'[s])
    BY <1>4, <1>5, <1>6, <1>7, TotalChanged
  <1>9. /\ Cardinality(Total(Streams, Holdings)) \in Nat
        /\ Cardinality(Total(Streams, Holdings')) \in Nat
        /\ InFlight(s) \in Nat /\ InFlight(s)' \in Nat
    BY <1>3, <1>7, <1>8, FS_CardinalityType DEF InFlight
  <1>10. cwin' + ccred' + Cardinality(Total(Streams, Holdings')) = CONN_WINDOW
    BY <1>2, <1>4, <1>5, <1>7, <1>8, <1>9
  <1>11. Conn'
    BY <1>8, <1>10 DEF Conn
  <1> QED BY <1>1, <1>11 DEF Inv

\* The state of one stream, as the invariant gives it.
LEMMA AtStream ==
    ASSUME Inv, NEW s \in Streams
    PROVE  /\ wr[s] \in {"ready", "blocked", "shut", "failed"}
           /\ rd[s] \in {"open", "eof", "gone"}
           /\ taken[s] \in Nat /\ chunk[s] \in Seq(Nat) /\ buf[s] \in Seq(Nat)
           /\ out[s] \in Seq(Nat) /\ wire[s] \in Seq(Frames)
           /\ Len(chunk[s]) \in Nat /\ Len(buf[s]) \in Nat /\ Len(out[s]) \in Nat
           /\ want[s] \in Nat /\ cap[s] \in Nat /\ swin[s] \in Nat /\ scred[s] \in Nat
           /\ cwin \in Nat /\ ccred \in Nat /\ InFlight(s) \in Nat
           /\ Sized(s) /\ Written(s) /\ Handed(s) /\ Windows(s)
  <1>1. StreamInv(s)
    BY DEF Inv
  <1>2. InFlight(s) \in Nat
    BY <1>1, FS_CardinalityType DEF StreamInv, Windows, InFlight
  <1>3. chunk[s] \in Seq(Nat) /\ buf[s] \in Seq(Nat) /\ out[s] \in Seq(Nat)
    BY DEF Inv, Types
  <1>4. Len(chunk[s]) \in Nat /\ Len(buf[s]) \in Nat /\ Len(out[s]) \in Nat
    BY <1>3
  <1> QED BY <1>1, <1>2, <1>3, <1>4 DEF Inv, Types, StreamInv

-----------------------------------------------------------------------------
(* The steps of the library.                                               *)

\* Capacity is taken from the connection's window, and stays within the stream's.
LEMMA AssignCapacityStep ==
    ASSUME Inv, NEW s \in Streams, AssignCapacity(s)
    PROVE  Inv'
  <1> DEFINE k == Min({want[s] - cap[s], swin[s] - cap[s], cwin})
  <1>1. /\ k > 0 /\ cap' = [cap EXCEPT ![s] = @ + k] /\ cwin' = cwin - k
        /\ wr' = [wr EXCEPT ![s] = IF @ = "blocked" THEN "ready" ELSE @]
        /\ taken' = taken /\ chunk' = chunk /\ fin' = fin /\ want' = want /\ swin' = swin
        /\ scred' = scred /\ wire' = wire /\ buf' = buf /\ out' = out /\ rd' = rd
        /\ ccred' = ccred
    BY DEF AssignCapacity, readerVars
  <1>2. /\ cap[s] \in Nat /\ swin[s] \in Nat /\ want[s] \in Nat /\ cwin \in Nat
        /\ ccred \in Nat /\ InFlight(s) \in Nat
    BY AtStream
  <1>3. Sized(s) /\ Written(s) /\ Handed(s) /\ Windows(s)
    BY AtStream
  <1>4. k \in Int /\ k <= swin[s] - cap[s] /\ k <= cwin
    <2>1. want[s] - cap[s] \in Int /\ swin[s] - cap[s] \in Int /\ cwin \in Int
      BY <1>2
    <2> QED BY Zenon, <2>1, MinOfThree
  <1> HIDE DEF k
  <1>5. cap[s] + k \in Nat /\ cap[s] + k <= swin[s] /\ cwin - k \in Nat
    BY <1>1, <1>2, <1>4
  <1>6. Types'
    BY <1>1, <1>5 DEF Inv, Types
  <1>7. \A t \in Streams \ {s} : Untouched(t)
    BY <1>1 DEF Inv, Types, Untouched
  <1>8. /\ cap'[s] = cap[s] + k
        /\ wr'[s] = IF wr[s] = "blocked" THEN "ready" ELSE wr[s]
    BY <1>1 DEF Inv, Types
  <1>9. Sized(s)'
    BY <1>1, <1>3 DEF Sized
  <1>10. Written(s)'
    <2>1. Ends(wire[s], wr'[s])
      <3>1. CASE wr[s] = "blocked"
        BY <1>3, <3>1, EndsAny DEF Written
      <3>2. CASE wr[s] # "blocked"
        BY <1>3, <1>8, <3>2 DEF Written
      <3> QED BY <3>1, <3>2
    <2>2. wr'[s] = "shut" => wr[s] = "shut"
      BY <1>8
    <2> QED BY <1>1, <1>3, <2>1, <2>2 DEF Written
  <1>11. Handed(s)'
    BY Zenon, <1>1, <1>3 DEF Handed
  <1>12. Windows(s)'
    <2>1. cap'[s] <= swin'[s]
      BY <1>1, <1>5, <1>8
    <2> QED BY <1>1, <1>3, <2>1 DEF Windows, InFlight
  <1>13. cwin' + ccred' + cap'[s] + InFlight(s)' = cwin + ccred + cap[s] + InFlight(s)
    <2>1. InFlight(s)' = InFlight(s)
      BY <1>1 DEF InFlight
    <2> QED BY <1>1, <1>2, <1>4, <1>8, <2>1
  <1> QED BY <1>6, <1>7, <1>9, <1>10, <1>11, <1>12, <1>13, OneStream DEF StreamInv

\* A writer is woken for nothing.
LEMMA WakeForNothingStep ==
    ASSUME Inv, NEW s \in Streams, WakeForNothing(s)
    PROVE  Inv'
  <1>1. /\ wr[s] = "blocked" /\ wr' = [wr EXCEPT ![s] = "ready"]
        /\ taken' = taken /\ chunk' = chunk /\ fin' = fin /\ want' = want /\ cap' = cap
        /\ swin' = swin /\ scred' = scred /\ wire' = wire /\ buf' = buf /\ out' = out
        /\ rd' = rd /\ cwin' = cwin /\ ccred' = ccred
    BY DEF WakeForNothing, h2Vars, readerVars
  <1>2. Sized(s) /\ Written(s) /\ Handed(s) /\ Windows(s)
    BY AtStream
  <1>3. Types'
    BY <1>1 DEF Inv, Types
  <1>4. \A t \in Streams \ {s} : Untouched(t)
    BY <1>1 DEF Inv, Types, Untouched
  <1>5. Written(s)'
    <2>1. wr'[s] = "ready"
      BY <1>1 DEF Inv, Types
    <2>2. Ends(wire[s], "ready")
      BY <1>1, <1>2, EndsAny DEF Written
    <2> QED BY <1>1, <1>2, <2>1, <2>2 DEF Written
  <1>6. Sized(s)' /\ Handed(s)'
    BY Zenon, <1>1, <1>2 DEF Sized, Handed
  <1>7. Windows(s)'
    BY <1>1, <1>2 DEF Windows, InFlight
  <1>8. cwin' + ccred' + cap'[s] + InFlight(s)' = cwin + ccred + cap[s] + InFlight(s)
    BY <1>1 DEF InFlight
  <1> QED BY <1>3, <1>4, <1>5, <1>6, <1>7, <1>8, OneStream DEF StreamInv

\* What was released comes back to the stream's window.
LEMMA UpdateStreamWindowStep ==
    ASSUME Inv, NEW s \in Streams, UpdateStreamWindow(s)
    PROVE  Inv'
  <1>1. /\ swin' = [swin EXCEPT ![s] = @ + scred[s]] /\ scred' = [scred EXCEPT ![s] = 0]
        /\ wr' = wr /\ taken' = taken /\ chunk' = chunk /\ fin' = fin /\ want' = want
        /\ cap' = cap /\ wire' = wire /\ buf' = buf /\ out' = out
        /\ rd' = rd /\ cwin' = cwin /\ ccred' = ccred
    BY DEF UpdateStreamWindow, writerVars, readerVars
  <1>2. cap[s] \in Nat /\ swin[s] \in Nat /\ scred[s] \in Nat /\ InFlight(s) \in Nat
    BY AtStream
  <1>3. Sized(s) /\ Written(s) /\ Handed(s) /\ Windows(s)
    BY AtStream
  <1>4. Types'
    BY <1>1, <1>2 DEF Inv, Types
  <1>5. \A t \in Streams \ {s} : Untouched(t)
    BY <1>1 DEF Inv, Types, Untouched
  <1>6. swin'[s] = swin[s] + scred[s] /\ scred'[s] = 0
    BY <1>1 DEF Inv, Types
  <1>7. Sized(s)' /\ Written(s)' /\ Handed(s)'
    BY Zenon, <1>1, <1>3 DEF Sized, Written, Handed
  <1>8. InFlight(s)' = InFlight(s)
    BY <1>1 DEF InFlight
  <1>9. Windows(s)'
    <2>1. cap[s] <= swin[s]
      BY <1>3 DEF Windows
    <2>2. /\ cap'[s] <= swin'[s]
          /\ swin'[s] + scred'[s] + InFlight(s)' = swin[s] + scred[s] + InFlight(s)
      BY <1>1, <1>2, <1>6, <1>8, <2>1
    <2> QED BY <1>1, <1>3, <2>2 DEF Windows
  <1>10. cwin' + ccred' + cap'[s] + InFlight(s)' = cwin + ccred + cap[s] + InFlight(s)
    BY <1>1, <1>8
  <1> QED BY <1>4, <1>5, <1>7, <1>9, <1>10, OneStream DEF StreamInv

\* What was released comes back to the connection's window; no stream is touched.
LEMMA UpdateConnWindowStep ==
    ASSUME Inv, UpdateConnWindow
    PROVE  Inv'
  <1>1. /\ cwin' = cwin + ccred /\ ccred' = 0
        /\ swin' = swin /\ scred' = scred
        /\ wr' = wr /\ taken' = taken /\ chunk' = chunk /\ fin' = fin /\ want' = want
        /\ cap' = cap /\ wire' = wire /\ buf' = buf /\ out' = out /\ rd' = rd
    BY DEF UpdateConnWindow, writerVars, readerVars
  <1>2. cwin \in Nat /\ ccred \in Nat
    BY DEF Inv, Types
  <1>3. Types'
    BY <1>1, <1>2 DEF Inv, Types
  <1>4. \A t \in Streams : StreamInv(t)'
    <2>1. \A t \in Streams : Untouched(t)
      BY <1>1 DEF Untouched
    <2> QED BY <2>1, UntouchedKeeps DEF Inv
  <1>5. Conn'
    <2>1. Holdings' = Holdings
      BY <1>1 DEF Holdings, Charged
    <2>2. cwin' + ccred' = cwin + ccred
      BY <1>1, <1>2
    <2> QED BY <2>1, <2>2 DEF Inv, Conn
  <1> QED BY <1>3, <1>4, <1>5 DEF Inv

\* What nobody will read goes back to the connection, not to the stream.
LEMMA DiscardStep ==
    ASSUME Inv, NEW s \in Streams, Discard(s)
    PROVE  Inv'
  <1> DEFINE n == Len(Head(wire[s]).data)
  <1>1. /\ rd[s] = "gone" /\ wire[s] # <<>> /\ wire' = [wire EXCEPT ![s] = Tail(@)]
        /\ ccred' = ccred + n
        /\ wr' = wr /\ taken' = taken /\ chunk' = chunk /\ fin' = fin /\ want' = want
        /\ cap' = cap /\ swin' = swin /\ scred' = scred /\ buf' = buf /\ out' = out
        /\ rd' = rd /\ cwin' = cwin
    BY DEF Discard, writerVars, readerVars
  <1>2. /\ cap[s] \in Nat /\ swin[s] \in Nat /\ scred[s] \in Nat /\ InFlight(s) \in Nat
        /\ cwin \in Nat /\ ccred \in Nat
    BY AtStream
  <1>3. wire[s] \in Seq(Frames) /\ Sized(s) /\ Written(s) /\ Handed(s) /\ Windows(s)
    BY AtStream
  <1>4. Head(wire[s]) \in Frames /\ Tail(wire[s]) \in Seq(Frames)
    BY <1>1, <1>3
  <1>5. n \in Nat
    BY <1>4 DEF Frames
  <1>6. IsFiniteSet(BytesOf(Tail(wire[s]))) /\ InFlight(s) = Cardinality(BytesOf(Tail(wire[s]))) + n
    BY <1>1, <1>3, BytesTaken DEF Windows, InFlight
  <1> HIDE DEF n
  <1>7. Types'
    <2>1. ccred' \in Nat
      BY <1>1, <1>2, <1>5
    <2>2. wire' \in [Streams -> Seq(Frames)]
      BY <1>1, <1>4 DEF Inv, Types
    <2> QED BY Zenon, <1>1, <2>1, <2>2 DEF Inv, Types
  <1>8. \A t \in Streams \ {s} : Untouched(t)
    BY <1>1 DEF Inv, Types, Untouched
  <1>9. wire'[s] = Tail(wire[s])
    BY <1>1 DEF Inv, Types
  <1>10. /\ IsFiniteSet(BytesOf(wire'[s])) /\ InFlight(s)' \in Nat
         /\ InFlight(s) = InFlight(s)' + n
    BY <1>6, <1>9, FS_CardinalityType DEF InFlight
  <1>11. Sized(s)' /\ Handed(s)'
    BY Zenon, <1>1, <1>3 DEF Sized, Handed
  <1>12. Written(s)'
    <2>1. Ends(Tail(wire[s]), wr[s])
      BY <1>1, <1>3, EndsTaken DEF Written
    <2> QED BY <1>1, <1>3, <1>9, <2>1 DEF Written
  <1>13. Windows(s)'
    <2>1. swin[s] + scred[s] + InFlight(s) <= STREAM_WINDOW /\ STREAM_WINDOW \in Nat
      BY <1>3, StreamAssumption DEF Windows
    <2>2. swin'[s] + scred'[s] + InFlight(s)' <= STREAM_WINDOW
      BY <1>1, <1>2, <1>5, <1>10, <2>1
    <2> QED BY <1>1, <1>3, <1>10, <2>2 DEF Windows
  <1>14. cwin' + ccred' + cap'[s] + InFlight(s)' = cwin + ccred + cap[s] + InFlight(s)
    BY <1>1, <1>2, <1>5, <1>10
  <1> QED BY <1>7, <1>8, <1>11, <1>12, <1>13, <1>14, OneStream DEF StreamInv

=============================================================================
