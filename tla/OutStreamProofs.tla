-------------------------- MODULE OutStreamProofs --------------------------
(***************************************************************************)
(* Proofs about OutStream: its types, and that it implements ByteFile for  *)
(* all rows of bytes, block sizes and failures of the system.  What the    *)
(* bytes of a stream amount to, wherever they are, is Patched(data, off,   *)
(* buf): the lemmas say that raw_ostream's calls change it as they should. *)
(***************************************************************************)
EXTENDS OutStream, SequenceTheorems, TLAPS

(* Patched is a row of bytes, long enough for the patch. *)
LEMMA PatchedFacts ==
  ASSUME NEW d \in Seq(Nat), NEW o \in Nat, NEW bs \in Seq(Nat)
  PROVE  /\ Patched(d, o, bs) \in Seq(Nat)
         /\ Len(Patched(d, o, bs)) = IF Len(d) < o + Len(bs) THEN o + Len(bs) ELSE Len(d)
         /\ \A i \in 1..Len(Patched(d, o, bs)) :
              Patched(d, o, bs)[i] = IF o < i /\ i <= o + Len(bs) THEN bs[i - o]
                                     ELSE IF i <= Len(d) THEN d[i] ELSE 0
<1> DEFINE n == IF Len(d) < o + Len(bs) THEN o + Len(bs) ELSE Len(d)
           At(i) == IF o < i /\ i <= o + Len(bs) THEN bs[i - o]
                    ELSE IF i <= Len(d) THEN d[i] ELSE 0
<1>1. n \in Nat
  OBVIOUS
<1>2. \A i \in 1..n : At(i) \in Nat
  OBVIOUS
<1>3. Patched(d, o, bs) = [i \in 1..n |-> At(i)]
  BY DEF Patched
<1> HIDE DEF n, At
<1>4. [i \in 1..n |-> At(i)] \in Seq(Nat) /\ Len([i \in 1..n |-> At(i)]) = n
  BY <1>1, <1>2
<1> QED
  BY <1>3, <1>4 DEF n, At

(* Two rows with the same bytes are the same. *)
LEMMA SameRow ==
  ASSUME NEW a \in Seq(Nat), NEW b \in Seq(Nat), Len(a) = Len(b),
         \A i \in 1..Len(a) : a[i] = b[i]
  PROVE  a = b
<1>1. a = [i \in 1..Len(a) |-> a[i]] /\ b = [i \in 1..Len(b) |-> b[i]]
  OBVIOUS
<1> QED
  BY <1>1

(* A patch at the end appends. *)
LEMMA PatchedAtEnd ==
  ASSUME NEW d \in Seq(Nat), NEW bs \in Seq(Nat)
  PROVE  Patched(d, Len(d), bs) = d \o bs
<1>1. Len(d) \in Nat
  OBVIOUS
<1>2. /\ Patched(d, Len(d), bs) \in Seq(Nat) /\ d \o bs \in Seq(Nat)
      /\ Len(Patched(d, Len(d), bs)) = Len(d \o bs)
  BY <1>1, PatchedFacts
<1>3. \A i \in 1..Len(d \o bs) : Patched(d, Len(d), bs)[i] = (d \o bs)[i]
  <2> TAKE i \in 1..Len(d \o bs)
  <2>1. Patched(d, Len(d), bs)[i] = IF Len(d) < i /\ i <= Len(d) + Len(bs) THEN bs[i - Len(d)]
                                    ELSE IF i <= Len(d) THEN d[i] ELSE 0
    BY <1>1, <1>2, PatchedFacts, ZenonT(60)
  <2> QED
    BY <2>1
<1> QED
  BY <1>2, <1>3, SameRow

(* An empty patch inside a row leaves it as it is. *)
LEMMA PatchedEmpty ==
  ASSUME NEW d \in Seq(Nat), NEW o \in 0..Len(d)
  PROVE  Patched(d, o, <<>>) = d
<1> DEFINE e == <<>>
<1>1. o \in Nat /\ e \in Seq(Nat) /\ Len(e) = 0 /\ Len(d) \in Nat /\ o <= Len(d)
  OBVIOUS
<1> HIDE DEF e
<1>2. /\ Patched(d, o, e) \in Seq(Nat)
      /\ Len(Patched(d, o, e)) = IF Len(d) < o + Len(e) THEN o + Len(e) ELSE Len(d)
      /\ \A i \in 1..Len(Patched(d, o, e)) :
           Patched(d, o, e)[i] = IF o < i /\ i <= o + Len(e) THEN e[i - o]
                                 ELSE IF i <= Len(d) THEN d[i] ELSE 0
  BY <1>1, PatchedFacts
<1>3. Len(Patched(d, o, e)) = Len(d)
  BY <1>1, <1>2
<1>4. \A i \in 1..Len(d) : Patched(d, o, e)[i] = d[i]
  BY <1>1, <1>2, <1>3
<1>5. Patched(d, o, e) = d
  BY <1>2, <1>3, <1>4, SameRow
<1> QED
  BY <1>5 DEF e

(* Two patches, one behind the other, are one. *)
LEMMA PatchedTwice ==
  ASSUME NEW d \in Seq(Nat), NEW o \in Nat, NEW a \in Seq(Nat), NEW b \in Seq(Nat)
  PROVE  Patched(Patched(d, o, a), o + Len(a), b) = Patched(d, o, a \o b)
<1> DEFINE p == Patched(d, o, a)
           l == Patched(p, o + Len(a), b)
           r == Patched(d, o, a \o b)
<1>1. a \o b \in Seq(Nat) /\ Len(a \o b) = Len(a) + Len(b) /\ o + Len(a) \in Nat
  OBVIOUS
<1>2. p \in Seq(Nat) /\ Len(p) = IF Len(d) < o + Len(a) THEN o + Len(a) ELSE Len(d)
  BY PatchedFacts
<1>3. \A i \in 1..Len(p) : p[i] = IF o < i /\ i <= o + Len(a) THEN a[i - o]
                                  ELSE IF i <= Len(d) THEN d[i] ELSE 0
  BY PatchedFacts
<1> HIDE DEF p
<1>4. /\ l \in Seq(Nat)
      /\ Len(l) = IF Len(p) < o + Len(a) + Len(b) THEN o + Len(a) + Len(b) ELSE Len(p)
      /\ \A i \in 1..Len(l) : l[i] = IF o + Len(a) < i /\ i <= o + Len(a) + Len(b) THEN b[i - (o + Len(a))]
                                     ELSE IF i <= Len(p) THEN p[i] ELSE 0
  BY <1>1, <1>2, PatchedFacts
<1>5. /\ r \in Seq(Nat)
      /\ Len(r) = IF Len(d) < o + Len(a) + Len(b) THEN o + Len(a) + Len(b) ELSE Len(d)
      /\ \A i \in 1..Len(r) : r[i] = IF o < i /\ i <= o + Len(a) + Len(b) THEN (a \o b)[i - o]
                                     ELSE IF i <= Len(d) THEN d[i] ELSE 0
  <2> DEFINE ab == a \o b
  <2>1. ab \in Seq(Nat) /\ Len(ab) = Len(a) + Len(b) /\ o + Len(ab) = o + Len(a) + Len(b)
    BY <1>1
  <2> HIDE DEF ab
  <2>2. /\ Patched(d, o, ab) \in Seq(Nat)
        /\ Len(Patched(d, o, ab)) = IF Len(d) < o + Len(ab) THEN o + Len(ab) ELSE Len(d)
        /\ \A i \in 1..Len(Patched(d, o, ab)) :
             Patched(d, o, ab)[i] = IF o < i /\ i <= o + Len(ab) THEN ab[i - o]
                                    ELSE IF i <= Len(d) THEN d[i] ELSE 0
    BY <2>1, PatchedFacts
  <2> QED
    BY <2>1, <2>2 DEF ab
<1> HIDE DEF l, r
<1>6. Len(l) = Len(r)
  <2>1. Len(a) \in Nat /\ Len(b) \in Nat /\ Len(d) \in Nat
    OBVIOUS
  <2>2. Len(p) = IF Len(d) < o + Len(a) THEN o + Len(a) ELSE Len(d)
    BY <1>2
  <2>3. Len(l) = IF Len(p) < o + Len(a) + Len(b) THEN o + Len(a) + Len(b) ELSE Len(p)
    BY <1>4
  <2>4. Len(r) = IF Len(d) < o + Len(a) + Len(b) THEN o + Len(a) + Len(b) ELSE Len(d)
    BY <1>5
  <2> HIDE DEF l, r
  <2> QED
    BY <2>1, <2>2, <2>3, <2>4, SMTT(60)
<1>7. ASSUME NEW i \in 1..Len(l)
      PROVE  l[i] = r[i]
  <2>1. /\ i \in Nat /\ i >= 1 /\ i \in 1..Len(r) /\ i <= Len(l)
        /\ Len(a) \in Nat /\ Len(b) \in Nat /\ Len(d) \in Nat /\ Len(p) \in Nat
    BY <1>2, <1>6, <1>4
  <2>2. CASE i <= o
    <3>1. r[i] = IF i <= Len(d) THEN d[i] ELSE 0
      BY <2>1, <2>2, <1>5
    <3>2. l[i] = IF i <= Len(p) THEN p[i] ELSE 0
      BY <2>1, <2>2, <1>4
    <3>3. i <= Len(p) => p[i] = IF i <= Len(d) THEN d[i] ELSE 0
      BY <2>1, <2>2, <1>3
    <3> QED
      BY <2>1, <2>2, <3>1, <3>2, <3>3, <1>2
  <2>3. CASE o < i /\ i <= o + Len(a)
    <3>1. (a \o b)[i - o] = a[i - o]
      BY <2>1, <2>3
    <3>2. i \in 1..Len(p)
      BY <2>1, <2>3, <1>2
    <3>5. l[i] = IF o + Len(a) < i /\ i <= o + Len(a) + Len(b) THEN b[i - (o + Len(a))]
                 ELSE IF i <= Len(p) THEN p[i] ELSE 0
      BY <1>4
    <3>3. l[i] = p[i]
      BY <2>1, <2>3, <3>2, <3>5
    <3>4. p[i] = a[i - o]
      BY <2>3, <3>2, <1>3
    <3> QED
      BY <2>1, <2>3, <3>1, <3>3, <3>4, <1>5, SMTT(60)
  <2>4. CASE o + Len(a) < i /\ i <= o + Len(a) + Len(b)
    <3>1. (a \o b)[i - o] = b[i - o - Len(a)] /\ i - o - Len(a) = i - (o + Len(a))
      BY <2>1, <2>4
    <3>2. l[i] = b[i - (o + Len(a))]
      BY <2>1, <2>4, <1>4
    <3>3. r[i] = (a \o b)[i - o]
      BY <2>1, <2>4, <1>5
    <3> QED
      BY <3>1, <3>2, <3>3, SMTT(60)
  <2>5. CASE o + Len(a) + Len(b) < i
    <3>1. l[i] = IF i <= Len(p) THEN p[i] ELSE 0
      BY <2>1, <2>5, <1>4
    <3>2. r[i] = IF i <= Len(d) THEN d[i] ELSE 0
      BY <2>1, <2>5, <1>5
    <3>3. i <= Len(p) => p[i] = IF i <= Len(d) THEN d[i] ELSE 0
      BY <2>1, <2>5, <1>3
    <3>4. Len(p) = IF Len(d) < o + Len(a) THEN o + Len(a) ELSE Len(d)
      BY <1>2
    <3>5. i <= Len(p) <=> i <= Len(d)
      BY <2>1, <2>5, <3>4
    <3> QED
      BY <3>1, <3>2, <3>3, <3>5
  <2> QED
    BY <2>1, <2>2, <2>3, <2>4, <2>5
<1> QED
  BY <1>4, <1>5, <1>6, <1>7, SameRow DEF p, l, r

(* A row is its first n bytes and the others. *)
LEMMA SplitRow ==
  ASSUME NEW bs \in Seq(Nat), NEW n \in 0..Len(bs)
  PROVE  /\ SubSeq(bs, 1, n) \in Seq(Nat) /\ Len(SubSeq(bs, 1, n)) = n
         /\ SubSeq(bs, n + 1, Len(bs)) \in Seq(Nat) /\ Len(SubSeq(bs, n + 1, Len(bs))) = Len(bs) - n
         /\ SubSeq(bs, 1, n) \o SubSeq(bs, n + 1, Len(bs)) = bs
<1>1. Len(bs) \in Nat /\ n \in Nat /\ n <= Len(bs) /\ \A i \in 1..Len(bs) : bs[i] \in Nat
  OBVIOUS
<1>2. SubSeq(bs, 1, n) \in Seq(Nat) /\ Len(SubSeq(bs, 1, n)) = n
  <2>1. \A i \in 1..n : bs[i] \in Nat
    BY <1>1
  <2> QED
    BY <1>1, <2>1, SubSeqProperties
<1>3. SubSeq(bs, n + 1, Len(bs)) \in Seq(Nat) /\ Len(SubSeq(bs, n + 1, Len(bs))) = Len(bs) - n
  <2>1. \A i \in (n + 1)..Len(bs) : bs[i] \in Nat
    BY <1>1
  <2>2. n + 1 \in Int /\ Len(bs) \in Int
    BY <1>1
  <2>3. /\ SubSeq(bs, n + 1, Len(bs)) \in Seq(Nat)
        /\ Len(SubSeq(bs, n + 1, Len(bs))) = IF n + 1 <= Len(bs) THEN Len(bs) - (n + 1) + 1 ELSE 0
    BY <2>1, <2>2, SubSeqProperties
  <2> QED
    BY <1>1, <2>3
<1>4. SubSeq(bs, 1, Len(bs)) = bs
  OBVIOUS
<1>5. SubSeq(bs, 1, n) \o SubSeq(bs, n + 1, Len(bs)) = SubSeq(bs, 1, Len(bs))
  <2>1. 1 \in 1..Len(bs) + 1 /\ n \in (1 - 1)..Len(bs) /\ Len(bs) \in n..Len(bs)
    BY <1>1
  <2> QED
    BY <2>1, ConcatAdjacentSubSeq
<1> QED
  BY <1>2, <1>3, <1>4, <1>5

-----------------------------------------------------------------------------
(* Rows can be put together from either end. *)
LEMMA RowsAssociate ==
  ASSUME NEW a \in Seq(Nat), NEW b \in Seq(Nat), NEW c \in Seq(Nat)
  PROVE  (a \o b) \o c = a \o (b \o c)
BY ConcatAssociative

(* The block size is a number. *)
LEMMA BlockNat ==
  ASSUME block \in Blocks
  PROVE  block \in Nat
BY BlocksAssumption

(* The stream object between two calls or inside one, and what it amounts to. *)
StreamOK(s) ==
  /\ s \in StreamType
  /\ Len(s.buf) <= s.size
  /\ s.mode = "Unbuffered" => s.size = 0
View(s) == Patched(s.data, s.off, s.buf)

(* t is s after the bytes bs were written to it, if nothing has failed. *)
Wrote(s, t, bs) ==
  ~t.err =>
    /\ ~s.err
    /\ s.off <= Len(s.data) =>
         /\ View(t) = Patched(s.data, s.off, s.buf \o bs)
         /\ t.off + Len(t.buf) = s.off + Len(s.buf) + Len(bs)
         /\ t.pos + s.off = s.pos + t.off
         /\ t.off <= Len(t.data)
         /\ s.off = Len(s.data) => t.off = Len(t.data)

(* raw_fd_ostream::write_impl puts all bytes in place or sets the error. *)
LEMMA WriteImplFacts ==
  ASSUME ~Memory, NEW s \in StreamType, NEW bs \in Seq(Nat)
  PROVE  LET t == WriteImpl(s, bs) IN
         /\ t \in StreamType
         /\ t.buf = s.buf /\ t.size = s.size /\ t.mode = s.mode
         /\ ~t.err => /\ ~s.err
                      /\ t.data = Patched(s.data, s.off, bs)
                      /\ t.off = s.off + Len(bs)
                      /\ t.pos = s.pos + Len(bs)
<1> DEFINE n == IF Len(bs) <= s.takes THEN Len(bs) ELSE s.takes
           h == SubSeq(bs, 1, n)
           d == Patched(s.data, s.off, h)
           t == [s EXCEPT !.data = d, !.off = @ + n, !.takes = @ - n, !.pos = @ + Len(bs),
                          !.err = @ \/ n < Len(bs)]
<1>1. /\ s.data \in Seq(Nat) /\ s.off \in Nat /\ s.takes \in Nat /\ s.pos \in Nat
      /\ s.err \in BOOLEAN
  BY DEF StreamType
<1>2. n \in 0..Len(bs) /\ n <= s.takes
  BY <1>1
<1>3. h \in Seq(Nat) /\ Len(h) = n
  BY <1>2, SplitRow
<1>4. d \in Seq(Nat)
  BY <1>1, <1>3, PatchedFacts
<1>5. ~(n < Len(bs)) => n = Len(bs) /\ h = bs
  <2>1. Len(bs) \in Nat /\ SubSeq(bs, 1, Len(bs)) = bs
    OBVIOUS
  <2> QED
    BY <1>2, <2>1
<1>6. WriteImpl(s, bs) = t
  BY DEF WriteImpl, WriteToFile
<1> HIDE DEF n, h, d
<1>7. /\ t.buf = s.buf /\ t.size = s.size /\ t.mode = s.mode
      /\ t.data = d /\ t.off = s.off + n /\ t.pos = s.pos + Len(bs)
      /\ t.err = (s.err \/ n < Len(bs))
  BY DEF StreamType
<1>10. t \in StreamType
  <2>1. s.off + n \in Nat /\ s.takes - n \in Nat /\ s.pos + Len(bs) \in Nat
    BY <1>1, <1>2
  <2>2. (s.err \/ n < Len(bs)) \in BOOLEAN
    OBVIOUS
  <2> QED
    BY <1>4, <2>1, <2>2 DEF StreamType
<1> HIDE DEF t
<1>8. ~t.err => ~s.err /\ ~(n < Len(bs))
  BY <1>7
<1>9. ~t.err => t.data = Patched(s.data, s.off, bs) /\ t.off = s.off + Len(bs)
  BY <1>5, <1>7, <1>8 DEF d
<1> QED
  BY <1>6, <1>7, <1>8, <1>9, <1>10

(* flush empties the buffer into the place it stood for. *)
LEMMA FlushFacts ==
  ASSUME block \in Blocks, ~Memory, NEW s, StreamOK(s)
  PROVE  LET t == Flush(s) IN
         /\ StreamOK(t)
         /\ t.buf = <<>> /\ t.size = s.size /\ t.mode = s.mode
         /\ ~t.err => /\ ~s.err
                      /\ s.off <= Len(s.data) => t.data = View(s)
                      /\ t.off = s.off + Len(s.buf)
                      /\ t.pos = s.pos + Len(s.buf)
<1> DEFINE u == [s EXCEPT !.buf = <<>>]
<1>1. /\ s \in StreamType /\ s.buf \in Seq(Nat) /\ s.data \in Seq(Nat)
      /\ s.off \in Nat /\ s.pos \in Nat /\ s.size \in {0, block}
  BY DEF StreamOK, StreamType
<1>2. 0 <= s.size /\ <<>> \in Seq(Nat) /\ Len(<<>>) = 0
  BY <1>1, BlockNat
<1>3. CASE s.buf = <<>>
  <2>1. Flush(s) = s
    BY <1>3 DEF Flush
  <2>2. s.off <= Len(s.data) => View(s) = s.data
    BY <1>1, <1>3, PatchedEmpty DEF View
  <2> QED
    BY <1>1, <1>2, <1>3, <2>1, <2>2
<1>4. CASE s.buf # <<>>
  <2>1. Flush(s) = WriteImpl(u, s.buf)
    BY <1>4 DEF Flush
  <2>2. /\ u \in StreamType /\ u.buf = <<>> /\ u.size = s.size /\ u.mode = s.mode
        /\ u.data = s.data /\ u.off = s.off /\ u.pos = s.pos /\ u.err = s.err
    BY <1>1, <1>2 DEF StreamType
  <2> HIDE DEF u
  <2> DEFINE t == WriteImpl(u, s.buf)
  <2>3. /\ t \in StreamType
        /\ t.buf = u.buf /\ t.size = u.size /\ t.mode = u.mode
        /\ ~t.err => /\ ~u.err
                     /\ t.data = Patched(u.data, u.off, s.buf)
                     /\ t.off = u.off + Len(s.buf)
                     /\ t.pos = u.pos + Len(s.buf)
    BY <1>1, <2>2, WriteImplFacts
  <2> HIDE DEF t
  <2>4. StreamOK(t)
    BY <1>2, <2>2, <2>3 DEF StreamOK
  <2>5. Flush(s) = t
    BY <2>1 DEF t
  <2> QED
    BY <2>2, <2>3, <2>4, <2>5 DEF View
<1> QED
  BY <1>3, <1>4

(* Writing with an empty buffer. *)
LEMMA WriteAroundFacts ==
  ASSUME block \in Blocks, ~Memory, NEW s, StreamOK(s), s.buf = <<>>, s.size > 0, NEW bs \in Seq(Nat)
  PROVE  LET t == WriteAround(s, bs) IN
         StreamOK(t) /\ t.size = s.size /\ Wrote(s, t, bs)
<1>1. /\ s \in StreamType /\ s.data \in Seq(Nat) /\ s.off \in Nat /\ s.pos \in Nat
      /\ s.size \in Nat /\ s.mode # "Unbuffered"
  <2>1. /\ s \in StreamType /\ s.data \in Seq(Nat) /\ s.off \in Nat /\ s.pos \in Nat
        /\ s.size \in {0, block}
    BY DEF StreamOK, StreamType
  <2> QED
    BY <2>1, BlockNat DEF StreamOK
<1>2. Len(bs) \in Nat /\ <<>> \o bs = bs /\ Len(<<>>) = 0
  BY ConcatEmptySeq
<1>3. CASE Len(bs) <= s.size
  <2> DEFINE t == [s EXCEPT !.buf = bs]
  <2>1. WriteAround(s, bs) = t
    BY <1>3 DEF WriteAround
  <2>2. /\ t \in StreamType /\ t.buf = bs /\ t.size = s.size /\ t.mode = s.mode
        /\ t.data = s.data /\ t.off = s.off /\ t.pos = s.pos /\ t.err = s.err
    BY <1>1 DEF StreamType
  <2> HIDE DEF t
  <2>3. StreamOK(t)
    BY <1>1, <1>3, <2>2 DEF StreamOK
  <2>4. Wrote(s, t, bs)
    BY <1>1, <1>2, <2>2 DEF Wrote, View
  <2> QED
    BY <2>1, <2>2, <2>3, <2>4
<1>4. CASE ~(Len(bs) <= s.size)
  <2> DEFINE n == Len(bs) - (Len(bs) % s.size)
             a == SubSeq(bs, 1, n)
             b == SubSeq(bs, n + 1, Len(bs))
             w == WriteImpl(s, a)
             t == [w EXCEPT !.buf = b]
  <2>1. n \in 0..Len(bs) /\ Len(bs) - n <= s.size
    <3>1. Len(bs) % s.size \in 0..(s.size - 1)
      BY <1>1, <1>2
    <3> QED
      BY <1>1, <1>2, <1>4, <3>1
  <2>2. WriteAround(s, bs) = t
    BY <1>4 DEF WriteAround
  <2> HIDE DEF n
  <2>3. a \in Seq(Nat) /\ Len(a) = n /\ b \in Seq(Nat) /\ Len(b) = Len(bs) - n /\ a \o b = bs
    BY <2>1, SplitRow
  <2> HIDE DEF a, b
  <2>4. /\ w \in StreamType
        /\ w.buf = s.buf /\ w.size = s.size /\ w.mode = s.mode
        /\ ~w.err => /\ ~s.err
                     /\ w.data = Patched(s.data, s.off, a)
                     /\ w.off = s.off + Len(a)
                     /\ w.pos = s.pos + Len(a)
    BY <1>1, <2>3, WriteImplFacts
  <2> HIDE DEF w
  <2>5. /\ t \in StreamType /\ t.buf = b /\ t.size = w.size /\ t.mode = w.mode
        /\ t.data = w.data /\ t.off = w.off /\ t.pos = w.pos /\ t.err = w.err
    BY <2>3, <2>4 DEF StreamType
  <2> HIDE DEF t
  <2>6. StreamOK(t)
    BY <1>1, <2>1, <2>3, <2>4, <2>5 DEF StreamOK
  <2>7. ASSUME ~t.err
        PROVE  /\ ~s.err
               /\ View(t) = Patched(s.data, s.off, bs)
               /\ t.off = s.off + n
               /\ t.pos = s.pos + n
               /\ Len(t.data) = IF Len(s.data) < s.off + n THEN s.off + n ELSE Len(s.data)
    <3>1. /\ ~s.err /\ t.data = Patched(s.data, s.off, a)
          /\ t.off = s.off + Len(a) /\ t.pos = s.pos + Len(a) /\ t.buf = b
      BY <2>4, <2>5, <2>7
    <3>2. View(t) = Patched(Patched(s.data, s.off, a), s.off + Len(a), b)
      BY <3>1 DEF View
    <3>5. s.data \in Seq(Nat) /\ s.off \in Nat /\ a \in Seq(Nat) /\ b \in Seq(Nat)
      BY <1>1, <2>3
    <3>6. Patched(Patched(s.data, s.off, a), s.off + Len(a), b) = Patched(s.data, s.off, a \o b)
      BY <3>5, PatchedTwice, ZenonT(60)
    <3>3. View(t) = Patched(s.data, s.off, bs)
      BY <2>3, <3>2, <3>6
    <3>7. Len(Patched(s.data, s.off, a)) = IF Len(s.data) < s.off + Len(a) THEN s.off + Len(a) ELSE Len(s.data)
      BY <3>5, PatchedFacts
    <3>4. Len(t.data) = IF Len(s.data) < s.off + Len(a) THEN s.off + Len(a) ELSE Len(s.data)
      BY <3>1, <3>7
    <3> QED
      BY <2>3, <3>1, <3>3, <3>4
  <2>8. Wrote(s, t, bs)
    <3>1. Len(t.buf) = Len(bs) - n /\ n \in Nat /\ Len(s.data) \in Nat
      BY <1>1, <2>1, <2>3, <2>5
    <3> QED
      BY <1>1, <1>2, <2>7, <3>1 DEF Wrote
  <2> QED
    BY <2>2, <2>4, <2>5, <2>6, <2>8
<1> QED
  BY <1>3, <1>4

(* The fields of a stream, and what its size says about it. *)
LEMMA FieldTypes ==
  ASSUME block \in Blocks, NEW s, StreamOK(s)
  PROVE  /\ s \in StreamType
         /\ s.buf \in Seq(Nat) /\ Len(s.buf) \in Nat
         /\ s.data \in Seq(Nat) /\ Len(s.data) \in Nat
         /\ s.off \in Nat /\ s.pos \in Nat /\ s.size \in Nat /\ Len(s.buf) <= s.size
         /\ s.size = 0 => s.buf = <<>>
         /\ s.mode \in {"Unbuffered", "InternalBuffer"}
<1>1. /\ s \in StreamType /\ s.buf \in Seq(Nat) /\ s.data \in Seq(Nat) /\ s.off \in Nat
      /\ s.pos \in Nat /\ s.size \in {0, block} /\ Len(s.buf) <= s.size
      /\ s.mode \in {"Unbuffered", "InternalBuffer"}
  BY DEF StreamOK, StreamType
<1>2. Len(s.buf) \in Nat /\ Len(s.data) \in Nat /\ s.size \in Nat
  BY <1>1, BlockNat
<1>3. s.size = 0 => s.buf = <<>>
  BY <1>1, <1>2
<1> QED
  BY <1>1, <1>2, <1>3

(* The buffer is full: it goes out with as much of bs as fits. *)
LEMMA WriteOverFacts ==
  ASSUME block \in Blocks, ~Memory, NEW s, StreamOK(s), NEW bs \in Seq(Nat),
         s.size > 0, ~(Len(bs) <= s.size - Len(s.buf))
  PROVE  LET n == s.size - Len(s.buf)
             t == WriteAround(Flush([s EXCEPT !.buf = @ \o SubSeq(bs, 1, n)]), SubSeq(bs, n + 1, Len(bs)))
         IN StreamOK(t) /\ Wrote(s, t, bs)
<1> DEFINE n == s.size - Len(s.buf)
           a == SubSeq(bs, 1, n)
           b == SubSeq(bs, n + 1, Len(bs))
           c == s.buf \o a
           v == [s EXCEPT !.buf = @ \o a]
           u == Flush(v)
           t == WriteAround(u, b)
<1>1. /\ s \in StreamType
      /\ s.buf \in Seq(Nat) /\ Len(s.buf) \in Nat
      /\ s.data \in Seq(Nat) /\ Len(s.data) \in Nat
      /\ s.off \in Nat /\ s.pos \in Nat /\ s.size \in Nat /\ Len(s.buf) <= s.size
  BY FieldTypes
<1>2. n \in 0..Len(bs)
  BY <1>1
<1>3. a \in Seq(Nat) /\ Len(a) = n /\ b \in Seq(Nat) /\ Len(b) = Len(bs) - n /\ a \o b = bs
  BY <1>2, SplitRow
<1> HIDE DEF n, a, b
<1>4. c \in Seq(Nat) /\ Len(c) = Len(s.buf) + n /\ Len(c) = s.size /\ c \o b = s.buf \o bs
  <2>3. s.buf \in Seq(Nat) /\ a \in Seq(Nat) /\ b \in Seq(Nat)
    BY <1>1, <1>3
  <2>1. c \in Seq(Nat) /\ Len(c) = Len(s.buf) + Len(a)
    BY <2>3, ConcatProperties
  <2>2. (s.buf \o a) \o b = s.buf \o (a \o b)
    BY <2>3, RowsAssociate
  <2> QED
    BY <1>1, <1>3, <2>1, <2>2, SMTT(60) DEF n
<1>5. /\ v \in StreamType /\ v.buf = c /\ v.size = s.size /\ v.mode = s.mode
      /\ v.data = s.data /\ v.off = s.off /\ v.pos = s.pos /\ v.err = s.err
  BY <1>1, <1>4 DEF StreamType
<1> HIDE DEF c, v
<1>6. StreamOK(v)
  BY <1>1, <1>4, <1>5 DEF StreamOK
<1>7. /\ StreamOK(u)
      /\ u.buf = <<>> /\ u.size = s.size /\ u.mode = s.mode
      /\ ~u.err => /\ ~s.err
                   /\ s.off <= Len(s.data) => u.data = Patched(s.data, s.off, c)
                   /\ u.off = s.off + Len(c)
                   /\ u.pos = s.pos + Len(c)
  <2>1. /\ StreamOK(u)
        /\ u.buf = <<>> /\ u.size = v.size /\ u.mode = v.mode
        /\ ~u.err => /\ ~v.err
                     /\ v.off <= Len(v.data) => u.data = View(v)
                     /\ u.off = v.off + Len(v.buf)
                     /\ u.pos = v.pos + Len(v.buf)
    BY <1>6, FlushFacts
  <2> HIDE DEF u
  <2> QED
    BY <1>5, <2>1 DEF View
<1> HIDE DEF u
<1>8. StreamOK(t) /\ Wrote(u, t, b)
  BY <1>3, <1>7, WriteAroundFacts
<1> HIDE DEF t
<1>9. ASSUME ~t.err, s.off <= Len(s.data)
      PROVE  /\ View(t) = Patched(s.data, s.off, s.buf \o bs)
             /\ t.off + Len(t.buf) = s.off + Len(s.buf) + Len(bs)
             /\ t.pos + s.off = s.pos + t.off
             /\ t.off <= Len(t.data)
             /\ s.off = Len(s.data) => t.off = Len(t.data)
  <2>1. ~u.err
    BY <1>8, <1>9 DEF Wrote
  <2>2. /\ u.data = Patched(s.data, s.off, c) /\ u.off = s.off + Len(c) /\ u.pos = s.pos + Len(c)
    BY <1>7, <1>9, <2>1
  <2>12. s.data \in Seq(Nat) /\ s.off \in Nat /\ c \in Seq(Nat) /\ b \in Seq(Nat)
    BY <1>1, <1>3, <1>4
  <2>13. Len(Patched(s.data, s.off, c)) = IF Len(s.data) < s.off + Len(c) THEN s.off + Len(c) ELSE Len(s.data)
    BY <2>12, PatchedFacts
  <2>3. Len(u.data) = IF Len(s.data) < s.off + Len(c) THEN s.off + Len(c) ELSE Len(s.data)
    BY <2>2, <2>13
  <2>4. u.off <= Len(u.data) /\ (s.off = Len(s.data) => u.off = Len(u.data))
    BY <1>1, <1>4, <2>2, <2>3
  <2>5. /\ View(t) = Patched(u.data, u.off, u.buf \o b)
        /\ t.off + Len(t.buf) = u.off + Len(u.buf) + Len(b)
        /\ t.pos + u.off = u.pos + t.off
        /\ t.off <= Len(t.data)
        /\ u.off = Len(u.data) => t.off = Len(t.data)
    BY <1>8, <1>9, <2>4 DEF Wrote
  <2>6. u.buf \o b = b /\ Len(u.buf) = 0
    BY <1>3, <1>7, ConcatEmptySeq
  <2>7. Patched(Patched(s.data, s.off, c), s.off + Len(c), b) = Patched(s.data, s.off, c \o b)
    BY <2>12, PatchedTwice, ZenonT(60)
  <2>8. View(t) = Patched(s.data, s.off, s.buf \o bs)
    BY <1>4, <2>2, <2>5, <2>6, <2>7
  <2>9. t.off \in Nat /\ Len(t.buf) \in Nat /\ t.pos \in Nat /\ u.off \in Nat /\ u.pos \in Nat /\ Len(bs) \in Nat /\ n \in Nat
    BY <1>2, <1>7, <1>8, FieldTypes
  <2>14. /\ t.off + Len(t.buf) = s.off + Len(c) + Len(b)
         /\ t.pos + (s.off + Len(c)) = s.pos + Len(c) + t.off
    BY <2>2, <2>5, <2>6, <2>9
  <2>15. Len(c) = Len(s.buf) + n /\ Len(b) = Len(bs) - n /\ Len(s.buf) \in Nat /\ s.off \in Nat /\ s.pos \in Nat
    BY <1>1, <1>3, <1>4
  <2>10. t.off + Len(t.buf) = s.off + Len(s.buf) + Len(bs)
    BY <2>9, <2>14, <2>15
  <2>11. t.pos + s.off = s.pos + t.off
    <3>1. t.pos + (s.off + Len(c)) = s.pos + Len(c) + t.off
      BY <2>14
    <3>2. Len(c) \in Nat /\ t.pos \in Nat /\ t.off \in Nat /\ s.pos \in Nat /\ s.off \in Nat
      BY <1>1, <1>4, <2>9
    <3> DEFINE p == t.pos
               f == t.off
               q == s.pos
               o == s.off
               l == Len(c)
    <3>3. p \in Nat /\ f \in Nat /\ q \in Nat /\ o \in Nat /\ l \in Nat /\ p + (o + l) = q + l + f
      BY <3>1, <3>2
    <3> HIDE DEF p, f, q, o, l
    <3>4. p + o = q + f
      BY <3>3
    <3> QED
      BY <3>4 DEF p, f, q, o
  <2> QED
    BY <2>4, <2>5, <2>8, <2>10, <2>11
<1>10. ~t.err => ~s.err
  BY <1>7, <1>8 DEF Wrote
<1>11. StreamOK(t) /\ Wrote(s, t, bs)
  BY <1>8, <1>9, <1>10 DEF Wrote
<1> QED
  BY <1>11 DEF n, a, b, v, u, t

(* write to a buffered file *)
LEMMA WriteBufferedFacts ==
  ASSUME block \in Blocks, ~Memory, NEW s, StreamOK(s), NEW bs \in Seq(Nat), s.size > 0
  PROVE  StreamOK(WriteBuffered(s, bs)) /\ Wrote(s, WriteBuffered(s, bs), bs)
<1> DEFINE t == [s EXCEPT !.buf = @ \o bs]
<1>1. /\ s \in StreamType /\ s.buf \in Seq(Nat) /\ Len(s.buf) \in Nat
      /\ s.off \in Nat /\ s.pos \in Nat /\ s.size \in Nat /\ Len(s.buf) <= s.size
  BY FieldTypes
<1>2. CASE Len(bs) <= s.size - Len(s.buf)
  <2>1. WriteBuffered(s, bs) = t
    BY <1>2 DEF WriteBuffered
  <2>2. s.buf \in Seq(Nat) /\ bs \in Seq(Nat)
    BY <1>1
  <2>3. s.buf \o bs \in Seq(Nat) /\ Len(s.buf \o bs) = Len(s.buf) + Len(bs)
    BY <2>2, ConcatProperties
  <2>4. /\ t \in StreamType /\ t.buf = s.buf \o bs /\ t.size = s.size /\ t.mode = s.mode
        /\ t.data = s.data /\ t.off = s.off /\ t.pos = s.pos /\ t.err = s.err
    BY <1>1, <2>3 DEF StreamType
  <2> HIDE DEF t
  <2>5. Len(bs) \in Nat
    OBVIOUS
  <2>6. StreamOK(t)
    BY <1>1, <1>2, <2>3, <2>4, <2>5 DEF StreamOK
  <2>7. Wrote(s, t, bs)
    BY <1>1, <2>3, <2>4, <2>5 DEF Wrote, View
  <2> QED
    BY <2>1, <2>6, <2>7
<1>3. CASE ~(Len(bs) <= s.size - Len(s.buf)) /\ s.buf = <<>>
  <2>1. WriteBuffered(s, bs) = WriteAround(s, bs)
    BY <1>3 DEF WriteBuffered
  <2> QED
    BY <1>3, <2>1, WriteAroundFacts
<1>4. CASE ~(Len(bs) <= s.size - Len(s.buf)) /\ s.buf # <<>>
  BY <1>4, WriteOverFacts DEF WriteBuffered
<1> QED
  BY <1>2, <1>3, <1>4

(* write without a buffer *)
LEMMA WriteUnbufferedFacts ==
  ASSUME block \in Blocks, ~Memory, NEW s, StreamOK(s), NEW bs \in Seq(Nat), s.size = 0
  PROVE  StreamOK(WriteImpl(s, bs)) /\ Wrote(s, WriteImpl(s, bs), bs)
<1> DEFINE t == WriteImpl(s, bs)
<1>1. /\ s \in StreamType /\ s.buf = <<>> /\ s.data \in Seq(Nat) /\ Len(s.data) \in Nat
      /\ s.off \in Nat /\ s.pos \in Nat
  BY FieldTypes
<1>2. /\ t \in StreamType
      /\ t.buf = s.buf /\ t.size = s.size /\ t.mode = s.mode
      /\ ~t.err => /\ ~s.err
                   /\ t.data = Patched(s.data, s.off, bs)
                   /\ t.off = s.off + Len(bs)
                   /\ t.pos = s.pos + Len(bs)
  BY <1>1, WriteImplFacts
<1> HIDE DEF t
<1>3. StreamOK(t)
  BY <1>2 DEF StreamOK
<1>4. Len(bs) \in Nat /\ <<>> \o bs = bs /\ Len(<<>>) = 0
  BY ConcatEmptySeq
<1>5. ASSUME ~t.err, s.off <= Len(s.data)
      PROVE  /\ View(t) = Patched(s.data, s.off, s.buf \o bs)
             /\ t.off <= Len(t.data)
             /\ s.off = Len(s.data) => t.off = Len(t.data)
  <2>1. s.data \in Seq(Nat) /\ s.off \in Nat
    BY <1>1
  <2>2. /\ Patched(s.data, s.off, bs) \in Seq(Nat)
        /\ Len(Patched(s.data, s.off, bs)) = IF Len(s.data) < s.off + Len(bs) THEN s.off + Len(bs) ELSE Len(s.data)
    BY <2>1, PatchedFacts
  <2>3. t.data = Patched(s.data, s.off, bs) /\ t.off = s.off + Len(bs)
    BY <1>2, <1>5
  <2>4. t.off <= Len(t.data) /\ (s.off = Len(s.data) => t.off = Len(t.data))
    BY <1>1, <1>4, <2>2, <2>3
  <2>5. t.data \in Seq(Nat) /\ t.off \in 0..Len(t.data)
    BY <1>1, <1>4, <2>2, <2>3, <2>4
  <2>6. View(t) = t.data
    BY <1>1, <1>2, <2>5, PatchedEmpty DEF View
  <2> QED
    BY <1>1, <1>4, <2>3, <2>4, <2>6
<1>6. Wrote(s, t, bs)
  BY <1>1, <1>2, <1>4, <1>5 DEF Wrote
<1> QED
  BY <1>3, <1>6 DEF t

(* raw_ostream::write to a file *)
LEMMA WriteFacts ==
  ASSUME block \in Blocks, ~Memory, NEW s, StreamOK(s), NEW bs \in Seq(Nat)
  PROVE  StreamOK(Write(s, bs)) /\ Wrote(s, Write(s, bs), bs)
<1> DEFINE t == IF s.mode = "InternalBuffer" /\ s.size = 0 THEN SetBuffered(s) ELSE s
<1>1. /\ s \in StreamType /\ s.buf \in Seq(Nat) /\ s.size \in Nat /\ Len(s.buf) <= s.size
      /\ s.size = 0 => s.buf = <<>>
      /\ s.mode \in {"Unbuffered", "InternalBuffer"}
  BY FieldTypes
<1>2. block \in Nat
  BY BlockNat
<1>3. /\ t \in StreamType /\ t.buf = s.buf /\ t.data = s.data /\ t.off = s.off
      /\ t.pos = s.pos /\ t.err = s.err
      /\ t.size \in Nat /\ Len(t.buf) <= t.size
      /\ t.mode = "Unbuffered" => t.size = 0
      /\ t.mode # "Unbuffered" => t.size > 0
  <2>1. CASE s.mode = "InternalBuffer" /\ s.size = 0 /\ block = 0
    <3>1. t = [s EXCEPT !.mode = "Unbuffered"]
      BY <2>1 DEF SetBuffered
    <3> HIDE DEF t
    <3> QED
      BY <1>1, <2>1, <3>1 DEF StreamType
  <2>2. CASE s.mode = "InternalBuffer" /\ s.size = 0 /\ block # 0
    <3>1. t = [s EXCEPT !.size = block]
      BY <2>2 DEF SetBuffered
    <3> HIDE DEF t
    <3>2. /\ t \in StreamType /\ t.buf = s.buf /\ t.data = s.data /\ t.off = s.off
          /\ t.pos = s.pos /\ t.err = s.err /\ t.size = block /\ t.mode = "InternalBuffer"
      BY <1>1, <2>2, <3>1 DEF StreamType
    <3>3. Len(t.buf) = 0
      BY <1>1, <2>2, <3>2
    <3> QED
      BY <1>2, <2>2, <3>2, <3>3
  <2>3. CASE ~(s.mode = "InternalBuffer" /\ s.size = 0)
    <3>1. t = s
      BY <2>3
    <3> HIDE DEF t
    <3>2. s.mode = "Unbuffered" => s.size = 0
      BY DEF StreamOK
    <3> QED
      BY <1>1, <2>3, <3>1, <3>2
  <2> QED
    BY <2>1, <2>2, <2>3
<1> HIDE DEF t
<1>4. StreamOK(t)
  BY <1>3 DEF StreamOK
<1>5. Write(s, bs) = IF t.mode = "Unbuffered" THEN WriteImpl(t, bs) ELSE WriteBuffered(t, bs)
  BY DEF Write, t
<1>6. StreamOK(Write(s, bs)) /\ Wrote(t, Write(s, bs), bs)
  <2>1. CASE t.mode = "Unbuffered"
    <3>1. StreamOK(WriteImpl(t, bs)) /\ Wrote(t, WriteImpl(t, bs), bs)
      BY <1>3, <1>4, <2>1, WriteUnbufferedFacts
    <3> QED
      BY <1>5, <2>1, <3>1
  <2>2. CASE t.mode # "Unbuffered"
    <3>1. StreamOK(WriteBuffered(t, bs)) /\ Wrote(t, WriteBuffered(t, bs), bs)
      BY <1>3, <1>4, <2>2, WriteBufferedFacts
    <3> QED
      BY <1>5, <2>2, <3>1
  <2> QED
    BY <2>1, <2>2
<1> DEFINE w == Write(s, bs)
<1>7. StreamOK(w) /\ Wrote(t, w, bs)
  BY <1>6
<1> HIDE DEF w
<1>8. Wrote(s, w, bs)
  BY <1>3, <1>7 DEF Wrote
<1> QED
  BY <1>7, <1>8 DEF w

(* A file whose descriptor and position stand at its end. *)
AtEnd(s) == s.off = Len(s.data) /\ s.pos = Len(s.data)

(* seek writes out the buffer and moves. *)
LEMMA SeekFacts ==
  ASSUME block \in Blocks, ~Memory, NEW s, StreamOK(s), NEW o \in Nat
  PROVE  LET t == Seek(s, o) IN
         /\ StreamOK(t) /\ t.buf = <<>> /\ t.off = o /\ t.pos = o
         /\ ~t.err => ~s.err /\ (s.off <= Len(s.data) => t.data = View(s))
<1> DEFINE u == Flush(s)
           t == [u EXCEPT !.pos = o, !.off = o]
<1>1. /\ StreamOK(u) /\ u.buf = <<>>
      /\ ~u.err => ~s.err /\ (s.off <= Len(s.data) => u.data = View(s))
  BY FlushFacts
<1>2. Seek(s, o) = t
  BY DEF Seek
<1> HIDE DEF u
<1>3. /\ t \in StreamType /\ t.buf = u.buf /\ t.size = u.size /\ t.mode = u.mode
      /\ t.data = u.data /\ t.off = o /\ t.pos = o /\ t.err = u.err
  BY <1>1 DEF StreamOK, StreamType
<1> HIDE DEF t
<1>4. StreamOK(t)
  BY <1>1, <1>3 DEF StreamOK
<1> QED
  BY <1>1, <1>2, <1>3, <1>4

(* pwrite to a file changes the bytes in place and comes back to the end. *)
LEMMA PatchFileFacts ==
  ASSUME block \in Blocks, ~Memory, NEW s, StreamOK(s), ~s.err => AtEnd(s),
         NEW bs \in Seq(Nat), NEW o \in Nat, o + Len(bs) <= Tell(s)
  PROVE  LET t == PatchFile(s, bs, o) IN
         /\ StreamOK(t)
         /\ ~t.err => /\ ~s.err /\ t.buf = <<>> /\ AtEnd(t)
                      /\ t.data = Patched(s.data \o s.buf, o, bs)
                      /\ Len(t.data) = Len(s.data \o s.buf)
<1> DEFINE c == s.data \o s.buf
           u == Seek(s, o)
           w == Write(u, bs)
           t == Seek(w, Tell(s))
<1>1. /\ s.buf \in Seq(Nat) /\ Len(s.buf) \in Nat /\ s.data \in Seq(Nat) /\ Len(s.data) \in Nat
      /\ s.off \in Nat /\ s.pos \in Nat
  BY FieldTypes
<1>2. Tell(s) = s.pos + Len(s.buf) /\ Tell(s) \in Nat
  BY <1>1 DEF Tell, CurrentPos
<1>3. c \in Seq(Nat) /\ Len(c) = Len(s.data) + Len(s.buf)
  <2>1. s.data \in Seq(Nat) /\ s.buf \in Seq(Nat)
    BY <1>1
  <2> QED
    BY <2>1, ConcatProperties
<1> HIDE DEF c
<1>4. /\ StreamOK(u) /\ u.buf = <<>> /\ u.off = o /\ u.pos = o
      /\ ~u.err => ~s.err /\ (s.off <= Len(s.data) => u.data = View(s))
  BY SeekFacts
<1> HIDE DEF u
<1>5. StreamOK(w) /\ Wrote(u, w, bs)
  BY <1>4, WriteFacts
<1> HIDE DEF w
<1>6. /\ StreamOK(t) /\ t.buf = <<>> /\ t.off = Tell(s) /\ t.pos = Tell(s)
      /\ ~t.err => ~w.err /\ (w.off <= Len(w.data) => t.data = View(w))
  BY <1>2, <1>5, SeekFacts
<1>7. PatchFile(s, bs, o) = t
  BY DEF PatchFile, u, w
<1> HIDE DEF t
<1>8. ASSUME ~t.err
      PROVE  ~s.err /\ AtEnd(t) /\ t.data = Patched(c, o, bs) /\ Len(t.data) = Len(c)
  <2>1. ~w.err /\ ~u.err /\ ~s.err
    BY <1>4, <1>5, <1>6, <1>8 DEF Wrote
  <2>2. s.off = Len(s.data) /\ s.pos = Len(s.data)
    BY <2>1 DEF AtEnd
  <2>3. View(s) = c
    BY <1>1, <2>2, PatchedAtEnd DEF View, c
  <2>4. u.data = c
    <3>1. s.off <= Len(s.data)
      BY <1>1, <2>2
    <3> QED
      BY <1>4, <2>1, <2>3, <3>1
  <2>5. Len(c) \in Nat /\ Len(bs) \in Nat /\ o + Len(bs) <= Len(c) /\ Tell(s) = Len(c)
    <3>1. Tell(s) = Len(c)
      BY <1>2, <1>3, <2>2
    <3>2. Len(c) \in Nat /\ Len(bs) \in Nat
      <4>1. c \in Seq(Nat)
        BY <1>3
      <4> QED
        BY <4>1
    <3> QED
      BY <3>1, <3>2
  <2>6. u.off <= Len(u.data)
    <3>1. u.off = o /\ u.data = c
      BY <1>4, <2>4
    <3>2. o <= Len(c)
      BY <2>5
    <3> QED
      BY <3>1, <3>2
  <2>7. View(w) = Patched(u.data, u.off, u.buf \o bs) /\ w.off <= Len(w.data)
    BY <1>5, <2>1, <2>6 DEF Wrote
  <2>8. u.buf \o bs = bs
    BY <1>4, ConcatEmptySeq
  <2>9. t.data = Patched(c, o, bs)
    BY <1>4, <1>6, <1>8, <2>4, <2>7, <2>8
  <2>10. Len(Patched(c, o, bs)) = IF Len(c) < o + Len(bs) THEN o + Len(bs) ELSE Len(c)
    BY <1>3, PatchedFacts
  <2>11. Len(t.data) = Len(c)
    <3>1. ~(Len(c) < o + Len(bs))
      BY <2>5
    <3> QED
      BY <2>9, <2>10, <3>1
  <2> QED
    BY <1>6, <2>1, <2>5, <2>9, <2>11 DEF AtEnd
<1> QED
  BY <1>6, <1>7, <1>8 DEF c

-----------------------------------------------------------------------------
(* The inductive invariant: between two calls an object in memory has no
   buffer, and a file without an error is written at its end. *)
OInv ==
  /\ TypeOK
  /\ StreamOK(strm)
  /\ Memory => strm.mode = "Unbuffered" /\ ~strm.err
  /\ ~Memory /\ ~strm.err => AtEnd(strm)
  /\ phase = "start" => strm.data = <<>> /\ strm.buf = <<>> /\ ~strm.err /\ told = 0
  /\ phase = "complete" => ~strm.err /\ strm.buf = <<>>

(* What the system takes is no part of the stream. *)
LEMMA TakesFacts ==
  ASSUME NEW s, StreamOK(s), NEW n \in Nat
  PROVE  LET t == [s EXCEPT !.takes = n] IN
         /\ StreamOK(t)
         /\ t.mode = s.mode /\ t.size = s.size /\ t.buf = s.buf /\ t.data = s.data
         /\ t.pos = s.pos /\ t.err = s.err /\ t.off = s.off
<1> DEFINE t == [s EXCEPT !.takes = n]
<1>1. s \in StreamType
  BY DEF StreamOK
<1>2. /\ t \in StreamType
      /\ t.mode = s.mode /\ t.size = s.size /\ t.buf = s.buf /\ t.data = s.data
      /\ t.pos = s.pos /\ t.err = s.err /\ t.off = s.off
  BY <1>1 DEF StreamType
<1> HIDE DEF t
<1>3. StreamOK(t)
  BY <1>2 DEF StreamOK
<1> QED
  BY <1>2, <1>3 DEF t

(* One write, and one pwrite, as the object writer sees them. *)
LEMMA EmitFacts ==
  ASSUME OInv, phase = "open", NEW bs \in Seq(Nat), NEW n \in Nat
  PROVE  LET t == Settled(Write(Given(n), bs)) IN
         /\ StreamOK(t) /\ (Memory => t.mode = "Unbuffered" /\ ~t.err)
         /\ ~t.err => /\ ~strm.err
                      /\ ~Memory => AtEnd(t)
                      /\ t.data \o t.buf = (strm.data \o strm.buf) \o bs
<1> DEFINE g == Given(n)
           w == Write(g, bs)
           t == Settled(w)
<1>1. /\ block \in Blocks
      /\ StreamOK(g)
      /\ g.mode = strm.mode /\ g.size = strm.size /\ g.buf = strm.buf /\ g.data = strm.data
      /\ g.pos = strm.pos /\ g.err = strm.err /\ g.off = strm.off
  BY TakesFacts DEF Given, OInv, TypeOK
<1> HIDE DEF g
<1>2. /\ g.data \in Seq(Nat) /\ Len(g.data) \in Nat /\ g.buf \in Seq(Nat) /\ Len(g.buf) \in Nat
      /\ g.off \in Nat /\ g.pos \in Nat /\ (g.size = 0 => g.buf = <<>>)
  BY <1>1, FieldTypes
<1>3. CASE Memory
  <2>1. g.mode = "Unbuffered" /\ ~g.err
    BY <1>1, <1>3 DEF OInv
  <2>2. g.size = 0 /\ g.buf = <<>> /\ g \in StreamType
    BY <1>1, <1>2, <2>1 DEF StreamOK
  <2>3. w = [g EXCEPT !.data = @ \o bs]
    BY <1>3, <2>1 DEF Write, WriteImpl
  <2>4. g.data \in Seq(Nat) /\ bs \in Seq(Nat)
    BY <1>2
  <2>5. g.data \o bs \in Seq(Nat) /\ g.data \o <<>> = g.data /\ (g.data \o bs) \o <<>> = g.data \o bs
    BY <2>4, ConcatProperties, ConcatEmptySeq
  <2>6. /\ w \in StreamType /\ w.data = g.data \o bs /\ w.buf = <<>> /\ w.size = 0
        /\ w.mode = "Unbuffered" /\ ~w.err
    BY <2>1, <2>2, <2>3, <2>5 DEF StreamType
  <2> HIDE DEF w
  <2>7. StreamOK(w)
    BY <1>1, <1>2, <2>2, <2>6 DEF StreamOK
  <2>8. StreamOK(t) /\ t.data = w.data /\ t.buf = w.buf /\ t.mode = w.mode /\ t.err = w.err
    BY <2>7, TakesFacts DEF Settled
  <2> HIDE DEF t
  <2>9. t.data \o t.buf = (strm.data \o strm.buf) \o bs
    BY <1>1, <2>2, <2>5, <2>6, <2>8
  <2>10. /\ StreamOK(t) /\ t.mode = "Unbuffered" /\ ~t.err /\ ~strm.err
    BY <1>1, <2>1, <2>6, <2>8
  <2> QED
    BY <1>3, <2>9, <2>10 DEF t, w, g
<1>4. CASE ~Memory
  <2>1. StreamOK(w) /\ Wrote(g, w, bs)
    BY <1>1, <1>4, WriteFacts
  <2> HIDE DEF w
  <2>2. /\ StreamOK(t) /\ t.data = w.data /\ t.buf = w.buf /\ t.mode = w.mode /\ t.err = w.err
        /\ t.off = w.off /\ t.pos = w.pos
    BY <2>1, TakesFacts DEF Settled
  <2> HIDE DEF t
  <2>3. ASSUME ~t.err
        PROVE  ~strm.err /\ AtEnd(t) /\ t.data \o t.buf = (strm.data \o strm.buf) \o bs
    <3>1. ~w.err /\ ~g.err /\ ~strm.err
      BY <1>1, <2>1, <2>2, <2>3 DEF Wrote
    <3>2. g.off = Len(g.data) /\ g.pos = Len(g.data)
      BY <1>1, <1>4, <3>1 DEF OInv, AtEnd
    <3>3. g.off <= Len(g.data)
      BY <1>2, <3>2
    <3>4. /\ View(w) = Patched(g.data, g.off, g.buf \o bs)
          /\ w.pos + g.off = g.pos + w.off
          /\ w.off = Len(w.data)
      BY <2>1, <3>1, <3>2, <3>3 DEF Wrote
    <3>5. /\ w.data \in Seq(Nat) /\ w.buf \in Seq(Nat) /\ w.off \in Nat /\ w.pos \in Nat
      BY <1>1, <2>1, FieldTypes
    <3>6. View(w) = w.data \o w.buf
      BY <3>4, <3>5, PatchedAtEnd DEF View
    <3>7. g.data \in Seq(Nat) /\ g.buf \in Seq(Nat) /\ g.buf \o bs \in Seq(Nat)
      BY <1>2, ConcatProperties
    <3>8. Patched(g.data, Len(g.data), g.buf \o bs) = g.data \o (g.buf \o bs)
      BY <3>7, PatchedAtEnd
    <3>9. (g.data \o g.buf) \o bs = g.data \o (g.buf \o bs)
      BY <3>7, RowsAssociate
    <3>10. w.data \o w.buf = (g.data \o g.buf) \o bs
      BY <3>2, <3>4, <3>6, <3>8, <3>9
    <3>11. w.pos = w.off
      <4> DEFINE p == w.pos
                 f == w.off
                 q == g.off
      <4>1. p \in Nat /\ f \in Nat /\ q \in Nat /\ p + q = q + f
        BY <1>2, <3>2, <3>4, <3>5
      <4> HIDE DEF p, f, q
      <4>2. p = f
        BY <4>1
      <4> QED
        BY <4>2 DEF p, f
    <3> QED
      BY <1>1, <2>2, <3>1, <3>4, <3>10, <3>11 DEF AtEnd
  <2> QED
    BY <1>4, <2>2, <2>3 DEF t, w, g
<1> QED
  BY <1>3, <1>4

LEMMA PatchFacts ==
  ASSUME OInv, phase = "open", NEW bs \in Seq(Nat), NEW o \in Nat, NEW n \in Nat,
         o + Len(bs) <= Tell(strm)
  PROVE  LET t == Settled(PWriteImpl(Given(n), bs, o)) IN
         /\ StreamOK(t) /\ (Memory => t.mode = "Unbuffered" /\ ~t.err)
         /\ ~t.err => /\ ~strm.err
                      /\ ~Memory => AtEnd(t)
                      /\ o + Len(bs) <= Len(strm.data \o strm.buf)
                      /\ t.data \o t.buf = Patched(strm.data \o strm.buf, o, bs)
<1> DEFINE g == Given(n)
           w == PWriteImpl(g, bs, o)
           t == Settled(w)
<1>1. /\ block \in Blocks
      /\ StreamOK(g)
      /\ g.mode = strm.mode /\ g.size = strm.size /\ g.buf = strm.buf /\ g.data = strm.data
      /\ g.pos = strm.pos /\ g.err = strm.err /\ g.off = strm.off
  BY TakesFacts DEF Given, OInv, TypeOK
<1> HIDE DEF g
<1>2. /\ g.data \in Seq(Nat) /\ Len(g.data) \in Nat /\ g.buf \in Seq(Nat) /\ Len(g.buf) \in Nat
      /\ g.off \in Nat /\ g.pos \in Nat /\ (g.size = 0 => g.buf = <<>>)
  BY <1>1, FieldTypes
<1>5. g.data \o g.buf \in Seq(Nat) /\ Len(g.data \o g.buf) = Len(g.data) + Len(g.buf)
  <2>1. g.data \in Seq(Nat) /\ g.buf \in Seq(Nat)
    BY <1>2
  <2> QED
    BY <2>1, ConcatProperties
<1>6. Tell(g) = Tell(strm)
  BY <1>1 DEF Tell, CurrentPos
<1>3. CASE Memory
  <2>1. g.mode = "Unbuffered" /\ ~g.err
    BY <1>1, <1>3 DEF OInv
  <2>2. g.size = 0 /\ g.buf = <<>> /\ g \in StreamType /\ Len(<<>>) = 0
    BY <1>1, <1>2, <2>1 DEF StreamOK
  <2>3. w = [g EXCEPT !.data = Patched(@, o, bs)]
    BY <1>3 DEF PWriteImpl
  <2>4. g.data \in Seq(Nat)
    BY <1>2
  <2>5. Patched(g.data, o, bs) \in Seq(Nat) /\ g.data \o <<>> = g.data
        /\ Patched(g.data, o, bs) \o <<>> = Patched(g.data, o, bs)
    BY <2>4, PatchedFacts, ConcatEmptySeq
  <2>6. /\ w \in StreamType /\ w.data = Patched(g.data, o, bs) /\ w.buf = <<>> /\ w.size = 0
        /\ w.mode = "Unbuffered" /\ ~w.err
    BY <2>1, <2>2, <2>3, <2>5 DEF StreamType
  <2> HIDE DEF w
  <2>7. StreamOK(w)
    BY <1>1, <1>2, <2>2, <2>6 DEF StreamOK
  <2>8. StreamOK(t) /\ t.data = w.data /\ t.buf = w.buf /\ t.mode = w.mode /\ t.err = w.err
    BY <2>7, TakesFacts DEF Settled
  <2> HIDE DEF t
  <2>9. t.data \o t.buf = Patched(strm.data \o strm.buf, o, bs)
    BY <1>1, <2>2, <2>5, <2>6, <2>8
  <2>10. /\ StreamOK(t) /\ t.mode = "Unbuffered" /\ ~t.err /\ ~strm.err
    BY <1>1, <2>1, <2>6, <2>8
  <2>11. Tell(g) = Len(g.data) + Len(g.buf)
    BY <1>3 DEF Tell, CurrentPos
  <2>12. o + Len(bs) <= Len(strm.data \o strm.buf)
    BY <1>1, <1>5, <1>6, <2>11
  <2> QED
    BY <1>3, <2>9, <2>10, <2>12 DEF t, w, g
<1>4. CASE ~Memory
  <2>1. ~g.err => AtEnd(g)
    BY <1>1, <1>4 DEF OInv, AtEnd
  <2>2. w = PatchFile(g, bs, o)
    BY <1>4 DEF PWriteImpl
  <2> HIDE DEF w
  <2>3. /\ StreamOK(w)
        /\ ~w.err => /\ ~g.err /\ w.buf = <<>> /\ AtEnd(w)
                     /\ w.data = Patched(g.data \o g.buf, o, bs)
    BY <1>1, <1>4, <1>6, <2>1, <2>2, PatchFileFacts
  <2>4. /\ StreamOK(t) /\ t.data = w.data /\ t.buf = w.buf /\ t.mode = w.mode /\ t.err = w.err
        /\ t.off = w.off /\ t.pos = w.pos
    BY <2>3, TakesFacts DEF Settled
  <2> HIDE DEF t
  <2>5. ASSUME ~t.err
        PROVE  /\ ~strm.err /\ AtEnd(t)
               /\ o + Len(bs) <= Len(strm.data \o strm.buf)
               /\ t.data \o t.buf = Patched(strm.data \o strm.buf, o, bs)
    <3>1. /\ ~g.err /\ w.buf = <<>> /\ AtEnd(w) /\ w.data = Patched(g.data \o g.buf, o, bs)
      BY <2>3, <2>4, <2>5
    <3>2. w.data \in Seq(Nat)
      BY <1>1, <2>3, FieldTypes
    <3>3. w.data \o <<>> = w.data
      BY <3>2, ConcatEmptySeq
    <3>4. Tell(g) = Len(g.data) + Len(g.buf)
      BY <1>4, <2>1, <3>1 DEF Tell, CurrentPos, AtEnd
    <3>5. o + Len(bs) <= Len(strm.data \o strm.buf)
      BY <1>1, <1>5, <1>6, <3>4
    <3> QED
      BY <1>1, <2>4, <3>1, <3>3, <3>5 DEF AtEnd
  <2> QED
    BY <1>4, <2>4, <2>5 DEF t, w, g
<1> QED
  BY <1>3, <1>4

(* What Close writes last. *)
LEMMA CloseFacts ==
  ASSUME OInv, ~Memory, NEW n \in Nat
  PROVE  LET t == Settled(Flush(Given(n))) IN
         /\ StreamOK(t) /\ t.buf = <<>>
         /\ ~t.err => ~strm.err /\ AtEnd(t) /\ t.data = strm.data \o strm.buf
<1> DEFINE g == Given(n)
           w == Flush(g)
           t == Settled(w)
<1>1. /\ block \in Blocks
      /\ StreamOK(g)
      /\ g.buf = strm.buf /\ g.data = strm.data
      /\ g.pos = strm.pos /\ g.err = strm.err /\ g.off = strm.off
  BY TakesFacts DEF Given, OInv, TypeOK
<1> HIDE DEF g
<1>2. /\ g.data \in Seq(Nat) /\ Len(g.data) \in Nat /\ g.buf \in Seq(Nat) /\ Len(g.buf) \in Nat
      /\ g.off \in Nat /\ g.pos \in Nat
  BY <1>1, FieldTypes
<1>3. /\ StreamOK(w) /\ w.buf = <<>>
      /\ ~w.err => /\ ~g.err
                   /\ g.off <= Len(g.data) => w.data = View(g)
                   /\ w.off = g.off + Len(g.buf)
                   /\ w.pos = g.pos + Len(g.buf)
  BY <1>1, FlushFacts
<1> HIDE DEF w
<1>4. /\ StreamOK(t) /\ t.data = w.data /\ t.buf = w.buf /\ t.err = w.err
      /\ t.off = w.off /\ t.pos = w.pos
  BY <1>3, TakesFacts DEF Settled
<1> HIDE DEF t
<1>5. ASSUME ~t.err
      PROVE  ~strm.err /\ AtEnd(t) /\ t.data = strm.data \o strm.buf
  <2>1. ~w.err /\ ~g.err /\ ~strm.err
    BY <1>1, <1>3, <1>4, <1>5
  <2>2. g.off = Len(g.data) /\ g.pos = Len(g.data)
    BY <1>1, <2>1 DEF OInv, AtEnd
  <2>3. g.data \in Seq(Nat) /\ g.buf \in Seq(Nat)
    BY <1>2
  <2>4. View(g) = g.data \o g.buf /\ Len(g.data \o g.buf) = Len(g.data) + Len(g.buf)
    BY <2>2, <2>3, PatchedAtEnd, ConcatProperties DEF View
  <2>5. g.off <= Len(g.data)
    BY <1>2, <2>2
  <2>6. w.data = g.data \o g.buf /\ w.off = Len(w.data) /\ w.pos = Len(w.data)
    BY <1>3, <2>1, <2>2, <2>4, <2>5
  <2> QED
    BY <1>1, <1>4, <2>1, <2>6 DEF AtEnd
<1> QED
  BY <1>3, <1>4, <1>5 DEF t, w, g

(* The invariant holds initially and is kept by every step. *)
LEMMA OInvInit == Init => OInv
<1> SUFFICES ASSUME Init PROVE OInv
  OBVIOUS
<1>1. /\ strm.mode = BufferMode /\ strm.size = 0 /\ strm.buf = <<>> /\ strm.data = <<>>
      /\ strm.pos = 0 /\ strm.err = FALSE /\ strm.off = 0
  BY DEF Init, Stream
<1>2. BufferMode \in {"Unbuffered", "InternalBuffer"} /\ (Memory => BufferMode = "Unbuffered")
  BY DEF BufferMode
<1>3. <<>> \in Seq(Nat) /\ Len(<<>>) = 0
  OBVIOUS
<1>4. strm \in StreamType
  BY <1>2, <1>3 DEF Init, Stream, StreamType
<1>5. StreamOK(strm)
  BY <1>1, <1>3, <1>4 DEF StreamOK
<1>6. TypeOK
  BY <1>1, <1>3, <1>4 DEF Init, TypeOK
<1>7. Memory => strm.mode = "Unbuffered" /\ ~strm.err
  BY <1>1, <1>2
<1>8. AtEnd(strm) /\ phase = "start" /\ told = 0
  BY <1>1, <1>3 DEF AtEnd, Init
<1> QED
  BY <1>1, <1>5, <1>6, <1>7, <1>8 DEF OInv

(* The client's calls, on the stream and on the ByteFile it implements. *)
LEMMA CallStep ==
  ASSUME OInv, EmitBytes \/ PatchBytes
  PROVE  OInv' /\ [Abstract!BFNext]_(Abstract!bfvars)
<1>1. /\ phase = "open" /\ phase' = "open" /\ kind' = kind /\ block' = block /\ told' = told
      /\ (Memory' <=> Memory)
  BY DEF EmitBytes, PatchBytes, Memory
<1>2. PICK bs \in Chunks, n \in 0..MaxBytes, o \in 0..MaxBytes :
        \/ strm' = Settled(Write(Given(n), bs))
        \/ o + Len(bs) <= Tell(strm) /\ strm' = Settled(PWriteImpl(Given(n), bs, o))
  <2>1. CASE EmitBytes
    <3>1. 0 \in 0..MaxBytes
      BY MaxBytesAssumption
    <3> QED
      BY <2>1, <3>1 DEF EmitBytes
  <2>2. CASE PatchBytes
    BY <2>2 DEF PatchBytes
  <2> QED
    BY <2>1, <2>2
<1>3. bs \in Seq(Nat) /\ n \in Nat /\ o \in Nat
  BY ChunksAssumption, MaxBytesAssumption
<1>4. /\ StreamOK(strm') /\ (Memory => strm'.mode = "Unbuffered" /\ ~strm'.err)
      /\ ~strm'.err =>
           /\ ~strm.err
           /\ ~Memory => AtEnd(strm')
           /\ \/ strm'.data \o strm'.buf = (strm.data \o strm.buf) \o bs
              \/ /\ o + Len(bs) <= Len(strm.data \o strm.buf)
                 /\ strm'.data \o strm'.buf = Patched(strm.data \o strm.buf, o, bs)
  <2>1. CASE strm' = Settled(Write(Given(n), bs))
    BY <1>1, <1>3, <2>1, EmitFacts
  <2>2. CASE o + Len(bs) <= Tell(strm) /\ strm' = Settled(PWriteImpl(Given(n), bs, o))
    BY <1>1, <1>3, <2>2, PatchFacts
  <2> QED
    BY <1>2, <2>1, <2>2
<1>5. OInv'
  <2>1. StreamOK(strm)'
    BY <1>1, <1>4 DEF StreamOK, StreamType
  <2>2. TypeOK'
    BY <1>1, <2>1 DEF OInv, TypeOK, StreamOK
  <2>3. ~Memory' /\ ~strm'.err => AtEnd(strm)'
    BY <1>1, <1>4 DEF AtEnd
  <2> QED
    BY <1>1, <1>4, <2>1, <2>2, <2>3 DEF OInv
<1>6. CASE strm'.err
  <2>1. Failed'
    BY <1>6 DEF Failed
  <2>2. Status' = "failed" /\ Content' = <<>> /\ (IF Failed THEN 0 ELSE told)' = 0
    BY <1>1, <2>1 DEF Status, Content
  <2>3. CASE Failed
    <3>1. Status = "failed" /\ Content = <<>> /\ (IF Failed THEN 0 ELSE told) = 0
      BY <1>1, <2>3 DEF Status, Content
    <3> QED
      BY <1>5, <2>2, <3>1 DEF Abstract!bfvars
  <2>4. CASE ~Failed
    <3>1. Status = "open"
      BY <1>1, <2>4 DEF Status
    <3> QED
      BY <1>5, <2>2, <3>1 DEF Abstract!BFNext, Abstract!Fail
  <2> QED
    BY <2>3, <2>4
<1>7. CASE ~strm'.err
  <2>1. ~Failed /\ ~Failed'
    BY <1>1, <1>4, <1>7 DEF Failed
  <2>2. /\ Status = "open" /\ Status' = "open"
        /\ Content = strm.data \o strm.buf /\ Content' = strm'.data \o strm'.buf
        /\ (IF Failed THEN 0 ELSE told)' = (IF Failed THEN 0 ELSE told)
    BY <1>1, <2>1 DEF Status, Content
  <2>3. \/ Content' = Content \o bs
        \/ o + Len(bs) <= Len(Content) /\ Content' = Abstract!Patched(Content, o, bs)
    BY <1>4, <1>7, <2>2 DEF Patched, Abstract!Patched
  <2>4. Abstract!AppendBytes(bs) \/ Abstract!Patch(bs, o)
    BY <2>2, <2>3 DEF Abstract!AppendBytes, Abstract!Patch
  <2> QED
    BY <1>2, <1>5, <2>2, <2>4 DEF Abstract!BFNext
<1> QED
  BY <1>5, <1>6, <1>7

(* The other steps, on both. *)
LEMMA OtherStep ==
  ASSUME OInv, Open \/ AskLength \/ Link \/ Close \/ UNCHANGED vars
  PROVE  OInv' /\ [Abstract!BFNext]_(Abstract!bfvars)
<1> DEFINE Told == IF Failed THEN 0 ELSE told
<1>1. CASE Open
  <2>1. /\ phase = "start" /\ phase' \in {"open", "fatal", "reported"}
        /\ UNCHANGED <<kind, block, strm, told>> /\ (Memory' <=> Memory)
        /\ strm.data = <<>> /\ strm.buf = <<>> /\ ~strm.err /\ told = 0
    BY <1>1 DEF Open, OInv, Memory
  <2>2. OInv'
    BY <2>1 DEF OInv, TypeOK, StreamOK, StreamType, AtEnd
  <2>3. ~Failed /\ Content = <<>> \o <<>> /\ Status = "open" /\ Told = 0 /\ Told' = 0
    BY <2>1 DEF Failed, Content, Status
  <2>4. <<>> \o <<>> = <<>>
    OBVIOUS
  <2>5. Content' = <<>> /\ (phase' = "open" => Status' = "open") /\ (phase' # "open" => Status' = "failed")
    BY <2>1, <2>4 DEF Failed, Content, Status
  <2>6. CASE phase' = "open"
    BY <2>2, <2>3, <2>4, <2>5, <2>6 DEF Abstract!bfvars
  <2>7. CASE phase' # "open"
    BY <2>2, <2>3, <2>5, <2>7 DEF Abstract!BFNext, Abstract!Fail
  <2> QED
    BY <2>2, <2>6, <2>7
<1>2. CASE AskLength
  <2>1. /\ phase = "open" /\ told' = Tell(strm) /\ UNCHANGED <<kind, block, phase, strm>>
        /\ (Memory' <=> Memory)
    BY <1>2 DEF AskLength, Memory
  <2>2. /\ strm.buf \in Seq(Nat) /\ strm.data \in Seq(Nat) /\ strm.pos \in Nat
        /\ Len(strm.buf) \in Nat /\ Len(strm.data) \in Nat
    BY FieldTypes DEF OInv, TypeOK
  <2>3. Tell(strm) \in Nat
    BY <2>2 DEF Tell, CurrentPos
  <2>4. OInv'
    BY <2>1, <2>3 DEF OInv, TypeOK, StreamOK, StreamType, AtEnd
  <2>5. Failed' = Failed /\ Content' = Content /\ Status' = Status
    BY <2>1 DEF Failed, Content, Status
  <2>6. CASE Failed
    <3>1. Told' = Told
      BY <2>5, <2>6
    <3> QED
      BY <2>4, <2>5, <3>1 DEF Abstract!bfvars
  <2>7. CASE ~Failed
    <3>1. Content = strm.data \o strm.buf /\ Status = "open" /\ Told' = Tell(strm)
      BY <2>1, <2>5, <2>7 DEF Content, Status
    <3>2. Len(strm.data \o strm.buf) = Len(strm.data) + Len(strm.buf)
      BY <2>2, ConcatProperties
    <3>3. CurrentPos(strm) = Len(strm.data)
      BY <2>7 DEF CurrentPos, OInv, AtEnd, Failed
    <3>4. Told' = Len(Content)
      BY <3>1, <3>2, <3>3 DEF Tell
    <3> QED
      BY <2>4, <2>5, <3>1, <3>4 DEF Abstract!BFNext, Abstract!TellLength
  <2> QED
    BY <2>6, <2>7
<1>3. CASE Link
  <2>1. /\ phase = "open" /\ phase' = "complete" /\ Memory
        /\ UNCHANGED <<kind, block, strm, told>> /\ (Memory' <=> Memory)
    BY <1>3 DEF Link, Memory
  <2>2. strm.buf = <<>> /\ strm.data \in Seq(Nat) /\ ~strm.err
    <3>1. strm.size = 0 /\ ~strm.err
      BY <2>1 DEF OInv, StreamOK
    <3> QED
      BY <3>1, FieldTypes DEF OInv, TypeOK
  <2>3. OInv'
    BY <2>1, <2>2 DEF OInv, TypeOK, StreamOK, StreamType, AtEnd
  <2>4. strm.data \o <<>> = strm.data
    BY <2>2, ConcatEmptySeq
  <2>5. /\ Content' = Content /\ Status = "open" /\ Status' = "complete" /\ Told' = Told
    BY <2>1, <2>2, <2>4 DEF Content, Status, Failed
  <2> QED
    BY <2>3, <2>5 DEF Abstract!BFNext, Abstract!Complete
<1>4. CASE Close
  <2>1. PICK n \in 0..MaxBytes, fails \in BOOLEAN :
          /\ strm' = [Settled(Flush(Given(n))) EXCEPT !.err = @ \/ fails]
          /\ phase' = IF Fatal(strm') THEN "fatal" ELSE "complete"
    BY <1>4 DEF Close
  <2>2. /\ phase = "open" /\ ~Memory
        /\ UNCHANGED <<kind, block, told>> /\ (Memory' <=> Memory)
    BY <1>4 DEF Close, Memory
  <2> DEFINE t == Settled(Flush(Given(n)))
  <2>3. n \in Nat
    BY MaxBytesAssumption
  <2>4. /\ StreamOK(t) /\ t.buf = <<>>
        /\ ~t.err => ~strm.err /\ AtEnd(t) /\ t.data = strm.data \o strm.buf
    BY <2>2, <2>3, CloseFacts
  <2>5. strm' = [t EXCEPT !.err = @ \/ fails]
    BY <2>1
  <2> HIDE DEF t
  <2>6. (t.err \/ fails) \in BOOLEAN
    OBVIOUS
  <2>7. /\ strm' \in StreamType /\ strm'.buf = t.buf /\ strm'.data = t.data /\ strm'.off = t.off
        /\ strm'.pos = t.pos /\ strm'.size = t.size /\ strm'.mode = t.mode
        /\ (~strm'.err => ~t.err)
    BY <2>4, <2>5, <2>6 DEF StreamOK, StreamType
  <2>8. phase' = (IF strm'.err THEN "fatal" ELSE "complete")
    BY <2>1 DEF Fatal
  <2>9. OInv'
    BY <2>2, <2>4, <2>7, <2>8 DEF OInv, TypeOK, StreamOK, StreamType, AtEnd
  <2>10. CASE strm'.err
    <3>1. Failed' /\ Status' = "failed" /\ Content' = <<>> /\ Told' = 0
      BY <2>8, <2>10 DEF Failed, Status, Content
    <3>2. CASE Failed
      <4>1. Status = "failed" /\ Content = <<>> /\ Told = 0
        BY <2>2, <3>2 DEF Status, Content
      <4> QED
        BY <2>9, <3>1, <4>1 DEF Abstract!bfvars
    <3>3. CASE ~Failed
      <4>1. Status = "open"
        BY <2>2, <3>3 DEF Status
      <4> QED
        BY <2>9, <3>1, <4>1 DEF Abstract!BFNext, Abstract!Fail
    <3> QED
      BY <3>2, <3>3
  <2>11. CASE ~strm'.err
    <3>1. ~strm.err /\ strm'.data = strm.data \o strm.buf /\ phase' = "complete"
      BY <2>4, <2>7, <2>8, <2>11
    <3>2. ~Failed /\ ~Failed' /\ Status = "open" /\ Status' = "complete"
      BY <2>2, <2>11, <3>1 DEF Failed, Status
    <3>3. Content' = Content /\ Told' = Told
      BY <2>2, <3>1, <3>2 DEF Content
    <3> QED
      BY <2>9, <3>2, <3>3 DEF Abstract!BFNext, Abstract!Complete
  <2> QED
    BY <2>10, <2>11
<1>5. CASE UNCHANGED vars
  <2>1. OInv'
    BY <1>5 DEF vars, OInv, TypeOK, StreamOK, StreamType, AtEnd, Memory
  <2>2. Content' = Content /\ Status' = Status /\ Told' = Told
    BY <1>5 DEF vars, Content, Status, Failed
  <2> QED
    BY <2>1, <2>2 DEF Abstract!bfvars
<1> QED
  BY <1>1, <1>2, <1>3, <1>4, <1>5

LEMMA StreamStep == OInv /\ [Next]_vars => OInv' /\ [Abstract!BFNext]_(Abstract!bfvars)
BY CallStep, OtherStep DEF Next

LEMMA StreamInit == Init => Abstract!BFInit
<1> SUFFICES ASSUME Init PROVE Abstract!BFInit
  OBVIOUS
<1>1. /\ phase = "start" /\ told = 0 /\ strm.data = <<>> /\ strm.buf = <<>> /\ strm.err = FALSE
  BY DEF Init, Stream
<1>2. <<>> \o <<>> = <<>>
  OBVIOUS
<1> QED
  BY <1>1, <1>2 DEF Abstract!BFInit, Content, Status, Failed

(* Between calls the buffer holds no more than it can, and in memory nothing:
   raw_ostream::write never overruns its buffer, however it is called. *)
THEOREM StreamTypes == Spec => []TypeOK
<1>1. Spec => []OInv
  BY OInvInit, StreamStep, PTL DEF Spec
<1>2. OInv => TypeOK
  BY DEF OInv
<1> QED
  BY <1>1, <1>2, PTL

(* ObjfileStream and raw_fd_ostream are ByteFiles: what is written, measured
   and patched through them is what is linked or found in the file. *)
THEOREM StreamImplements == Spec => Implements
<1>1. Spec => []OInv
  BY OInvInit, StreamStep, PTL DEF Spec
<1>2. OInv /\ [Next]_vars => [Abstract!BFNext]_(Abstract!bfvars)
  BY StreamStep
<1> QED
  BY <1>1, <1>2, StreamInit, PTL DEF Spec, Implements, Abstract!BFSpec

=============================================================================
