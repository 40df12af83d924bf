------------------------------- MODULE Pickle -------------------------------
(***************************************************************************)
(* Reading the basic values of a pickle: the ASDL runtime (asdl.cpp,       *)
(* asdl-integer.cpp, asdl-stream.hpp) and the variables of LambdaVar.  A   *)
(* pickle is written as a whole; the file that is read may have lost its   *)
(* tail.  The reader takes a byte per step and has no way back: a value    *)
(* that takes a byte too few or too many garbles all that follow it.       *)
(*                                                                         *)
(* The widths of the code are constants: bytes of 8, digits and int of 32  *)
(* bits there.                                                             *)
(***************************************************************************)
EXTENDS Integers, Sequences, SequencesExt

CONSTANTS
  ByteBits,    \* bits of a byte
  DigitBits,   \* bits of a digit of asdl::integer
  IntBits,     \* bits of an int
  Pickles,     \* what is written: sequences of items
  None         \* no read in progress

ASSUME Widths == {ByteBits, DigitBits, IntBits} \subseteq Nat /\ ByteBits > 3 /\ DigitBits >= ByteBits

Type == {"uint", "int", "lvar", "bool", "string", "integer"}

(* An item has a type and a value: a number, or a string's bytes. *)
ASSUME PicklesTyped == \A p \in Pickles : \A k \in DOMAIN p : p[k].ty \in Type

VARIABLES
  pickle,   \* the items written
  bytes,    \* the file: what they are encoded to, or a part of it
  pos,      \* the position in it
  ios,      \* state of the istream: "good" or "eof"
  cur,      \* the read in progress, or None
  res,      \* results of the reads
  phase     \* "read", "done" or "exit"

vars == <<pickle, bytes, pos, ios, cur, res, phase>>

B(k) == 2^(k * ByteBits)
Byte == 0 .. B(1) - 1
Bits(n) == CHOOSE k \in 0 .. ByteBits : n < 2^k /\ (k = 0 \/ n >= 2^(k - 1))

(* The k least significant bytes of n, the highest first *)
Low(n, k) == [j \in 1 .. k |-> (n \div B(k - j)) % B(1)]

-----------------------------------------------------------------------------
(* Writing *)

(* A number in as few bytes as it fits, the count of extra bytes in the
   highest t bits of the first one: p bits of that byte are left for it. *)
Counted(n, t, p) ==
  LET k == Min({j \in 0 .. 2^t - 1 : n < 2^p * B(j) \/ j = 2^t - 1})
  IN <<k * 2^(ByteBits - t) + n \div B(k)>> \o Low(n, k)

WriteUInt(n) == Counted(n, 2, ByteBits - 2)

(* The sign is the third bit of the first byte. *)
WriteInt(n) ==
  LET ui == IF n < 0 THEN -(n + 1) ELSE n
      c == Counted(ui, 2, ByteBits - 3)
  IN [c EXCEPT ![1] = @ + IF n < 0 THEN 2^(ByteBits - 3) ELSE 0]

WriteLVar(n) == Counted(n, 3, ByteBits - 3)

(* Digits of ByteBits - 1 bits, of which all but the last have the highest
   bit set; the first one has the sign in place of its highest bit. *)
WriteInteger(n) ==
  LET m == IF n < 0 THEN -n ELSE n
      D(j) == 2^(j * (ByteBits - 1))
      k == CHOOSE j \in 0 .. ByteBits * ByteBits : 2 * m < D(j + 1) /\ (j = 0 \/ 2 * m >= D(j))
      digit == [j \in 1 .. k + 1 |-> (m \div D(k + 1 - j)) % D(1)]
      sign == IF n < 0 THEN D(1) \div 2 ELSE 0
  IN [j \in 1 .. k + 1 |-> digit[j] + (IF j = 1 THEN sign ELSE 0) + (IF j <= k THEN D(1) ELSE 0)]

Write(i) ==
  CASE i.ty = "uint" -> WriteUInt(i.v)
    [] i.ty = "int" -> WriteInt(i.v)
    [] i.ty = "lvar" -> WriteLVar(i.v)
    [] i.ty = "bool" -> <<i.v + 1>>
    [] i.ty = "string" -> WriteUInt(Len(i.v)) \o i.v
    [] i.ty = "integer" -> WriteInteger(i.v)

Written(p) == FlattenSeq([k \in DOMAIN p |-> Write(p[k])])

-----------------------------------------------------------------------------
(* asdl::integer(instream): the digits for the 7-bit chunks of an integer.
   A digit w under construction has room for avail more bits. *)
Digits(chunks) ==
  LET first == Head(chunks)
      firstBits == Bits(first)
      nbits == (Len(chunks) - 1) * (ByteBits - 1) + firstBits
      room == IF nbits % DigitBits = 0 THEN DigitBits ELSE nbits % DigitBits
      k == firstBits - room
      start == IF room < firstBits
               THEN [done |-> <<first \div 2^k>>, w |-> first % 2^k, avail |-> DigitBits - k]
               ELSE [done |-> <<>>, w |-> first, avail |-> room - firstBits]
      Add(d, b) ==
        LET excess == ByteBits - 1 - d.avail IN
        IF excess <= 0
        THEN [d EXCEPT !.w = @ * 2^(ByteBits - 1) + b, !.avail = -excess]
        ELSE [done |-> Append(d.done, d.w * 2^d.avail + b \div 2^excess),
              w |-> b % 2^excess,
              avail |-> DigitBits - excess]
      last == FoldLeft(Add, start, Tail(chunks))
  IN IF nbits = 0 THEN <<>> ELSE Append(last.done, last.w)

(* A result of the reader is kept as the chunks that were read. *)
Integer(r) == [neg |-> r.neg, digits |-> Digits(r.chunks)]

(* integer::toInt64 and toUInt64 of sign and digits; over when too large *)
Magnitude(ds) == IF Len(ds) = 0 THEN 0 ELSE IF Len(ds) = 1 THEN ds[1] ELSE ds[1] * 2^DigitBits + ds[2]
Half == 2^(2 * DigitBits - 1)

NegativeBelow(m) == m < Half
NegativeFits(m) == m <= Half
ToInt64(x) ==
  LET m == Magnitude(x.digits) IN
  IF Len(x.digits) > 2 \/ (x.neg /\ ~NegativeFits(m)) \/ (~x.neg /\ m >= Half)
  THEN [over |-> TRUE, n |-> 0]
  ELSE [over |-> FALSE, n |-> IF x.neg THEN -m ELSE m]
ToUInt64(x) ==
  IF Len(x.digits) > 2 THEN [over |-> TRUE, n |-> 0]
  ELSE [over |-> FALSE, n |-> Magnitude(x.digits)]

(* NUM::codegen: the constant for a literal, or one that is not initialized *)
Num(x) == IF x.neg THEN ToInt64(x) ELSE ToUInt64(x)

-----------------------------------------------------------------------------
Init ==
  /\ pickle \in Pickles
  /\ \E n \in 0 .. Len(Written(pickle)) : bytes = SubSeq(Written(pickle), 1, n)
  /\ pos = 0
  /\ ios = "good"
  /\ cur = None
  /\ res = <<>>
  /\ phase = "read"

(* instream::getb on a good stream: at the end, istream::get fails and
   returns -1 *)
RawByte == IF pos < Len(bytes) THEN bytes[pos + 1] ELSE -1
NextByte == IF pos < Len(bytes) THEN bytes[pos + 1] ELSE B(1) - 1
GetB ==
  /\ ios = "good"
  /\ pos' = Min({pos + 1, Len(bytes)})
  /\ ios' = IF pos < Len(bytes) THEN "good" ELSE "eof"
  /\ UNCHANGED <<pickle, bytes>>

Next1 == Len(res) + 1   \* the item to read
Ty == pickle[Next1].ty

(* static_cast<int>, which also narrows variables above its range *)
AsInt(v) == LET w == v % 2^IntBits IN IF w >= 2^(IntBits - 1) THEN w - 2^IntBits ELSE w

(* What a read returns when its last byte is in *)
Return(c) ==
  CASE c.ty = "int" -> IF c.neg THEN -c.v - 1 ELSE c.v
    [] c.ty = "lvar" -> AsInt(c.v)
    [] c.ty = "string" -> c.chunks
    [] c.ty = "integer" -> [neg |-> c.neg, chunks |-> c.chunks]
    [] c.ty \in {"uint", "bool"} -> c.v

Continue(c) ==
  /\ IF c.left = 0 THEN res' = Append(res, Return(c)) /\ cur' = None
                   ELSE cur' = c /\ UNCHANGED res
  /\ UNCHANGED phase

Fresh == [ty |-> Ty, left |-> 0, v |-> 0, neg |-> FALSE, chunks |-> <<>>]

SignBit == 2^(ByteBits - 3)
(* The first byte of a number with a count in its highest t bits *)
FirstUnmasked(t, b) == [Fresh EXCEPT !.left = b \div 2^(ByteBits - t), !.v = b]
First(t, b) == [Fresh EXCEPT !.left = b \div 2^(ByteBits - t), !.v = b % 2^(ByteBits - t)]

(* After its length, the characters of a string are left. *)
StringFrom(c) == IF c.left = 0 THEN [c EXCEPT !.left = c.v, !.ty = "string"] ELSE c

StartNumber ==
  /\ phase = "read" /\ cur = None /\ Next1 <= Len(pickle)
  /\ GetB
  /\ \/ Ty = "uint" /\ Continue(First(2, NextByte))
     \/ /\ Ty = "int"
        /\ LET c == First(2, NextByte)
           IN Continue([c EXCEPT !.v = @ % SignBit, !.neg = c.v >= SignBit])
     \/ Ty = "lvar" /\ Continue(First(3, NextByte))
     \/ Ty = "string" /\ Continue(StringFrom([First(2, NextByte) EXCEPT !.ty = "length"]))
     \/ /\ Ty = "integer"
        /\ LET b == NextByte
           IN Continue([Fresh EXCEPT !.left = b \div 2^(ByteBits - 1),
                                     !.neg = (b \div 2^(ByteBits - 2)) % 2 = 1,
                                     !.chunks = <<b % 2^(ByteBits - 2)>>])

(* read_bool: other tags are reported, and the program exits *)
ReadBool ==
  /\ phase = "read" /\ cur = None /\ Next1 <= Len(pickle) /\ Ty = "bool"
  /\ GetB
  /\ IF NextByte \in {1, 2} THEN Continue([Fresh EXCEPT !.v = NextByte - 1])
     ELSE phase' = "exit" /\ UNCHANGED <<cur, res>>

(* One more byte for the read in progress *)
More ==
  /\ phase = "read" /\ cur # None
  /\ GetB
  /\ LET b == NextByte IN
     \/ cur.ty \in {"uint", "int", "lvar"}
        /\ Continue([cur EXCEPT !.v = @ * B(1) + b, !.left = @ - 1])
     \/ cur.ty = "length" /\ Continue(StringFrom([cur EXCEPT !.v = @ * B(1) + b, !.left = @ - 1]))
     \/ cur.ty = "string" /\ Continue([cur EXCEPT !.chunks = Append(@, b), !.left = @ - 1])
     \/ cur.ty = "integer"
        /\ Continue([cur EXCEPT !.chunks = Append(@, b % 2^(ByteBits - 1)),
                                !.left = b \div 2^(ByteBits - 1)])

(* invalidIOState: getb on a stream that is not good *)
Reported ==
  /\ phase = "read" /\ ios = "eof" /\ (cur # None \/ Next1 <= Len(pickle))
  /\ UNCHANGED vars
InvalidIOState ==
  /\ phase = "read" /\ ios = "eof" /\ (cur # None \/ Next1 <= Len(pickle))
  /\ phase' = "exit"
  /\ UNCHANGED <<pickle, bytes, pos, ios, cur, res>>

Done ==
  /\ phase = "read" /\ cur = None /\ Next1 > Len(pickle)
  /\ phase' = "done"
  /\ UNCHANGED <<pickle, bytes, pos, ios, cur, res>>

Next == StartNumber \/ ReadBool \/ More \/ InvalidIOState \/ Done

(* The reader is sequential, and a file is always ready to be read: a step
   that can be taken is taken. *)
Spec == Init /\ [][Next]_vars /\ WF_vars(Next)

-----------------------------------------------------------------------------
Complete == bytes = Written(pickle)

(* The value of digits *)
Value(x) ==
  LET m == FoldLeft(LAMBDA a, d : a * 2^DigitBits + d, 0, x.digits) IN IF x.neg THEN -m ELSE m

Same(k) == (IF pickle[k].ty = "integer" THEN Value(Integer(res[k])) ELSE res[k]) = pickle[k].v
Narrowed(k) == pickle[k].ty = "lvar" /\ pickle[k].v >= 2^(IntBits - 1)

(* The type invariant of a reader. *)
TypeOK ==
  /\ \A k \in DOMAIN pickle : pickle[k].ty \in Type
  /\ bytes \in Seq(Byte) /\ pos \in 0 .. Len(bytes)
  /\ ios \in {"good", "eof"}
  /\ phase \in {"read", "done", "exit"}
  /\ Len(res) <= Len(pickle)
  /\ cur # None =>
       /\ cur.ty \in Type \cup {"length"} /\ cur.left \in Nat \ {0}
       /\ cur.v \in Nat /\ cur.neg \in BOOLEAN /\ cur.chunks \in Seq(Byte)

(***************************************************************************)
(* What was written is read, and nothing else: until the stream fails, all *)
(* values are the ones written, and only the one that the failing read     *)
(* completed may differ.  Variables that read_lvar narrows to int are the  *)
(* exception: none of them comes back.  A file that is whole is read to    *)
(* its last byte.                                                          *)
(***************************************************************************)
ReadsAsWritten ==
  /\ \A k \in DOMAIN res : ios = "good" \/ k < Len(res) => (Same(k) <=> ~Narrowed(k))
  /\ Complete => phase # "exit" /\ ios = "good"
  /\ Complete /\ phase = "done" => pos = Len(bytes)

(***************************************************************************)
(* Integers have digits in range and none that is a leading zero, so that  *)
(* equal ones have equal representations, and a literal that fits into a   *)
(* word of two digits, signed or unsigned, becomes the constant it is.     *)
(***************************************************************************)
LiteralsRight ==
  \A k \in DOMAIN res : pickle[k].ty = "integer" =>
    LET x == Integer(res[k])  v == Value(x) IN
    /\ \A d \in DOMAIN x.digits : x.digits[d] \in 0 .. 2^DigitBits - 1
    /\ x.digits = <<>> \/ Head(x.digits) # 0
    /\ Num(x) = IF v \in -Half .. 2 * Half - 1 THEN [over |-> FALSE, n |-> v]
                ELSE [over |-> TRUE, n |-> 0]

(***************************************************************************)
(* The reader ends, wherever the file was cut off: all items are read, or  *)
(* invalidIOState or a tag that is none exits.  It never waits for bytes   *)
(* that do not come.                                                       *)
(***************************************************************************)
Ends == <>(phase \in {"done", "exit"})
=============================================================================
