----------------------------- MODULE HeapProofs -----------------------------
(***************************************************************************)
(* Proofs about the heap, for every word size, slop, lists of fields and   *)
(* allocation areas.                                                       *)
(*                                                                         *)
(* The properties are proved from one inductive invariant, HInv.  It adds  *)
(* to them that all memory in use ends at the allocation pointer (InRow),  *)
(* that what the front end has left of its amount still fits               *)
(* between the pointer and the end of the area (Budgeted), and that the    *)
(* store list is a chain of cells, one for each update (StoreIsCell,       *)
(* Chain).  The layout of a raw record is computed field after field; what *)
(* holds of all its fields is proved by induction (SetInduction).          *)
(***************************************************************************)
EXTENDS Heap, WellFoundedInduction, SequenceTheorems, TLAPS

-----------------------------------------------------------------------------
(* Facts about numbers. *)

(* The order of the naturals is well-founded. *)
LEMMA LessIsWellFounded == IsWellFoundedOn({ss \in Nat \X Nat : ss[1] < ss[2]}, Nat)
BY NatLessThanWellFounded DEF OpToRel

(* Each nonempty set of naturals has a least element. *)
LEMMA LeastNat ==
  ASSUME NEW T \in SUBSET Nat, T # {}
  PROVE \E x \in T : \A y \in T : x <= y
<1> DEFINE R == {ss \in Nat \X Nat : ss[1] < ss[2]}
<1>1. \E x \in T : \A y \in T : ~ (<<y, x>> \in R)
  <2>1. IsWellFoundedOn(R, Nat) BY LessIsWellFounded
  <2> HIDE DEF R
  <2> QED BY <2>1, WFMin
<1>2. PICK x \in T : \A y \in T : ~ (<<y, x>> \in R) BY <1>1
<1>3. ASSUME NEW y \in T PROVE x <= y
  <2>1. <<y, x>> \in Nat \X Nat OBVIOUS
  <2>2. ~ (<<y, x>> \in R) BY <1>2
  <2> QED BY <2>1, <2>2
<1> QED BY <1>3

(* A set that has 0, and with each number the next one, has all of them. *)
LEMMA SetInduction ==
  ASSUME NEW T, 0 \in T, \A n \in Nat : n \in T => n + 1 \in T
  PROVE Nat \subseteq T
<1> DEFINE C == {n \in Nat : n \notin T}
<1> SUFFICES ASSUME C # {} PROVE FALSE OBVIOUS
<1>1. PICK x \in C : \A y \in C : x <= y BY LeastNat
<1>2. x # 0 OBVIOUS
<1>3. x - 1 \in Nat /\ x - 1 \notin C BY <1>1, <1>2
<1> QED BY <1>3

(* Quotient and remainder determine a number. *)
LEMMA DivMod ==
  ASSUME NEW n \in Nat \ {0}, NEW x \in Int
  PROVE x \div n \in Int /\ x % n \in 0 .. n - 1 /\ x = n * (x \div n) + (x % n)
OBVIOUS

(* The multiples of a number leave no remainder, and only they. *)
LEMMA MultipleMod ==
  ASSUME NEW n \in Nat \ {0}, NEW k \in Int
  PROVE (n * k) % n = 0 /\ (n * k) \div n = k
OBVIOUS

LEMMA MultipleIs ==
  ASSUME NEW n \in Nat \ {0}, NEW x \in Int, x % n = 0
  PROVE x \div n \in Int /\ x = n * (x \div n)
BY DivMod

LEMMA Distributive ==
  ASSUME NEW n \in Int, NEW k \in Int, NEW l \in Int
  PROVE /\ n * (k + l) = n * k + n * l /\ n * (k - l) = n * k - n * l
        /\ n * (k + 1) = n * k + n /\ n * (k - 1) = n * k - n
OBVIOUS

LEMMA TimesMonotone ==
  ASSUME NEW n \in Nat, NEW k \in Int, NEW l \in Int, k <= l
  PROVE n * k <= n * l
OBVIOUS

(* Sums and differences of multiples are multiples. *)
LEMMA MultipleSum ==
  ASSUME NEW n \in Nat \ {0}, NEW x \in Int, NEW y \in Int, x % n = 0, y % n = 0
  PROVE (x + y) % n = 0 /\ (x - y) % n = 0
<1> DEFINE k == x \div n  l == y \div n
<1>1. k \in Int /\ l \in Int /\ x = n * k /\ y = n * l BY MultipleIs
<1> HIDE DEF k, l
<1>2. x + y = n * (k + l) /\ x - y = n * (k - l) BY <1>1, Distributive
<1>3. k + l \in Int /\ k - l \in Int BY <1>1
<1>4. (n * (k + l)) % n = 0 /\ (n * (k - l)) % n = 0 BY <1>3, MultipleMod
<1> QED BY <1>2, <1>4

LEMMA MultipleNext ==
  ASSUME NEW n \in Nat \ {0}, NEW x \in Int, x % n = 0
  PROVE (x + n) % n = 0
<1> DEFINE k == x \div n
<1>1. k \in Int /\ x = n * k BY MultipleIs
<1> HIDE DEF k
<1>2. x + n = n * (k + 1) BY <1>1, Distributive
<1> QED BY <1>1, <1>2, MultipleMod

(* Multiples of a multiple are multiples. *)
LEMMA MultipleTransitive ==
  ASSUME NEW m \in Nat \ {0}, NEW n \in Nat \ {0}, NEW x \in Int, x % n = 0, n % m = 0
  PROVE x % m = 0
<1> DEFINE k == x \div n  l == n \div m
<1>1. k \in Int /\ l \in Int /\ x = n * k /\ n = m * l BY MultipleIs
<1> HIDE DEF k, l
<1>2. x = m * (l * k) /\ l * k \in Int BY <1>1
<1> QED BY <1>2, MultipleMod

(* A multiple below another one is at least one step below it. *)
LEMMA MultipleBelow ==
  ASSUME NEW n \in Nat \ {0}, NEW x \in Int, NEW y \in Int, x % n = 0, y % n = 0, x < y
  PROVE x + n <= y
<1> DEFINE k == x \div n  l == y \div n
<1>1. k \in Int /\ l \in Int /\ x = n * k /\ y = n * l BY MultipleIs
<1> HIDE DEF k, l
<1>2. ASSUME l <= k PROVE FALSE BY <1>1, <1>2, TimesMonotone
<1>3. n * (k + 1) <= n * l BY <1>1, <1>2, TimesMonotone
<1> QED BY <1>1, <1>3, Distributive

(* Rounding up gives the next multiple. *)
LEMMA RoundUp ==
  ASSUME NEW n \in Nat \ {0}, NEW x \in Int
  PROVE LET r == ((x + n - 1) \div n) * n
        IN r \in Int /\ r % n = 0 /\ x <= r /\ r < x + n /\ (x % n = 0 => r = x)
<1> DEFINE y == x + n - 1  q == y \div n  r == q * n
<1>1. q \in Int /\ y % n \in 0 .. n - 1 /\ y = n * q + (y % n)
  <2>1. y \in Int OBVIOUS
  <2> HIDE DEF y
  <2> QED BY <2>1, DivMod
<1>2. r = n * q /\ r \in Int BY <1>1
<1>3. r % n = 0 BY <1>1, <1>2, MultipleMod
<1> HIDE DEF q, r
<1>4. x <= r /\ r < x + n BY <1>1, <1>2
<1>5. ASSUME x % n = 0 PROVE r = x
  <2> DEFINE k == x \div n
  <2>1. k \in Int /\ x = n * k BY <1>5, MultipleIs
  <2> HIDE DEF k
  <2>2. n * k <= n * q /\ n * q < n * k + n BY <1>2, <1>4, <2>1
  <2>3. q = k
    <3>1. ASSUME q >= k + 1 PROVE FALSE
      <4>1. n * (k + 1) <= n * q BY <1>1, <2>1, <3>1, TimesMonotone
      <4> QED BY <1>1, <2>1, <2>2, <4>1
    <3>2. ASSUME q <= k - 1 PROVE FALSE
      <4>1. n * q <= n * (k - 1) BY <1>1, <2>1, <3>2, TimesMonotone
      <4> QED BY <1>1, <2>1, <2>2, <4>1
    <3> QED BY <1>1, <2>1, <3>1, <3>2
  <2> QED BY <1>2, <2>1, <2>3
<1> QED BY <1>2, <1>3, <1>4, <1>5 DEF r, q

-----------------------------------------------------------------------------
(* Sums of whole words are whole words. *)
LEMMA WordSum ==
  ASSUME NEW x \in Nat, NEW y \in Nat, x % WordSz = 0, y % WordSz = 0
  PROVE (x + y) % WordSz = 0 /\ (x + WordSz) % WordSz = 0
<1>1. WordSz \in Nat \ {0} /\ x \in Int /\ y \in Int BY WordAssumption
<1> QED BY <1>1, MultipleSum, MultipleNext

(* Rounding an offset up to a field's size moves it to the next multiple. *)
LEMMA PaddedIs ==
  ASSUME NEW x \in Nat, NEW n \in Nat \ {0}
  PROVE Padded(x, n) \in Nat /\ x <= Padded(x, n) /\ Padded(x, n) % n = 0
BY RoundUp DEF Padded, AlignUp

LEMMA AlignUpIs ==
  ASSUME NEW x \in Nat
  PROVE /\ AlignUp(x, WordSz) \in Nat /\ AlignUp(x, WordSz) % WordSz = 0
        /\ x <= AlignUp(x, WordSz)
        /\ x % WordSz = 0 => AlignUp(x, WordSz) = x
<1> DEFINE r == ((x + WordSz - 1) \div WordSz) * WordSz
<1>1. WordSz \in Nat \ {0} /\ x \in Int BY WordAssumption
<1>2. r \in Int /\ r % WordSz = 0 /\ x <= r /\ (x % WordSz = 0 => r = x) BY <1>1, RoundUp
<1>3. AlignUp(x, WordSz) = r BY DEF AlignUp
<1> HIDE DEF r
<1> QED BY <1>1, <1>2, <1>3

(* Where the fields of a raw record end is computed field after field. *)
LEMMA EndsExist ==
  ASSUME NEW fs \in Seq(Nat \ {0})
  PROVE \E g : /\ g = [i \in 0 .. Len(fs) |-> IF i = 0 THEN 0 ELSE Padded(g[i - 1], fs[i]) + fs[i]]
               /\ \A i \in 0 .. Len(fs) : g[i] \in Nat
<1> DEFINE Next1(g, i) == IF i = 0 THEN 0 ELSE Padded(g[i - 1], fs[i]) + fs[i]
           Upto(n) == \E g \in [0 .. n -> Nat] : \A i \in 0 .. n : g[i] = Next1(g, i)
           T == {n \in Nat : n <= Len(fs) => Upto(n)}
<1>1. 0 \in T
  <2> DEFINE g == [i \in 0 .. 0 |-> 0]
  <2>1. g \in [0 .. 0 -> Nat] /\ \A i \in 0 .. 0 : g[i] = Next1(g, i) OBVIOUS
  <2> QED BY <2>1
<1>2. ASSUME NEW n \in Nat, n \in T PROVE n + 1 \in T
  <2> SUFFICES ASSUME n + 1 <= Len(fs) PROVE Upto(n + 1)
    <3> HIDE DEF Upto
    <3> QED OBVIOUS
  <2>0. Len(fs) \in Nat /\ n + 1 \in 1 .. Len(fs) /\ fs[n + 1] \in Nat \ {0} OBVIOUS
  <2>a. Upto(n)
    <3> HIDE DEF Upto
    <3> QED BY <1>2, <2>0
  <2>1. PICK g \in [0 .. n -> Nat] : \A i \in 0 .. n : g[i] = Next1(g, i) BY <2>a
  <2> DEFINE e == Padded(g[n], fs[n + 1]) + fs[n + 1]
             h == [i \in 0 .. n + 1 |-> IF i = n + 1 THEN e ELSE g[i]]
  <2>2. e \in Nat
    <3>1. g[n] \in Nat BY <2>1
    <3>2. Padded(g[n], fs[n + 1]) \in Nat BY <2>0, <3>1, PaddedIs
    <3> QED BY <2>0, <3>2
  <2>3. h \in [0 .. n + 1 -> Nat] BY <2>2
  <2>4. ASSUME NEW i \in 0 .. n + 1 PROVE h[i] = Next1(h, i)
    <3>1. CASE i = n + 1 BY <3>1
    <3>2. CASE i # n + 1
      <4>1. i \in 0 .. n /\ (i # 0 => i - 1 \in 0 .. n /\ i - 1 # n + 1) BY <3>2
      <4>2. h[i] = g[i] /\ (i # 0 => h[i - 1] = g[i - 1]) BY <3>2, <4>1
      <4>3. Next1(h, i) = Next1(g, i) BY <4>2
      <4> QED BY <2>1, <4>1, <4>2, <4>3
    <3> QED BY <3>1, <3>2
  <2> QED BY <2>3, <2>4
<1>3. Upto(Len(fs))
  <2>1. Nat \subseteq T
    <3> HIDE DEF T
    <3> QED BY <1>1, <1>2, SetInduction
  <2> HIDE DEF Upto
  <2> QED BY <2>1
<1>4. PICK g \in [0 .. Len(fs) -> Nat] : \A i \in 0 .. Len(fs) : g[i] = Next1(g, i) BY <1>3
<1>5. g = [i \in 0 .. Len(fs) |-> Next1(g, i)] BY <1>4
<1> QED BY <1>4, <1>5

LEMMA OffsetsAre ==
  ASSUME NEW fs \in Seq(Nat \ {0})
  PROVE \E g : /\ \A i \in 0 .. Len(fs) : g[i] \in Nat
               /\ \A i \in 1 .. Len(fs) : g[i] = Padded(g[i - 1], fs[i]) + fs[i]
               /\ Offsets(fs) = [i \in DOMAIN fs |-> g[i] - fs[i]]
<1> DEFINE after[i \in 0 .. Len(fs)] == IF i = 0 THEN 0 ELSE Padded(after[i - 1], fs[i]) + fs[i]
<1>1. after = [i \in 0 .. Len(fs) |-> IF i = 0 THEN 0 ELSE Padded(after[i - 1], fs[i]) + fs[i]]
  BY EndsExist DEF after
<1>4. Offsets(fs) = [i \in DOMAIN fs |-> after[i] - fs[i]] BY DEF Offsets
<1> HIDE DEF after
<1>5. /\ Len(fs) \in Nat
      /\ after[0] = 0
      /\ \A i \in 1 .. Len(fs) : after[i] = Padded(after[i - 1], fs[i]) + fs[i]
  <2>1. Len(fs) \in Nat OBVIOUS
  <2>2. ASSUME NEW i \in 0 .. Len(fs)
        PROVE after[i] = IF i = 0 THEN 0 ELSE Padded(after[i - 1], fs[i]) + fs[i]
    BY <1>1
  <2>3. \A i \in 1 .. Len(fs) : i \in 0 .. Len(fs) /\ i # 0 OBVIOUS
  <2> QED BY <2>1, <2>2, <2>3
<1>2. \A i \in 0 .. Len(fs) : after[i] \in Nat
  <2> DEFINE T == {n \in Nat : n <= Len(fs) => after[n] \in Nat}
  <2>1. 0 \in T BY <1>5
  <2>2. ASSUME NEW n \in Nat, n \in T PROVE n + 1 \in T
    <3> SUFFICES ASSUME n + 1 <= Len(fs) PROVE after[n + 1] \in Nat OBVIOUS
    <3>1. n + 1 \in 1 .. Len(fs) /\ fs[n + 1] \in Nat \ {0} /\ after[n] \in Nat BY <2>2
    <3>2. Padded(after[n], fs[n + 1]) \in Nat BY <3>1, PaddedIs
    <3>3. after[n + 1] = Padded(after[n], fs[n + 1]) + fs[n + 1] BY <1>5, <3>1
    <3> QED BY <3>1, <3>2, <3>3
  <2>3. Nat \subseteq T
    <3> HIDE DEF T
    <3> QED BY <2>1, <2>2, SetInduction
  <2> QED BY <2>3
<1> QED BY <1>2, <1>4, <1>5

(***************************************************************************)
(* The fields of a raw record are aligned to their sizes, in order, apart, *)
(* and inside a whole number of words.                                     *)
(***************************************************************************)
LEMMA OffsetsRight ==
  ASSUME NEW fs \in RawFields
  PROVE /\ FinalOffset(fs) \in Nat /\ FinalOffset(fs) % WordSz = 0
        /\ \A i \in DOMAIN fs :
             /\ Offsets(fs)[i] \in Nat /\ fs[i] \in Nat \ {0}
             /\ Offsets(fs)[i] % fs[i] = 0
             /\ Offsets(fs)[i] + fs[i] <= FinalOffset(fs)
        /\ \A i, j \in DOMAIN fs : i < j => Offsets(fs)[i] + fs[i] <= Offsets(fs)[j]
<1> DEFINE n == Len(fs)
<1>1. /\ fs \in Seq(Nat \ {0}) /\ n \in Nat /\ DOMAIN fs = 1 .. n
      /\ \A i \in 1 .. n : fs[i] \in Nat \ {0}
  BY RawAssumption
<1>2. PICK g : /\ \A i \in 0 .. n : g[i] \in Nat
               /\ \A i \in 1 .. n : g[i] = Padded(g[i - 1], fs[i]) + fs[i]
               /\ Offsets(fs) = [i \in DOMAIN fs |-> g[i] - fs[i]]
  BY <1>1, OffsetsAre
<1> HIDE DEF n
<1>3. ASSUME NEW i \in 1 .. n
      PROVE /\ Offsets(fs)[i] \in Nat /\ Offsets(fs)[i] % fs[i] = 0
            /\ Offsets(fs)[i] + fs[i] = g[i] /\ g[i - 1] <= Offsets(fs)[i]
  <2>1. i - 1 \in 0 .. n /\ i \in 0 .. n BY <1>1
  <2>2. Offsets(fs)[i] = Padded(g[i - 1], fs[i])
    <3>1. Offsets(fs)[i] = g[i] - fs[i] BY <1>1, <1>2
    <3>2. g[i] = Padded(g[i - 1], fs[i]) + fs[i] BY <1>2
    <3>3. Padded(g[i - 1], fs[i]) \in Nat BY <1>1, <1>2, <2>1, PaddedIs
    <3> QED BY <1>1, <3>1, <3>2, <3>3
  <2>3. g[i - 1] \in Nat /\ fs[i] \in Nat \ {0} /\ g[i] = Padded(g[i - 1], fs[i]) + fs[i]
    BY <1>1, <1>2, <2>1
  <2> QED BY <2>2, <2>3, PaddedIs
<1>4. \A d \in Nat : \A i \in 1 .. n : i + d <= n => g[i] <= g[i + d]
  <2> DEFINE T == {d \in Nat : \A i \in 1 .. n : i + d <= n => g[i] <= g[i + d]}
  <2>1. 0 \in T BY <1>1, <1>2
  <2>2. ASSUME NEW d \in Nat, d \in T PROVE d + 1 \in T
    <3> SUFFICES ASSUME NEW i \in 1 .. n, i + (d + 1) <= n PROVE g[i] <= g[i + (d + 1)] OBVIOUS
    <3>1. i \in 0 .. n /\ i + d \in 0 .. n /\ i + (d + 1) \in 1 .. n /\ (i + (d + 1)) - 1 = i + d
      BY <1>1
    <3>2. g[i] <= g[i + d] BY <1>1, <2>2, <3>1
    <3>3. g[i + d] <= g[i + (d + 1)]
      <4>1. g[i + d] <= Offsets(fs)[i + (d + 1)] BY <1>3, <3>1
      <4>2. /\ Offsets(fs)[i + (d + 1)] \in Nat /\ fs[i + (d + 1)] \in Nat
            /\ Offsets(fs)[i + (d + 1)] + fs[i + (d + 1)] = g[i + (d + 1)]
        BY <1>1, <1>3, <3>1
      <4>3. g[i + d] \in Nat BY <1>2, <3>1
      <4> QED BY <4>1, <4>2, <4>3
    <3>4. g[i] \in Nat /\ g[i + d] \in Nat /\ g[i + (d + 1)] \in Nat BY <1>2, <3>1
    <3> QED BY <3>2, <3>3, <3>4
  <2>3. Nat \subseteq T
    <3> HIDE DEF T
    <3> QED BY <2>1, <2>2, SetInduction
  <2> QED BY <2>3
<1>5. ASSUME NEW i \in 1 .. n, NEW j \in 1 .. n, i < j
      PROVE Offsets(fs)[i] + fs[i] <= Offsets(fs)[j]
  <2>1. /\ (j - 1) - i \in Nat /\ i + ((j - 1) - i) = j - 1 /\ j - 1 <= n
        /\ j - 1 \in 0 .. n /\ i \in 0 .. n
    BY <1>1, <1>5
  <2>2. g[i] <= g[j - 1] BY <1>4, <2>1
  <2>3. g[i] \in Nat /\ g[j - 1] \in Nat BY <1>2, <2>1
  <2> QED BY <1>3, <2>2, <2>3
<1>6. /\ FinalOffset(fs) \in Nat /\ FinalOffset(fs) % WordSz = 0
      /\ \A i \in 1 .. n : g[i] <= FinalOffset(fs)
  <2>1. CASE fs = <<>>
    <3>1. FinalOffset(fs) = 0 /\ n = 0 BY <2>1 DEF FinalOffset, n
    <3>2. 0 % WordSz = 0 BY WordAssumption
    <3> QED BY <3>1, <3>2
  <2>2. CASE fs # <<>>
    <3>1. n \in 1 .. n BY <1>1, <2>2 DEF n
    <3>2. FinalOffset(fs) = AlignUp(g[n], WordSz) BY <1>3, <2>2, <3>1 DEF FinalOffset, n
    <3>3. g[n] \in Nat BY <1>2, <3>1
    <3>4. /\ AlignUp(g[n], WordSz) \in Nat /\ AlignUp(g[n], WordSz) % WordSz = 0
          /\ g[n] <= AlignUp(g[n], WordSz)
      BY <3>3, AlignUpIs
    <3>5. ASSUME NEW i \in 1 .. n PROVE g[i] <= g[n] /\ g[i] \in Nat
      <4>1. n - i \in Nat /\ i + (n - i) = n /\ n <= n /\ i \in 0 .. n BY <1>1
      <4> QED BY <1>2, <1>4, <4>1
    <3> QED BY <3>2, <3>3, <3>4, <3>5
  <2> QED BY <2>1, <2>2
<1> QED BY <1>1, <1>3, <1>5, <1>6

(* The words of a row of whole words lie in it, one after the other. *)
LEMMA WordsAre ==
  ASSUME NEW a \in Nat, a % WordSz = 0, NEW size \in Nat, size % WordSz = 0, NEW w \in Words(a, size)
  PROVE w \in Nat /\ w % WordSz = 0 /\ a <= w /\ w + WordSz <= a + size
<1> DEFINE k == size \div WordSz
<1>1. WordSz \in Nat \ {0} BY WordAssumption
<1>2. k \in Int /\ size = WordSz * k BY <1>1, MultipleIs
<1>3. AlignUp(size, WordSz) = size BY AlignUpIs
<1>4. PICK i \in 0 .. k - 1 : w = a + i * WordSz BY <1>3 DEF Words
<1> HIDE DEF k
<1>5. i \in Nat /\ i * WordSz = WordSz * i /\ WordSz * i \in Nat BY <1>1, <1>2, <1>4
<1>6. WordSz * i <= WordSz * (k - 1) /\ WordSz * (k - 1) = WordSz * k - WordSz
  BY <1>1, <1>2, <1>4, <1>5, TimesMonotone, Distributive
<1>7. (WordSz * i) % WordSz = 0 BY <1>1, <1>5, MultipleMod
<1>8. (a + WordSz * i) % WordSz = 0
  <2> DEFINE x == WordSz * i
  <2>1. x \in Int /\ x % WordSz = 0 BY <1>5, <1>7
  <2> HIDE DEF x
  <2>2. (a + x) % WordSz = 0 BY <1>1, <2>1, MultipleSum
  <2> QED BY <2>2 DEF x
<1> QED BY <1>1, <1>2, <1>4, <1>5, <1>6, <1>8

(***************************************************************************)
(* The inductive invariant.  Beyond the properties: what is written lies   *)
(* below the allocation pointer; what is left of the amount that was asked *)
(* for fits in front of the end; and there is a chain of cells, one for    *)
(* each update, that the store register leads to.                          *)
(***************************************************************************)
HeapObject ==
  [addr: Nat, size: Nat, align: Nat \ {0}, fields: SUBSET [off: Nat, szb: Nat \ {0}]]
ObjsTyped == objs \subseteq HeapObject

InRow == \A w \in DOMAIN mem : w \in Nat /\ w + WordSz <= alloc
StoreIsCell == store \in DOMAIN mem \cup {Nil}
Budgeted == ~raw /\ budget > 0 => alloc + budget <= limit + Slop

Link(c, i) ==
  /\ c[i - 1] \in DOMAIN mem /\ GEP(c[i - 1], 1) \in DOMAIN mem
  /\ mem[c[i - 1]] = Ptr(updates[i])
  /\ mem[GEP(c[i - 1], 1)] = Ptr(c[i])
Chain ==
  \E c \in [0 .. Len(updates) -> Nat] :
    c[0] = store /\ c[Len(updates)] = Nil /\ \A i \in 1 .. Len(updates) : Link(c, i)

HInv ==
  /\ TypeOK /\ ObjsTyped /\ InRow /\ StoreIsCell /\ Budgeted /\ Chain
  /\ BelowLimit /\ ObjectsApart /\ FieldsAligned

(* What every allocation does: it writes the words S, all of them between the
   old and the new allocation pointer, and spends cost. *)
Values == {Data} \cup {Ptr(a) : a \in DOMAIN mem \cup Cells \cup {Nil}}
Grows(S, cost) ==
  /\ alloc' \in Nat /\ alloc' % WordSz = 0 /\ alloc <= alloc'
  /\ cost \in Nat \ {0} /\ budget >= cost /\ budget' = budget - cost
  /\ limit' = limit /\ gcs' = gcs
  /\ (raw' = raw /\ alloc' <= alloc + cost) \/ raw' = TRUE
  /\ DOMAIN mem' = S \cup DOMAIN mem
  /\ \A w \in DOMAIN mem : mem'[w] = mem[w]
  /\ \A w \in S : /\ w \in Nat /\ w % WordSz = 0 /\ alloc <= w /\ w + WordSz <= alloc'
                  /\ mem'[w] \in Values

LEMMA GrowsKeeps ==
  ASSUME HInv, NEW S, NEW cost, Grows(S, cost)
  PROVE /\ InRow' /\ Budgeted' /\ BelowLimit'
        /\ alloc' \in Nat /\ alloc' % WordSz = 0 /\ limit' \in Nat /\ budget' \in Nat
        /\ gcs' \in 0 .. MaxGC /\ raw' \in BOOLEAN
        /\ \A w \in DOMAIN mem' :
             w % WordSz = 0 /\ mem'[w] \in {Data} \cup {Ptr(a) : a \in DOMAIN mem' \cup Cells \cup {Nil}}
<1>1. /\ alloc \in Nat /\ budget \in Nat /\ limit \in Nat /\ gcs \in 0 .. MaxGC /\ raw \in BOOLEAN
      /\ WordSz \in Nat \ {0} /\ Slop \in Nat
  BY WordAssumption, NatAssumption DEF HInv, TypeOK
<1>2. /\ alloc' \in Nat /\ alloc' % WordSz = 0 /\ alloc <= alloc' /\ limit' = limit /\ gcs' = gcs
      /\ cost \in Nat \ {0} /\ budget >= cost /\ budget' = budget - cost
      /\ (raw' = raw /\ alloc' <= alloc + cost) \/ raw' = TRUE
  BY DEF Grows
<1>3. Budgeted'
  <2> SUFFICES ASSUME ~raw', budget' > 0 PROVE alloc' + budget' <= limit' + Slop BY DEF Budgeted
  <2>1. ~raw /\ budget > 0 /\ alloc' <= alloc + cost BY <1>1, <1>2
  <2>2. alloc + budget <= limit + Slop BY <2>1 DEF HInv, Budgeted
  <2>3. alloc' + budget' <= alloc + budget
    <3> DEFINE a == alloc  aa == alloc'  b == budget  bb == budget'
    <3>1. /\ a \in Nat /\ aa \in Nat /\ b \in Nat /\ cost \in Nat
          /\ bb = b - cost /\ aa <= a + cost
      BY <1>1, <1>2, <2>1
    <3> HIDE DEF a, aa, b, bb
    <3>2. aa + bb <= a + b BY <3>1
    <3> QED BY <3>2 DEF a, aa, b, bb
  <2>4. limit' + Slop = limit + Slop /\ limit + Slop \in Int /\ alloc + budget \in Int
    BY <1>1, <1>2
  <2>5. alloc' + budget' \in Int BY <1>1, <1>2
  <2> QED BY <2>2, <2>3, <2>4, <2>5
<1>4. InRow'
  <2> SUFFICES ASSUME NEW w \in DOMAIN mem' PROVE w \in Nat /\ w + WordSz <= alloc' BY DEF InRow
  <2>1. CASE w \in S BY <2>1 DEF Grows
  <2>2. CASE w \in DOMAIN mem
    <3>1. w \in Nat /\ w + WordSz <= alloc BY <2>2 DEF HInv, InRow
    <3> QED BY <1>1, <1>2, <3>1
  <2> QED BY <2>1, <2>2 DEF Grows
<1>5. BelowLimit'
  <2> SUFFICES ASSUME ~raw', NEW w \in DOMAIN mem' PROVE w + WordSz <= limit' + Slop
    BY DEF BelowLimit, BelowEnd
  <2>1. ~raw /\ budget > 0 /\ alloc' <= alloc + cost BY <1>1, <1>2
  <2>2. alloc + budget <= limit + Slop BY <2>1 DEF HInv, Budgeted
  <2>3. w \in Nat /\ w + WordSz <= alloc' BY <1>4 DEF InRow
  <2> QED BY <1>1, <1>2, <2>1, <2>2, <2>3
<1>6. ASSUME NEW w \in DOMAIN mem'
      PROVE w % WordSz = 0 /\ mem'[w] \in {Data} \cup {Ptr(a) : a \in DOMAIN mem' \cup Cells \cup {Nil}}
  <2>1. DOMAIN mem \subseteq DOMAIN mem' BY DEF Grows
  <2>2. Values \subseteq {Data} \cup {Ptr(a) : a \in DOMAIN mem' \cup Cells \cup {Nil}}
    BY <2>1 DEF Values
  <2>3. CASE w \in S BY <2>2, <2>3 DEF Grows
  <2>4. CASE w \in DOMAIN mem
    <3>1. w % WordSz = 0 /\ mem[w] \in Values BY <2>4 DEF HInv, TypeOK, Values
    <3>2. mem'[w] = mem[w] BY <2>4 DEF Grows
    <3> QED BY <2>2, <3>1, <3>2
  <2> QED BY <2>3, <2>4 DEF Grows
<1>7. limit' \in Nat /\ budget' \in Nat /\ gcs' \in 0 .. MaxGC BY <1>1, <1>2
<1>8. raw' \in BOOLEAN BY <1>1, <1>2
<1> QED BY <1>2, <1>3, <1>4, <1>5, <1>6, <1>7, <1>8

LEMMA ChainKept ==
  ASSUME HInv, NEW S, NEW cost, Grows(S, cost), store' = store, updates' = updates
  PROVE Chain' /\ StoreIsCell' /\ store' \in Nat /\ updates' \in Seq(Cells)
<1>1. PICK c \in [0 .. Len(updates) -> Nat] :
        c[0] = store /\ c[Len(updates)] = Nil /\ \A i \in 1 .. Len(updates) : Link(c, i)
  BY DEF HInv, Chain
<1>2. DOMAIN mem \subseteq DOMAIN mem' /\ \A w \in DOMAIN mem : mem'[w] = mem[w] BY DEF Grows
<1>3. \A i \in 1 .. Len(updates) : Link(c, i)' BY <1>1, <1>2 DEF Link
<1>4. Chain' BY <1>1, <1>3 DEF Chain
<1>5. StoreIsCell' BY <1>2 DEF HInv, StoreIsCell
<1> QED BY <1>4, <1>5 DEF HInv, TypeOK

(* A new object above the old allocation pointer is apart from the old ones. *)
NewObject(o) ==
  /\ o \in HeapObject
  /\ alloc <= o.addr - WordSz /\ o.addr + o.size <= alloc'
  /\ o.addr % o.align = 0
  /\ \A f \in o.fields :
       /\ (o.addr + f.off) % f.szb = 0 /\ f.off + f.szb <= o.size
       /\ \A g \in o.fields : f # g => f.off + f.szb <= g.off \/ g.off + g.szb <= f.off

LEMMA ObjectAdded ==
  ASSUME HInv, NEW o, NewObject(o), alloc' \in Nat, objs' = objs \cup {o}
  PROVE ObjsTyped' /\ ObjectsApart' /\ FieldsAligned'
<1>1. alloc \in Nat /\ WordSz \in Nat \ {0} BY WordAssumption DEF HInv, TypeOK
<1>2. o \in HeapObject /\ alloc <= o.addr - WordSz /\ o.addr + o.size <= alloc' BY DEF NewObject
<1>3. ASSUME NEW p \in objs
      PROVE /\ p \in HeapObject /\ p.addr \in Nat /\ p.size \in Nat /\ p.addr + p.size <= alloc
            /\ p.addr + p.size <= alloc' /\ Bytes(p) \cap Bytes(o) = {}
  <2>1. p \in HeapObject /\ p.addr + p.size <= alloc BY DEF HInv, ObjsTyped, ObjectsApart
  <2>2. p.addr \in Nat /\ p.size \in Nat /\ o.addr \in Nat /\ o.size \in Nat
    BY <1>2, <2>1 DEF HeapObject
  <2> QED BY <1>1, <1>2, <2>1, <2>2 DEF Bytes
<1>4. ObjsTyped' BY <1>2 DEF HInv, ObjsTyped
<1>5. ObjectsApart'
  <2>1. ASSUME NEW p \in objs', NEW q \in objs', p # q PROVE Bytes(p) \cap Bytes(q) = {}
    <3>1. CASE p \in objs /\ q \in objs BY <2>1, <3>1 DEF HInv, ObjectsApart
    <3>2. CASE p = o \/ q = o BY <1>3, <2>1, <3>2
    <3> QED BY <3>1, <3>2
  <2>2. \A p \in objs' : p.addr + p.size <= alloc' BY <1>2, <1>3
  <2> QED BY <2>1, <2>2 DEF ObjectsApart, Bytes
<1>6. FieldsAligned'
  <2>1. ASSUME NEW p \in objs'
        PROVE /\ p.addr % p.align = 0
              /\ \A f \in p.fields :
                   /\ (p.addr + f.off) % f.szb = 0 /\ f.off + f.szb <= p.size
                   /\ \A g \in p.fields : f # g => f.off + f.szb <= g.off \/ g.off + g.szb <= f.off
    <3>1. CASE p \in objs BY <3>1 DEF HInv, FieldsAligned
    <3>2. CASE p = o BY <3>2 DEF NewObject
    <3> QED BY <3>1, <3>2
  <2> QED BY <2>1 DEF FieldsAligned
<1> QED BY <1>4, <1>5, <1>6

LEMMA AllocationKeeps ==
  ASSUME HInv, NEW S, NEW cost, NEW o, Grows(S, cost), NewObject(o), objs' = objs \cup {o},
         store' = store, updates' = updates
  PROVE HInv'
<1>1. /\ InRow' /\ Budgeted' /\ BelowLimit'
      /\ alloc' \in Nat /\ alloc' % WordSz = 0 /\ limit' \in Nat /\ budget' \in Nat
      /\ gcs' \in 0 .. MaxGC /\ raw' \in BOOLEAN
      /\ \A w \in DOMAIN mem' :
           w % WordSz = 0 /\ mem'[w] \in {Data} \cup {Ptr(a) : a \in DOMAIN mem' \cup Cells \cup {Nil}}
  BY GrowsKeeps
<1>2. Chain' /\ StoreIsCell' /\ store' \in Nat /\ updates' \in Seq(Cells) BY ChainKept
<1>3. ObjsTyped' /\ ObjectsApart' /\ FieldsAligned' BY <1>1, ObjectAdded
<1>4. \A p \in objs' : {p.addr, p.size, p.align} \subseteq Nat BY <1>3 DEF ObjsTyped, HeapObject
<1>5. TypeOK' BY <1>1, <1>2, <1>4 DEF TypeOK
<1> QED BY <1>1, <1>2, <1>3, <1>5 DEF HInv

(* Rows of words that are written at or above the allocation pointer *)
LEMMA RowWritten ==
  ASSUME HInv, NEW a \in Nat, a % WordSz = 0, NEW size \in Nat, size % WordSz = 0,
         alloc <= a, alloc' \in Nat, a + size <= alloc', mem' = Written(a, size)
  PROVE /\ DOMAIN mem' = Words(a, size) \cup DOMAIN mem
        /\ \A w \in DOMAIN mem : mem'[w] = mem[w]
        /\ \A w \in Words(a, size) :
             /\ w \in Nat /\ w % WordSz = 0 /\ alloc <= w /\ w + WordSz <= alloc'
             /\ mem'[w] \in Values
<1>1. WordSz \in Nat \ {0} /\ alloc \in Nat BY WordAssumption DEF HInv, TypeOK
<1>2. mem' = [w \in Words(a, size) \cup DOMAIN mem |-> IF w \in Words(a, size) THEN Data ELSE mem[w]]
  BY DEF Written, Put
<1>3. ASSUME NEW w \in Words(a, size)
      PROVE w \in Nat /\ w % WordSz = 0 /\ alloc <= w /\ w + WordSz <= alloc'
  <2>1. w \in Nat /\ w % WordSz = 0 /\ a <= w /\ w + WordSz <= a + size BY WordsAre
  <2> DEFINE p == alloc  q == alloc'
  <2>2. p \in Nat /\ q \in Nat /\ p <= a /\ a + size <= q BY <1>1
  <2> HIDE DEF p, q
  <2>3. p <= w /\ w + WordSz <= q BY <1>1, <2>1, <2>2
  <2> QED BY <2>1, <2>3 DEF p, q
<1>4. ASSUME NEW w \in DOMAIN mem PROVE w \notin Words(a, size)
  <2>1. w \in Nat /\ w + WordSz <= alloc BY DEF HInv, InRow
  <2>2. ASSUME w \in Words(a, size) PROVE FALSE BY <1>1, <1>3, <2>1, <2>2
  <2> QED BY <2>2
<1>5. Data \in Values BY DEF Values
<1> QED BY <1>2, <1>3, <1>4, <1>5

(* Sizes in whole words *)
LEMMA WordsMultiple ==
  ASSUME NEW n \in Nat
  PROVE /\ n * WordSz \in Nat /\ (n * WordSz) % WordSz = 0
        /\ (n + 1) * WordSz = n * WordSz + WordSz /\ 2 * WordSz = WordSz + WordSz
        /\ n <= n * WordSz
<1>1. WordSz \in Nat \ {0} BY WordAssumption
<1>2. n * WordSz = WordSz * n /\ WordSz * n \in Nat BY <1>1
<1>3. (WordSz * n) % WordSz = 0 BY <1>1, MultipleMod
<1>4. (n + 1) * WordSz = n * WordSz + WordSz /\ 2 * WordSz = WordSz + WordSz BY <1>1
<1>5. n <= n * WordSz
  <2>1. n * 1 <= n * WordSz BY <1>1, TimesMonotone
  <2> QED BY <2>1
<1> QED BY <1>2, <1>3, <1>4, <1>5

(* RECORD and SPECIAL keep the invariant. *)
LEMMA RecordStep == HInv /\ AllocRecord => HInv'
<1> SUFFICES ASSUME HInv, AllocRecord PROVE HInv' OBVIOUS
<1>1. PICK len \in RecordLens :
        /\ Spend((len + 1) * WordSz)
        /\ mem' = Written(alloc, (len + 1) * WordSz)
        /\ alloc' = RecordBump(len)
        /\ objs' = objs \cup {Object(GEP(alloc, 1), len * WordSz, WordSz, {})}
        /\ UNCHANGED <<regs, updates, raw, gcs>>
  BY DEF AllocRecord
<1>2. WordSz \in Nat \ {0} /\ alloc \in Nat /\ alloc % WordSz = 0 /\ budget \in Nat /\ len \in Nat
  BY WordAssumption, NatAssumption DEF HInv, TypeOK
<1> DEFINE size == len * WordSz  cost == size + WordSz  o == Object(GEP(alloc, 1), size, WordSz, {})
<1>3. /\ size \in Nat /\ size % WordSz = 0 /\ (len + 1) * WordSz = cost /\ cost \in Nat \ {0}
  BY <1>2, WordsMultiple
<1>4. cost % WordSz = 0
  <2> HIDE DEF size
  <2> QED BY <1>3, WordSum
<1>5. alloc' = alloc + cost /\ GEP(alloc, 1) = alloc + WordSz BY <1>1, <1>2, <1>3 DEF RecordBump, GEP
<1>6. objs' = objs \cup {o} /\ mem' = Written(alloc, cost) /\ budget >= cost /\ budget' = budget - cost
  BY <1>1, <1>3 DEF Spend
<1> HIDE DEF size
<1>7. alloc' \in Nat /\ alloc' % WordSz = 0 /\ alloc <= alloc'
  <2>1. (alloc + cost) % WordSz = 0
    <3> DEFINE p == alloc
    <3>1. p \in Nat /\ p % WordSz = 0 BY <1>2
    <3> HIDE DEF p, cost
    <3>2. (p + cost) % WordSz = 0 BY <1>3, <1>4, <3>1, WordSum
    <3> QED BY <3>2 DEF p
  <2> QED BY <1>2, <1>3, <1>5, <2>1
<1>8. Grows(Words(alloc, cost), cost)
  <2>1. alloc + cost <= alloc' BY <1>2, <1>3, <1>5
  <2>2. alloc <= alloc BY <1>2
  <2> HIDE DEF cost
  <2>3. /\ DOMAIN mem' = Words(alloc, cost) \cup DOMAIN mem
        /\ \A w \in DOMAIN mem : mem'[w] = mem[w]
        /\ \A w \in Words(alloc, cost) :
             /\ w \in Nat /\ w % WordSz = 0 /\ alloc <= w /\ w + WordSz <= alloc'
             /\ mem'[w] \in Values
    BY <1>2, <1>3, <1>4, <1>6, <1>7, <2>1, <2>2, RowWritten
  <2>4. limit' = limit /\ gcs' = gcs /\ raw' = raw BY <1>1 DEF regs
  <2>5. alloc' <= alloc + cost BY <1>2, <1>3, <1>5
  <2> QED BY <1>3, <1>6, <1>7, <2>3, <2>4, <2>5 DEF Grows
<1>9. NewObject(o)
  <2>1. /\ o.addr = alloc + WordSz /\ o.size = size /\ o.align = WordSz /\ o.fields = {}
        /\ o \in HeapObject
    BY <1>2, <1>3, <1>5 DEF Object, HeapObject
  <2>2. alloc <= o.addr - WordSz /\ o.addr + o.size <= alloc'
    BY <1>2, <1>3, <1>5, <2>1
  <2>3. (alloc + WordSz) % WordSz = 0
    <3> DEFINE p == alloc
    <3>1. p \in Nat /\ p % WordSz = 0 BY <1>2
    <3> HIDE DEF p
    <3>2. (p + WordSz) % WordSz = 0 BY <3>1, WordSum
    <3> QED BY <3>2 DEF p
  <2> QED BY <2>1, <2>2, <2>3 DEF NewObject
<1>10. store' = store /\ updates' = updates BY <1>1 DEF regs
<1> HIDE DEF cost, o
<1> QED BY <1>6, <1>8, <1>9, <1>10, AllocationKeeps

(* RAW_RECORD keeps it. *)
LEMMA RawRecordStep == HInv /\ RawRecord => HInv'
<1> SUFFICES ASSUME HInv, RawRecord PROVE HInv' OBVIOUS
<1> DEFINE obj == GEP(alloc, 1)
<1>1. PICK fs \in RawFields :
        /\ Spend(WordSz + FinalOffset(fs))
        /\ mem' = Written(alloc, WordSz + FinalOffset(fs))
        /\ alloc' = RawRecordBump(obj, fs)
        /\ objs' = objs \cup
             {Object(obj, FinalOffset(fs), WordSz, {[off |-> Offsets(fs)[i], szb |-> fs[i]] : i \in DOMAIN fs})}
        /\ raw' = TRUE
        /\ UNCHANGED <<regs, updates, gcs>>
  BY DEF RawRecord
<1> DEFINE f == FinalOffset(fs)  cost == WordSz + f
           fields == {[off |-> Offsets(fs)[i], szb |-> fs[i]] : i \in DOMAIN fs}
           o == Object(obj, f, WordSz, fields)
<1>2. WordSz \in Nat \ {0} /\ alloc \in Nat /\ alloc % WordSz = 0 /\ budget \in Nat
  BY WordAssumption DEF HInv, TypeOK
<1>3. f \in Nat /\ f % WordSz = 0 BY OffsetsRight
<1>4. obj = alloc + WordSz /\ obj \in Nat /\ obj % WordSz = 0
  <2> DEFINE p == alloc
  <2>1. p \in Nat /\ p % WordSz = 0 BY <1>2
  <2> HIDE DEF p
  <2>2. (p + WordSz) % WordSz = 0 BY <2>1, WordSum
  <2> QED BY <1>2, <2>2 DEF p, GEP
<1>5. cost \in Nat \ {0} /\ cost % WordSz = 0
  <2> HIDE DEF f
  <2>1. (f + WordSz) % WordSz = 0 BY <1>3, WordSum
  <2> QED BY <1>2, <1>3, <2>1
<1>6. alloc' = alloc + WordSz + f * WordSz /\ f * WordSz \in Nat /\ f <= f * WordSz
  BY <1>1, <1>2, <1>3, <1>4, WordsMultiple DEF RawRecordBump, GEP
<1>7. /\ objs' = objs \cup {o} /\ mem' = Written(alloc, cost)
      /\ budget >= cost /\ budget' = budget - cost /\ raw' = TRUE
  BY <1>1 DEF Spend
<1>8. /\ alloc' \in Nat /\ alloc' % WordSz = 0 /\ alloc <= alloc' /\ alloc + cost <= alloc'
      /\ obj + f <= alloc' /\ alloc <= obj - WordSz
  <2> DEFINE r == f * WordSz  p == alloc
  <2>1. r \in Nat /\ r % WordSz = 0 /\ f <= r BY <1>3, <1>6, WordsMultiple
  <2>2. p \in Nat /\ obj = p + WordSz /\ alloc' = obj + r BY <1>2, <1>4, <1>6
  <2> HIDE DEF r, p, obj, f
  <2>3. (obj + r) % WordSz = 0 BY <1>4, <2>1, WordSum
  <2>4. p <= obj + r /\ p + cost <= obj + r /\ obj + f <= obj + r /\ p <= obj - WordSz
    BY <1>2, <1>3, <1>4, <2>1, <2>2
  <2> QED BY <1>4, <2>1, <2>2, <2>3, <2>4 DEF p
<1>9. Grows(Words(alloc, cost), cost)
  <2> HIDE DEF cost
  <2>1. alloc <= alloc BY <1>2
  <2>2. /\ DOMAIN mem' = Words(alloc, cost) \cup DOMAIN mem
        /\ \A w \in DOMAIN mem : mem'[w] = mem[w]
        /\ \A w \in Words(alloc, cost) :
             /\ w \in Nat /\ w % WordSz = 0 /\ alloc <= w /\ w + WordSz <= alloc'
             /\ mem'[w] \in Values
    BY <1>2, <1>5, <1>7, <1>8, <2>1, RowWritten
  <2>3. limit' = limit /\ gcs' = gcs BY <1>1 DEF regs
  <2> QED BY <1>5, <1>7, <1>8, <2>2, <2>3 DEF Grows
<1>10. NewObject(o)
  <2>1. \A i \in DOMAIN fs :
          /\ Offsets(fs)[i] \in Nat /\ fs[i] \in Nat \ {0}
          /\ Offsets(fs)[i] % fs[i] = 0 /\ Offsets(fs)[i] + fs[i] <= f
    BY OffsetsRight
  <2>2. o.addr = obj /\ o.size = f /\ o.align = WordSz /\ o.fields = fields BY DEF Object
  <2>3. o \in HeapObject
    <3>1. fields \in SUBSET [off: Nat, szb: Nat \ {0}] BY <2>1
    <3> HIDE DEF obj, f, fields
    <3> QED BY <1>2, <1>3, <1>4, <3>1 DEF Object, HeapObject
  <2>4. ASSUME NEW d \in fields
        PROVE /\ (obj + d.off) % d.szb = 0 /\ d.off + d.szb <= f
              /\ \A e \in fields : d # e => d.off + d.szb <= e.off \/ e.off + e.szb <= d.off
    <3>1. PICK i \in DOMAIN fs : d = [off |-> Offsets(fs)[i], szb |-> fs[i]] OBVIOUS
    <3>2. d.off = Offsets(fs)[i] /\ d.szb = fs[i] BY <3>1
    <3> DEFINE a == obj  x == Offsets(fs)[i]  z == fs[i]
    <3>3. z \in Nat \ {0} /\ WordSz % z = 0 /\ x \in Nat /\ x % z = 0 BY <2>1, RawAssumption
    <3>4. a \in Nat /\ a % WordSz = 0 BY <1>4
    <3>5. (a + x) % z = 0
      <4> HIDE DEF a, x, z
      <4>1. a % z = 0 BY <1>2, <3>3, <3>4, MultipleTransitive
      <4>2. a \in Int /\ x \in Int /\ x % z = 0 /\ z \in Nat \ {0} BY <3>3, <3>4
      <4> QED BY <4>1, <4>2, MultipleSum
    <3>6. ASSUME NEW e \in fields, d # e
          PROVE d.off + d.szb <= e.off \/ e.off + e.szb <= d.off
      <4>1. PICK j \in DOMAIN fs : e = [off |-> Offsets(fs)[j], szb |-> fs[j]] OBVIOUS
      <4>2. i # j BY <3>1, <3>6, <4>1
      <4>3. i < j \/ j < i BY <4>2, RawAssumption
      <4>4. \/ Offsets(fs)[i] + fs[i] <= Offsets(fs)[j]
            \/ Offsets(fs)[j] + fs[j] <= Offsets(fs)[i]
        BY <4>3, OffsetsRight
      <4> QED BY <3>2, <4>1, <4>4
    <3> QED BY <2>1, <3>2, <3>5, <3>6
  <2> HIDE DEF obj, f, fields, o
  <2> QED BY <1>4, <1>8, <2>2, <2>3, <2>4 DEF NewObject
<1>11. store' = store /\ updates' = updates BY <1>1 DEF regs
<1> HIDE DEF cost, o
<1> QED BY <1>7, <1>8, <1>9, <1>10, <1>11, AllocationKeeps

(* The adjusted pointer is the last word before a multiple of the alignment. *)
LEMMA AdjustedIs ==
  ASSUME HInv, NEW r \in RawAllocs
  PROVE LET p == Adjusted(r.align) IN
        /\ p \in Nat /\ p % WordSz = 0 /\ alloc <= p /\ p + WordSz <= alloc + r.align
        /\ (p + WordSz) % r.align = 0
<1> DEFINE n == r.align  x == alloc  q == x \div n  m == x % n
<1>1. /\ WordSz \in Nat \ {0} /\ x \in Nat /\ x % WordSz = 0
      /\ n \in Nat \ {0} /\ WordSz <= n /\ n % WordSz = 0
  BY WordAssumption, RawAssumption DEF HInv, TypeOK
<1>2. CASE n > WordSz
  <2>1. Adjusted(n) = q * n + (n - WordSz) + (x % WordSz) BY <1>2 DEF Adjusted, OrMask
  <2> HIDE DEF n, x
  <2>2. q \in Int /\ m \in 0 .. n - 1 /\ x = n * q + m BY <1>1, DivMod
  <2>3. m % WordSz = 0
    <3> DEFINE y == n * q
    <3>1. (n * q) % n = 0 BY <1>1, <2>2, MultipleMod
    <3>2. y \in Int /\ y % n = 0 BY <1>1, <2>2, <3>1
    <3> HIDE DEF q, y
    <3>3. y % WordSz = 0 BY <1>1, <3>2, MultipleTransitive
    <3>4. x \in Int BY <1>1
    <3>5. (x - y) % WordSz = 0 BY <1>1, <3>2, <3>3, <3>4, MultipleSum
    <3> HIDE DEF m
    <3>6. m = x - y BY <1>1, <2>2, <3>2 DEF y
    <3> QED BY <3>5, <3>6
  <2> DEFINE e == n * q + n  v == Adjusted(n)
  <2>4. m + WordSz <= n
    <3> HIDE DEF m
    <3>1. m \in Int /\ n \in Int /\ m < n BY <1>1, <2>2
    <3> QED BY <1>1, <2>3, <3>1, MultipleBelow
  <2>5. e \in Int /\ e % n = 0
    <3> DEFINE y == n * q
    <3>1. (n * q) % n = 0 BY <1>1, <2>2, MultipleMod
    <3>2. y \in Int /\ y % n = 0 BY <1>1, <2>2, <3>1
    <3> HIDE DEF y
    <3>3. (y + n) % n = 0 BY <1>1, <3>2, MultipleNext
    <3>4. y + n \in Int BY <1>1, <3>2
    <3> QED BY <3>3, <3>4 DEF y
  <2>6. v = e - WordSz
    <3>1. q * n = n * q BY <1>1, <2>2
    <3> QED BY <1>1, <2>1, <2>2, <3>1
  <2>7. x + n = e + m /\ m \in Nat /\ n \in Nat BY <1>1, <2>2
  <2> HIDE DEF e, m, v, q
  <2>8. x <= v /\ v + WordSz <= x + n /\ v \in Nat /\ v + WordSz = e
    BY <1>1, <2>4, <2>5, <2>6, <2>7
  <2>9. v % WordSz = 0
    <3>1. e % WordSz = 0 BY <1>1, <2>5, MultipleTransitive
    <3>2. WordSz \in Int /\ WordSz % WordSz = 0
      <4>1. 0 \in Nat /\ 0 % WordSz = 0 BY <1>1
      <4>2. (0 + WordSz) % WordSz = 0 BY <4>1, WordSum
      <4> QED BY <1>1, <4>2
    <3>3. (e - WordSz) % WordSz = 0 BY <1>1, <2>5, <3>1, <3>2, MultipleSum
    <3> QED BY <2>6, <3>3
  <2> QED BY <2>5, <2>8, <2>9 DEF n, x, v
<1>3. CASE n = WordSz
  <2>1. Adjusted(n) = x BY <1>1, <1>3 DEF Adjusted
  <2>2. (x + WordSz) % WordSz = 0
    <3> HIDE DEF x
    <3> QED BY <1>1, WordSum
  <2> QED BY <1>1, <1>3, <2>1, <2>2
<1> QED BY <1>1, <1>2, <1>3

(* RAW_ALLOC keeps it, tagged or not. *)
LEMMA RawAllocStep == HInv /\ RawAlloc => HInv'
<1> SUFFICES ASSUME HInv, RawAlloc PROVE HInv' OBVIOUS
<1>1. PICK r \in RawAllocs, tagged \in BOOLEAN :
        /\ tagged \/ r.align = WordSz
        /\ Spend(r.align + r.len)
        /\ LET p == IF tagged THEN Adjusted(r.align) ELSE alloc IN
             /\ mem' = IF tagged THEN Written(p, WordSz + r.len) ELSE Written(GEP(p, 1), r.len)
             /\ alloc' = RawAllocEnd(p, r.len)
             /\ objs' = objs \cup {Object(GEP(p, 1), r.len, r.align, {})}
        /\ UNCHANGED <<regs, updates, raw, gcs>>
  BY DEF RawAlloc
<1> DEFINE p == IF tagged THEN Adjusted(r.align) ELSE alloc
           n == r.align  len == r.len  cost == n + len
           o == Object(GEP(p, 1), len, n, {})
           from == IF tagged THEN p ELSE p + WordSz
           size == IF tagged THEN WordSz + len ELSE len
<1>2. /\ WordSz \in Nat \ {0} /\ alloc \in Nat /\ alloc % WordSz = 0 /\ budget \in Nat
      /\ n \in Nat \ {0} /\ WordSz <= n /\ len \in Nat /\ len % WordSz = 0
  BY WordAssumption, RawAssumption DEF HInv, TypeOK
<1>3. /\ p \in Nat /\ p % WordSz = 0 /\ alloc <= p /\ p + WordSz <= alloc + n
      /\ (p + WordSz) % n = 0
  <2>1. CASE tagged BY <2>1, AdjustedIs
  <2>2. CASE ~tagged
    <3>1. p = alloc /\ n = WordSz BY <1>1, <2>2
    <3> DEFINE a == alloc
    <3>2. a \in Nat /\ a % WordSz = 0 BY <1>2
    <3> HIDE DEF a
    <3>3. (a + WordSz) % WordSz = 0 BY <3>2, WordSum
    <3> QED BY <1>2, <3>1, <3>3 DEF a
  <2> QED BY <2>1, <2>2
<1>4. GEP(p, 1) = p + WordSz /\ alloc' = p + (len + WordSz) BY <1>1, <1>2, <1>3 DEF GEP, RawAllocEnd, ByteGEP
<1>5. /\ objs' = objs \cup {o} /\ mem' = Written(from, size)
      /\ budget >= cost /\ budget' = budget - cost
  BY <1>1, <1>4 DEF Spend
<1>6. store' = store /\ updates' = updates /\ limit' = limit /\ gcs' = gcs /\ raw' = raw BY <1>1 DEF regs
<1> HIDE DEF p, n, len
<1>7. (p + WordSz) % WordSz = 0 /\ (len + WordSz) % WordSz = 0 BY <1>2, <1>3, WordSum
<1>8. (p + (len + WordSz)) % WordSz = 0
  <2> DEFINE l == len + WordSz
  <2>1. l \in Nat /\ l % WordSz = 0 BY <1>2, <1>7
  <2> HIDE DEF l
  <2>2. (p + l) % WordSz = 0 BY <1>3, <2>1, WordSum
  <2> QED BY <2>2 DEF l
<1>9. /\ from \in Nat /\ from % WordSz = 0 /\ size \in Nat /\ size % WordSz = 0
      /\ from + size = p + (len + WordSz)
  <2>1. WordSz + len = len + WordSz BY <1>2
  <2>2. CASE tagged BY <1>2, <1>3, <1>7, <2>1, <2>2
  <2>3. CASE ~tagged BY <1>2, <1>3, <1>7, <2>3
  <2> QED BY <2>2, <2>3
<1>10. p <= from BY <1>2, <1>3
<1> HIDE DEF from, size
<1>11. /\ alloc' \in Nat /\ alloc' % WordSz = 0 /\ alloc <= alloc' /\ alloc' <= alloc + cost
       /\ alloc <= from /\ from + size <= alloc'
       /\ alloc <= (p + WordSz) - WordSz /\ (p + WordSz) + len <= alloc'
       /\ cost \in Nat \ {0}
  <2> DEFINE a == alloc  aa == p + (len + WordSz)
  <2>1. a \in Nat /\ a <= p /\ p + WordSz <= a + n BY <1>2, <1>3
  <2> HIDE DEF a
  <2>2. /\ aa \in Nat /\ a <= aa /\ aa <= a + cost /\ a <= from /\ from + size <= aa
        /\ a <= (p + WordSz) - WordSz /\ (p + WordSz) + len <= aa /\ cost \in Nat \ {0}
    BY <1>2, <1>3, <1>9, <1>10, <2>1
  <2> HIDE DEF aa
  <2>3. alloc' = aa BY <1>4 DEF aa
  <2>4. aa % WordSz = 0 BY <1>8 DEF aa
  <2> QED BY <2>2, <2>3, <2>4 DEF a
<1> HIDE DEF cost
<1>12. Grows(Words(from, size), cost)
  <2>1. /\ DOMAIN mem' = Words(from, size) \cup DOMAIN mem
        /\ \A w \in DOMAIN mem : mem'[w] = mem[w]
        /\ \A w \in Words(from, size) :
             /\ w \in Nat /\ w % WordSz = 0 /\ alloc <= w /\ w + WordSz <= alloc'
             /\ mem'[w] \in Values
    BY <1>5, <1>9, <1>11, RowWritten
  <2> QED BY <1>5, <1>6, <1>11, <2>1 DEF Grows
<1>13. NewObject(o)
  <2>1. o.addr = p + WordSz /\ o.size = len /\ o.align = n /\ o.fields = {} BY <1>4 DEF Object
  <2>2. p + WordSz \in Nat BY <1>2, <1>3
  <2>3. o \in HeapObject BY <1>2, <1>4, <2>2 DEF Object, HeapObject
  <2> HIDE DEF o
  <2> QED BY <1>3, <1>11, <2>1, <2>3 DEF NewObject
<1> HIDE DEF o
<1> QED BY <1>5, <1>6, <1>11, <1>12, <1>13, AllocationKeeps

(* An update keeps it: the new cell is the head of the chain. *)
LEMMA RecordStoreStep == HInv /\ RecordStore => HInv'
<1> SUFFICES ASSUME HInv, RecordStore PROVE HInv' OBVIOUS
<1>1. PICK adr \in Cells :
        /\ Spend(2 * WordSz)
        /\ mem' = Cell(adr)
        /\ store' = alloc
        /\ alloc' = GEP(alloc, 2)
        /\ updates' = <<adr>> \o updates
        /\ UNCHANGED <<limit, objs, raw, gcs>>
  BY DEF RecordStore
<1> DEFINE a == alloc  b == alloc + WordSz  S == {a, b}  cost == 2 * WordSz
<1>2. /\ WordSz \in Nat \ {0} /\ a \in Nat /\ a % WordSz = 0 /\ budget \in Nat
      /\ store \in Nat /\ updates \in Seq(Cells)
  BY WordAssumption DEF HInv, TypeOK
<1>3. GEP(alloc, 0) = a /\ GEP(alloc, 1) = b /\ GEP(alloc, 2) = a + cost BY <1>2 DEF GEP
<1>4. cost \in Nat \ {0} /\ cost % WordSz = 0 /\ cost = WordSz + WordSz BY <1>2, WordsMultiple
<1>5. mem' = Put({a}, Ptr(adr), Put({b}, Ptr(store), mem)) BY <1>1, <1>3 DEF Cell
<1>6. /\ alloc' = a + cost /\ budget >= cost /\ budget' = budget - cost
      /\ limit' = limit /\ gcs' = gcs /\ raw' = raw /\ objs' = objs
      /\ store' = a /\ updates' = <<adr>> \o updates
  BY <1>1, <1>3 DEF Spend
<1>7. b = a + WordSz OBVIOUS
<1>8. ASSUME NEW w \in DOMAIN mem PROVE w \in Nat /\ w + WordSz <= a BY DEF HInv, InRow
<1> HIDE DEF a, b, cost
<1>9. b \in Nat /\ b % WordSz = 0 /\ a # b
  <2>1. a \in Nat /\ a % WordSz = 0 BY <1>2
  <2>2. (a + WordSz) % WordSz = 0 BY <2>1, WordSum
  <2> QED BY <1>2, <1>7, <2>2
<1>10. a \notin DOMAIN mem /\ b \notin DOMAIN mem BY <1>2, <1>7, <1>8
<1>11. /\ DOMAIN mem' = S \cup DOMAIN mem
       /\ \A w \in DOMAIN mem : mem'[w] = mem[w]
       /\ mem'[a] = Ptr(adr) /\ mem'[b] = Ptr(store)
  BY <1>5, <1>9, <1>10 DEF Put
<1>12. (a + cost) % WordSz = 0 BY <1>2, <1>4, WordSum
<1>13. Grows(S, cost)
  <2>1. Ptr(adr) \in Values /\ Ptr(store) \in Values BY DEF Values, HInv, StoreIsCell
  <2>2. /\ a + cost \in Nat /\ a <= a + cost /\ a + WordSz <= a + cost
        /\ a <= b /\ b + WordSz <= a + cost
    BY <1>2, <1>4, <1>7, <1>9
  <2>3. alloc = a BY DEF a
  <2> QED BY <1>2, <1>4, <1>6, <1>9, <1>11, <1>12, <2>1, <2>2, <2>3 DEF Grows
<1>14. /\ InRow' /\ Budgeted' /\ BelowLimit'
       /\ alloc' \in Nat /\ alloc' % WordSz = 0 /\ limit' \in Nat /\ budget' \in Nat
       /\ gcs' \in 0 .. MaxGC /\ raw' \in BOOLEAN
       /\ \A w \in DOMAIN mem' :
            w % WordSz = 0 /\ mem'[w] \in {Data} \cup {Ptr(x) : x \in DOMAIN mem' \cup Cells \cup {Nil}}
  BY <1>13, GrowsKeeps
<1>15. Chain'
  <2> DEFINE k == Len(updates)
  <2>1. PICK c \in [0 .. k -> Nat] :
          c[0] = store /\ c[k] = Nil /\ \A i \in 1 .. k : Link(c, i)
    BY DEF HInv, Chain
  <2>0. PICK d : d = [i \in 0 .. k + 1 |-> IF i = 0 THEN a ELSE c[i - 1]] OBVIOUS
  <2>2. k \in Nat /\ Len(updates') = k + 1 BY <1>2, <1>6
  <2>3. ASSUME NEW i \in 1 .. k PROVE updates'[i + 1] = updates[i]
    BY <1>2, <1>6
  <2>4. updates'[1] = adr BY <1>2, <1>6
  <2> HIDE DEF k
  <2>5. d \in [0 .. k + 1 -> Nat] /\ d[0] = store' /\ d[k + 1] = Nil
    BY <1>2, <1>6, <2>0, <2>1, <2>2
  <2>6. ASSUME NEW i \in 1 .. k + 1 PROVE Link(d, i)'
    <3>1. CASE i = 1
      <4>1. d[0] = a /\ d[1] = store BY <2>0, <2>1, <2>2
      <4>2. GEP(a, 1) = b BY <1>2, <1>7 DEF GEP
      <4> QED BY <1>11, <2>4, <3>1, <4>1, <4>2 DEF Link
    <3>2. CASE i # 1
      <4>1. i - 1 \in 1 .. k /\ d[i - 1] = c[(i - 1) - 1] /\ d[i] = c[i - 1] BY <2>0, <2>2, <3>2
      <4>2. Link(c, i - 1) BY <2>1, <4>1
      <4>3. updates'[i] = updates[i - 1] BY <2>2, <2>3, <4>1
      <4>4. /\ d[i - 1] \in DOMAIN mem /\ GEP(d[i - 1], 1) \in DOMAIN mem
            /\ mem[d[i - 1]] = Ptr(updates[i - 1]) /\ mem[GEP(d[i - 1], 1)] = Ptr(d[i])
        BY <4>1, <4>2 DEF Link
      <4> QED BY <1>11, <4>3, <4>4 DEF Link
    <3> QED BY <3>1, <3>2
  <2> QED BY <2>2, <2>5, <2>6 DEF Chain
<1>16. StoreIsCell' /\ store' \in Nat /\ updates' \in Seq(Cells)
  BY <1>2, <1>6, <1>11 DEF StoreIsCell
<1>17. ObjsTyped' /\ ObjectsApart' /\ FieldsAligned'
  <2>1. \A o \in objs : o.addr \in Nat /\ o.size \in Nat /\ o.addr + o.size <= a
    BY DEF HInv, ObjsTyped, HeapObject, ObjectsApart, a
  <2>2. \A o \in objs : o.addr + o.size <= a + cost BY <1>2, <1>4, <2>1
  <2> QED BY <1>6, <2>2 DEF HInv, ObjsTyped, ObjectsApart, FieldsAligned, Bytes
<1>18. TypeOK'
  <2>1. \A o \in objs' : {o.addr, o.size, o.align} \subseteq Nat BY <1>6 DEF HInv, TypeOK
  <2> QED BY <1>14, <1>16, <2>1 DEF TypeOK
<1> QED BY <1>14, <1>15, <1>16, <1>17, <1>18 DEF HInv

(* LIMIT keeps it: what it allows fits in front of the end. *)
LEMMA TestStep == HInv /\ Test => HInv'
<1> SUFFICES ASSUME HInv, Test PROVE HInv' OBVIOUS
<1>1. PICK amt \in Amounts :
        /\ ~OverLimit(amt)
        /\ budget' = amt /\ raw' = FALSE
        /\ UNCHANGED <<alloc, regs, mem, objs, updates, gcs>>
  BY DEF Test
<1> DEFINE a == alloc  l == limit
<1>2. amt \in Nat /\ Slop \in Nat /\ a \in Nat /\ l \in Nat /\ WordSz \in Nat
  BY NatAssumption, WordAssumption DEF HInv, TypeOK
<1>3. ~(IF amt > Slop THEN a + (amt - Slop) > l ELSE a > l) BY <1>1 DEF OverLimit
<1>4. \A w \in DOMAIN mem : w \in Nat /\ w + WordSz <= a BY DEF HInv, InRow
<1> HIDE DEF a, l
<1>5. a <= l /\ a + amt <= l + Slop BY <1>2, <1>3
<1>6. \A w \in DOMAIN mem : w + WordSz <= l + Slop BY <1>2, <1>4, <1>5
<1>7. Budgeted' BY <1>1, <1>5 DEF Budgeted, a, l, regs
<1>8. BelowLimit' BY <1>1, <1>6 DEF BelowLimit, BelowEnd, l, regs
<1>9. /\ TypeOK' /\ ObjsTyped' /\ InRow' /\ StoreIsCell' /\ ObjectsApart' /\ FieldsAligned'
  BY <1>1, <1>2 DEF HInv, TypeOK, ObjsTyped, InRow, StoreIsCell, ObjectsApart, FieldsAligned, Bytes, regs
<1>10. Chain' BY <1>1 DEF HInv, Chain, Link, regs
<1> QED BY <1>7, <1>8, <1>9, <1>10 DEF HInv

(* An empty area has all of it. *)
LEMMA EmptyArea ==
  ASSUME NEW a \in Areas, alloc = a.base, limit = a.limit, store = Nil, mem = [w \in {} |-> Data],
         objs = {}, updates = <<>>, budget = 0, raw = FALSE, gcs \in 0 .. MaxGC
  PROVE HInv
<1>1. alloc \in Nat /\ limit \in Nat /\ alloc % WordSz = 0 BY AreasAssumption
<1>2. DOMAIN mem = {} OBVIOUS
<1>3. TypeOK
  <2>1. updates \in Seq(Cells) /\ store \in Nat /\ budget \in Nat /\ raw \in BOOLEAN
    <3>1. <<>> \in Seq(Cells) OBVIOUS
    <3>2. updates \in Seq(Cells) BY <3>1
    <3>3. store \in Nat /\ budget \in Nat BY DEF Nil
    <3>4. raw \in BOOLEAN OBVIOUS
    <3> QED BY <3>2, <3>3, <3>4
  <2>2. \A o \in objs : {o.addr, o.size, o.align} \subseteq Nat OBVIOUS
  <2> QED BY <1>1, <1>2, <2>1, <2>2 DEF TypeOK
<1>4. /\ ObjsTyped /\ InRow /\ StoreIsCell /\ Budgeted /\ BelowLimit /\ ObjectsApart /\ FieldsAligned
  BY <1>2 DEF ObjsTyped, InRow, StoreIsCell, Budgeted, BelowLimit, BelowEnd, ObjectsApart, FieldsAligned
<1>5. Chain
  <2> DEFINE c == [i \in 0 .. 0 |-> 0]
  <2>1. c \in [0 .. Len(updates) -> Nat] /\ c[0] = store /\ c[Len(updates)] = Nil
    BY DEF Nil
  <2>2. 1 .. Len(updates) = {} OBVIOUS
  <2> HIDE DEF c
  <2> QED BY <2>1, <2>2 DEF Chain
<1> QED BY <1>3, <1>4, <1>5 DEF HInv

LEMMA HeapInit == Init => HInv
<1> SUFFICES ASSUME Init PROVE HInv OBVIOUS
<1>1. PICK a \in Areas : alloc = a.base /\ limit = a.limit BY DEF Init
<1>2. gcs \in 0 .. MaxGC BY NatAssumption DEF Init
<1> QED BY <1>1, <1>2, EmptyArea DEF Init

LEMMA GCStep == HInv /\ GC => HInv'
<1> SUFFICES ASSUME HInv, GC PROVE HInv' OBVIOUS
<1>1. PICK a \in Areas : alloc' = a.base /\ limit' = a.limit BY DEF GC
<1>2. gcs' \in 0 .. MaxGC BY NatAssumption DEF GC, HInv, TypeOK
<1>3. /\ store' = Nil /\ mem' = [w \in {} |-> Data] /\ objs' = {} /\ updates' = <<>>
      /\ budget' = 0 /\ raw' = FALSE
  BY DEF GC
<1>4. alloc' \in Nat /\ limit' \in Nat /\ alloc' % WordSz = 0 BY <1>1, AreasAssumption
<1>5. DOMAIN mem' = {} BY <1>3
<1>6. TypeOK'
  <2>1. updates' \in Seq(Cells) /\ store' \in Nat /\ budget' \in Nat /\ raw' \in BOOLEAN
    <3>1. <<>> \in Seq(Cells) OBVIOUS
    <3>2. updates' \in Seq(Cells) BY <1>3, <3>1
    <3>3. store' \in Nat /\ budget' \in Nat BY <1>3 DEF Nil
    <3>4. raw' \in BOOLEAN BY <1>3
    <3> QED BY <3>2, <3>3, <3>4
  <2>2. \A o \in objs' : {o.addr, o.size, o.align} \subseteq Nat BY <1>3
  <2> QED BY <1>2, <1>3, <1>4, <1>5, <2>1, <2>2 DEF TypeOK
<1>7. /\ ObjsTyped' /\ InRow' /\ StoreIsCell' /\ Budgeted' /\ BelowLimit' /\ ObjectsApart' /\ FieldsAligned'
  BY <1>3, <1>5 DEF ObjsTyped, InRow, StoreIsCell, Budgeted, BelowLimit, BelowEnd, ObjectsApart, FieldsAligned
<1>8. Chain'
  <2> DEFINE c == [i \in 0 .. 0 |-> 0]
  <2>1. Len(updates') = 0 /\ 1 .. Len(updates') = {} BY <1>3
  <2>2. c \in [0 .. Len(updates') -> Nat] /\ c[0] = store' /\ c[Len(updates')] = Nil
    BY <1>3, <2>1 DEF Nil
  <2> HIDE DEF c
  <2> QED BY <2>1, <2>2 DEF Chain
<1> QED BY <1>6, <1>7, <1>8 DEF HInv

LEMMA HeapStep == HInv /\ [Next]_vars => HInv'
<1> SUFFICES ASSUME HInv, [Next]_vars PROVE HInv' OBVIOUS
<1>1. CASE UNCHANGED vars
  <2>1. /\ TypeOK' /\ ObjsTyped' /\ InRow' /\ StoreIsCell' /\ ObjectsApart' /\ FieldsAligned'
        /\ Budgeted' /\ BelowLimit'
    BY <1>1 DEF HInv, TypeOK, ObjsTyped, InRow, StoreIsCell, ObjectsApart, FieldsAligned, Bytes,
                Budgeted, BelowLimit, BelowEnd, vars
  <2>2. Chain' BY <1>1 DEF HInv, Chain, Link, vars
  <2> QED BY <2>1, <2>2 DEF HInv
<1> QED BY <1>1, RecordStep, RawRecordStep, RawAllocStep, RecordStoreStep, TestStep, GCStep DEF Next

THEOREM HeapInvariant == Spec => []HInv
BY HeapInit, HeapStep, PTL DEF Spec

-----------------------------------------------------------------------------
(***************************************************************************)
(* Type correctness: the registers keep their types, and the allocation    *)
(* pointer stays at a word, for every word size, slop and kind of object.  *)
(***************************************************************************)
THEOREM HeapTypes == Spec => []TypeOK
BY HeapInvariant, PTL DEF HInv

(***************************************************************************)
(* Between two LIMIT tests the generated code writes nothing above the end *)
(* of the allocation area, as long as no raw record is among its objects.  *)
(***************************************************************************)
THEOREM NeverPastEnd == Spec => []BelowLimit
BY HeapInvariant, PTL DEF HInv

(* No object that the generated code allocates overwrites another one. *)
THEOREM ApartAlways == Spec => []ObjectsApart
BY HeapInvariant, PTL DEF HInv

(***************************************************************************)
(* Objects, and the fields of raw records, are aligned to what was asked   *)
(* for, for all lists of fields whose sizes divide a word.                 *)
(***************************************************************************)
THEOREM AlignedAlways == Spec => []FieldsAligned
BY HeapInvariant, PTL DEF HInv

(* Following the links from the store register gives the chain. *)
LEMMA ChainIsList == HInv => StoreListComplete
<1> SUFFICES ASSUME HInv PROVE StoreListComplete OBVIOUS
<1> DEFINE n == Len(updates)
           cell[i \in 0 .. n] == IF i = 0 THEN store ELSE mem[GEP(cell[i - 1], 1)][2]
<1>1. PICK c \in [0 .. n -> Nat] :
        c[0] = store /\ c[n] = Nil /\ \A i \in 1 .. n : Link(c, i)
  BY DEF HInv, Chain
<1>2. n \in Nat BY DEF HInv, TypeOK
<1>3. \A i \in 1 .. n : mem[c[i - 1]] = Ptr(updates[i]) /\ mem[GEP(c[i - 1], 1)][2] = c[i]
  <2> SUFFICES ASSUME NEW i \in 1 .. n
               PROVE mem[c[i - 1]] = Ptr(updates[i]) /\ mem[GEP(c[i - 1], 1)][2] = c[i]
    OBVIOUS
  <2>1. Link(c, i) BY <1>1
  <2>2. mem[c[i - 1]] = Ptr(updates[i]) /\ mem[GEP(c[i - 1], 1)] = Ptr(c[i]) BY <2>1 DEF Link
  <2>3. Ptr(c[i])[2] = c[i] BY DEF Ptr
  <2> QED BY <2>2, <2>3
<1>4. c = [i \in 0 .. n |-> IF i = 0 THEN store ELSE mem[GEP(c[i - 1], 1)][2]]
  <2> HIDE DEF n
  <2>1. ASSUME NEW i \in 0 .. n
        PROVE c[i] = IF i = 0 THEN store ELSE mem[GEP(c[i - 1], 1)][2]
    BY <1>1, <1>2, <1>3
  <2> QED BY <1>1, <2>1
<1>5. cell = [i \in 0 .. n |-> IF i = 0 THEN store ELSE mem[GEP(cell[i - 1], 1)][2]]
  <2>1. \E g : g = [i \in 0 .. n |-> IF i = 0 THEN store ELSE mem[GEP(g[i - 1], 1)][2]] BY <1>4
  <2> QED BY <2>1 DEF cell
<1>6. StoreListComplete <=> (\A i \in 1 .. n : mem[cell[i - 1]] = Ptr(updates[i])) /\ cell[n] = Nil
  BY DEF StoreListComplete
<1> HIDE DEF cell, n
<1>7. cell[0] = store /\ \A i \in 1 .. n : cell[i] = mem[GEP(cell[i - 1], 1)][2]
  <2>1. ASSUME NEW i \in 0 .. n
        PROVE cell[i] = IF i = 0 THEN store ELSE mem[GEP(cell[i - 1], 1)][2]
    BY <1>5
  <2> QED BY <1>2, <2>1
<1>8. \A i \in 0 .. n : cell[i] = c[i]
  <2> DEFINE T == {i \in Nat : i <= n => cell[i] = c[i]}
  <2>1. 0 \in T BY <1>1, <1>7
  <2>2. ASSUME NEW i \in Nat, i \in T PROVE i + 1 \in T
    <3> SUFFICES ASSUME i + 1 <= n PROVE cell[i + 1] = c[i + 1] OBVIOUS
    <3>1. i + 1 \in 1 .. n /\ (i + 1) - 1 = i /\ cell[i] = c[i] BY <1>2, <2>2
    <3> QED BY <1>3, <1>7, <3>1
  <2>3. Nat \subseteq T
    <3> HIDE DEF T
    <3> QED BY <2>1, <2>2, SetInduction
  <2> QED BY <1>2, <2>3
<1>9. \A i \in 1 .. n : i - 1 \in 0 .. n BY <1>2
<1> QED BY <1>1, <1>2, <1>3, <1>6, <1>8, <1>9

(***************************************************************************)
(* The collector finds every update since the last collection, the last    *)
(* one first, whatever was allocated in between.                           *)
(***************************************************************************)
THEOREM UpdatesFound == Spec => []StoreListComplete
BY HeapInvariant, ChainIsList, PTL
=============================================================================
