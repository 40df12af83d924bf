---------------------------- MODULE PrimsProofs ----------------------------
(***************************************************************************)
(* Proofs about Prims, for words of every width and floats of every        *)
(* magnitude: the outcome of an evaluation is one of those that the code   *)
(* generated for its primitive has, and each of these is what the          *)
(* primitive stands for.  The arithmetic of powers of two and of the bits  *)
(* of a word comes first.                                                  *)
(***************************************************************************)
EXTENDS Prims, WellFoundedInduction, FunctionTheorems, FiniteSetTheorems, TLAPS

-----------------------------------------------------------------------------
(* Facts about numbers. *)

(* The order of the naturals is well-founded. *)
LEMMA LessIsWellFounded == IsWellFoundedOn({ss \in Nat \X Nat : ss[1] < ss[2]}, Nat)
BY NatLessThanWellFounded DEF OpToRel

(* Each nonempty set of naturals has a least element. *)
LEMMA LeastNat ==
  ASSUME NEW T \in SUBSET Nat, T # {}
  PROVE \E u \in T : \A v \in T : u <= v
<1> DEFINE R == {ss \in Nat \X Nat : ss[1] < ss[2]}
<1>1. \E u \in T : \A v \in T : ~ (<<v, u>> \in R)
  <2>1. IsWellFoundedOn(R, Nat) BY LessIsWellFounded
  <2> HIDE DEF R
  <2> QED BY <2>1, WFMin
<1>2. PICK u \in T : \A v \in T : ~ (<<v, u>> \in R) BY <1>1
<1>3. ASSUME NEW v \in T PROVE u <= v
  <2>1. <<v, u>> \in Nat \X Nat OBVIOUS
  <2>2. ~ (<<v, u>> \in R) BY <1>2
  <2> QED BY <2>1, <2>2
<1> QED BY <1>3

(* A set that has 0, and with each number the next one, has all of them. *)
LEMMA SetInduction ==
  ASSUME NEW T, 0 \in T, \A n \in Nat : n \in T => n + 1 \in T
  PROVE Nat \subseteq T
<1> DEFINE C == {n \in Nat : n \notin T}
<1> SUFFICES ASSUME C # {} PROVE FALSE OBVIOUS
<1>1. PICK u \in C : \A v \in C : u <= v BY LeastNat
<1>2. u # 0 OBVIOUS
<1>3. u - 1 \in Nat /\ u - 1 \notin C BY <1>1, <1>2
<1> QED BY <1>3

(* Quotient and remainder determine a number. *)
LEMMA DivMod ==
  ASSUME NEW n \in Nat \ {0}, NEW u \in Int
  PROVE u \div n \in Int /\ u % n \in 0 .. n - 1 /\ u = n * (u \div n) + (u % n)
OBVIOUS

(* The multiples of a number leave no remainder, and only they. *)
LEMMA MultipleMod ==
  ASSUME NEW n \in Nat \ {0}, NEW k \in Int
  PROVE (n * k) % n = 0 /\ (n * k) \div n = k
OBVIOUS

LEMMA MultipleIs ==
  ASSUME NEW n \in Nat \ {0}, NEW u \in Int, u % n = 0
  PROVE u \div n \in Int /\ u = n * (u \div n)
BY DivMod

LEMMA Distributive ==
  ASSUME NEW n \in Int, NEW k \in Int, NEW l \in Int
  PROVE /\ n * (k + l) = n * k + n * l /\ n * (k - l) = n * k - n * l
        /\ n * (k + 1) = n * k + n /\ n * (k - 1) = n * k - n
OBVIOUS

LEMMA TimesMonotone ==
  ASSUME NEW n \in Nat, NEW k \in Int, NEW l \in Int, k <= l
  PROVE n * k <= n * l
OBVIOUS

(* Multiples of a multiple are multiples. *)
LEMMA MultipleTransitive ==
  ASSUME NEW m \in Nat \ {0}, NEW n \in Nat \ {0}, NEW u \in Int, u % n = 0, n % m = 0
  PROVE u % m = 0
<1> DEFINE k == u \div n  l == n \div m
<1>1. k \in Int /\ l \in Int /\ u = n * k /\ n = m * l BY MultipleIs
<1> HIDE DEF k, l
<1>2. u = m * (l * k) /\ l * k \in Int BY <1>1
<1> QED BY <1>2, MultipleMod

-----------------------------------------------------------------------------
(* Powers of two *)

(* An element more doubles the number of subsets. *)
LEMMA Doubled ==
  ASSUME NEW S, NEW e, IsFiniteSet(S), e \notin S
  PROVE Cardinality(SUBSET (S \cup {e})) = 2 * Cardinality(SUBSET S)
<1> DEFINE With == {T \in SUBSET (S \cup {e}) : e \in T}
           F == [T \in SUBSET S |-> T \cup {e}]
<1>1. IsFiniteSet(SUBSET S) /\ Cardinality(SUBSET S) \in Nat BY FS_SUBSET, FS_CardinalityType
<1>2. F \in Bijection(SUBSET S, With)
  <2>1. \A T \in SUBSET S : F[T] \in With OBVIOUS
  <2>2. ASSUME NEW T \in SUBSET S, NEW U \in SUBSET S, F[T] = F[U] PROVE T = U
    <3>1. T \cup {e} = U \cup {e} BY <2>2
    <3>2. e \notin T /\ e \notin U OBVIOUS
    <3> QED BY <3>1, <3>2
  <2>3. ASSUME NEW V \in With PROVE \E T \in SUBSET S : F[T] = V
    <3>1. V \ {e} \in SUBSET S /\ (V \ {e}) \cup {e} = V OBVIOUS
    <3> QED BY <3>1
  <2>4. F \in [SUBSET S -> With] BY <2>1
  <2> HIDE DEF F, With
  <2> QED BY <2>2, <2>3, <2>4, Fun_IsBij
<1>3. ExistsBijection(SUBSET S, With) BY <1>2 DEF ExistsBijection
<1>4. SUBSET (S \cup {e}) = (SUBSET S) \cup With
  <2>1. ASSUME NEW T \in SUBSET (S \cup {e}) PROVE T \in (SUBSET S) \cup With OBVIOUS
  <2>2. ASSUME NEW T \in (SUBSET S) \cup With PROVE T \in SUBSET (S \cup {e}) OBVIOUS
  <2> QED BY <2>1, <2>2
<1>5. (SUBSET S) \cap With = {} OBVIOUS
<1> HIDE DEF With
<1>6. IsFiniteSet(With) /\ Cardinality(With) = Cardinality(SUBSET S) BY <1>1, <1>3, FS_Bijection
<1>7. Cardinality((SUBSET S) \cup With)
        = Cardinality(SUBSET S) + Cardinality(With) - Cardinality((SUBSET S) \cap With)
  BY <1>1, <1>6, FS_Union
<1>8. Cardinality((SUBSET S) \cap With) = 0 BY <1>5, FS_EmptySet
<1>9. Cardinality((SUBSET S) \cup With) = 2 * Cardinality(SUBSET S) BY <1>1, <1>6, <1>7, <1>8
<1> QED BY <1>4, <1>9

LEMMA PowerZero == 2^0 = 1
OBVIOUS

LEMMA PowerNext ==
  ASSUME NEW n \in Nat
  PROVE 2^(n + 1) = 2 * 2^n
<1> DEFINE S == 1 .. n
<1>1. IsFiniteSet(S) /\ Cardinality(S) = n BY FS_Interval
<1>2. n + 1 \notin S OBVIOUS
<1>3. S \cup {n + 1} = 1 .. n + 1 OBVIOUS
<1>4. IsFiniteSet(1 .. n + 1) /\ Cardinality(1 .. n + 1) = n + 1 BY FS_Interval
<1> HIDE DEF S
<1>5. Cardinality(SUBSET S) = 2^n BY <1>1, FS_SUBSET
<1>6. Cardinality(SUBSET (1 .. n + 1)) = 2^(n + 1) BY <1>4, FS_SUBSET
<1> QED BY <1>1, <1>2, <1>3, <1>5, <1>6, Doubled

LEMMA PowerType ==
  ASSUME NEW n \in Nat
  PROVE 2^n \in Nat \ {0} /\ n < 2^n
<1> DEFINE T == {k \in Nat : 2^k \in Nat \ {0} /\ k < 2^k}
<1>1. 0 \in T BY PowerZero
<1>2. ASSUME NEW k \in Nat, k \in T PROVE k + 1 \in T
  <2>1. 2^(k + 1) = 2 * 2^k BY PowerNext
  <2>2. 2^k \in Nat \ {0} /\ k < 2^k BY <1>2
  <2>3. 2^(k + 1) \in Nat \ {0} /\ k + 1 < 2^(k + 1) BY <2>1, <2>2
  <2> QED BY <2>3
<1> HIDE DEF T
<1>3. Nat \subseteq T BY <1>1, <1>2, SetInduction
<1> QED BY <1>3 DEF T

LEMMA PowerSum ==
  ASSUME NEW m \in Nat, NEW n \in Nat
  PROVE 2^(m + n) = 2^m * 2^n
<1> DEFINE T == {k \in Nat : 2^(m + k) = 2^m * 2^k}
<1>1. 0 \in T
  <2>1. 2^m \in Nat BY PowerType
  <2>2. m + 0 = m OBVIOUS
  <2> QED BY <2>1, <2>2, PowerZero
<1>2. ASSUME NEW k \in Nat, k \in T PROVE k + 1 \in T
  <2>1. 2^(m + k) = 2^m * 2^k BY <1>2
  <2>2. 2^(k + 1) = 2 * 2^k /\ 2^((m + k) + 1) = 2 * 2^(m + k) BY PowerNext
  <2>3. m + (k + 1) = (m + k) + 1 OBVIOUS
  <2>4. 2^m \in Nat /\ 2^k \in Nat BY PowerType
  <2> DEFINE p == 2^m  q == 2^k
  <2>5. 2 * (p * q) = p * (2 * q)
    <3>1. p \in Nat /\ q \in Nat BY <2>4
    <3> HIDE DEF p, q
    <3> QED BY <3>1
  <2>6. 2^(m + (k + 1)) = 2^m * 2^(k + 1) BY <2>1, <2>2, <2>3, <2>5
  <2> QED BY <2>6
<1> HIDE DEF T
<1>3. Nat \subseteq T BY <1>1, <1>2, SetInduction
<1> QED BY <1>3 DEF T

(* A power is a multiple of each lower one. *)
LEMMA PowerSplit ==
  ASSUME NEW m \in Nat, NEW n \in Nat, m <= n
  PROVE n - m \in Nat /\ 2^(n - m) \in Nat \ {0} /\ 2^n = 2^m * 2^(n - m) /\ 2^m <= 2^n
<1>1. n - m \in Nat /\ n = m + (n - m) OBVIOUS
<1>2. 2^n = 2^m * 2^(n - m) BY <1>1, PowerSum
<1>3. 2^m \in Nat \ {0} /\ 2^(n - m) \in Nat \ {0} BY <1>1, PowerType
<1> DEFINE p == 2^m  q == 2^(n - m)
<1>4. p <= p * q
  <2>1. p \in Nat \ {0} /\ q \in Nat \ {0} BY <1>3
  <2> HIDE DEF p, q
  <2>2. p * 1 <= p * q BY <2>1, TimesMonotone
  <2> QED BY <2>1, <2>2
<1> QED BY <1>1, <1>2, <1>3, <1>4

LEMMA PowerBelow ==
  ASSUME NEW m \in Nat, NEW n \in Nat, m < n
  PROVE 2 * 2^m <= 2^n
<1>1. m + 1 \in Nat /\ m + 1 <= n OBVIOUS
<1> QED BY <1>1, PowerSplit, PowerNext

-----------------------------------------------------------------------------
(* Quotients *)

LEMMA DivUnique ==
  ASSUME NEW n \in Nat \ {0}, NEW z \in Int, NEW q \in Int, n * q <= z, z < n * q + n
  PROVE z \div n = q /\ z % n = z - n * q
<1> DEFINE k == z \div n  r == z % n
<1>1. k \in Int /\ r \in 0 .. n - 1 /\ z = n * k + r BY DivMod
<1> HIDE DEF k, r
<1>2. k \in Int /\ n * k <= z /\ z < n * k + n BY <1>1
<1>3. ASSUME k >= q + 1 PROVE FALSE
  <2>1. n * (q + 1) <= n * k BY <1>2, <1>3, TimesMonotone
  <2>2. n * (q + 1) = n * q + n BY Distributive
  <2> QED BY <1>2, <2>1, <2>2
<1>4. ASSUME k <= q - 1 PROVE FALSE
  <2>1. n * k <= n * (q - 1) BY <1>2, <1>4, TimesMonotone
  <2>2. n * (q - 1) = n * q - n BY Distributive
  <2> QED BY <1>2, <2>1, <2>2
<1>5. k = q BY <1>2, <1>3, <1>4
<1>6. r = z - n * q BY <1>1, <1>5
<1> QED BY <1>5, <1>6 DEF k, r

(* Multiples of the divisor come out of the quotient. *)
LEMMA DivPlus ==
  ASSUME NEW n \in Nat \ {0}, NEW z \in Int, NEW k \in Int
  PROVE (n * k + z) \div n = k + z \div n /\ (n * k + z) % n = z % n
<1> DEFINE q == z \div n  r == z % n
<1>1. q \in Int /\ r \in 0 .. n - 1 /\ z = n * q + r BY DivMod
<1> HIDE DEF q, r
<1>2. n * (k + q) = n * k + n * q BY <1>1, Distributive
<1> DEFINE a == n * k  b == n * q  w == a + z
<1>3. a \in Int /\ b \in Int BY <1>1
<1>4. n * (k + q) = a + b /\ z = b + r BY <1>1, <1>2
<1> HIDE DEF a, b
<1>5. w \in Int /\ k + q \in Int BY <1>1, <1>3
<1>6. n * (k + q) <= w /\ w < n * (k + q) + n BY <1>1, <1>3, <1>4
<1>7. w - n * (k + q) = r BY <1>1, <1>3, <1>4
<1> HIDE DEF w
<1>8. w \div n = k + q /\ w % n = w - n * (k + q) BY <1>5, <1>6, DivUnique
<1> QED BY <1>7, <1>8 DEF a, w, q, r

(* Dividing twice is dividing by the product. *)
LEMMA DivDiv ==
  ASSUME NEW m \in Nat \ {0}, NEW n \in Nat \ {0}, NEW z \in Int
  PROVE (z \div m) \div n = z \div (m * n) /\ m * n \in Nat \ {0}
<1> DEFINE q == z \div m  r == z % m  p == q \div n  s == q % n
<1>1. q \in Int /\ r \in 0 .. m - 1 /\ z = m * q + r BY DivMod
<1> HIDE DEF q, r
<1>2. p \in Int /\ s \in 0 .. n - 1 /\ q = n * p + s BY <1>1, DivMod
<1> HIDE DEF p, s
<1> DEFINE d == m * n
<1>3. d \in Nat \ {0}
  <2>1. m * 1 <= m * n BY TimesMonotone
  <2> QED BY <2>1
<1>4. m * q = d * p + m * s
  <2>1. n * p \in Int BY <1>2
  <2>2. m * (n * p + s) = m * (n * p) + m * s BY <1>2, <2>1, Distributive
  <2>3. m * (n * p) = d * p BY <1>2
  <2> QED BY <1>2, <2>2, <2>3
<1>5. m * s + m <= d /\ 0 <= m * s /\ m * s \in Int
  <2>1. m * (s + 1) <= m * n /\ m * 0 <= m * s BY <1>2, TimesMonotone
  <2>2. m * (s + 1) = m * s + m BY <1>2, Distributive
  <2> QED BY <1>2, <2>1, <2>2
<1>6. d * p \in Int BY <1>2, <1>3
<1> HIDE DEF d
<1>7. d * p <= z /\ z < d * p + d
  <2> DEFINE e == m * s  f == d * p  g == m * q
  <2>1. e \in Int /\ f \in Int /\ g = f + e /\ e + m <= d /\ 0 <= e /\ z = g + r
    BY <1>1, <1>4, <1>5, <1>6
  <2> HIDE DEF e, f, g
  <2>2. f <= z /\ z < f + d BY <1>1, <1>3, <2>1
  <2> QED BY <2>2 DEF f
<1>8. z \div d = p BY <1>2, <1>3, <1>7, DivUnique
<1> QED BY <1>3, <1>8 DEF d, p, q

LEMMA DivBelow ==
  ASSUME NEW n \in Nat \ {0}, NEW z \in Nat, z < n
  PROVE z \div n = 0
OBVIOUS

LEMMA DivNat ==
  ASSUME NEW n \in Nat \ {0}, NEW z \in Nat
  PROVE z \div n \in Nat /\ z \div n <= z
<1> DEFINE q == z \div n  r == z % n
<1>1. q \in Int /\ r \in 0 .. n - 1 /\ z = n * q + r
  <2>1. z \in Int OBVIOUS
  <2> QED BY <2>1, DivMod
<1> HIDE DEF q, r
<1>2. ASSUME q <= -1 PROVE FALSE
  <2>1. n * q <= n * (-1) BY <1>1, <1>2, TimesMonotone
  <2> QED BY <1>1, <2>1
<1>3. q \in Nat BY <1>1, <1>2
<1>4. q * 1 <= q * n BY <1>3, TimesMonotone
<1> QED BY <1>1, <1>3, <1>4 DEF q

-----------------------------------------------------------------------------
(* Bits *)

LEMMA BitType ==
  ASSUME NEW w \in Int, NEW i \in Nat
  PROVE Bit(w, i) \in {0, 1}
<1>1. 2^i \in Nat \ {0} BY PowerType
<1>2. w \div 2^i \in Int BY <1>1, DivMod
<1>3. (w \div 2^i) % 2 \in 0 .. 1 BY <1>2, DivMod
<1> QED BY <1>3 DEF Bit

(* Multiples of a higher power do not matter. *)
LEMMA BitPlus ==
  ASSUME NEW n \in Int, NEW k \in Int, NEW m \in Nat, NEW i \in Nat, i < m
  PROVE Bit(2^m * k + n, i) = Bit(n, i)
<1>1. m - (i + 1) \in Nat /\ m = i + (1 + (m - (i + 1))) OBVIOUS
<1> DEFINE p == 2^i  h == 2^(m - (i + 1))
<1>2. p \in Nat \ {0} /\ h \in Nat \ {0} BY <1>1, PowerType
<1>3. 2^m = p * (2 * h)
  <2>1. (m - (i + 1)) + 1 \in Nat /\ m = i + ((m - (i + 1)) + 1) OBVIOUS
  <2>2. 2^((m - (i + 1)) + 1) = 2 * h BY <1>1, PowerNext
  <2> QED BY <2>1, <2>2, PowerSum
<1> DEFINE l == h * k
<1> HIDE DEF p, h
<1>4. l \in Int BY <1>2
<1>5. 2^m * k = p * (2 * l) BY <1>2, <1>3
<1> HIDE DEF l
<1>6. (p * (2 * l) + n) \div p = 2 * l + n \div p BY <1>2, <1>4, DivPlus
<1>7. n \div p \in Int BY <1>2, DivMod
<1>8. (2 * l + n \div p) % 2 = (n \div p) % 2 BY <1>4, <1>7, DivPlus
<1> QED BY <1>5, <1>6, <1>8 DEF Bit, p

LEMMA BitDiv ==
  ASSUME NEW n \in Int, NEW b \in Nat, NEW i \in Nat
  PROVE Bit(n \div 2^b, i) = Bit(n, i + b)
<1>1. 2^b \in Nat \ {0} /\ 2^i \in Nat \ {0} BY PowerType
<1>2. 2^b * 2^i = 2^(i + b)
  <2>1. b + i = i + b OBVIOUS
  <2> QED BY <2>1, PowerSum
<1>3. (n \div 2^b) \div 2^i = n \div (2^b * 2^i) BY <1>1, DivDiv
<1> QED BY <1>2, <1>3 DEF Bit

LEMMA BitAbove ==
  ASSUME NEW n \in Nat, NEW i \in Nat, n < 2^i
  PROVE Bit(n, i) = 0
<1>1. 2^i \in Nat \ {0} BY PowerType
<1>2. n \div 2^i = 0 BY <1>1, DivBelow
<1> QED BY <1>2 DEF Bit

LEMMA BitTimes ==
  ASSUME NEW n \in Int, NEW b \in Nat, NEW i \in Nat
  PROVE Bit(n * 2^b, i) = IF i >= b THEN Bit(n, i - b) ELSE 0
<1>1. 2^b \in Nat \ {0} BY PowerType
<1>2. CASE i >= b
  <2>1. i - b \in Nat /\ (i - b) + b = i BY <1>2
  <2>2. Bit((n * 2^b) \div 2^b, i - b) = Bit(n * 2^b, i)
    <3>1. n * 2^b \in Int BY <1>1
    <3> QED BY <2>1, <3>1, BitDiv
  <2>3. (n * 2^b) \div 2^b = n
    <3>1. n * 2^b = 2^b * n BY <1>1
    <3> QED BY <1>1, <3>1, MultipleMod
  <2> QED BY <1>2, <2>2, <2>3
<1>3. CASE i < b
  <2> DEFINE z == 0
  <2>1. z \in Nat /\ z \in Int /\ z < 2^i
    <3>1. 2^i \in Nat \ {0} BY PowerType
    <3> QED BY <3>1
  <2>2. 2^b * n + z = n * 2^b BY <1>1
  <2> HIDE DEF z
  <2>3. Bit(2^b * n + z, i) = Bit(z, i) BY <1>3, <2>1, BitPlus
  <2>4. Bit(z, i) = 0 BY <2>1, BitAbove
  <2>5. ~(i >= b) BY <1>3
  <2> QED BY <2>2, <2>3, <2>4, <2>5
<1> QED BY <1>2, <1>3

-----------------------------------------------------------------------------
(* Words *)

LEMMA WordFacts ==
  /\ Width \in Nat /\ Width - 1 \in Nat
  /\ 2^Width \in Nat \ {0} /\ 2^(Width - 1) \in Nat \ {0} /\ 2^Width = 2 * 2^(Width - 1)
  /\ Word \subseteq Nat /\ \A w \in Nat : w \in Word <=> w < 2^Width
  /\ 0 \in Word /\ 1 \in Word /\ \A n \in 0 .. Width : n \in Word
<1>1. Width \in Nat /\ Width - 1 \in Nat /\ Width > 1 /\ (Width - 1) + 1 = Width BY WidthSize
<1>2. 2^Width \in Nat \ {0} /\ 2^(Width - 1) \in Nat \ {0} /\ Width < 2^Width BY <1>1, PowerType
<1>3. 2^Width = 2 * 2^(Width - 1) BY <1>1, PowerNext
<1> QED BY <1>1, <1>2, <1>3 DEF Word

LEMMA WrapIs ==
  ASSUME NEW n \in Int
  PROVE Wrap(n) \in Word /\ n \div 2^Width \in Int /\ n = 2^Width * (n \div 2^Width) + Wrap(n)
<1>1. 2^Width \in Nat \ {0} BY WordFacts
<1>2. n \div 2^Width \in Int /\ n % 2^Width \in 0 .. 2^Width - 1
      /\ n = 2^Width * (n \div 2^Width) + (n % 2^Width) BY <1>1, DivMod
<1> QED BY <1>2 DEF Wrap, Word

LEMMA WrapSame ==
  ASSUME NEW n \in Int, NEW k \in Int
  PROVE Wrap(2^Width * k + n) = Wrap(n)
BY WordFacts, DivPlus DEF Wrap

LEMMA WrapWord ==
  ASSUME NEW w \in Word
  PROVE Wrap(w) = w
<1>1. 2^Width \in Nat \ {0} /\ w \in Nat /\ w < 2^Width BY WordFacts
<1> QED BY <1>1 DEF Wrap

LEMMA BitWrap ==
  ASSUME NEW n \in Int, NEW i \in 0 .. Width - 1
  PROVE Bit(Wrap(n), i) = Bit(n, i)
<1> DEFINE k == n \div 2^Width
<1>1. Wrap(n) \in Word /\ k \in Int /\ n = 2^Width * k + Wrap(n) BY WrapIs
<1>2. Width \in Nat /\ i \in Nat /\ i < Width BY WordFacts
<1> HIDE DEF k
<1>3. Wrap(n) \in Int
  <2>1. \A w \in Word : w \in Nat BY WordFacts
  <2> QED BY <1>1, <2>1
<1>4. Bit(2^Width * k + Wrap(n), i) = Bit(Wrap(n), i) BY <1>1, <1>2, <1>3, BitPlus
<1> QED BY <1>1, <1>4

(* Words as signed numbers: those of the range, each the wrapped one. *)
LEMMA SignedIs ==
  ASSUME NEW w \in Word
  PROVE /\ Signed(w) \in Int /\ InRange(Signed(w)) /\ Wrap(Signed(w)) = w
        /\ \E k \in Int : Signed(w) = 2^Width * k + w
        /\ Signed(w) = 0 <=> w = 0
        /\ Signed(w) < 0 <=> w >= 2^(Width - 1)
<1>1. /\ 2^Width \in Nat \ {0} /\ 2^(Width - 1) \in Nat \ {0} /\ 2^Width = 2 * 2^(Width - 1)
      /\ w \in Nat /\ w < 2^Width BY WordFacts
<1> DEFINE k == IF w >= 2^(Width - 1) THEN -1 ELSE 0
<1>2. k \in Int /\ Signed(w) = 2^Width * k + w BY <1>1 DEF Signed
<1>3. Signed(w) \in Int /\ InRange(Signed(w)) BY <1>1 DEF Signed, InRange, MinInt
<1>4. (Signed(w) = 0 <=> w = 0) /\ (Signed(w) < 0 <=> w >= 2^(Width - 1)) BY <1>1 DEF Signed
<1> HIDE DEF k
<1>5. Wrap(2^Width * k + w) = Wrap(w) BY <1>1, <1>2, WrapSame
<1>6. Wrap(Signed(w)) = w BY <1>2, <1>5, WrapWord
<1> QED BY <1>2, <1>3, <1>4, <1>6

LEMMA SignedWrap ==
  ASSUME NEW n \in Int, InRange(n)
  PROVE Signed(Wrap(n)) = n
<1> DEFINE P == 2^Width  H == 2^(Width - 1)
<1>1. P \in Nat \ {0} /\ H \in Nat \ {0} /\ P = 2 * H BY WordFacts
<1>2. -H <= n /\ n < H BY DEF InRange, MinInt
<1>3. Wrap(n) = n % P BY DEF Wrap
<1>4. \A w : Signed(w) = IF w >= H THEN w - P ELSE w BY DEF Signed
<1> HIDE DEF P, H
<1>5. CASE n >= 0
  <2>1. n % P = n BY <1>1, <1>2, <1>5
  <2> QED BY <1>1, <1>2, <1>3, <1>4, <1>5, <2>1
<1>6. CASE n < 0
  <2> DEFINE m == -1
  <2>1. m \in Int /\ P * m <= n /\ n < P * m + P /\ P * m = -P BY <1>1, <1>2, <1>6
  <2> HIDE DEF m
  <2>2. n % P = n - P * m BY <1>1, <2>1, DivUnique
  <2>3. n % P = n + P BY <1>1, <2>1, <2>2
  <2> QED BY <1>1, <1>2, <1>3, <1>4, <1>6, <2>3
<1> QED BY <1>5, <1>6

(* The highest bit of a word is its sign, also beyond the width. *)
LEMMA BitSigned ==
  ASSUME NEW w \in Word, NEW i \in Nat
  PROVE Bit(Signed(w), i) = IF i < Width THEN Bit(w, i) ELSE Bit(w, Width - 1)
<1>1. /\ Width \in Nat /\ Width - 1 \in Nat /\ w \in Nat /\ w < 2^Width
      /\ 2^Width \in Nat \ {0} /\ 2^(Width - 1) \in Nat \ {0} /\ 2^Width = 2 * 2^(Width - 1)
  BY WordFacts
<1>2. CASE i < Width
  <2>1. PICK k \in Int : Signed(w) = 2^Width * k + w BY SignedIs
  <2>2. w \in Int /\ i < Width BY <1>1, <1>2
  <2> DEFINE m == Width
  <2>4. m \in Nat /\ i < m BY <1>1, <2>2
  <2> HIDE DEF m
  <2>5. Bit(2^m * k + w, i) = Bit(w, i) BY <2>2, <2>4, BitPlus, ZenonT(60)
  <2>3. Bit(2^Width * k + w, i) = Bit(w, i) BY <2>5 DEF m
  <2> QED BY <1>2, <2>1, <2>3
<1>3. CASE i >= Width
  <2> DEFINE s == Signed(w)  p == 2^i  h == 2^(Width - 1)
  <2>1. 2^Width <= p /\ p \in Nat \ {0} BY <1>1, <1>3, PowerSplit, PowerType
  <2>2. s \in Int /\ InRange(s) /\ (s < 0 <=> w >= h) BY SignedIs
  <2>3. -h <= s /\ s < h BY <2>2 DEF InRange, MinInt
  <2>4. h \in Nat \ {0} /\ 2^Width = 2 * h BY <1>1
  <2>5. Bit(s, i) = (s \div p) % 2 /\ Bit(w, Width - 1) = (w \div h) % 2 BY DEF Bit
  <2> HIDE DEF s, p, h
  <2>6. CASE w >= h
    <3> DEFINE m == -1
    <3>1. m \in Int /\ p * m <= s /\ s < p * m + p BY <1>1, <2>1, <2>2, <2>3, <2>4, <2>6
    <3>2. m \in Int /\ m = 0 - 1 OBVIOUS
    <3> HIDE DEF m
    <3>3. m % 2 = 1
      <4> DEFINE d == 2
      <4>1. d \in Nat \ {0} /\ d * m <= m /\ m < d * m + d /\ m - d * m = 1 BY <3>2
      <4> HIDE DEF d
      <4>2. m % d = m - d * m BY <3>2, <4>1, DivUnique
      <4>3. m % d = 1 BY <4>1, <4>2
      <4> QED BY <4>3 DEF d
    <3>4. s \div p = m BY <2>1, <2>2, <3>1, DivUnique
    <3>5. h * 1 <= w /\ w < h * 1 + h BY <1>1, <2>4, <2>6
    <3>6. w \div h = 1 BY <1>1, <2>4, <3>5, DivUnique
    <3>7. Bit(s, i) = 1 BY <2>5, <3>4, <3>3
    <3>8. Bit(w, Width - 1) = 1 BY <2>5, <3>6
    <3>9. ~(i < Width) BY <1>1, <1>3
    <3> QED BY <3>7, <3>8, <3>9 DEF s
  <2>7. CASE w < h
    <3>1. s \in Nat /\ s < p BY <1>1, <2>1, <2>2, <2>3, <2>4, <2>7
    <3>2. s \div p = 0 /\ w \div h = 0 BY <1>1, <2>1, <2>4, <2>7, <3>1, DivBelow
    <3> QED BY <1>1, <1>3, <2>5, <3>2 DEF s
  <2> QED BY <1>1, <2>4, <2>6, <2>7
<1> QED BY <1>1, <1>2, <1>3

-----------------------------------------------------------------------------
(* Division *)

Outs == [kind: {"value", "overflow", "trap"}, v: Word]

LEMMA AbsType ==
  ASSUME NEW n \in Int
  PROVE Abs(n) \in Nat /\ (Abs(n) = n \/ Abs(n) = -n) /\ (n # 0 => Abs(n) # 0)
        /\ (n < 0 => Abs(n) = -n) /\ (n >= 0 => Abs(n) = n)
BY DEF Abs

(* The quotient is rounded to zero, and the remainder has the sign of the dividend. *)
LEMMA QuotRem ==
  ASSUME NEW a \in Int, NEW b \in Int, b # 0
  PROVE /\ Quot(a, b) \in Int /\ Rem(a, b) \in Int
        /\ Abs(Quot(a, b)) = Abs(a) \div Abs(b)
        /\ Abs(Rem(a, b)) < Abs(b)
<1> DEFINE A == Abs(a)  B == Abs(b)  q == A \div B  r == A % B
<1>1. A \in Nat /\ B \in Nat \ {0} /\ (a < 0 => A = -a) /\ (a >= 0 => A = a)
      /\ (b < 0 => B = -b) /\ (b >= 0 => B = b) BY AbsType
<1>2. q \in Int /\ r \in 0 .. B - 1 /\ A = B * q + r
  <2>1. A \in Int /\ B \in Nat \ {0} BY <1>1
  <2> HIDE DEF A, B
  <2> QED BY <2>1, DivMod
<1>3. q \in Nat
  <2> HIDE DEF A, B
  <2> QED BY <1>1, DivNat
<1>4. Quot(a, b) = IF (a < 0) = (b < 0) THEN q ELSE -q BY DEF Quot
<1>5. Rem(a, b) = a - b * Quot(a, b) BY DEF Rem
<1> DEFINE u == Quot(a, b)  v == Rem(a, b)
<1>6. b * q \in Int /\ B * q \in Int /\ (b < 0 => b * q = -(B * q)) /\ (b >= 0 => b * q = B * q)
      /\ b * (-q) = -(b * q)
  <2> HIDE DEF A, B, q
  <2> QED BY <1>1, <1>3
<1> HIDE DEF A, B, q, r, u, v
<1>7. u \in Int /\ (u = q \/ u = -q) BY <1>3, <1>4 DEF u
<1>8. v \in Int /\ (v = r \/ v = -r)
  <2> DEFINE e == B * q  f == b * q  g == b * u
  <2>1. g = IF (a < 0) = (b < 0) THEN f ELSE -f BY <1>3, <1>4, <1>6 DEF u
  <2>2. e \in Int /\ f \in Int /\ (b < 0 => f = -e) /\ (b >= 0 => f = e) /\ A = e + r BY <1>2, <1>6
  <2>3. v = a - g BY <1>5 DEF u, v
  <2> HIDE DEF e, f, g
  <2>4. CASE a < 0 BY <1>1, <1>2, <2>1, <2>2, <2>3, <2>4
  <2>5. CASE a >= 0 BY <1>1, <1>2, <2>1, <2>2, <2>3, <2>5
  <2> QED BY <2>4, <2>5
<1>9. Abs(u) = q BY <1>3, <1>7, AbsType DEF Abs
<1>10. Abs(v) = r BY <1>2, <1>8, AbsType DEF Abs
<1>11. Abs(v) < B BY <1>1, <1>2, <1>10
<1>12. u \in Int /\ v \in Int BY <1>7, <1>8
<1> QED BY <1>9, <1>11, <1>12 DEF u, v, q, A, B

LEMMA RangeIs ==
  ASSUME NEW n \in Int
  PROVE /\ Abs(n) < 2^(Width - 1) => InRange(n)
        /\ InRange(n) => Abs(n) <= 2^(Width - 1)
        /\ InRange(n) /\ n # MinInt => Abs(n) < 2^(Width - 1)
        /\ Abs(MinInt) = 2^(Width - 1) /\ MinInt \in Int /\ MinInt < 0
<1> DEFINE h == 2^(Width - 1)
<1>1. h \in Nat \ {0} BY WordFacts
<1>2. MinInt = -h BY DEF MinInt
<1>3. InRange(n) <=> -h <= n /\ n < h BY DEF InRange, MinInt
<1> HIDE DEF h
<1>4. (n < 0 => Abs(n) = -n) /\ (n >= 0 => Abs(n) = n) BY AbsType
<1>5. Abs(MinInt) = h BY <1>1, <1>2 DEF Abs
<1>6. Abs(n) < h => InRange(n) BY <1>1, <1>3, <1>4
<1>7. InRange(n) => Abs(n) <= h BY <1>1, <1>3, <1>4
<1>8. InRange(n) /\ n # MinInt => Abs(n) < h BY <1>1, <1>2, <1>3, <1>4
<1>9. MinInt \in Int /\ MinInt < 0 BY <1>1, <1>2
<1> QED BY <1>5, <1>6, <1>7, <1>8, <1>9 DEF h

(* Only one division of numbers of the range leaves it. *)
LEMMA QuotInRange ==
  ASSUME NEW a \in Int, NEW b \in Int, b # 0, InRange(a), InRange(b),
         ~(a = MinInt /\ b = -1)
  PROVE InRange(Quot(a, b)) /\ InRange(Rem(a, b))
<1> DEFINE A == Abs(a)  B == Abs(b)  q == A \div B  h == 2^(Width - 1)
           u == Quot(a, b)  v == Rem(a, b)
<1>1. A \in Nat /\ B \in Nat \ {0} /\ A <= h /\ B <= h /\ h \in Nat \ {0} /\ (a # MinInt => A < h)
  <2>1. A \in Nat /\ B \in Nat \ {0} BY AbsType
  <2>2. A <= h /\ B <= h /\ (a # MinInt => A < h) BY RangeIs
  <2>3. h \in Nat \ {0} BY WordFacts
  <2> QED BY <2>1, <2>2, <2>3
<1>2. u \in Int /\ v \in Int /\ Abs(u) = q /\ Abs(v) < B BY QuotRem
<1>3. InRange(v)
  <2>1. Abs(v) \in Nat BY <1>2, AbsType
  <2>2. Abs(v) < h
    <3> HIDE DEF B, h, v
    <3> QED BY <1>1, <1>2, <2>1
  <2> QED BY <1>2, <2>2, RangeIs
<1>4. CASE q < h
  <2>1. Abs(u) < h BY <1>2, <1>4
  <2>2. InRange(u) BY <1>2, <2>1, RangeIs
  <2> QED BY <1>3, <2>2
<1>5. CASE ~(q < h)
  <2>1. q \in Nat /\ q <= A
    <3> HIDE DEF A, B
    <3> QED BY <1>1, DivNat
  <2>2. A = h /\ q = h /\ a = MinInt
    <3> HIDE DEF A, q, h
    <3> QED BY <1>1, <1>5, <2>1
  <2>3. B = 1
    <3>1. B * q <= A
      <4>1. A \in Int BY <1>1
      <4> HIDE DEF A, B
      <4> DEFINE r == A % B
      <4>2. q \in Int /\ r \in 0 .. B - 1 /\ A = B * q + r BY <1>1, <4>1, DivMod
      <4> HIDE DEF q, r
      <4>3. B * q \in Int BY <1>1, <4>2
      <4> QED BY <1>1, <4>2, <4>3
    <3> HIDE DEF A, B, q, h
    <3>2. ASSUME B >= 2 PROVE FALSE
      <4>1. q * 2 <= q * B BY <1>1, <2>1, <3>2, TimesMonotone
      <4> QED BY <1>1, <2>1, <2>2, <3>1, <4>1
    <3> QED BY <1>1, <3>2
  <2>4. b = 1
    <3>1. b # -1 BY <2>2
    <3> QED BY <2>3, <3>1 DEF Abs
  <2>5. u = -h
    <3>1. MinInt < 0 BY RangeIs
    <3>2. a < 0 /\ ~(b < 0) BY <2>2, <2>4, <3>1
    <3>3. u = -q BY <3>2 DEF Quot
    <3> QED BY <2>2, <3>3
  <2>6. InRange(u)
    <3> HIDE DEF u
    <3>1. InRange(u) <=> -h <= u /\ u < h BY DEF InRange, MinInt
    <3> HIDE DEF h
    <3> QED BY <1>1, <2>5, <3>1
  <2> QED BY <1>3, <2>6
<1> QED BY <1>4, <1>5

LEMMA SDivIs ==
  ASSUME NEW a \in Word, NEW b \in Word, b # 0,
         ~(Signed(a) = MinInt /\ Signed(b) = -1)
  PROVE /\ SDiv(a, b) = {Result(Wrap(Quot(Signed(a), Signed(b))))}
        /\ SRem(a, b) = {Result(Wrap(Rem(Signed(a), Signed(b))))}
        /\ InRange(Quot(Signed(a), Signed(b))) /\ InRange(Rem(Signed(a), Signed(b)))
        /\ Quot(Signed(a), Signed(b)) \in Int /\ Rem(Signed(a), Signed(b)) \in Int
<1>1. Signed(a) \in Int /\ Signed(b) \in Int /\ InRange(Signed(a)) /\ InRange(Signed(b))
      /\ Signed(b) # 0 BY SignedIs
<1>2. SDiv(a, b) = {Result(Wrap(Quot(Signed(a), Signed(b))))} BY <1>1 DEF SDiv, Divide
<1>3. SRem(a, b) = {Result(Wrap(Rem(Signed(a), Signed(b))))} BY <1>1 DEF SRem, Divide
<1> QED BY <1>1, <1>2, <1>3, QuotRem, QuotInRange

LEMMA OutsAre ==
  /\ \A w \in Word : Result(w) \in Outs
  /\ Raise \in Outs /\ HardwareTrap \in Outs /\ Poison \subseteq Outs
<1>1. \A w \in Word : Result(w) \in Outs BY DEF Result, Outs
<1>2. 0 \in Word BY WordFacts
<1> QED BY <1>1, <1>2 DEF Raise, HardwareTrap, Poison, Outs

LEMMA DivisionType ==
  ASSUME NEW a \in Word, NEW b \in Word
  PROVE SDiv(a, b) \subseteq Outs /\ SRem(a, b) \subseteq Outs
<1> DEFINE s == Signed(a)  t == Signed(b)
<1>1. s \in Int /\ t \in Int BY SignedIs
<1>2. Wrap(MinInt) \in Word /\ 0 \in Word BY RangeIs, WrapIs, WordFacts
<1>3. \A n \in Int, w \in Word : Divide(n, s, t, w) \subseteq Outs
  <2> TAKE n \in Int, w \in Word
  <2>1. Wrap(n) \in Word BY WrapIs
  <2>2. Result(Wrap(n)) \in Outs /\ Result(w) \in Outs /\ HardwareTrap \in Outs /\ Poison \subseteq Outs
    BY <2>1, OutsAre
  <2> HIDE DEF s, t
  <2> QED BY <2>2 DEF Divide
<1>4. ASSUME t # 0 PROVE Quot(s, t) \in Int /\ Rem(s, t) \in Int
  <2> HIDE DEF s, t
  <2> QED BY <1>1, <1>4, QuotRem
<1>5. CASE t = 0
  <2>1. SDiv(a, b) = Poison /\ SRem(a, b) = Poison BY <1>5 DEF SDiv, SRem, Divide
  <2> QED BY <2>1, OutsAre
<1>6. CASE t # 0
  <2> HIDE DEF s, t
  <2>1. Divide(Quot(s, t), s, t, Wrap(MinInt)) \subseteq Outs /\ Divide(Rem(s, t), s, t, 0) \subseteq Outs
    BY <1>2, <1>3, <1>4, <1>6
  <2> QED BY <2>1 DEF SDiv, SRem, s, t
<1> QED BY <1>5, <1>6

-----------------------------------------------------------------------------
(* Shifts and rotations: each bit of the result is a bit of the argument. *)

LEMMA ShiftLeft ==
  ASSUME NEW a \in Word, NEW b \in Nat, NEW i \in 0 .. Width - 1
  PROVE /\ Wrap(a * 2^b) \in Word
        /\ Bit(Wrap(a * 2^b), i) = IF i - b >= 0 THEN Bit(a, i - b) ELSE 0
<1>1. a \in Nat /\ i \in Nat BY WordFacts
<1>2. 2^b \in Nat \ {0} BY PowerType
<1>3. a * 2^b \in Int
  <2> DEFINE p == 2^b
  <2>1. p \in Nat BY <1>2
  <2> HIDE DEF p
  <2>2. a * p \in Int BY <1>1, <2>1
  <2> QED BY <2>2 DEF p
<1>4. Wrap(a * 2^b) \in Word /\ Bit(Wrap(a * 2^b), i) = Bit(a * 2^b, i) BY <1>3, WrapIs, BitWrap
<1>5. Bit(a * 2^b, i) = IF i >= b THEN Bit(a, i - b) ELSE 0
  <2>1. a \in Int BY <1>1
  <2> QED BY <1>1, <2>1, BitTimes
<1>6. i >= b <=> i - b >= 0 BY <1>1
<1> QED BY <1>4, <1>5, <1>6

LEMMA ShiftRight ==
  ASSUME NEW a \in Word, NEW b \in Nat, NEW i \in 0 .. Width - 1
  PROVE /\ a \div 2^b \in Word
        /\ Bit(a \div 2^b, i) = IF i + b < Width THEN Bit(a, i + b) ELSE 0
<1>1. a \in Nat /\ a \in Int /\ i \in Nat /\ a < 2^Width /\ Width \in Nat BY WordFacts
<1>2. 2^b \in Nat \ {0} BY PowerType
<1>3. a \div 2^b \in Word
  <2> DEFINE q == a \div 2^b
  <2>1. q \in Nat /\ q <= a BY <1>1, <1>2, DivNat
  <2> HIDE DEF q
  <2>2. 2^Width \in Nat /\ (q < 2^Width => q \in Word) BY <2>1, WordFacts
  <2> QED BY <1>1, <2>1, <2>2 DEF q
<1>4. Bit(a \div 2^b, i) = Bit(a, i + b) BY <1>1, BitDiv
<1>5. ASSUME ~(i + b < Width) PROVE Bit(a, i + b) = 0
  <2>1. i + b \in Nat /\ Width <= i + b BY <1>1, <1>5
  <2>2. 2^Width <= 2^(i + b) /\ 2^Width \in Nat /\ 2^(i + b) \in Nat BY <1>1, <2>1, PowerSplit, PowerType
  <2>3. a < 2^(i + b) BY <1>1, <2>2
  <2> QED BY <1>1, <2>1, <2>3, BitAbove
<1> QED BY <1>3, <1>4, <1>5

LEMMA ShiftSigned ==
  ASSUME NEW a \in Word, NEW b \in Nat, NEW i \in 0 .. Width - 1
  PROVE /\ Wrap(Signed(a) \div 2^b) \in Word
        /\ Bit(Wrap(Signed(a) \div 2^b), i)
             = IF i + b < Width THEN Bit(a, i + b) ELSE Bit(a, Width - 1)
<1>1. i \in Nat /\ Signed(a) \in Int BY WordFacts, SignedIs
<1>2. 2^b \in Nat \ {0} BY PowerType
<1>3. Signed(a) \div 2^b \in Int BY <1>1, <1>2, DivMod
<1>4. Wrap(Signed(a) \div 2^b) \in Word
      /\ Bit(Wrap(Signed(a) \div 2^b), i) = Bit(Signed(a) \div 2^b, i) BY <1>3, WrapIs, BitWrap
<1>5. Bit(Signed(a) \div 2^b, i) = Bit(Signed(a), i + b) BY <1>1, BitDiv
<1>6. i + b \in Nat BY <1>1
<1> QED BY <1>4, <1>5, <1>6, BitSigned

(* A word after itself has each bit twice. *)
LEMMA BitTwice ==
  ASSUME NEW a \in Word, NEW k \in Nat
  PROVE /\ k < Width => Bit(a * 2^Width + a, k) = Bit(a, k)
        /\ k >= Width => Bit(a * 2^Width + a, k) = Bit(a, k - Width)
        /\ a * 2^Width + a \in Nat
<1>1. a \in Nat /\ a \in Int /\ a < 2^Width /\ Width \in Nat /\ 2^Width \in Nat \ {0} BY WordFacts
<1> DEFINE P == 2^Width
<1>2. a * P = P * a /\ a * P + a \in Nat
  <2>1. P \in Nat BY <1>1
  <2> HIDE DEF P
  <2> QED BY <1>1, <2>1
<1>3. ASSUME k < Width PROVE Bit(a * P + a, k) = Bit(a, k)
  <2>1. Bit(2^Width * a + a, k) = Bit(a, k) BY <1>1, <1>3, BitPlus
  <2> QED BY <1>2, <2>1
<1>4. ASSUME k >= Width PROVE Bit(a * P + a, k) = Bit(a, k - Width)
  <2>1. k - Width \in Nat /\ (k - Width) + Width = k BY <1>1, <1>4
  <2> DEFINE d == a * P + a
  <2>2. d \in Int BY <1>2
  <2>3. d \div 2^Width = a
    <3>1. (2^Width * a + a) \div 2^Width = a + a \div 2^Width BY <1>1, DivPlus
    <3>2. a \div 2^Width = 0 BY <1>1, DivBelow
    <3> QED BY <1>1, <1>2, <3>1, <3>2
  <2> HIDE DEF d
  <2>4. Bit(d \div 2^Width, k - Width) = Bit(d, (k - Width) + Width) BY <1>1, <2>1, <2>2, BitDiv
  <2> QED BY <2>1, <2>3, <2>4 DEF d
<1> QED BY <1>2, <1>3, <1>4

LEMMA ModWidth ==
  ASSUME NEW b \in Int, NEW i \in 0 .. Width - 1
  PROVE LET s == b % Width IN
        /\ s \in 0 .. Width - 1
        /\ (i - b) % Width = IF i >= s THEN i - s ELSE i - s + Width
        /\ (i + b) % Width = IF i + s < Width THEN i + s ELSE i + s - Width
<1> DEFINE s == b % Width  q == b \div Width
<1>1. Width \in Nat \ {0} BY WidthSize
<1>2. q \in Int /\ s \in 0 .. Width - 1 /\ b = Width * q + s BY <1>1, DivMod
<1> HIDE DEF s, q
<1> DEFINE e == Width * q
<1>3. e \in Int /\ Width * (-q) = -e /\ Width * (-q - 1) = -e - Width /\ Width * (q + 1) = e + Width
  BY <1>1, <1>2
<1> DEFINE low == i - b  high == i + b
<1>4. low \in Int /\ high \in Int /\ -q \in Int /\ -q - 1 \in Int /\ q + 1 \in Int BY <1>2
<1>5. low = i - s - e /\ high = i + s + e BY <1>2, <1>3
<1> HIDE DEF low, high
<1> DEFINE m == -q  mm == -q - 1  p == q + 1
<1>6. m \in Int /\ mm \in Int /\ p \in Int BY <1>4
<1>7. Width * m = -e /\ Width * mm = -e - Width /\ Width * p = e + Width /\ Width * q = e BY <1>3
<1> HIDE DEF m, mm, p, e
<1>8. low % Width = IF i >= s THEN i - s ELSE i - s + Width
  <2>1. ASSUME i >= s PROVE low % Width = i - s
    <3>1. Width * m <= low /\ low < Width * m + Width BY <1>1, <1>2, <1>3, <1>5, <1>7, <2>1
    <3>2. low % Width = low - Width * m BY <1>1, <1>4, <1>6, <3>1, DivUnique
    <3> QED BY <1>2, <1>3, <1>5, <1>7, <3>2
  <2>2. ASSUME ~(i >= s) PROVE low % Width = i - s + Width
    <3>1. Width * mm <= low /\ low < Width * mm + Width BY <1>1, <1>2, <1>3, <1>5, <1>7, <2>2
    <3>2. low % Width = low - Width * mm BY <1>1, <1>4, <1>6, <3>1, DivUnique
    <3> QED BY <1>1, <1>2, <1>3, <1>5, <1>7, <3>2
  <2> QED BY <2>1, <2>2
<1>9. high % Width = IF i + s < Width THEN i + s ELSE i + s - Width
  <2>1. ASSUME i + s < Width PROVE high % Width = i + s
    <3>1. Width * q <= high /\ high < Width * q + Width BY <1>1, <1>2, <1>3, <1>5, <1>7, <2>1
    <3>2. high % Width = high - Width * q BY <1>1, <1>2, <1>4, <3>1, DivUnique
    <3> QED BY <1>2, <1>3, <1>5, <1>7, <3>2
  <2>2. ASSUME ~(i + s < Width) PROVE high % Width = i + s - Width
    <3>1. Width * p <= high /\ high < Width * p + Width BY <1>1, <1>2, <1>3, <1>5, <1>7, <2>2
    <3>2. high % Width = high - Width * p BY <1>1, <1>4, <1>6, <3>1, DivUnique
    <3> QED BY <1>1, <1>2, <1>3, <1>5, <1>7, <3>2
  <2> QED BY <2>1, <2>2
<1> QED BY <1>2, <1>8, <1>9 DEF s, low, high

LEMMA RotatedLeft ==
  ASSUME NEW a \in Word, NEW b \in Word, NEW i \in 0 .. Width - 1
  PROVE Rotated(a, b) \in Word /\ Bit(Rotated(a, b), i) = Bit(a, (i - b) % Width)
<1> DEFINE s == b % Width  d == a * 2^Width + a  e == d * 2^s  f == e \div 2^Width
<1>1. /\ Width \in Nat /\ i \in Nat /\ b \in Int /\ s \in 0 .. Width - 1 /\ s \in Nat
      /\ (i - b) % Width = IF i >= s THEN i - s ELSE i - s + Width
  <2>1. Width \in Nat /\ b \in Int BY WordFacts
  <2> QED BY <2>1, ModWidth
<1>2. Rotated(a, b) = Wrap(f) BY DEF Rotated, FShl, Wrap
<1>3. d \in Nat BY BitTwice
<1> HIDE DEF s, d
<1>4. e \in Int
  <2> DEFINE p == 2^s
  <2>1. p \in Nat BY <1>1, PowerType
  <2> HIDE DEF p
  <2>2. d * p \in Int BY <1>3, <2>1
  <2> QED BY <2>2 DEF p
<1> HIDE DEF e
<1>5. f \in Int BY <1>4, WordFacts, DivMod
<1>6. Bit(f, i) = Bit(e, i + Width) BY <1>1, <1>4, BitDiv
<1> HIDE DEF f
<1>7. Wrap(f) \in Word /\ Bit(Wrap(f), i) = Bit(f, i) BY <1>5, WrapIs, BitWrap
<1>8. Bit(e, i + Width) = Bit(d, i + Width - s)
  <2>1. i + Width \in Nat /\ i + Width >= s /\ d \in Int BY <1>1, <1>3
  <2> QED BY <1>1, <2>1, BitTimes DEF e
<1>9. Bit(d, i + Width - s) = Bit(a, (i - b) % Width)
  <2> DEFINE k == i + Width - s
  <2>1. k \in Nat /\ (k >= Width <=> i >= s) /\ k - Width = i - s /\ k = i - s + Width BY <1>1
  <2> HIDE DEF k
  <2>2. CASE i >= s
    <3>1. Bit(d, k) = Bit(a, k - Width) BY <2>1, <2>2, BitTwice DEF d
    <3> QED BY <1>1, <2>1, <2>2, <3>1 DEF k
  <2>3. CASE ~(i >= s)
    <3>1. k < Width BY <1>1, <2>1, <2>3
    <3>2. Bit(d, k) = Bit(a, k) BY <2>1, <3>1, BitTwice DEF d
    <3> QED BY <1>1, <2>1, <2>3, <3>2 DEF k
  <2> QED BY <2>2, <2>3
<1> QED BY <1>2, <1>6, <1>7, <1>8, <1>9

LEMMA RotatedRight ==
  ASSUME NEW a \in Word, NEW b \in Word, NEW i \in 0 .. Width - 1
  PROVE FShr(a, a, b) \in Word /\ Bit(FShr(a, a, b), i) = Bit(a, (i + b) % Width)
<1> DEFINE s == b % Width  d == a * 2^Width + a  f == d \div 2^s
<1>1. /\ Width \in Nat /\ i \in Nat /\ b \in Int /\ s \in 0 .. Width - 1 /\ s \in Nat
      /\ (i + b) % Width = IF i + s < Width THEN i + s ELSE i + s - Width
  <2>1. Width \in Nat /\ b \in Int BY WordFacts
  <2>2. s \in 0 .. Width - 1 /\ (i + b) % Width = IF i + s < Width THEN i + s ELSE i + s - Width
    BY <2>1, ModWidth
  <2> HIDE DEF s
  <2>3. i \in Nat /\ s \in Nat BY <2>1, <2>2
  <2> QED BY <2>1, <2>2, <2>3
<1>2. FShr(a, a, b) = Wrap(f) BY DEF FShr, Wrap
<1>3. d \in Nat BY BitTwice
<1> HIDE DEF s
<1>4. f \in Int /\ Bit(f, i) = Bit(d, i + s)
  <2>1. d \in Int /\ 2^s \in Nat \ {0} BY <1>1, <1>3, PowerType
  <2> HIDE DEF d
  <2> QED BY <1>1, <2>1, BitDiv, DivMod
<1> HIDE DEF f
<1>5. Wrap(f) \in Word /\ Bit(Wrap(f), i) = Bit(f, i) BY <1>4, WrapIs, BitWrap
<1>6. Bit(d, i + s) = Bit(a, (i + b) % Width)
  <2> DEFINE k == i + s
  <2>1. k \in Nat BY <1>1
  <2>2. (i + b) % Width = IF k < Width THEN k ELSE k - Width BY <1>1
  <2> HIDE DEF k
  <2>3. CASE k < Width BY <2>1, <2>2, <2>3, BitTwice DEF k
  <2>4. CASE ~(k < Width)
    <3>1. k >= Width BY <1>1, <2>1, <2>4
    <3> QED BY <2>1, <2>2, <2>4, <3>1, BitTwice DEF k
  <2> QED BY <2>3, <2>4
<1> QED BY <1>2, <1>4, <1>5, <1>6

-----------------------------------------------------------------------------
(* Counts of zeros *)

(* A set of exponents that has with each one the higher ones counts from its least. *)
LEMMA LeadingZeros ==
  ASSUME NEW a \in Word
  PROVE LET n == Cardinality({i \in 0 .. Width - 1 : a < 2^i}) IN
        /\ n \in 0 .. Width
        /\ \A i \in 0 .. Width - 1 : Bit(a, i) = 1 => i + n < Width
        /\ n < Width => Bit(a, Width - 1 - n) = 1
<1> DEFINE T == {i \in 0 .. Width : a < 2^i}  S == {i \in 0 .. Width - 1 : a < 2^i}
<1>1. Width \in Nat /\ a \in Nat /\ a < 2^Width BY WordFacts
<1>2. \E m \in T : \A j \in T : m <= j
  <2>1. T \in SUBSET Nat /\ T # {} BY <1>1
  <2> HIDE DEF T
  <2> QED BY <2>1, LeastNat
<1>3. PICK m \in T : \A j \in T : m <= j BY <1>2
<1>4. m \in 0 .. Width /\ a < 2^m OBVIOUS
<1>5. S = m .. Width - 1
  <2>1. ASSUME NEW i \in S PROVE i \in m .. Width - 1
    <3>1. i \in T BY <1>1
    <3> QED BY <1>1, <1>3, <1>4, <3>1
  <2>2. ASSUME NEW i \in m .. Width - 1 PROVE i \in S
    <3>1. i \in 0 .. Width - 1 /\ m \in Nat /\ i \in Nat /\ m <= i BY <1>1, <1>4
    <3>2. 2^m <= 2^i /\ 2^m \in Nat /\ 2^i \in Nat BY <3>1, PowerSplit, PowerType
    <3>3. a < 2^i BY <1>1, <1>4, <3>2
    <3> QED BY <3>1, <3>3
  <2> QED BY <2>1, <2>2
<1> DEFINE n == Cardinality(S)
<1>6. n = Width - m
  <2>1. m \in Int /\ Width - 1 \in Int BY <1>1, <1>4
  <2> HIDE DEF S
  <2>2. Cardinality(m .. Width - 1) = IF m > Width - 1 THEN 0 ELSE (Width - 1) - m + 1
    BY <2>1, FS_Interval
  <2> QED BY <1>1, <1>4, <1>5, <2>2
<1>7. n \in 0 .. Width BY <1>1, <1>4, <1>6
<1>8. ASSUME NEW i \in 0 .. Width - 1, Bit(a, i) = 1 PROVE i + n < Width
  <2>1. ~(a < 2^i)
    <3>1. i \in Nat BY <1>1
    <3> QED BY <1>1, <1>8, <3>1, BitAbove
  <2>2. i \notin S BY <2>1
  <2> HIDE DEF S, T
  <2>3. i < m BY <1>1, <1>4, <1>5, <2>2
  <2> QED BY <1>1, <1>4, <1>6, <2>3
<1>9. ASSUME n < Width PROVE Bit(a, Width - 1 - n) = 1
  <2> DEFINE k == m - 1
  <2>1. k \in Nat /\ k < m /\ m = k + 1 /\ Width - 1 - n = k /\ k \in 0 .. Width BY <1>1, <1>4, <1>6, <1>9
  <2>2. ~(a < 2^k)
    <3>1. k \notin T BY <1>3, <1>4, <2>1
    <3> QED BY <2>1, <3>1
  <2> HIDE DEF k
  <2>3. 2^m = 2 * 2^k /\ 2^k \in Nat \ {0} BY <2>1, PowerNext, PowerType
  <2> DEFINE p == 2^k
  <2>4. p <= a /\ a < p + p BY <1>1, <1>4, <2>2, <2>3
  <2>5. a \div p = 1
    <3> DEFINE one == 1
    <3>1. p \in Nat \ {0} /\ a \in Int /\ one \in Int BY <1>1, <2>3
    <3>2. p * one = p
      <4> HIDE DEF p
      <4> QED BY <3>1
    <3> HIDE DEF p, one
    <3>3. p * one <= a /\ a < p * one + p BY <2>4, <3>2
    <3>4. a \div p = one BY <3>1, <3>3, DivUnique
    <3> QED BY <3>4 DEF one
  <2>6. Bit(a, k) = 1 BY <2>5 DEF Bit
  <2> QED BY <2>1, <2>6
<1> HIDE DEF S
<1>10. n \in 0 .. Width /\ (\A i \in 0 .. Width - 1 : Bit(a, i) = 1 => i + n < Width)
       /\ (n < Width => Bit(a, Width - 1 - n) = 1) BY <1>7, <1>8, <1>9
<1> QED BY <1>10 DEF S

LEMMA TrailingZeros ==
  ASSUME NEW a \in Word
  PROVE LET n == Cardinality({i \in 1 .. Width : a % 2^i = 0}) IN
        /\ n \in 0 .. Width
        /\ \A i \in 0 .. Width - 1 : Bit(a, i) = 1 => i >= n
        /\ n < Width => Bit(a, n) = 1
<1> DEFINE Z(i) == a % 2^i = 0  S == {i \in 1 .. Width : Z(i)}
           T == {j \in Nat : j = Width + 1 \/ (j \in 1 .. Width /\ ~Z(j))}
<1>1. Width \in Nat /\ a \in Nat /\ a \in Int BY WordFacts
<1>2. \E t \in T : \A j \in T : t <= j
  <2>1. T \in SUBSET Nat /\ T # {} BY <1>1
  <2> HIDE DEF T
  <2> QED BY <2>1, LeastNat
<1>3. PICK t \in T : \A j \in T : t <= j BY <1>2
<1> DEFINE m == t - 1
<1>4. m \in 0 .. Width /\ t = m + 1 /\ m \in Nat BY <1>1
<1>5. \A i \in 1 .. m : Z(i)
  <2>1. ASSUME NEW i \in 1 .. m PROVE Z(i)
    <3>1. i \in Nat /\ i \in 1 .. Width /\ i < t BY <1>1, <1>4
    <3>2. i \notin T BY <1>3, <1>4, <3>1
    <3> QED BY <3>1, <3>2
  <2> QED BY <2>1
<1>6. Z(m)
  <2>1. CASE m = 0 BY <1>1, <2>1, PowerZero
  <2>2. CASE m # 0
    <3>1. m \in 1 .. m BY <1>4, <2>2
    <3> QED BY <1>5, <3>1
  <2> QED BY <2>1, <2>2
<1>7. ASSUME m < Width PROVE ~Z(m + 1)
  <2>1. t # Width + 1 BY <1>1, <1>4, <1>7
  <2> QED BY <1>4, <2>1
<1> HIDE DEF m
<1>8. PICK k \in Int : a = 2^m * k
  <2> DEFINE p == 2^m
  <2>1. p \in Nat \ {0} /\ a % p = 0 BY <1>4, <1>6, PowerType
  <2> HIDE DEF p
  <2>2. a \div p \in Int /\ a = p * (a \div p) BY <1>1, <2>1, MultipleIs
  <2> QED BY <2>2 DEF p
<1>9. \A i \in 0 .. m - 1 : Bit(a, i) = 0
  <2> TAKE i \in 0 .. m - 1
  <2>1. i \in Nat /\ i < m BY <1>4
  <2>2. a = k * 2^m /\ ~(i >= m)
    <3> DEFINE p == 2^m
    <3>1. p \in Nat /\ a = p * k BY <1>4, <1>8, PowerType
    <3> HIDE DEF p
    <3>2. a = k * p BY <3>1
    <3> QED BY <1>4, <2>1, <3>2 DEF p
  <2> QED BY <1>4, <2>1, <2>2, BitTimes
<1>10. ASSUME m < Width PROVE Bit(a, m) = 1
  <2>1. Bit(a, m) = k % 2
    <3>1. 2^m \in Nat \ {0} BY <1>4, PowerType
    <3>2. a \div 2^m = k BY <1>8, <3>1, MultipleMod
    <3> QED BY <3>2 DEF Bit
  <2>2. k % 2 # 0
    <3> SUFFICES ASSUME k % 2 = 0 PROVE FALSE OBVIOUS
    <3>1. 2^(m + 1) = 2 * 2^m BY <1>4, PowerNext
    <3> DEFINE p == 2^m  l == k \div 2
    <3>2. p \in Nat \ {0} BY <1>4, PowerType
    <3>3. l \in Int /\ k = 2 * l
      <4>1. k % 2 = 0 OBVIOUS
      <4> QED BY <4>1, MultipleIs
    <3>4. a = p * k BY <1>8
    <3> HIDE DEF p, l
    <3>5. a = (2 * p) * l /\ 2 * p \in Nat \ {0} BY <3>2, <3>3, <3>4
    <3>6. a % (2 * p) = 0 BY <3>3, <3>5, MultipleMod
    <3> QED BY <1>7, <1>10, <3>1, <3>6 DEF p
  <2> QED BY <2>1, <2>2
<1>11. S = 1 .. m
  <2>1. ASSUME NEW i \in S PROVE i \in 1 .. m
    <3> SUFFICES ASSUME i > m PROVE FALSE BY <1>1, <1>4
    <3>1. i \in Nat /\ m + 1 <= i /\ m < Width /\ m + 1 \in Nat /\ Z(i) BY <1>1, <1>4
    <3>2. 2^i = 2^(m + 1) * 2^(i - (m + 1)) /\ 2^(i - (m + 1)) \in Nat \ {0} BY <3>1, PowerSplit
    <3> DEFINE p == 2^(m + 1)  q == 2^(i - (m + 1))  r == 2^i
    <3>3. p \in Nat \ {0} /\ q \in Nat \ {0} /\ r \in Nat \ {0} /\ r = p * q /\ a % r = 0
      BY <3>1, <3>2, PowerType
    <3> HIDE DEF p, q, r
    <3>4. r % p = 0 BY <3>3, MultipleMod
    <3>5. a % p = 0 BY <1>1, <3>3, <3>4, MultipleTransitive
    <3> QED BY <1>7, <3>1, <3>5 DEF p
  <2>2. ASSUME NEW i \in 1 .. m PROVE i \in S
    <3>1. i \in 1 .. Width BY <1>1, <1>4
    <3> QED BY <1>5, <3>1
  <2> QED BY <2>1, <2>2
<1> DEFINE n == Cardinality(S)
<1>12. n = m
  <2> HIDE DEF S
  <2>1. Cardinality(1 .. m) = IF 1 > m THEN 0 ELSE m - 1 + 1 BY <1>4, FS_Interval
  <2> QED BY <1>4, <1>11, <2>1
<1>13. ASSUME NEW i \in 0 .. Width - 1, Bit(a, i) = 1 PROVE i >= m
  <2> SUFFICES ASSUME i < m PROVE FALSE BY <1>1, <1>4
  <2>1. i \in 0 .. m - 1 BY <1>1, <1>4
  <2> QED BY <1>9, <1>13, <2>1
<1> HIDE DEF S
<1>14. n \in 0 .. Width /\ (\A i \in 0 .. Width - 1 : Bit(a, i) = 1 => i >= n)
       /\ (n < Width => Bit(a, n) = 1) BY <1>4, <1>10, <1>12, <1>13
<1> QED BY <1>14 DEF S

-----------------------------------------------------------------------------
(* The outcomes of each class of primitives *)

(* The primitives and arguments that are evaluated *)
Args ==
  /\ target \in {"x86_64", "aarch64"}
  /\ prim \in Prim
  /\ prim.class = "arith" => prim.oper <= Len(ArithOp)
  /\ IF prim.class \in {"arith", "pure", "cmp"} THEN x \in Word /\ y \in Word
     ELSE x \in Float /\ y \in IF prim.class = "fcmp" THEN Float ELSE {x}

NotYet == [kind |-> "none", v |-> 0]

(* The inductive invariant: one of the outcomes, for arguments that stay. *)
PrimsInv == Args /\ (out = NotYet \/ out \in Outcomes)

LEMMA ClassOutcomes ==
  /\ prim.class = "arith" => Outcomes = Arith(ArithOp[prim.oper], x, y)
  /\ prim.class = "pure" => Outcomes = Pure(PureOp[prim.oper], x, y)
  /\ prim.class = "cmp" => Outcomes = Truth(Cmp(prim.oper, prim.signed, x, y))
  /\ prim.class = "fcmp" => Outcomes = Truth(FCmp(prim.oper, x, y))
  /\ prim.class = "fsgn" => Outcomes = Truth(FSgn(x))
  /\ prim.class = "float_to_int" => Outcomes = FPToSI(x)
BY DEF Outcomes

LEMMA ClassArgs ==
  ASSUME Args
  PROVE /\ prim.class \in {"arith", "pure", "cmp", "fcmp", "fsgn", "float_to_int"}
        /\ prim.class = "arith" => prim.oper \in 1 .. 5 /\ x \in Word /\ y \in Word
        /\ prim.class = "pure" => prim.oper \in 1 .. 15 /\ x \in Word /\ y \in Word
        /\ prim.class = "cmp" => prim.oper \in 1 .. 6 /\ prim.signed \in BOOLEAN
                                 /\ x \in Word /\ y \in Word
        /\ prim.class = "fcmp" => prim.oper \in 1 .. 14 /\ x \in Float /\ y \in Float
        /\ prim.class \in {"fsgn", "float_to_int"} => x \in Float
<1>1. Len(PureOp) = 15 /\ Len(ArithOp) = 5 /\ Len(CmpOp) = 6 /\ Len(FCmpOp) = 14
  BY DEF PureOp, ArithOp, CmpOp, FCmpOp
<1>2. \/ prim.class \in {"arith", "pure"} /\ prim.oper \in 1 .. 15
      \/ prim.class = "cmp" /\ prim.oper \in 1 .. 6 /\ prim.signed \in BOOLEAN
      \/ prim.class = "fcmp" /\ prim.oper \in 1 .. 14
      \/ prim.class = "fsgn" \/ prim.class = "float_to_int"
  BY <1>1 DEF Args, Prim
<1>3. IF prim.class \in {"arith", "pure", "cmp"} THEN x \in Word /\ y \in Word
      ELSE x \in Float /\ y \in IF prim.class = "fcmp" THEN Float ELSE {x}
  BY DEF Args
<1>4. prim.class = "arith" => prim.oper <= 5 BY <1>1 DEF Args
<1> QED BY <1>2, <1>3, <1>4

LEMMA ArithIs ==
  ASSUME NEW a, NEW b
  PROVE /\ Arith("IADD", a, b) = OnOverflow(WithOverflow(Signed(a) + Signed(b)))
        /\ Arith("ISUB", a, b) = OnOverflow(WithOverflow(Signed(a) - Signed(b)))
        /\ Arith("IMUL", a, b) = OnOverflow(WithOverflow(Signed(a) * Signed(b)))
        /\ Arith("IDIV", a, b) = SDiv(a, b)
        /\ Arith("IREM", a, b) = SRem(a, b)
BY DEF Arith

LEMMA ArithOps ==
  ASSUME NEW o \in 1 .. 5
  PROVE /\ o = 1 => ArithOp[o] = "IADD"
        /\ o = 2 => ArithOp[o] = "ISUB"
        /\ o = 3 => ArithOp[o] = "IMUL"
        /\ o = 4 => ArithOp[o] = "IDIV"
        /\ o = 5 => ArithOp[o] = "IREM"
BY DEF ArithOp

LEMMA PureIs ==
  ASSUME NEW a, NEW b
  PROVE /\ Pure("ADD", a, b) = {Result(Wrap(a + b))}
        /\ Pure("SUB", a, b) = {Result(Wrap(a - b))}
        /\ Pure("MUL", a, b) = {Result(Wrap(a * b))}
        /\ Pure("SDIV", a, b) = SDiv(a, b)
        /\ Pure("SREM", a, b) = SRem(a, b)
        /\ Pure("UDIV", a, b) = IF b = 0 THEN Poison ELSE {Result(a \div b)}
        /\ Pure("UREM", a, b) = IF b = 0 THEN Poison ELSE {Result(a % b)}
        /\ Pure("SHL", a, b) = Shift(b, Wrap(a * 2^b))
        /\ Pure("ASHR", a, b) = Shift(b, Wrap(Signed(a) \div 2^b))
        /\ Pure("LSHR", a, b) = Shift(b, a \div 2^b)
        /\ Pure("CNTPOP", a, b) = {Result(Cardinality(BitsSet(a)))}
        /\ Pure("CNTLZ", a, b) = {Result(Cardinality({i \in 0 .. Width - 1 : a < 2^i}))}
        /\ Pure("CNTTZ", a, b) = {Result(Cardinality({i \in 1 .. Width : a % 2^i = 0}))}
        /\ Pure("ROTL", a, b) = {Result(Rotated(a, b))}
        /\ Pure("ROTR", a, b) = {Result(FShr(a, a, b))}
BY DEF Pure

LEMMA PureOps ==
  ASSUME NEW o \in 1 .. 15
  PROVE /\ o = 1 => PureOp[o] = "ADD"
        /\ o = 2 => PureOp[o] = "SUB"
        /\ o = 3 => PureOp[o] = "MUL"
        /\ o = 4 => PureOp[o] = "SDIV"
        /\ o = 5 => PureOp[o] = "SREM"
        /\ o = 6 => PureOp[o] = "UDIV"
        /\ o = 7 => PureOp[o] = "UREM"
        /\ o = 8 => PureOp[o] = "SHL"
        /\ o = 9 => PureOp[o] = "ASHR"
        /\ o = 10 => PureOp[o] = "LSHR"
        /\ o = 11 => PureOp[o] = "CNTPOP"
        /\ o = 12 => PureOp[o] = "CNTLZ"
        /\ o = 13 => PureOp[o] = "CNTTZ"
        /\ o = 14 => PureOp[o] = "ROTL"
        /\ o = 15 => PureOp[o] = "ROTR"
BY DEF PureOp

-----------------------------------------------------------------------------
(* Types *)

LEMMA ArithType ==
  ASSUME NEW a \in Word, NEW b \in Word, NEW o \in 1 .. 5
  PROVE Arith(ArithOp[o], a, b) \subseteq Outs
<1>1. \A n \in Int : OnOverflow(WithOverflow(n)) \subseteq Outs
  <2> TAKE n \in Int
  <2>1. Wrap(n) \in Word BY WrapIs
  <2>2. Result(Wrap(n)) \in Outs /\ Raise \in Outs BY <2>1, OutsAre
  <2> QED BY <2>2 DEF OnOverflow, WithOverflow
<1> DEFINE s == Signed(a)  t == Signed(b)
<1>2. s \in Int /\ t \in Int BY SignedIs
<1>3. s + t \in Int /\ s - t \in Int /\ s * t \in Int
  <2> HIDE DEF s, t
  <2> QED BY <1>2
<1>4. SDiv(a, b) \subseteq Outs /\ SRem(a, b) \subseteq Outs BY DivisionType
<1>5. /\ Arith("IADD", a, b) \subseteq Outs /\ Arith("ISUB", a, b) \subseteq Outs
      /\ Arith("IMUL", a, b) \subseteq Outs /\ Arith("IDIV", a, b) \subseteq Outs
      /\ Arith("IREM", a, b) \subseteq Outs
  BY <1>1, <1>3, <1>4, ArithIs
<1>6. o = 1 \/ o = 2 \/ o = 3 \/ o = 4 \/ o = 5 OBVIOUS
<1> QED BY <1>5, <1>6, ArithOps

LEMMA PureType ==
  ASSUME NEW a \in Word, NEW b \in Word, NEW o \in 1 .. 15
  PROVE Pure(PureOp[o], a, b) \subseteq Outs
<1>1. a \in Nat /\ b \in Nat /\ a < 2^Width /\ b < 2^Width BY WordFacts
<1>2. \A w \in Word : {Result(w)} \subseteq Outs BY OutsAre
<1>3. \A n \in Int : {Result(Wrap(n))} \subseteq Outs BY <1>2, WrapIs
<1>4. a + b \in Int /\ a - b \in Int /\ a * b \in Int BY <1>1
<1>5. /\ Pure("ADD", a, b) \subseteq Outs /\ Pure("SUB", a, b) \subseteq Outs
      /\ Pure("MUL", a, b) \subseteq Outs
  BY <1>3, <1>4, PureIs
<1>6. Pure("SDIV", a, b) \subseteq Outs /\ Pure("SREM", a, b) \subseteq Outs
  BY DivisionType, PureIs
<1>7. Pure("UDIV", a, b) \subseteq Outs /\ Pure("UREM", a, b) \subseteq Outs
  <2>1. CASE b = 0 BY <2>1, OutsAre, PureIs
  <2>2. CASE b # 0
    <3> DEFINE q == a \div b  r == a % b
    <3>1. q \in Nat /\ q <= a /\ r \in Nat /\ r < b
      <4>1. q \in Nat /\ q <= a BY <1>1, <2>2, DivNat
      <4>2. r \in 0 .. b - 1 BY <1>1, <2>2, DivMod
      <4> QED BY <1>1, <4>1, <4>2
    <3> HIDE DEF q, r
    <3>2. 2^Width \in Nat BY WordFacts
    <3>3. q < 2^Width /\ r < 2^Width BY <1>1, <3>1, <3>2
    <3>4. q \in Word /\ r \in Word BY <3>1, <3>3, WordFacts
    <3>5. {Result(q)} \subseteq Outs /\ {Result(r)} \subseteq Outs BY <1>2, <3>4
    <3> QED BY <2>2, <3>5, PureIs DEF q, r
  <2> QED BY <2>1, <2>2
<1>8. /\ Pure("SHL", a, b) \subseteq Outs /\ Pure("ASHR", a, b) \subseteq Outs
      /\ Pure("LSHR", a, b) \subseteq Outs
  <2>1. \A w \in Word : Shift(b, w) \subseteq Outs BY <1>2, OutsAre DEF Shift
  <2>2. 0 \in 0 .. Width - 1 BY WordFacts
  <2>3. Wrap(a * 2^b) \in Word /\ Wrap(Signed(a) \div 2^b) \in Word /\ a \div 2^b \in Word
    BY <1>1, <2>2, ShiftLeft, ShiftSigned, ShiftRight
  <2> QED BY <2>1, <2>3, PureIs
<1>9. /\ Pure("CNTPOP", a, b) \subseteq Outs /\ Pure("CNTLZ", a, b) \subseteq Outs
      /\ Pure("CNTTZ", a, b) \subseteq Outs
  <2>1. \A n \in 0 .. Width : {Result(n)} \subseteq Outs BY <1>2, WordFacts
  <2>2. Cardinality(BitsSet(a)) \in 0 .. Width
    <3>1. BitsSet(a) \in SUBSET (0 .. Width - 1) BY DEF BitsSet
    <3>2. Width \in Nat BY WordFacts
    <3>3. IsFiniteSet(0 .. Width - 1) /\ Cardinality(0 .. Width - 1) <= Width
      <4> DEFINE m == Width - 1
      <4>1. 0 \in Int /\ m \in Int BY <3>2
      <4> HIDE DEF m
      <4>2. IsFiniteSet(0 .. m) /\ Cardinality(0 .. m) = IF 0 > m THEN 0 ELSE m - 0 + 1
        BY <4>1, FS_Interval
      <4>3. Cardinality(0 .. m) <= Width BY <3>2, <4>2 DEF m
      <4> QED BY <4>2, <4>3 DEF m
    <3>4. IsFiniteSet(BitsSet(a)) /\ Cardinality(BitsSet(a)) <= Cardinality(0 .. Width - 1)
      BY <3>1, <3>3, FS_Subset
    <3>5. Cardinality(BitsSet(a)) \in Nat /\ Cardinality(0 .. Width - 1) \in Nat
      BY <3>3, <3>4, FS_CardinalityType
    <3> QED BY <3>2, <3>3, <3>4, <3>5
  <2>3. Cardinality({i \in 0 .. Width - 1 : a < 2^i}) \in 0 .. Width BY LeadingZeros
  <2>4. Cardinality({i \in 1 .. Width : a % 2^i = 0}) \in 0 .. Width BY TrailingZeros
  <2>5. Pure("CNTPOP", a, b) \subseteq Outs BY <2>1, <2>2, PureIs
  <2>6. Pure("CNTLZ", a, b) \subseteq Outs BY <2>1, <2>3, PureIs
  <2>7. Pure("CNTTZ", a, b) \subseteq Outs BY <2>1, <2>4, PureIs
  <2> QED BY <2>5, <2>6, <2>7
<1>10. Pure("ROTL", a, b) \subseteq Outs /\ Pure("ROTR", a, b) \subseteq Outs
  <2>1. 0 \in 0 .. Width - 1 BY WordFacts
  <2>2. Rotated(a, b) \in Word /\ FShr(a, a, b) \in Word BY <2>1, RotatedLeft, RotatedRight
  <2> QED BY <1>2, <2>2, PureIs
<1>11. \/ o = 1 \/ o = 2 \/ o = 3 \/ o = 4 \/ o = 5 \/ o = 6 \/ o = 7 \/ o = 8
       \/ o = 9 \/ o = 10 \/ o = 11 \/ o = 12 \/ o = 13 \/ o = 14 \/ o = 15 OBVIOUS
<1> QED BY <1>5, <1>6, <1>7, <1>8, <1>9, <1>10, <1>11, PureOps

LEMMA TruthReturns ==
  ASSUME NEW b, out \in Truth(b)
  PROVE Returns(1) <=> b
BY DEF Truth, Returns, Result

LEMMA TruthType ==
  ASSUME NEW b
  PROVE Truth(b) \subseteq Outs /\ \A o \in Truth(b) : o.kind = "value"
<1>1. 0 \in Word /\ 1 \in Word BY WordFacts
<1> QED BY <1>1 DEF Truth, Result, Outs

(* The integral part of a float, rounded to zero *)
Integral(f) == IF f.neg THEN -(f.mag \div 2) ELSE f.mag \div 2

LEMMA IntegralType ==
  ASSUME NEW f \in Float
  PROVE /\ Integral(f) \in Int
        /\ FPToSI(f) = IF NaN(f) \/ ~InRange(Integral(f)) THEN Poison ELSE {Result(Wrap(Integral(f)))}
        /\ f.neg \in BOOLEAN /\ f.mag \in Nat
<1>1. f.neg \in BOOLEAN /\ f.mag \in Nat BY MagSize DEF Float
<1>2. f.mag \div 2 \in Int BY <1>1, DivMod
<1> QED BY <1>1, <1>2 DEF Integral, FPToSI

LEMMA OutcomesType ==
  ASSUME Args
  PROVE /\ Outcomes \subseteq Outs
        /\ prim.class \notin {"arith", "pure"} => \A o \in Outcomes : o.kind = "value"
<1>1. CASE prim.class = "arith"
  <2>1. Arith(ArithOp[prim.oper], x, y) \subseteq Outs BY <1>1, ClassArgs, ArithType
  <2> QED BY <1>1, <2>1, ClassOutcomes
<1>2. CASE prim.class = "pure"
  <2>1. Pure(PureOp[prim.oper], x, y) \subseteq Outs BY <1>2, ClassArgs, PureType
  <2> QED BY <1>2, <2>1, ClassOutcomes
<1>3. CASE prim.class \in {"cmp", "fcmp", "fsgn"}
  <2>1. PICK b : Outcomes = Truth(b) BY <1>3, ClassOutcomes
  <2> QED BY <2>1, TruthType
<1>4. CASE prim.class = "float_to_int"
  <2>1. x \in Float BY <1>4, ClassArgs
  <2>2. Integral(x) \in Int
        /\ FPToSI(x) = IF NaN(x) \/ ~InRange(Integral(x)) THEN Poison ELSE {Result(Wrap(Integral(x)))}
    BY <2>1, IntegralType
  <2>3. Wrap(Integral(x)) \in Word BY <2>2, WrapIs
  <2>4. FPToSI(x) \subseteq Outs BY <2>2, <2>3, OutsAre
  <2>5. \A o \in FPToSI(x) : o.kind = "value" BY <2>2 DEF Poison, Result
  <2> QED BY <1>4, <2>4, <2>5, ClassOutcomes
<1> QED BY <1>1, <1>2, <1>3, <1>4, ClassArgs

LEMMA PrimsInit ==
  ASSUME Init
  PROVE PrimsInv
BY DEF Init, PrimsInv, Args, NotYet

LEMMA PrimsStep ==
  ASSUME PrimsInv, [Next]_vars
  PROVE PrimsInv'
<1>1. UNCHANGED <<target, prim, x, y>> /\ (out' = out \/ out' \in Outcomes)
  BY DEF Next, Eval, vars
<1>2. Outcomes' = Outcomes BY <1>1 DEF Outcomes, Arith, Pure, SDiv, SRem, Divide
<1>3. Args' BY <1>1 DEF PrimsInv, Args
<1> QED BY <1>1, <1>2, <1>3 DEF PrimsInv, NotYet

LEMMA PrimsInvariant == Spec => []PrimsInv
BY PrimsInit, PrimsStep, PTL DEF Spec

(***************************************************************************)
(* Every outcome is a word, or control at the overflow block or in a trap, *)
(* and only an arith or pure primitive has one of the last two.            *)
(***************************************************************************)
THEOREM PrimTypes == Spec => []TypeOK
<1>1. ASSUME PrimsInv PROVE TypeOK
  <2>1. Args /\ (out = NotYet \/ out \in Outcomes) BY <1>1 DEF PrimsInv
  <2>2. prim \in Prim BY <2>1 DEF Args
  <2>3. CASE out = NotYet
    <3>1. out.kind = "none" /\ out.v = 0 BY <2>3 DEF NotYet
    <3> QED BY <2>2, <3>1, WordFacts DEF TypeOK
  <2>4. CASE out \in Outcomes
    <3>1. out \in Outs BY <2>1, <2>4, OutcomesType
    <3>2. out.kind \in {"value", "overflow", "trap"} /\ out.v \in Word BY <3>1 DEF Outs
    <3>3. prim.class \notin {"arith", "pure"} => out.kind = "value" BY <2>1, <2>4, OutcomesType
    <3> QED BY <2>2, <3>2, <3>3 DEF TypeOK
  <2> QED BY <2>1, <2>3, <2>4
<1> QED BY <1>1, PrimsInvariant, PTL

-----------------------------------------------------------------------------
(* Arithmetic that may overflow *)

(* The result if it is a number of the range, control at the overflow block if not. *)
LEMMA OverflowIs ==
  ASSUME NEW n \in Int, out \in OnOverflow(WithOverflow(n))
  PROVE IF InRange(n) THEN Returns(Wrap(n)) ELSE Overflows
<1>1. CASE InRange(n)
  <2>1. out = Result(Wrap(n)) BY <1>1 DEF OnOverflow, WithOverflow
  <2> QED BY <1>1, <2>1 DEF Returns
<1>2. CASE ~InRange(n)
  <2>1. out = Raise BY <1>2 DEF OnOverflow, WithOverflow
  <2> QED BY <1>2, <2>1 DEF Overflows, Raise
<1> QED BY <1>1, <1>2

LEMMA ExactIs ==
  ASSUME NEW a, NEW b
  PROVE /\ Exact("IADD", a, b) = a + b /\ Exact("ADD", a, b) = a + b
        /\ Exact("ISUB", a, b) = a - b /\ Exact("SUB", a, b) = a - b
        /\ Exact("IMUL", a, b) = a * b /\ Exact("MUL", a, b) = a * b
        /\ Exact("IDIV", a, b) = Quot(a, b) /\ Exact("SDIV", a, b) = Quot(a, b)
        /\ Exact("IREM", a, b) = Rem(a, b) /\ Exact("SREM", a, b) = Rem(a, b)
BY DEF Exact

LEMMA ArithExactly ==
  ASSUME NEW a \in Word, NEW b \in Word, NEW o \in 1 .. 5, out \in Arith(ArithOp[o], a, b),
         ~(ArithOp[o] \in Division /\ (b = 0 \/ (Signed(a) = MinInt /\ Signed(b) = -1)))
  PROVE LET n == Exact(ArithOp[o], Signed(a), Signed(b))
        IN IF InRange(n) THEN Returns(Wrap(n)) ELSE Overflows
<1> DEFINE s == Signed(a)  t == Signed(b)
           Right(n) == IF InRange(n) THEN Returns(Wrap(n)) ELSE Overflows
<1>1. s \in Int /\ t \in Int BY SignedIs
<1>2. s + t \in Int /\ s - t \in Int /\ s * t \in Int
  <2> HIDE DEF s, t
  <2> QED BY <1>1
<1>3. CASE o = 1
  <2>1. out \in OnOverflow(WithOverflow(s + t)) BY <1>3, ArithOps, ArithIs
  <2>2. Exact(ArithOp[o], s, t) = s + t BY <1>3, ArithOps, ExactIs
  <2>3. Right(s + t) BY <1>2, <2>1, OverflowIs
  <2> QED BY <2>2, <2>3
<1>4. CASE o = 2
  <2>1. out \in OnOverflow(WithOverflow(s - t)) BY <1>4, ArithOps, ArithIs
  <2>2. Exact(ArithOp[o], s, t) = s - t BY <1>4, ArithOps, ExactIs
  <2>3. Right(s - t) BY <1>2, <2>1, OverflowIs
  <2> QED BY <2>2, <2>3
<1>5. CASE o = 3
  <2>1. out \in OnOverflow(WithOverflow(s * t)) BY <1>5, ArithOps, ArithIs
  <2>2. Exact(ArithOp[o], s, t) = s * t BY <1>5, ArithOps, ExactIs
  <2>3. Right(s * t) BY <1>2, <2>1, OverflowIs
  <2> QED BY <2>2, <2>3
<1>6. CASE o = 4
  <2>1. ArithOp[o] = "IDIV" BY <1>6, ArithOps
  <2>2. b # 0 /\ ~(s = MinInt /\ t = -1) BY <2>1 DEF Division
  <2>3. out = Result(Wrap(Quot(s, t))) /\ InRange(Quot(s, t)) BY <2>1, <2>2, ArithIs, SDivIs
  <2>4. Exact(ArithOp[o], s, t) = Quot(s, t) BY <2>1, ExactIs
  <2> QED BY <2>3, <2>4 DEF Returns
<1>7. CASE o = 5
  <2>1. ArithOp[o] = "IREM" BY <1>7, ArithOps
  <2>2. b # 0 /\ ~(s = MinInt /\ t = -1) BY <2>1 DEF Division
  <2>3. out = Result(Wrap(Rem(s, t))) /\ InRange(Rem(s, t)) BY <2>1, <2>2, ArithIs, SDivIs
  <2>4. Exact(ArithOp[o], s, t) = Rem(s, t) BY <2>1, ExactIs
  <2> QED BY <2>3, <2>4 DEF Returns
<1> QED BY <1>3, <1>4, <1>5, <1>6, <1>7

(* The least integer by -1: the quotient wraps to the dividend, and there is
   no remainder; what becomes of them is up to the processor. *)
LEMMA LeastDivision ==
  ASSUME NEW a \in Word, NEW b \in Word, Signed(a) = MinInt, Signed(b) = -1,
         NEW o \in 1 .. 5, ArithOp[o] \in Division, out \in Arith(ArithOp[o], a, b)
  PROVE IF target = "x86_64" THEN Overflows
        ELSE Returns(Wrap(Exact(ArithOp[o], Signed(a), Signed(b))))
<1> DEFINE h == 2^(Width - 1)
           Left(v) == IF target = "x86_64" THEN HardwareTrap ELSE Result(v)
<1>1. h \in Nat \ {0} /\ MinInt = -h BY WordFacts DEF MinInt
<1>2. Quot(MinInt, -1) = h /\ Rem(MinInt, -1) = 0
  <2>1. Abs(MinInt) = h /\ Abs(-1) = 1 /\ MinInt < 0 BY RangeIs, AbsType
  <2> HIDE DEF h
  <2>2. h \div 1 = h BY <1>1
  <2>3. Quot(MinInt, -1) = h BY <1>1, <2>1, <2>2 DEF Quot
  <2> QED BY <1>1, <2>3 DEF Rem
<1>3. Wrap(h) = Wrap(MinInt) /\ Wrap(0) = 0
  <2>1. MinInt \in Int /\ h = 2^Width * 1 + MinInt BY <1>1, WordFacts
  <2>2. Wrap(h) = Wrap(MinInt) BY <2>1, WrapSame
  <2>3. Wrap(0) = 0 BY WordFacts DEF Wrap
  <2> QED BY <2>2, <2>3
<1>4. SDiv(a, b) = {Left(Wrap(h))} /\ SRem(a, b) = {Left(0)}
  <2>1. \A n, v : Divide(n, MinInt, -1, v) = {Left(v)} BY DEF Divide
  <2> QED BY <1>3, <2>1 DEF SDiv, SRem
<1>5. \A v : out = Left(v) => IF target = "x86_64" THEN Overflows ELSE Returns(v)
  BY DEF Overflows, Returns, HardwareTrap
<1>6. CASE ArithOp[o] = "IDIV"
  <2>1. out = Left(Wrap(h)) BY <1>4, <1>6, ArithIs
  <2>2. Exact(ArithOp[o], Signed(a), Signed(b)) = h BY <1>2, <1>6, ExactIs
  <2> QED BY <1>5, <2>1, <2>2
<1>7. CASE ArithOp[o] = "IREM"
  <2>1. out = Left(0) BY <1>4, <1>7, ArithIs
  <2>2. Exact(ArithOp[o], Signed(a), Signed(b)) = 0 BY <1>2, <1>7, ExactIs
  <2> QED BY <1>3, <1>5, <2>1, <2>2
<1>8. ArithOp[o] = "IDIV" \/ ArithOp[o] = "IREM" BY ArithOps DEF Division
<1> QED BY <1>6, <1>7, <1>8

LEMMA FloatRounded ==
  ASSUME NEW f \in Float, out \in FPToSI(f), ~NaN(f),
         InRange((Value(f) - 1) \div 2), InRange((Value(f) + 1) \div 2)
  PROVE LET n == Signed(out.v) IN
        Abs(2 * n) <= Abs(Value(f)) /\ Abs(Value(f)) < Abs(2 * n) + 2 /\ n * Value(f) >= 0
<1> DEFINE m == f.mag  q == m \div 2  n == Integral(f)  v == Value(f)
           low == (v - 1) \div 2  high == (v + 1) \div 2
<1>1. /\ n \in Int /\ f.neg \in BOOLEAN /\ m \in Nat
      /\ FPToSI(f) = IF NaN(f) \/ ~InRange(n) THEN Poison ELSE {Result(Wrap(n))}
  BY IntegralType
<1>2. n = (IF f.neg THEN -q ELSE q) /\ v = (IF f.neg THEN -m ELSE m) BY DEF Integral, Value
<1> HIDE DEF m, n, v
<1>3. q \in Int /\ 2 * q <= m /\ m < 2 * q + 2 BY <1>1
<1>4. v \in Int BY <1>1, <1>2
<1>5. low \in Int /\ 2 * low <= v - 1 /\ v - 1 < 2 * low + 2
      /\ high \in Int /\ 2 * high <= v + 1 /\ v + 1 < 2 * high + 2 BY <1>4
<1> DEFINE h == 2^(Width - 1)
<1>6. h \in Nat \ {0} BY WordFacts
<1>7. InRange(low) /\ InRange(high) BY DEF v
<1> HIDE DEF q, low, high
<1>8. InRange(n)
  <2>1. -h <= low /\ low < h /\ -h <= high /\ high < h BY <1>7 DEF InRange, MinInt
  <2>2. InRange(n) <=> -h <= n /\ n < h BY DEF InRange, MinInt
  <2> HIDE DEF h
  <2>3. CASE f.neg BY <1>1, <1>2, <1>3, <1>4, <1>5, <1>6, <2>1, <2>2, <2>3
  <2>4. CASE ~f.neg BY <1>1, <1>2, <1>3, <1>4, <1>5, <1>6, <2>1, <2>2, <2>4
  <2> QED BY <2>3, <2>4
<1>9. Signed(out.v) = n
  <2>1. out = Result(Wrap(n)) BY <1>1, <1>8
  <2>2. out.v = Wrap(n) BY <2>1 DEF Result
  <2> QED BY <1>1, <1>8, <2>2, SignedWrap
<1>10. Abs(2 * n) = 2 * q /\ Abs(v) = m
  <2>1. q \in Nat BY <1>1, <1>3
  <2>2. Abs(v) = m BY <1>1, <1>2 DEF Abs
  <2>3. 2 * n \in Int /\ (2 * n = 2 * q \/ 2 * n = -(2 * q)) /\ 2 * q \in Nat BY <1>1, <1>2, <2>1
  <2>4. Abs(2 * n) = 2 * q
    <3> DEFINE d == 2 * n  e == 2 * q
    <3>1. d \in Int /\ e \in Nat /\ (d = e \/ d = -e) BY <2>3
    <3> HIDE DEF d, e
    <3>2. Abs(d) = e BY <3>1 DEF Abs
    <3> QED BY <3>2 DEF d, e
  <2> QED BY <2>2, <2>4
<1>11. n * v >= 0
  <2>1. q \in Nat BY <1>1, <1>3
  <2>2. q * m \in Nat BY <1>1, <2>1
  <2>3. n * v = q * m
    <3>1. CASE f.neg BY <1>1, <1>2, <2>1, <3>1
    <3>2. CASE ~f.neg BY <1>1, <1>2, <2>1, <3>2
    <3> QED BY <3>1, <3>2
  <2> QED BY <2>2, <2>3
<1>12. Abs(2 * n) <= Abs(v) /\ Abs(v) < Abs(2 * n) + 2 BY <1>1, <1>3, <1>10
<1> QED BY <1>9, <1>11, <1>12 DEF v

(***************************************************************************)
(* For every width, an arith operation returns the exact result when it is *)
(* representable and otherwise does not return, divisions by zero aside;   *)
(* but the least integer by -1, IREM too, traps on x86-64 and returns on   *)
(* AArch64, the quotient wrapped.  A conversion TO_ZERO of a float inside  *)
(* the range of integers returns its integral part.                        *)
(***************************************************************************)
THEOREM ExactArithmetic == Spec => []ArithExact
<1>1. ASSUME PrimsInv PROVE ArithExact
  <2>1. Args /\ (out = NotYet \/ out \in Outcomes) BY <1>1 DEF PrimsInv
  <2>2. Done => out \in Outcomes BY <2>1 DEF Done, NotYet
  <2> DEFINE op == ArithOp[prim.oper]  exact == Exact(op, Signed(x), Signed(y))
  <2>3. ASSUME Is("arith"), op \in Division => y # 0
        PROVE IF op \in Division /\ LeastByMinusOne
              THEN IF target = "x86_64" THEN Overflows ELSE Returns(Wrap(exact))
              ELSE IF InRange(exact) THEN Returns(Wrap(exact)) ELSE Overflows
    <3>1. prim.class = "arith" /\ out \in Outcomes BY <2>2, <2>3 DEF Is
    <3>2. x \in Word /\ y \in Word /\ prim.oper \in 1 .. 5 BY <2>1, <3>1, ClassArgs
    <3>3. out \in Arith(op, x, y) BY <3>1, ClassOutcomes
    <3>4. CASE op \in Division /\ LeastByMinusOne
      <4>1. Signed(x) = MinInt /\ Signed(y) = -1 BY <3>4 DEF LeastByMinusOne
      <4> QED BY <3>2, <3>3, <3>4, <4>1, LeastDivision
    <3>5. CASE ~(op \in Division /\ LeastByMinusOne)
      <4>1. ~(op \in Division /\ (y = 0 \/ (Signed(x) = MinInt /\ Signed(y) = -1)))
        BY <2>3, <3>5 DEF LeastByMinusOne
      <4> QED BY <3>2, <3>3, <3>5, <4>1, ArithExactly
    <3> QED BY <3>4, <3>5
  <2>4. ASSUME Is("float_to_int"), ~NaN(x), InRange((Value(x) - 1) \div 2), InRange((Value(x) + 1) \div 2)
        PROVE LET n == Signed(out.v) IN
              Abs(2 * n) <= Abs(Value(x)) /\ Abs(Value(x)) < Abs(2 * n) + 2 /\ n * Value(x) >= 0
    <3>1. prim.class = "float_to_int" /\ out \in Outcomes BY <2>2, <2>4 DEF Is
    <3>2. x \in Float BY <2>1, <3>1, ClassArgs
    <3>3. out \in FPToSI(x) BY <3>1, ClassOutcomes
    <3> QED BY <2>4, <3>2, <3>3, FloatRounded
  <2> QED BY <2>3, <2>4 DEF ArithExact
<1> QED BY <1>1, PrimsInvariant, PTL

-----------------------------------------------------------------------------
(* The pure operations *)

(* Signed and unsigned operands give the same word. *)
LEMMA ModularIs ==
  ASSUME NEW a \in Word, NEW b \in Word
  PROVE /\ Wrap(a + b) = Wrap(Signed(a) + Signed(b))
        /\ Wrap(a - b) = Wrap(Signed(a) - Signed(b))
        /\ Wrap(a * b) = Wrap(Signed(a) * Signed(b))
<1> DEFINE s == Signed(a)  t == Signed(b)  P == 2^Width
<1>1. a \in Int /\ b \in Int /\ P \in Int BY WordFacts
<1>2. PICK k \in Int : s = P * k + a BY SignedIs
<1>3. PICK l \in Int : t = P * l + b BY SignedIs
<1>4. \A n \in Int, m \in Int : Wrap(P * m + n) = Wrap(n) BY WrapSame
<1> HIDE DEF s, t, P
<1>5. a + b \in Int /\ a - b \in Int /\ a * b \in Int BY <1>1
<1> DEFINE e == k + l  f == k - l  g == k * (P * l) + k * b + l * a
<1>6. e \in Int /\ f \in Int /\ g \in Int
  <2>1. P * l \in Int BY <1>1
  <2>2. k * (P * l) \in Int /\ k * b \in Int /\ l * a \in Int BY <1>1, <2>1
  <2> QED BY <2>2
<1>7. s + t = P * e + (a + b) BY <1>1, <1>2, <1>3
<1>8. s - t = P * f + (a - b) BY <1>1, <1>2, <1>3
<1>9. s * t = P * g + a * b BY <1>1, <1>2, <1>3
<1> HIDE DEF e, f, g
<1>10. Wrap(P * e + (a + b)) = Wrap(a + b) BY <1>4, <1>5, <1>6
<1>11. Wrap(P * f + (a - b)) = Wrap(a - b) BY <1>4, <1>5, <1>6
<1>12. Wrap(P * g + a * b) = Wrap(a * b) BY <1>4, <1>5, <1>6
<1> QED BY <1>7, <1>8, <1>9, <1>10, <1>11, <1>12 DEF s, t

LEMMA UnsignedDivision ==
  ASSUME NEW a \in Word, NEW b \in Word, b # 0
  PROVE /\ b * (a \div b) <= a /\ a < b * (a \div b + 1)
        /\ a % b < b /\ (a - (a % b)) % b = 0
<1> DEFINE q == a \div b  r == a % b
<1>1. a \in Int /\ b \in Nat \ {0} BY WordFacts
<1>2. q \in Int /\ r \in 0 .. b - 1 /\ a = b * q + r BY <1>1, DivMod
<1> HIDE DEF q, r
<1>3. b * (q + 1) = b * q + b /\ b * q \in Int BY <1>1, <1>2, Distributive
<1>4. b * q <= a /\ a < b * (q + 1) /\ r < b /\ a - r = b * q BY <1>1, <1>2, <1>3
<1>5. (b * q) % b = 0 BY <1>1, <1>2, MultipleMod
<1> QED BY <1>4, <1>5 DEF q, r

(***************************************************************************)
(* A pure operation computes modulo the word size, and a shift, rotation   *)
(* or count does what its name says to each bit, for every width.          *)
(***************************************************************************)
THEOREM PureOperations == Spec => []PureRight
<1>1. ASSUME PrimsInv PROVE PureRight
  <2> DEFINE op == PureOp[prim.oper]
  <2>1. Args /\ (out = NotYet \/ out \in Outcomes) BY <1>1 DEF PrimsInv
  <2>2. SUFFICES ASSUME Is("pure") PROVE PureRight BY DEF PureRight
  <2>3. prim.class = "pure" /\ out \in Outcomes BY <2>1, <2>2 DEF Is, Done, NotYet
  <2>4. x \in Word /\ y \in Word /\ y \in Nat BY <2>1, <2>3, ClassArgs, WordFacts
  <2>5. out \in Pure(op, x, y) BY <2>3, ClassOutcomes
  <2> HIDE DEF op
  <2>6. \A v : out = Result(v) => out.v = v BY DEF Result
  <2>7. op \in {"ADD", "SUB", "MUL"} => Returns(Wrap(Exact(op, Signed(x), Signed(y))))
    <3>1. CASE op = "ADD"
      <4>1. out = Result(Wrap(x + y)) BY <2>5, <3>1, PureIs
      <4> QED BY <2>4, <3>1, <4>1, ModularIs, ExactIs DEF Returns
    <3>2. CASE op = "SUB"
      <4>1. out = Result(Wrap(x - y)) BY <2>5, <3>2, PureIs
      <4> QED BY <2>4, <3>2, <4>1, ModularIs, ExactIs DEF Returns
    <3>3. CASE op = "MUL"
      <4>1. out = Result(Wrap(x * y)) BY <2>5, <3>3, PureIs
      <4> QED BY <2>4, <3>3, <4>1, ModularIs, ExactIs DEF Returns
    <3> QED BY <3>1, <3>2, <3>3
  <2>8. op \in {"SDIV", "SREM"} /\ y # 0 /\ ~LeastByMinusOne =>
          Returns(Wrap(Exact(op, Signed(x), Signed(y))))
    <3> SUFFICES ASSUME op \in {"SDIV", "SREM"}, y # 0, ~(Signed(x) = MinInt /\ Signed(y) = -1)
                 PROVE Returns(Wrap(Exact(op, Signed(x), Signed(y)))) BY DEF LeastByMinusOne
    <3>1. CASE op = "SDIV"
      <4>1. out = Result(Wrap(Quot(Signed(x), Signed(y)))) BY <2>4, <2>5, <3>1, PureIs, SDivIs
      <4> QED BY <3>1, <4>1, ExactIs DEF Returns
    <3>2. CASE op = "SREM"
      <4>1. out = Result(Wrap(Rem(Signed(x), Signed(y)))) BY <2>4, <2>5, <3>2, PureIs, SDivIs
      <4> QED BY <3>2, <4>1, ExactIs DEF Returns
    <3> QED BY <3>1, <3>2
  <2>9. op = "UDIV" /\ y # 0 => y * out.v <= x /\ x < y * (out.v + 1)
    <3> SUFFICES ASSUME op = "UDIV", y # 0 PROVE y * out.v <= x /\ x < y * (out.v + 1) OBVIOUS
    <3>1. out.v = x \div y BY <2>5, <2>6, PureIs
    <3> QED BY <2>4, <3>1, UnsignedDivision
  <2>10. op = "UREM" /\ y # 0 => out.v < y /\ (x - out.v) % y = 0
    <3> SUFFICES ASSUME op = "UREM", y # 0 PROVE out.v < y /\ (x - out.v) % y = 0 OBVIOUS
    <3>1. out.v = x % y BY <2>5, <2>6, PureIs
    <3> QED BY <2>4, <3>1, UnsignedDivision
  <2>11. \A v : y < Width /\ out \in Shift(y, v) => out.v = v BY <2>6 DEF Shift
  <2>12. ASSUME NEW i \in 0 .. Width - 1, op = "SHL", y < Width
         PROVE Bit(out.v, i) = IF i - y >= 0 /\ i - y < Width THEN Bit(x, i - y) ELSE 0
    <3>1. out.v = Wrap(x * 2^y) BY <2>5, <2>11, <2>12, PureIs
    <3>2. i - y < Width BY <2>4, WordFacts
    <3> QED BY <2>4, <3>1, <3>2, ShiftLeft
  <2>13. ASSUME NEW i \in 0 .. Width - 1, op = "LSHR", y < Width
         PROVE Bit(out.v, i) = IF i + y >= 0 /\ i + y < Width THEN Bit(x, i + y) ELSE 0
    <3>1. out.v = x \div 2^y BY <2>5, <2>11, <2>13, PureIs
    <3>2. i + y >= 0 BY <2>4
    <3> QED BY <2>4, <3>1, <3>2, ShiftRight
  <2>14. ASSUME NEW i \in 0 .. Width - 1, op = "ASHR", y < Width
         PROVE Bit(out.v, i) = IF i + y < Width THEN Bit(x, i + y) ELSE Bit(x, Width - 1)
    <3>1. out.v = Wrap(Signed(x) \div 2^y) BY <2>5, <2>11, <2>14, PureIs
    <3> QED BY <2>4, <3>1, ShiftSigned
  <2>15. ASSUME NEW i \in 0 .. Width - 1, op = "ROTL" PROVE Bit(out.v, i) = Bit(x, (i - y) % Width)
    <3>1. out.v = Rotated(x, y) BY <2>5, <2>6, <2>15, PureIs
    <3> QED BY <2>4, <3>1, RotatedLeft
  <2>16. ASSUME NEW i \in 0 .. Width - 1, op = "ROTR" PROVE Bit(out.v, i) = Bit(x, (i + y) % Width)
    <3>1. out.v = FShr(x, x, y) BY <2>5, <2>6, <2>16, PureIs
    <3> QED BY <2>4, <3>1, RotatedRight
  <2>17. ASSUME op = "CNTLZ"
         PROVE /\ \A i \in 0 .. Width - 1 : Bit(x, i) = 1 => i + out.v < Width
               /\ out.v < Width => Bit(x, Width - 1 - out.v) = 1
    <3>1. out.v = Cardinality({i \in 0 .. Width - 1 : x < 2^i}) BY <2>5, <2>6, <2>17, PureIs
    <3> QED BY <2>4, <3>1, LeadingZeros
  <2>18. ASSUME op = "CNTTZ"
         PROVE /\ \A i \in 0 .. Width - 1 : Bit(x, i) = 1 => i >= out.v
               /\ out.v < Width => Bit(x, out.v) = 1
    <3>1. out.v = Cardinality({i \in 1 .. Width : x % 2^i = 0}) BY <2>5, <2>6, <2>18, PureIs
    <3> QED BY <2>4, <3>1, TrailingZeros
  <2> QED BY <2>7, <2>8, <2>9, <2>10, <2>12, <2>13, <2>14, <2>15, <2>16, <2>17, <2>18
          DEF PureRight, op
<1> QED BY <1>1, PrimsInvariant, PTL

-----------------------------------------------------------------------------
(* Branches *)

(* The two operands of a comparison, as the numbers that they stand for *)
LEMMA CmpRight ==
  ASSUME NEW a \in Word, NEW b \in Word, NEW o \in 1 .. 6, NEW signed \in BOOLEAN,
         NEW v, v = (IF signed THEN Signed(a) ELSE a),
         NEW u, u = (IF signed THEN Signed(b) ELSE b),
         out \in Truth(Cmp(o, signed, a, b))
  PROVE Returns(1) <=> \/ CmpOp[o] \in {"LT", "LTE", "NEQ"} /\ v < u
                       \/ CmpOp[o] \in {"GTE", "LTE", "EQL"} /\ v = u
                       \/ CmpOp[o] \in {"GT", "GTE", "NEQ"} /\ v > u
<1> DEFINE c == Cmp(o, signed, a, b)  op == CmpOp[o]
<1>1. v \in Int /\ u \in Int /\ (a = b <=> v = u)
  <2>1. a \in Int /\ b \in Int BY WordFacts
  <2>2. Signed(a) \in Int /\ Signed(b) \in Int /\ Wrap(Signed(a)) = a /\ Wrap(Signed(b)) = b
    BY SignedIs
  <2> QED BY <2>1, <2>2
<1>2. /\ o = 1 => (c <=> v > u) /\ op = "GT"
      /\ o = 2 => (c <=> v >= u) /\ op = "GTE"
      /\ o = 3 => (c <=> v < u) /\ op = "LT"
      /\ o = 4 => (c <=> v <= u) /\ op = "LTE"
      /\ o = 5 => (c <=> a = b) /\ op = "EQL"
      /\ o = 6 => (c <=> a # b) /\ op = "NEQ"
  <2> DEFINE p == ICmpMap[CmpIndex(o, signed) + 1]
  <2>1. Cmp(o, signed, a, b) = ICmp(p, a, b) BY DEF Cmp
  <2>2. /\ o = 1 => p = (IF signed THEN "SGT" ELSE "UGT") /\ CmpOp[o] = "GT"
        /\ o = 2 => p = (IF signed THEN "SGE" ELSE "UGE") /\ CmpOp[o] = "GTE"
        /\ o = 3 => p = (IF signed THEN "SLT" ELSE "ULT") /\ CmpOp[o] = "LT"
        /\ o = 4 => p = (IF signed THEN "SLE" ELSE "ULE") /\ CmpOp[o] = "LTE"
        /\ o = 5 => p = "EQ" /\ CmpOp[o] = "EQL"
        /\ o = 6 => p = "NE" /\ CmpOp[o] = "NEQ"
    <3>1. CmpIndex(o, signed) + 1 = IF signed THEN 2 * o - 1 ELSE 2 * o BY DEF CmpIndex
    <3>2. o = 1 \/ o = 2 \/ o = 3 \/ o = 4 \/ o = 5 \/ o = 6 OBVIOUS
    <3>3. CASE signed
      <4> DEFINE j == CmpIndex(o, signed) + 1
      <4>0. j = 2 * o - 1 BY <3>1, <3>3
      <4> HIDE DEF j
      <4>1. /\ (o = 1 => j = 1) /\ (o = 2 => j = 3) /\ (o = 3 => j = 5)
            /\ (o = 4 => j = 7) /\ (o = 5 => j = 9) /\ (o = 6 => j = 11)
        BY <4>0
      <4>2. ICmpMap[1] = "SGT" /\ ICmpMap[3] = "SGE" /\ ICmpMap[5] = "SLT" /\ ICmpMap[7] = "SLE"
            /\ ICmpMap[9] = "EQ" /\ ICmpMap[11] = "NE" BY DEF ICmpMap
      <4>3. /\ CmpOp[1] = "GT" /\ CmpOp[2] = "GTE" /\ CmpOp[3] = "LT" /\ CmpOp[4] = "LTE"
            /\ CmpOp[5] = "EQL" /\ CmpOp[6] = "NEQ" BY DEF CmpOp
      <4> QED BY <3>2, <3>3, <4>1, <4>2, <4>3 DEF j
    <3>4. CASE ~signed BY <3>1, <3>2, <3>4 DEF ICmpMap, CmpOp
    <3> QED BY <3>3, <3>4
  <2>3. /\ (ICmp("SGT", a, b) <=> Signed(a) > Signed(b)) /\ (ICmp("UGT", a, b) <=> a > b)
        /\ (ICmp("SGE", a, b) <=> Signed(a) >= Signed(b)) /\ (ICmp("UGE", a, b) <=> a >= b)
        /\ (ICmp("SLT", a, b) <=> Signed(a) < Signed(b)) /\ (ICmp("ULT", a, b) <=> a < b)
        /\ (ICmp("SLE", a, b) <=> Signed(a) <= Signed(b)) /\ (ICmp("ULE", a, b) <=> a <= b)
        /\ (ICmp("EQ", a, b) <=> a = b) /\ (ICmp("NE", a, b) <=> a # b)
    BY DEF ICmp
  <2> HIDE DEF p
  <2> QED BY <2>1, <2>2, <2>3 DEF c, op
<1>3. o = 1 \/ o = 2 \/ o = 3 \/ o = 4 \/ o = 5 \/ o = 6 OBVIOUS
<1>4. out \in Truth(c) OBVIOUS
<1> HIDE DEF c, op
<1>6. Returns(1) <=> c BY <1>4, TruthReturns
<1>7. c <=> \/ op \in {"LT", "LTE", "NEQ"} /\ v < u
            \/ op \in {"GTE", "LTE", "EQL"} /\ v = u
            \/ op \in {"GT", "GTE", "NEQ"} /\ v > u
  <2>1. CASE o = 1 BY <1>1, <1>2, <2>1
  <2>2. CASE o = 2 BY <1>1, <1>2, <2>2
  <2>3. CASE o = 3 BY <1>1, <1>2, <2>3
  <2>4. CASE o = 4 BY <1>1, <1>2, <2>4
  <2>5. CASE o = 5 BY <1>1, <1>2, <2>5
  <2>6. CASE o = 6 BY <1>1, <1>2, <2>6
  <2> QED BY <1>3, <2>1, <2>2, <2>3, <2>4, <2>5, <2>6
<1> QED BY <1>6, <1>7 DEF op

LEMMA FCmpIs ==
  ASSUME NEW o \in 1 .. 14
  PROVE /\ o # 3 => FCmpTrue[FCmpMap[o]] = Predicate[o]
        /\ FCmpOp[3] = "F_UN"
<1>1. CASE o = 1
  <2>1. FCmpMap[o] = "OEQ" BY <1>1 DEF FCmpMap
  <2>2. FCmpTrue["OEQ"] = Predicate[o] BY <1>1 DEF FCmpTrue, Predicate
  <2> QED BY <2>1, <2>2 DEF FCmpOp
<1>2. CASE o = 2
  <2>1. FCmpMap[o] = "UNE" BY <1>2 DEF FCmpMap
  <2>2. FCmpTrue["UNE"] = Predicate[o] BY <1>2 DEF FCmpTrue, Predicate
  <2> QED BY <2>1, <2>2 DEF FCmpOp
<1>3. CASE o = 4
  <2>1. FCmpMap[o] = "ORD" BY <1>3 DEF FCmpMap
  <2>2. FCmpTrue["ORD"] = Predicate[o] BY <1>3 DEF FCmpTrue, Predicate
  <2> QED BY <2>1, <2>2 DEF FCmpOp
<1>4. CASE o = 5
  <2>1. FCmpMap[o] = "OGT" BY <1>4 DEF FCmpMap
  <2>2. FCmpTrue["OGT"] = Predicate[o] BY <1>4 DEF FCmpTrue, Predicate
  <2> QED BY <2>1, <2>2 DEF FCmpOp
<1>5. CASE o = 6
  <2>1. FCmpMap[o] = "OGE" BY <1>5 DEF FCmpMap
  <2>2. FCmpTrue["OGE"] = Predicate[o] BY <1>5 DEF FCmpTrue, Predicate
  <2> QED BY <2>1, <2>2 DEF FCmpOp
<1>6. CASE o = 7
  <2>1. FCmpMap[o] = "UGT" BY <1>6 DEF FCmpMap
  <2>2. FCmpTrue["UGT"] = Predicate[o] BY <1>6 DEF FCmpTrue, Predicate
  <2> QED BY <2>1, <2>2 DEF FCmpOp
<1>7. CASE o = 8
  <2>1. FCmpMap[o] = "UGE" BY <1>7 DEF FCmpMap
  <2>2. FCmpTrue["UGE"] = Predicate[o] BY <1>7 DEF FCmpTrue, Predicate
  <2> QED BY <2>1, <2>2 DEF FCmpOp
<1>8. CASE o = 9
  <2>1. FCmpMap[o] = "OLT" BY <1>8 DEF FCmpMap
  <2>2. FCmpTrue["OLT"] = Predicate[o] BY <1>8 DEF FCmpTrue, Predicate
  <2> QED BY <2>1, <2>2 DEF FCmpOp
<1>9. CASE o = 10
  <2>1. FCmpMap[o] = "OLE" BY <1>9 DEF FCmpMap
  <2>2. FCmpTrue["OLE"] = Predicate[o] BY <1>9 DEF FCmpTrue, Predicate
  <2> QED BY <2>1, <2>2 DEF FCmpOp
<1>10. CASE o = 11
  <2>1. FCmpMap[o] = "ULT" BY <1>10 DEF FCmpMap
  <2>2. FCmpTrue["ULT"] = Predicate[o] BY <1>10 DEF FCmpTrue, Predicate
  <2> QED BY <2>1, <2>2 DEF FCmpOp
<1>11. CASE o = 12
  <2>1. FCmpMap[o] = "ULE" BY <1>11 DEF FCmpMap
  <2>2. FCmpTrue["ULE"] = Predicate[o] BY <1>11 DEF FCmpTrue, Predicate
  <2> QED BY <2>1, <2>2 DEF FCmpOp
<1>12. CASE o = 13
  <2>1. FCmpMap[o] = "ONE" BY <1>12 DEF FCmpMap
  <2>2. FCmpTrue["ONE"] = Predicate[o] BY <1>12 DEF FCmpTrue, Predicate
  <2> QED BY <2>1, <2>2 DEF FCmpOp
<1>13. CASE o = 14
  <2>1. FCmpMap[o] = "UEQ" BY <1>13 DEF FCmpMap
  <2>2. FCmpTrue["UEQ"] = Predicate[o] BY <1>13 DEF FCmpTrue, Predicate
  <2> QED BY <2>1, <2>2 DEF FCmpOp
<1>14. CASE o = 3 BY <1>14 DEF FCmpOp
<1> QED BY <1>1, <1>2, <1>3, <1>4, <1>5, <1>6, <1>7, <1>8, <1>9, <1>10, <1>11, <1>12, <1>13, <1>14

(***************************************************************************)
(* A branch is taken when its relation holds, for words of every width,    *)
(* and floats: the table of fcmp has the IEEE predicate of each operation  *)
(* but F_UN.                                                               *)
(***************************************************************************)
THEOREM BranchesRight == Spec => []BranchRight
<1>1. ASSUME PrimsInv PROVE BranchRight
  <2>1. Args /\ (out = NotYet \/ out \in Outcomes) BY <1>1 DEF PrimsInv
  <2>2. Done => out \in Outcomes BY <2>1 DEF Done, NotYet
  <2>3. ASSUME Is("cmp")
        PROVE LET V(w) == IF prim.signed THEN Signed(w) ELSE w
                  op == CmpOp[prim.oper]
                  less == op \in {"LT", "LTE", "NEQ"}
                  equal == op \in {"GTE", "LTE", "EQL"}
                  greater == op \in {"GT", "GTE", "NEQ"}
              IN Returns(1) <=> \/ less /\ V(x) < V(y)
                                \/ equal /\ V(x) = V(y)
                                \/ greater /\ V(x) > V(y)
    <3>1. prim.class = "cmp" /\ out \in Outcomes BY <2>2, <2>3 DEF Is
    <3>2. prim.oper \in 1 .. 6 /\ prim.signed \in BOOLEAN /\ x \in Word /\ y \in Word
      BY <2>1, <3>1, ClassArgs
    <3>3. out \in Truth(Cmp(prim.oper, prim.signed, x, y)) BY <3>1, ClassOutcomes
    <3> DEFINE V(w) == IF prim.signed THEN Signed(w) ELSE w
               o == prim.oper
    <3>4. Returns(1) <=> \/ CmpOp[o] \in {"LT", "LTE", "NEQ"} /\ V(x) < V(y)
                         \/ CmpOp[o] \in {"GTE", "LTE", "EQL"} /\ V(x) = V(y)
                         \/ CmpOp[o] \in {"GT", "GTE", "NEQ"} /\ V(x) > V(y)
      <4> DEFINE v == V(x)  u == V(y)  s == prim.signed
      <4>1. v = (IF s THEN Signed(x) ELSE x) /\ u = (IF s THEN Signed(y) ELSE y) OBVIOUS
      <4>2. o \in 1 .. 6 /\ s \in BOOLEAN /\ out \in Truth(Cmp(o, s, x, y)) BY <3>2, <3>3
      <4> HIDE DEF v, u, o, s
      <4>3. Returns(1) <=> \/ CmpOp[o] \in {"LT", "LTE", "NEQ"} /\ v < u
                           \/ CmpOp[o] \in {"GTE", "LTE", "EQL"} /\ v = u
                           \/ CmpOp[o] \in {"GT", "GTE", "NEQ"} /\ v > u
        BY <3>2, <4>1, <4>2, CmpRight
      <4> QED BY <4>3 DEF v, u
    <3> QED BY <3>4
  <2>4. ASSUME Is("fcmp"), FCmpOp[prim.oper] # "F_UN" PROVE FCmpRight
    <3>1. prim.class = "fcmp" /\ out \in Outcomes BY <2>2, <2>4 DEF Is
    <3>2. prim.oper \in 1 .. 14 BY <2>1, <3>1, ClassArgs
    <3>3. out \in Truth(FCmp(prim.oper, x, y)) BY <3>1, ClassOutcomes
    <3>4. prim.oper # 3 BY <2>4, <3>2, FCmpIs
    <3>5. FCmp(prim.oper, x, y) = (Relation(x, y) \in Predicate[prim.oper])
      BY <3>2, <3>4, FCmpIs DEF FCmp
    <3> DEFINE b == Relation(x, y) \in Predicate[prim.oper]
    <3>6. out \in Truth(b) BY <3>3, <3>5
    <3>7. b \in BOOLEAN OBVIOUS
    <3> HIDE DEF b
    <3>8. Returns(1) <=> b BY <3>6, <3>7, TruthReturns
    <3> QED BY <3>8 DEF FCmpRight, b
  <2>5. ASSUME Is("fsgn"), ~NaN(x), x.mag > 0 PROVE Returns(1) <=> Value(x) < 0
    <3>1. prim.class = "fsgn" /\ out \in Outcomes BY <2>2, <2>5 DEF Is
    <3>2. x.neg \in BOOLEAN /\ x.mag \in Nat BY <2>1, <3>1, ClassArgs, IntegralType
    <3>3. out \in Truth(x.neg) BY <3>1, ClassOutcomes DEF FSgn
    <3>4. Returns(1) <=> x.neg BY <3>2, <3>3, TruthReturns
    <3>5. x.neg <=> Value(x) < 0 BY <2>5, <3>2 DEF Value
    <3> QED BY <3>4, <3>5
  <2> QED BY <2>3, <2>4, <2>5 DEF BranchRight
<1> QED BY <1>1, PrimsInvariant, PTL
=============================================================================
