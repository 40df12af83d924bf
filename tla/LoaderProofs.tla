----------------------------- MODULE LoaderProofs -----------------------------
(***************************************************************************)
(* Proofs about the loader, for all objects, all addresses that new[] may  *)
(* return and every order in which RuntimeDyld meets sections and          *)
(* relocations.                                                            *)
(*                                                                         *)
(* The properties follow from one inductive invariant, LInv.  The heart of *)
(* it is Measured: what has been handed out of a kind is at most the sum   *)
(* of the sizes, rounded up, of the sections that were placed, which is at *)
(* most the sum that the space was reserved for.  It is kept because the   *)
(* alignment that a section is placed at divides the one its kind was      *)
(* measured with (EmitAlignDivides), or it is the only one of its kind.    *)
(* What the loops over sections sum up is related to their elements by     *)
(* induction on the number of sections (the lemmas on Total).              *)
(***************************************************************************)
EXTENDS Loader, WellFoundedInduction, SequenceTheorems, TLAPS

-----------------------------------------------------------------------------
(* Facts about numbers. *)

(* The order of the naturals is well-founded. *)
LEMMA LessIsWellFounded == IsWellFoundedOn({ss \in Nat \X Nat : ss[1] < ss[2]}, Nat)
BY NatLessThanWellFounded DEF OpToRel

(* Each nonempty set of naturals has a least element. *)
LEMMA LeastNat ==
  ASSUME NEW T \in SUBSET Nat, T # {}
  PROVE \E x \in T : \A y \in T : x <= y
<1> DEFINE R == {ss \in Nat \X Nat : ss[1] < ss[2]}
<1>1. \E x \in T : \A y \in T : ~ (<<y, x>> \in R)
  <2>1. IsWellFoundedOn(R, Nat) BY LessIsWellFounded
  <2> HIDE DEF R
  <2> QED BY <2>1, WFMin
<1>2. PICK x \in T : \A y \in T : ~ (<<y, x>> \in R) BY <1>1
<1>3. ASSUME NEW y \in T PROVE x <= y
  <2>1. <<y, x>> \in Nat \X Nat OBVIOUS
  <2>2. ~ (<<y, x>> \in R) BY <1>2
  <2> QED BY <2>1, <2>2
<1> QED BY <1>3

(* A set that has 0, and with each number the next one, has all of them. *)
LEMMA SetInduction ==
  ASSUME NEW T, 0 \in T, \A n \in Nat : n \in T => n + 1 \in T
  PROVE Nat \subseteq T
<1> DEFINE C == {n \in Nat : n \notin T}
<1> SUFFICES ASSUME C # {} PROVE FALSE OBVIOUS
<1>1. PICK x \in C : \A y \in C : x <= y BY LeastNat
<1>2. x # 0 OBVIOUS
<1>3. x - 1 \in Nat /\ x - 1 \notin C BY <1>1, <1>2
<1> QED BY <1>3

(* Quotient and remainder determine a number. *)
LEMMA DivMod ==
  ASSUME NEW n \in Nat \ {0}, NEW x \in Int
  PROVE x \div n \in Int /\ x % n \in 0 .. n - 1 /\ x = n * (x \div n) + (x % n)
OBVIOUS

(* The multiples of a number leave no remainder, and only they. *)
LEMMA MultipleMod ==
  ASSUME NEW n \in Nat \ {0}, NEW k \in Int
  PROVE (n * k) % n = 0 /\ (n * k) \div n = k
OBVIOUS

LEMMA MultipleIs ==
  ASSUME NEW n \in Nat \ {0}, NEW x \in Int, x % n = 0
  PROVE x \div n \in Int /\ x = n * (x \div n)
BY DivMod

LEMMA Distributive ==
  ASSUME NEW n \in Int, NEW k \in Int, NEW l \in Int
  PROVE /\ n * (k + l) = n * k + n * l /\ n * (k - l) = n * k - n * l
        /\ n * (k + 1) = n * k + n /\ n * (k - 1) = n * k - n
OBVIOUS

LEMMA TimesMonotone ==
  ASSUME NEW n \in Nat, NEW k \in Int, NEW l \in Int, k <= l
  PROVE n * k <= n * l
OBVIOUS

LEMMA TimesNat ==
  ASSUME NEW n \in Nat, NEW k \in Nat
  PROVE n * k \in Nat
OBVIOUS

(* Sums and differences of multiples are multiples. *)
LEMMA MultipleSum ==
  ASSUME NEW n \in Nat \ {0}, NEW x \in Int, NEW y \in Int, x % n = 0, y % n = 0
  PROVE (x + y) % n = 0 /\ (x - y) % n = 0
<1> DEFINE k == x \div n  l == y \div n
<1>1. k \in Int /\ l \in Int /\ x = n * k /\ y = n * l BY MultipleIs
<1> HIDE DEF k, l
<1>2. x + y = n * (k + l) /\ x - y = n * (k - l) BY <1>1, Distributive
<1>3. k + l \in Int /\ k - l \in Int BY <1>1
<1>4. (n * (k + l)) % n = 0 /\ (n * (k - l)) % n = 0 BY <1>3, MultipleMod
<1> QED BY <1>2, <1>4

(* Multiples of a multiple are multiples. *)
LEMMA MultipleTransitive ==
  ASSUME NEW m \in Nat \ {0}, NEW n \in Nat \ {0}, NEW x \in Int, x % n = 0, n % m = 0
  PROVE x % m = 0
<1> DEFINE k == x \div n  l == n \div m
<1>1. k \in Int /\ l \in Int /\ x = n * k /\ n = m * l BY MultipleIs
<1> HIDE DEF k, l
<1>2. x = m * (l * k) /\ l * k \in Int BY <1>1
<1> QED BY <1>2, MultipleMod

(* A multiple below another one is at least one step below it. *)
LEMMA MultipleBelow ==
  ASSUME NEW n \in Nat \ {0}, NEW x \in Int, NEW y \in Int, x % n = 0, y % n = 0, x < y
  PROVE x + n <= y
<1> DEFINE k == x \div n  l == y \div n
<1>1. k \in Int /\ l \in Int /\ x = n * k /\ y = n * l BY MultipleIs
<1> HIDE DEF k, l
<1>2. ASSUME l <= k PROVE FALSE BY <1>1, <1>2, TimesMonotone
<1>3. n * (k + 1) <= n * l BY <1>1, <1>2, TimesMonotone
<1> QED BY <1>1, <1>3, Distributive

(* Rounding up gives the next multiple. *)
LEMMA RoundUp ==
  ASSUME NEW n \in Nat \ {0}, NEW x \in Int
  PROVE LET r == ((x + n - 1) \div n) * n
        IN r \in Int /\ r % n = 0 /\ x <= r /\ r < x + n /\ (x % n = 0 => r = x)
<1> DEFINE y == x + n - 1  q == y \div n  r == q * n
<1>1. q \in Int /\ y % n \in 0 .. n - 1 /\ y = n * q + (y % n)
  <2>1. y \in Int OBVIOUS
  <2> HIDE DEF y
  <2> QED BY <2>1, DivMod
<1>2. r = n * q /\ r \in Int BY <1>1
<1>3. r % n = 0 BY <1>1, <1>2, MultipleMod
<1> HIDE DEF q, r
<1>4. x <= r /\ r < x + n BY <1>1, <1>2
<1>5. ASSUME x % n = 0 PROVE r = x
  <2> DEFINE k == x \div n
  <2>1. k \in Int /\ x = n * k BY <1>5, MultipleIs
  <2> HIDE DEF k
  <2>2. n * k <= n * q /\ n * q < n * k + n BY <1>2, <1>4, <2>1
  <2>3. q = k
    <3>1. ASSUME q >= k + 1 PROVE FALSE
      <4>1. n * (k + 1) <= n * q BY <1>1, <2>1, <3>1, TimesMonotone
      <4> QED BY <1>1, <2>1, <2>2, <4>1
    <3>2. ASSUME q <= k - 1 PROVE FALSE
      <4>1. n * q <= n * (k - 1) BY <1>1, <2>1, <3>2, TimesMonotone
      <4> QED BY <1>1, <2>1, <2>2, <4>1
    <3> QED BY <1>1, <2>1, <3>1, <3>2
  <2> QED BY <1>2, <2>1, <2>3
<1> QED BY <1>2, <1>3, <1>4, <1>5 DEF r, q

(* It is the least multiple that is not below. *)
LEMMA RoundUpLeast ==
  ASSUME NEW n \in Nat \ {0}, NEW x \in Int, NEW m \in Int, x <= m, m % n = 0
  PROVE ((x + n - 1) \div n) * n <= m
<1> DEFINE r == ((x + n - 1) \div n) * n
<1>1. r \in Int /\ r % n = 0 /\ r < x + n BY RoundUp
<1> HIDE DEF r
<1>2. ASSUME m < r PROVE FALSE
  <2>1. m + n <= r BY <1>1, <1>2, MultipleBelow
  <2> QED BY <1>1, <2>1
<1>3. r <= m BY <1>1, <1>2
<1> QED BY <1>3 DEF r

(* A nonempty set of naturals with an upper bound has a greatest element. *)
LEMMA GreatestNat ==
  ASSUME NEW T \in SUBSET Nat, T # {}, NEW b \in Nat, \A y \in T : y <= b
  PROVE \E x \in T : \A y \in T : x >= y
<1> DEFINE U == {u \in Nat : \A y \in T : y <= u}
<1>1. b \in U /\ U \in SUBSET Nat OBVIOUS
<1>2. PICK u \in U : \A v \in U : u <= v BY <1>1, LeastNat
<1>3. CASE u \in T BY <1>2, <1>3
<1>4. CASE u \notin T
  <2>1. \A y \in T : y < u BY <1>2, <1>4
  <2>2. u # 0
    <3>1. PICK y \in T : TRUE OBVIOUS
    <3> QED BY <2>1, <3>1
  <2>3. u - 1 \in U BY <1>2, <2>1, <2>2
  <2> QED BY <1>2, <2>3
<1> QED BY <1>3, <1>4

-----------------------------------------------------------------------------
(* Rounding a size up. *)
LEMMA AlignByIs ==
  ASSUME NEW x \in Nat, NEW n \in Nat \ {0}
  PROVE /\ AlignBy(x, n) \in Nat /\ AlignBy(x, n) % n = 0 /\ x <= AlignBy(x, n)
        /\ x % n = 0 => AlignBy(x, n) = x
<1> DEFINE r == ((x + n - 1) \div n) * n
<1>1. x \in Int OBVIOUS
<1>2. r \in Int /\ r % n = 0 /\ x <= r /\ (x % n = 0 => r = x) BY <1>1, RoundUp
<1>3. AlignBy(x, n) = r BY DEF AlignBy
<1> HIDE DEF r
<1> QED BY <1>2, <1>3

(* No multiple in between is skipped. *)
LEMMA AlignByLeast ==
  ASSUME NEW x \in Nat, NEW n \in Nat \ {0}, NEW m \in Nat, x <= m, m % n = 0
  PROVE AlignBy(x, n) <= m
<1> DEFINE r == ((x + n - 1) \div n) * n
<1>1. x \in Int /\ m \in Int OBVIOUS
<1>2. r <= m BY <1>1, RoundUpLeast
<1>3. AlignBy(x, n) = r BY DEF AlignBy
<1> HIDE DEF r
<1> QED BY <1>2, <1>3

(* Alignments are numbers, and of two of them one is a multiple of the other. *)
LEMMA AlignmentIs == Alignment \subseteq Nat \ {0} /\ \A a \in Alignment : a <= BaseAlign
BY DEF Alignment, BaseAlign

(* Of two powers of two the smaller divides the larger. *)
LEMMA AlignmentDivides ==
  ASSUME NEW a \in Alignment, NEW b \in Alignment, a <= b
  PROVE b % a = 0
<1>1. CASE a \in {1, 2, 4, 8} BY <1>1 DEF Alignment, BaseAlign
<1>2. CASE a \in {16, 32, 64, 128} BY <1>2 DEF Alignment, BaseAlign
<1>3. CASE a \in {256, 512, 1024, 2048, BaseAlign} BY <1>3 DEF Alignment, BaseAlign
<1> QED BY <1>1, <1>2, <1>3 DEF Alignment

(* Rounding up to more takes no less. *)
LEMMA LargerAlignment ==
  ASSUME NEW x \in Nat, NEW a \in Alignment, NEW b \in Alignment, b % a = 0
  PROVE AlignBy(x, a) <= AlignBy(x, b)
<1>1. a \in Nat \ {0} /\ b \in Nat \ {0} BY AlignmentIs
<1>2. AlignBy(x, b) \in Nat /\ AlignBy(x, b) % b = 0 /\ x <= AlignBy(x, b) BY <1>1, AlignByIs
<1>3. AlignBy(x, b) % a = 0 BY <1>1, <1>2, MultipleTransitive
<1> QED BY <1>1, <1>2, <1>3, AlignByLeast

-----------------------------------------------------------------------------
(* What Max returns *)
LEMMA MaxIs ==
  ASSUME NEW S \in SUBSET Nat, S # {}, NEW b \in Nat, \A y \in S : y <= b
  PROVE Max(S) \in S /\ \A y \in S : Max(S) >= y
<1>1. \E x \in S : \A y \in S : x >= y BY GreatestNat
<1> QED BY <1>1 DEF Max

(* The larger of two numbers *)
LEMMA MaxOfTwo ==
  ASSUME NEW x \in Nat, NEW y \in Nat
  PROVE Max({x, y}) \in {x, y} /\ Max({x, y}) >= x /\ Max({x, y}) >= y
BY DEF Max

(* The largest of some alignments is a multiple of them all. *)
LEMMA MaxAlignment ==
  ASSUME NEW S \in SUBSET Alignment, S # {}
  PROVE Max(S) \in Alignment /\ Max(S) \in S /\ \A a \in S : Max(S) >= a /\ Max(S) % a = 0
<1>1. S \in SUBSET Nat /\ \A y \in S : y <= BaseAlign BY AlignmentIs
<1>2. BaseAlign \in Nat BY DEF BaseAlign
<1>3. Max(S) \in S /\ \A y \in S : Max(S) >= y BY <1>1, <1>2, MaxIs
<1> QED BY <1>3, <1>1, AlignmentDivides

-----------------------------------------------------------------------------
(* Sums are computed section after section. *)
LEMMA TotalExists ==
  ASSUME NEW f \in Seq(Nat)
  PROVE \E g : /\ g = [i \in 0 .. Len(f) |-> IF i = 0 THEN 0 ELSE g[i - 1] + f[i]]
               /\ \A i \in 0 .. Len(f) : g[i] \in Nat
<1> DEFINE Next1(g, i) == IF i = 0 THEN 0 ELSE g[i - 1] + f[i]
           Upto(n) == \E g \in [0 .. n -> Nat] : \A i \in 0 .. n : g[i] = Next1(g, i)
           T == {n \in Nat : n <= Len(f) => Upto(n)}
<1>1. 0 \in T
  <2> DEFINE g == [i \in 0 .. 0 |-> 0]
  <2>1. g \in [0 .. 0 -> Nat] /\ \A i \in 0 .. 0 : g[i] = Next1(g, i) OBVIOUS
  <2> QED BY <2>1
<1>2. ASSUME NEW n \in Nat, n \in T PROVE n + 1 \in T
  <2> SUFFICES ASSUME n + 1 <= Len(f) PROVE Upto(n + 1) OBVIOUS
  <2>0. n <= Len(f) OBVIOUS
  <2>3. Upto(n)
    <3> HIDE DEF Upto
    <3> QED BY <1>2, <2>0
  <2>1. PICK g \in [0 .. n -> Nat] : \A i \in 0 .. n : g[i] = Next1(g, i) BY <2>3
  <2>2. f[n + 1] \in Nat OBVIOUS
  <2> DEFINE h == [i \in 0 .. n + 1 |-> IF i <= n THEN g[i] ELSE g[n] + f[n + 1]]
  <2>5. h \in [0 .. n + 1 -> Nat] BY <2>1, <2>2
  <2>4. ASSUME NEW i \in 0 .. n + 1 PROVE h[i] = Next1(h, i)
    <3>1. CASE i = n + 1 BY <3>1, <2>1
    <3>2. CASE i <= n BY <3>2, <2>1
    <3> QED BY <3>1, <3>2
  <2> QED BY <2>4, <2>5
<1>3. Len(f) \in T
  <2> HIDE DEF T
  <2> QED BY <1>1, <1>2, SetInduction
<1>4. PICK g \in [0 .. Len(f) -> Nat] : \A i \in 0 .. Len(f) : g[i] = Next1(g, i) BY <1>3
<1>5. g = [i \in 0 .. Len(f) |-> IF i = 0 THEN 0 ELSE g[i - 1] + f[i]] BY <1>4
<1> QED BY <1>4, <1>5

(* What Total returns: the last of the partial sums *)
LEMMA TotalIs ==
  ASSUME NEW f \in Seq(Nat)
  PROVE \E g \in [0 .. Len(f) -> Nat] :
          g[0] = 0 /\ Total(f) = g[Len(f)] /\ \A i \in 1 .. Len(f) : g[i] = g[i - 1] + f[i]
<1> DEFINE F(g) == [i \in 0 .. Len(f) |-> IF i = 0 THEN 0 ELSE g[i - 1] + f[i]]
           s == CHOOSE g : g = F(g)
<1>1. \E g : g = F(g) /\ \A i \in 0 .. Len(f) : g[i] \in Nat BY TotalExists
<1>2. s = F(s) BY <1>1
<1>3. Total(f) = s[Len(f)] BY DEF Total
<1> HIDE DEF s
<1> DEFINE T == {n \in Nat : n <= Len(f) => s[n] \in Nat}
<1>4. 0 \in T BY <1>2
<1>5. ASSUME NEW n \in Nat, n \in T PROVE n + 1 \in T
  <2> SUFFICES ASSUME n + 1 <= Len(f) PROVE s[n + 1] \in Nat OBVIOUS
  <2>1. n + 1 \in 0 .. Len(f) /\ f[n + 1] \in Nat /\ s[n] \in Nat BY <1>5
  <2>2. s[n + 1] = s[n] + f[n + 1] BY <1>2, <2>1
  <2> QED BY <2>1, <2>2
<1>6. \A n \in 0 .. Len(f) : s[n] \in Nat
  <2>1. Nat \subseteq T
    <3> HIDE DEF T
    <3> QED BY <1>4, <1>5, SetInduction
  <2> QED BY <2>1
<1>7. s \in [0 .. Len(f) -> Nat] BY <1>2, <1>6
<1>8. s[0] = 0 /\ \A i \in 1 .. Len(f) : s[i] = s[i - 1] + f[i] BY <1>2
<1> QED BY <1>3, <1>7, <1>8

(* The sum of sizes is a size. *)
LEMMA TotalNat ==
  ASSUME NEW f \in Seq(Nat)
  PROVE Total(f) \in Nat
BY TotalIs

LEMMA ElementsNat ==
  ASSUME NEW f \in Seq(Nat)
  PROVE  \A i \in 1 .. Len(f) : f[i] \in Nat
OBVIOUS

(* Adding to one element, or to all of them *)
LEMMA TotalChange ==
  ASSUME NEW f \in Seq(Nat), NEW h \in Seq(Nat), Len(f) = Len(h), NEW j \in 1 .. Len(f),
         \A i \in 1 .. Len(f) : i # j => h[i] = f[i]
  PROVE Total(h) + f[j] = Total(f) + h[j]
<1>1. PICK g \in [0 .. Len(f) -> Nat] :
        g[0] = 0 /\ Total(f) = g[Len(f)] /\ \A i \in 1 .. Len(f) : g[i] = g[i - 1] + f[i]
  BY TotalIs
<1>8. \E e \in [0 .. Len(h) -> Nat] :
        e[0] = 0 /\ Total(h) = e[Len(h)] /\ \A i \in 1 .. Len(h) : e[i] = e[i - 1] + h[i]
  BY TotalIs
<1>2. PICK e \in [0 .. Len(f) -> Nat] :
        e[0] = 0 /\ Total(h) = e[Len(f)] /\ \A i \in 1 .. Len(f) : e[i] = e[i - 1] + h[i]
  BY <1>8
<1>9. \A i \in 1 .. Len(f) : f[i] \in Nat /\ h[i] \in Nat
  <2>1. (\A i \in 1 .. Len(f) : f[i] \in Nat) /\ \A i \in 1 .. Len(h) : h[i] \in Nat BY ElementsNat
  <2> QED BY <2>1
<1> DEFINE T == {n \in Nat : n <= Len(f) =>
                   IF n < j THEN e[n] = g[n] ELSE e[n] + f[j] = g[n] + h[j]}
<1>3. 0 \in T BY <1>1, <1>2
<1>4. ASSUME NEW n \in Nat, n \in T PROVE n + 1 \in T
  <2> SUFFICES ASSUME n + 1 <= Len(f)
      PROVE IF n + 1 < j THEN e[n + 1] = g[n + 1] ELSE e[n + 1] + f[j] = g[n + 1] + h[j]
    OBVIOUS
  <2>1. n + 1 \in 1 .. Len(f) /\ n \in 0 .. Len(f) OBVIOUS
  <2>2. /\ f[n + 1] \in Nat /\ h[n + 1] \in Nat /\ f[j] \in Nat /\ h[j] \in Nat
        /\ g[n] \in Nat /\ e[n] \in Nat
    BY <1>9, <2>1
  <2>3. g[n + 1] = g[n] + f[n + 1] /\ e[n + 1] = e[n] + h[n + 1] BY <1>1, <1>2, <2>1
  <2>4. IF n < j THEN e[n] = g[n] ELSE e[n] + f[j] = g[n] + h[j] BY <1>4
  <2>5. CASE n + 1 < j
    <3>1. h[n + 1] = f[n + 1] /\ e[n] = g[n] BY <2>1, <2>4, <2>5
    <3> QED BY <2>3, <2>5, <3>1
  <2>6. CASE n + 1 = j
    <3>1. e[n] = g[n] BY <2>4, <2>6
    <3>2. PICK s, u, v, d, k : s = g[n] /\ u = f[n + 1] /\ v = h[n + 1] /\ d = e[n + 1] /\ k = g[n + 1]
      OBVIOUS
    <3>3. s \in Nat /\ u \in Nat /\ v \in Nat /\ d = s + v /\ k = s + u BY <2>2, <2>3, <3>1, <3>2
    <3>4. d + u = k + v BY <3>3
    <3>5. e[n + 1] + f[n + 1] = g[n + 1] + h[n + 1] BY <3>2, <3>4
    <3> QED BY <2>6, <3>5
  <2>7. CASE j <= n
    <3>1. h[n + 1] = f[n + 1] /\ e[n] + f[j] = g[n] + h[j] BY <2>1, <2>4, <2>7
    <3> DEFINE u == e[n]  v == f[j]  w == g[n]  x == h[j]  y == f[n + 1]
    <3>3. u \in Nat /\ v \in Nat /\ w \in Nat /\ x \in Nat /\ y \in Nat /\ u + v = w + x
      BY <2>2, <3>1
    <3> HIDE DEF u, v, w, x, y
    <3>5. (u + y) + v = (w + y) + x BY <3>3
    <3>4. (e[n] + f[n + 1]) + f[j] = (g[n] + f[n + 1]) + h[j] BY <3>5 DEF u, v, w, x, y
    <3>2. e[n + 1] + f[j] = g[n + 1] + h[j] BY <2>3, <3>1, <3>4
    <3> QED BY <2>7, <3>2
  <2> QED BY <2>5, <2>6, <2>7
<1>5. Nat \subseteq T
  <2> HIDE DEF T
  <2> QED BY <1>3, <1>4, SetInduction
<1>6. Len(f) \in Nat /\ ~ (Len(f) < j) OBVIOUS
<1>7. e[Len(f)] + f[j] = g[Len(f)] + h[j]
  <2>1. Len(f) \in T
    <3> HIDE DEF T
    <3> QED BY <1>5, <1>6
  <2>2. IF Len(f) < j THEN e[Len(f)] = g[Len(f)] ELSE e[Len(f)] + f[j] = g[Len(f)] + h[j]
    <3>1. \A n \in T : n <= Len(f) => IF n < j THEN e[n] = g[n] ELSE e[n] + f[j] = g[n] + h[j]
      BY Zenon
    <3>2. Len(f) <= Len(f) BY <1>6
    <3> QED BY <2>1, <3>1, <3>2, Zenon
  <2> QED BY <1>6, <2>2, Zenon
<1> QED BY <1>1, <1>2, <1>7

(* A sum of larger elements is no smaller. *)
LEMMA TotalMonotone ==
  ASSUME NEW f \in Seq(Nat), NEW h \in Seq(Nat), Len(f) = Len(h),
         \A i \in 1 .. Len(f) : f[i] <= h[i]
  PROVE Total(f) <= Total(h)
<1>1. PICK g \in [0 .. Len(f) -> Nat] :
        g[0] = 0 /\ Total(f) = g[Len(f)] /\ \A i \in 1 .. Len(f) : g[i] = g[i - 1] + f[i]
  BY TotalIs
<1>8. \E e \in [0 .. Len(h) -> Nat] :
        e[0] = 0 /\ Total(h) = e[Len(h)] /\ \A i \in 1 .. Len(h) : e[i] = e[i - 1] + h[i]
  BY TotalIs
<1>2. PICK e \in [0 .. Len(f) -> Nat] :
        e[0] = 0 /\ Total(h) = e[Len(f)] /\ \A i \in 1 .. Len(f) : e[i] = e[i - 1] + h[i]
  BY <1>8
<1>9. \A i \in 1 .. Len(f) : f[i] \in Nat /\ h[i] \in Nat
  <2>1. (\A i \in 1 .. Len(f) : f[i] \in Nat) /\ \A i \in 1 .. Len(h) : h[i] \in Nat BY ElementsNat
  <2> QED BY <2>1
<1> DEFINE T == {n \in Nat : n <= Len(f) => g[n] <= e[n]}
<1>3. 0 \in T BY <1>1, <1>2
<1>4. ASSUME NEW n \in Nat, n \in T PROVE n + 1 \in T
  <2> SUFFICES ASSUME n + 1 <= Len(f) PROVE g[n + 1] <= e[n + 1] OBVIOUS
  <2>1. n + 1 \in 1 .. Len(f) /\ n \in 0 .. Len(f) OBVIOUS
  <2>2. /\ f[n + 1] \in Nat /\ h[n + 1] \in Nat /\ g[n] \in Nat /\ e[n] \in Nat
        /\ f[n + 1] <= h[n + 1]
    BY <1>9, <2>1
  <2>3. g[n + 1] = g[n] + f[n + 1] /\ e[n + 1] = e[n] + h[n + 1] BY <1>1, <1>2, <2>1
  <2>4. g[n] <= e[n] BY <1>4
  <2> QED BY <2>2, <2>3, <2>4
<1>5. Nat \subseteq T
  <2> HIDE DEF T
  <2> QED BY <1>3, <1>4, SetInduction
<1>6. Len(f) \in Nat OBVIOUS
<1>7. g[Len(f)] <= e[Len(f)] BY <1>5, <1>6
<1> QED BY <1>1, <1>2, <1>7

(* A sum of multiples is a multiple. *)
LEMMA TotalMultiple ==
  ASSUME NEW f \in Seq(Nat), NEW a \in Nat \ {0}, \A i \in 1 .. Len(f) : f[i] % a = 0
  PROVE Total(f) % a = 0
<1>1. PICK g \in [0 .. Len(f) -> Nat] :
        g[0] = 0 /\ Total(f) = g[Len(f)] /\ \A i \in 1 .. Len(f) : g[i] = g[i - 1] + f[i]
  BY TotalIs
<1> DEFINE T == {n \in Nat : n <= Len(f) => g[n] % a = 0}
<1>3. 0 \in T BY <1>1
<1>4. ASSUME NEW n \in Nat, n \in T PROVE n + 1 \in T
  <2> SUFFICES ASSUME n + 1 <= Len(f) PROVE g[n + 1] % a = 0 OBVIOUS
  <2>1. n + 1 \in 1 .. Len(f) /\ n \in 0 .. Len(f) OBVIOUS
  <2>2. f[n + 1] \in Int /\ g[n] \in Int /\ f[n + 1] % a = 0 BY <2>1
  <2>3. g[n + 1] = g[n] + f[n + 1] BY <1>1, <2>1
  <2>4. g[n] % a = 0 BY <1>4
  <2>5. (g[n] + f[n + 1]) % a = 0 BY <2>2, <2>4, MultipleSum
  <2> QED BY <2>3, <2>5
<1>5. Nat \subseteq T
  <2> HIDE DEF T
  <2> QED BY <1>3, <1>4, SetInduction
<1>6. Len(f) \in Nat OBVIOUS
<1>7. g[Len(f)] % a = 0 BY <1>5, <1>6
<1> QED BY <1>1, <1>7

(* No element is above the sum. *)
LEMMA TotalAbove ==
  ASSUME NEW f \in Seq(Nat), NEW j \in 1 .. Len(f)
  PROVE f[j] <= Total(f)
<1> DEFINE h == [f EXCEPT ![j] = 0]
<1>1. h \in Seq(Nat) /\ Len(h) = Len(f) /\ h[j] = 0 /\ \A i \in 1 .. Len(f) : i # j => h[i] = f[i]
  OBVIOUS
<1> HIDE DEF h
<1>2. Total(h) + f[j] = Total(f) + h[j] BY <1>1, TotalChange
<1>3. Total(h) \in Nat /\ Total(f) \in Nat /\ f[j] \in Nat BY <1>1, TotalNat
<1> QED BY <1>1, <1>2, <1>3

-----------------------------------------------------------------------------
(* Objects, their sections and formats *)
LEMMA ObjectFacts ==
  ASSUME obj \in Objects
  PROVE /\ obj.fmt \in Format /\ obj.secs \in Seq(Section)
        /\ Secs = 1 .. Len(obj.secs) /\ Len(obj.secs) \in Nat
        /\ \A i \in Secs : Sec(i) \in Section
<1>1. obj \in [fmt: Format, secs: Seq(Section)] BY ObjectsTyped
<1> QED BY <1>1 DEF Secs, Sec

(* The constants of the two formats *)
LEMMA FormatFacts ==
  ASSUME obj \in Objects
  PROVE /\ StubAlignment \in {1, 8} /\ StubAlignment \in Alignment
        /\ MaxStubSize \in {6, 8} /\ GOTEntrySize \in {0, 8}
        /\ obj.fmt = "elf" => StubAlignment = 1 /\ GOTEntrySize = 8
        /\ obj.fmt = "macho" => StubAlignment = 8 /\ MaxStubSize = 8 /\ GOTEntrySize = 0
BY ObjectFacts DEF Format, StubAlignment, MaxStubSize, GOTEntrySize, Alignment

(* The alignment of the end of a section is one of the alignments. *)
LEMMA CommonAlignmentIs ==
  ASSUME NEW a \in Nat, NEW n \in Nat
  PROVE CommonAlignment(a, n) \in Alignment
<1> DEFINE S == {d \in Alignment : a % d = 0 /\ n % d = 0}
<1>1. 1 \in S BY DEF Alignment
<1>2. S \in SUBSET Alignment /\ S # {} BY <1>1
<1>3. CommonAlignment(a, n) = Max(S) BY DEF CommonAlignment
<1> HIDE DEF S
<1> QED BY <1>2, <1>3, MaxAlignment

(* Room for the stubs of a section *)
LEMMA StubRoom ==
  ASSUME obj \in Objects, NEW s \in Section
  PROVE /\ NeedStub(s) \in Nat /\ MaxStubSize * NeedStub(s) \in Nat
        /\ StubBufSize(s) \in Nat /\ MaxStubSize * NeedStub(s) <= StubBufSize(s)
        /\ NeedStub(s) > 0 => StubBufSize(s) # 0
        /\ Padding(s) \in Nat /\ Padding(s) = IF StubBufSize(s) # 0 THEN StubAlignment - 1 ELSE 0
<1>1. NeedStub(s) \in Nat BY DEF NeedStub, Section
<1>2. MaxStubSize \in {6, 8} /\ StubAlignment \in {1, 8} BY FormatFacts
<1> DEFINE end == CommonAlignment(s.align, s.size)
           m == MaxStubSize  n == NeedStub(s)  e == IF StubAlignment > end THEN StubAlignment - end ELSE 0
<1>3. end \in Nat
  <2>1. s.align \in Nat /\ s.size \in Nat BY AlignmentIs DEF Section
  <2> QED BY <2>1, CommonAlignmentIs, AlignmentIs
<1>4. e \in Nat
  <2> HIDE DEF end
  <2> QED BY <1>2, <1>3
<1>5. StubBufSize(s) = m * n + e BY DEF StubBufSize
<1>6. Padding(s) = IF StubBufSize(s) # 0 THEN StubAlignment - 1 ELSE 0 BY DEF Padding
<1> HIDE DEF m, n, e
<1>7. m \in {6, 8} /\ n \in Nat BY <1>1, <1>2 DEF m, n
<1>8. m * n \in Nat /\ (n > 0 => m * n > 0) BY <1>7
<1> QED BY <1>1, <1>2, <1>4, <1>5, <1>6, <1>8 DEF m, n

(* What is allocated for a section holds its data, the padding and its stubs. *)
LEMMA SectionRoom ==
  ASSUME obj \in Objects, NEW s \in Section
  PROVE /\ AllocSize(s) \in Nat /\ AllocSize(s) >= 1
        /\ AllocSize(s) >= s.size + Padding(s) + StubBufSize(s)
<1>1. s.size \in Nat /\ Padding(s) \in Nat /\ StubBufSize(s) \in Nat BY StubRoom DEF Section
<1>2. s.size + Padding(s) + StubBufSize(s) \in Nat BY <1>1
<1> QED BY <1>2, MaxOfTwo DEF AllocSize

(* A section is placed at its own alignment or, in a MachO object, at that of
   stubs. *)
LEMMA SectionAlign ==
  ASSUME obj \in Objects, NEW s \in Section
  PROVE /\ EmitAlign(s) \in Alignment
        /\ EmitAlign(s) \in {s.align, 8} /\ (EmitAlign(s) # s.align => obj.fmt = "macho" /\ s.align < 8)
        /\ NeedStub(s) > 0 => EmitAlign(s) % StubAlignment = 0
<1>1. s.align \in Alignment /\ s.align \in Nat \ {0} BY AlignmentIs DEF Section
<1>2. /\ StubAlignment \in {1, 8} /\ StubAlignment \in Alignment
      /\ obj.fmt \in Format /\ (obj.fmt = "elf" => StubAlignment = 1)
  BY FormatFacts, ObjectFacts
<1>3. CASE StubBufSize(s) = 0
  <2>1. EmitAlign(s) = s.align BY <1>3 DEF EmitAlign
  <2> QED BY <2>1, <1>1, <1>3, StubRoom
<1>4. CASE StubBufSize(s) # 0
  <2> DEFINE m == Max({s.align, StubAlignment})
  <2>1. EmitAlign(s) = m BY <1>4 DEF EmitAlign
  <2>2. m \in {s.align, StubAlignment} /\ m >= s.align /\ m >= StubAlignment
    BY <1>1, <1>2, MaxOfTwo
  <2> HIDE DEF m
  <2>3. m \in Alignment BY <1>1, <1>2, <2>2
  <2>4. m % StubAlignment = 0 BY <1>2, <2>2, <2>3, AlignmentDivides
  <2>5. m # s.align => m = 8 /\ s.align < 8 /\ obj.fmt = "macho"
    BY <1>1, <1>2, <2>2 DEF Format
  <2> QED BY <2>1, <2>2, <2>3, <2>4, <2>5
<1> QED BY <1>3, <1>4

(* The stubs of a section start behind its data, within the padding. *)
LEMMA FirstStubIs ==
  ASSUME obj \in Objects, NEW s \in Section
  PROVE /\ FirstStub(s) \in Nat /\ s.size <= FirstStub(s) /\ FirstStub(s) <= s.size + Padding(s)
        /\ NeedStub(s) > 0 => FirstStub(s) % StubAlignment = 0
<1>1. s.size \in Nat BY DEF Section
<1>2. StubAlignment \in {1, 8} BY FormatFacts
<1>3. Padding(s) = IF StubBufSize(s) # 0 THEN StubAlignment - 1 ELSE 0 BY StubRoom
<1>4. CASE Padding(s) = 0
  <2>1. FirstStub(s) = s.size BY <1>4 DEF FirstStub
  <2>2. NeedStub(s) > 0 => StubAlignment = 1 BY <1>2, <1>3, <1>4, StubRoom
  <2> QED BY <1>1, <1>4, <2>1, <2>2
<1>5. CASE Padding(s) # 0
  <2>1. StubAlignment = 8 /\ Padding(s) = 7 BY <1>2, <1>3, <1>5
  <2> DEFINE r == ((s.size + 7) \div 8) * 8
  <2>2. FirstStub(s) = r BY <1>5, <2>1 DEF FirstStub
  <2>3. r \in Int /\ r % 8 = 0 /\ s.size <= r /\ r <= s.size + 7 BY <1>1
  <2> HIDE DEF r
  <2> QED BY <1>1, <2>1, <2>2, <2>3
<1> QED BY <1>4, <1>5

-----------------------------------------------------------------------------
(* The alignments that space is reserved with *)
MaxAlign == Max({MinPadding} \cup {KindAlign(k) : k \in Kind})

(* The alignment of a kind is at least that of each of its sections, and of the
   GOT. *)
LEMMA KindAlignIs ==
  ASSUME obj \in Objects, NEW k \in Kind
  PROVE /\ KindAlign(k) \in Alignment
        /\ \A i \in OfKind(k) : KindAlign(k) >= Sec(i).align
        /\ k = "rw" /\ GOTSize > 0 => KindAlign(k) >= GOTEntrySize
<1> DEFINE G == IF k = "rw" /\ GOTSize > 0 THEN {GOTEntrySize} ELSE {}
           A == {1} \cup {Sec(i).align : i \in OfKind(k)} \cup G
<1>1. GOTSize > 0 => GOTEntrySize = 8
  <2>1. GOTEntrySize \in {0, 8} BY FormatFacts
  <2>2. Total([i \in Secs |-> Sec(i).gots]) \in Nat
    <3>1. [i \in Secs |-> Sec(i).gots] \in Seq(Nat)
      <4>1. \A i \in Secs : Sec(i).gots \in Nat BY ObjectFacts DEF Section
      <4> QED BY <4>1, ObjectFacts
    <3> QED BY <3>1, TotalNat
  <2>3. GOTEntrySize = 0 => ~ (GOTSize > 0) BY <2>2 DEF GOTSize
  <2> QED BY <2>1, <2>3
<1>2. \A i \in OfKind(k) : Sec(i).align \in Alignment BY ObjectFacts DEF OfKind, Section
<1>3. A \in SUBSET Alignment /\ A # {}
  <2>1. 1 \in Alignment /\ 8 \in Alignment BY DEF Alignment
  <2>2. G \subseteq Alignment BY <1>1, <2>1
  <2> QED BY <1>2, <2>1, <2>2
<1>4. KindAlign(k) = Max(A) BY DEF KindAlign
<1>5. G \subseteq A /\ {Sec(i).align : i \in OfKind(k)} \subseteq A OBVIOUS
<1> HIDE DEF A
<1>6. Max(A) \in Alignment /\ \A a \in A : Max(A) >= a BY <1>3, MaxAlignment
<1>7. k = "rw" /\ GOTSize > 0 => GOTEntrySize \in A BY <1>5
<1> QED BY <1>4, <1>5, <1>6, <1>7

(* The alignment that all is padded for is a multiple of that of every kind. *)
LEMMA MaxAlignIs ==
  ASSUME obj \in Objects
  PROVE /\ MaxAlign \in Alignment /\ MaxAlign % 8 = 0
        /\ \A k \in Kind : MaxAlign % KindAlign(k) = 0
<1> DEFINE A == {MinPadding} \cup {KindAlign(k) : k \in Kind}
<1>1. MinPadding \in Alignment /\ MinPadding = 8 BY DEF MinPadding, Alignment
<1>2. A \in SUBSET Alignment /\ A # {} BY <1>1, KindAlignIs
<1>3. MaxAlign = Max(A) BY DEF MaxAlign
<1>4. MinPadding \in A /\ \A k \in Kind : KindAlign(k) \in A OBVIOUS
<1> HIDE DEF A
<1> QED BY <1>1, <1>2, <1>3, <1>4, MaxAlignment

(* A section is placed at a divisor of the alignment of its kind, unless it
   is the only one of its kind, in a MachO object. *)
Only(i, k) == obj.fmt = "macho" /\ OfKind(k) = {i} /\ EmitAlign(Sec(i)) = 8

(* The alignments that sections are measured with are multiples of those that
   they are placed at. *)
LEMMA EmitAlignDivides ==
  ASSUME obj \in Objects, NEW k \in Kind, NEW i \in OfKind(k)
  PROVE /\ KindAlign(k) % EmitAlign(Sec(i)) = 0 \/ Only(i, k)
        /\ MaxAlign % EmitAlign(Sec(i)) = 0
<1>1. Sec(i) \in Section /\ i \in Secs /\ Sec(i).kind = k BY ObjectFacts DEF OfKind
<1>2. Sec(i).align \in Alignment BY <1>1 DEF Section
<1>3. KindAlign(k) \in Alignment /\ KindAlign(k) >= Sec(i).align BY KindAlignIs
<1>4. EmitAlign(Sec(i)) \in Alignment BY <1>1, SectionAlign
<1>5. KindAlign(k) % EmitAlign(Sec(i)) = 0 \/ Only(i, k)
  <2>1. CASE EmitAlign(Sec(i)) = Sec(i).align
    <3>1. Sec(i).align <= KindAlign(k) BY <1>2, <1>3, AlignmentIs
    <3> QED BY <1>2, <1>3, <2>1, <3>1, AlignmentDivides
  <2>2. CASE EmitAlign(Sec(i)) # Sec(i).align
    <3>1. EmitAlign(Sec(i)) = 8 /\ obj.fmt = "macho" BY <1>1, <2>2, SectionAlign
    <3>2. CASE \E j \in OfKind(k) : j # i
      <4>1. PICK j \in OfKind(k) : j # i BY <3>2
      <4>2. \E m \in DOMAIN obj.secs : obj.secs[m].kind = obj.secs[i].kind /\ obj.secs[m].align >= 8
        BY <3>1, <4>1, MachOAligned DEF OfKind, Secs, Sec
      <4>3. PICK m \in OfKind(k) : Sec(m).align >= 8 BY <1>1, <4>2 DEF OfKind, Secs, Sec
      <4>4. Sec(m).align \in Alignment BY ObjectFacts DEF OfKind, Section
      <4>5. KindAlign(k) >= Sec(m).align BY KindAlignIs
      <4>8. Sec(m).align \in Nat /\ KindAlign(k) \in Nat BY <1>3, <4>4, AlignmentIs
      <4>6. 8 <= KindAlign(k) BY <4>3, <4>5, <4>8
      <4>7. 8 \in Alignment BY DEF Alignment
      <4> QED BY <1>3, <3>1, <4>6, <4>7, AlignmentDivides
    <3>3. CASE ~ \E j \in OfKind(k) : j # i BY <3>1, <3>3 DEF Only
    <3> QED BY <3>2, <3>3
  <2> QED BY <2>1, <2>2
<1>6. MaxAlign % EmitAlign(Sec(i)) = 0
  <2>1. /\ MaxAlign \in Nat \ {0} /\ KindAlign(k) \in Nat \ {0}
        /\ EmitAlign(Sec(i)) \in Nat \ {0}
    BY <1>3, <1>4, MaxAlignIs, AlignmentIs
  <2>2. MaxAlign % KindAlign(k) = 0 /\ MaxAlign % 8 = 0 BY MaxAlignIs
  <2>3. CASE KindAlign(k) % EmitAlign(Sec(i)) = 0
    <3>1. MaxAlign \in Int BY <2>1
    <3> QED BY <2>1, <2>2, <2>3, <3>1, MultipleTransitive
  <2>4. CASE Only(i, k) BY <2>2, <2>4 DEF Only
  <2> QED BY <1>5, <2>3, <2>4
<1> QED BY <1>5, <1>6

-----------------------------------------------------------------------------
(* No action changes the object, so that its measures stay. *)
LEMMA SameObject ==
  ASSUME obj' = obj
  PROVE /\ Secs' = Secs /\ GOTEntrySize' = GOTEntrySize
        /\ StubAlignment' = StubAlignment /\ MaxStubSize' = MaxStubSize
        /\ \A i : Sec(i)' = Sec(i)
        /\ \A k : OfKind(k)' = OfKind(k) /\ KindAlign(k)' = KindAlign(k) /\ TotalSize(k)' = TotalSize(k)
        /\ \A s : /\ NeedStub(s)' = NeedStub(s) /\ AllocSize(s)' = AllocSize(s)
                  /\ EmitAlign(s)' = EmitAlign(s) /\ FirstStub(s)' = FirstStub(s)
        /\ MaxAlign' = MaxAlign /\ SelfContained' = SelfContained
<1>1. /\ Secs' = Secs /\ GOTEntrySize' = GOTEntrySize /\ StubAlignment' = StubAlignment
      /\ MaxStubSize' = MaxStubSize
      /\ \A i : Sec(i)' = Sec(i)
      /\ \A s : NeedStub(s)' = NeedStub(s)
  BY DEF Secs, GOTEntrySize, StubAlignment, MaxStubSize, Sec, NeedStub
<1>2. \A s : StubBufSize(s)' = StubBufSize(s) BY <1>1 DEF StubBufSize
<1>3. \A s : Padding(s)' = Padding(s) BY <1>1, <1>2 DEF Padding
<1>4. \A s : AllocSize(s)' = AllocSize(s) BY <1>2, <1>3 DEF AllocSize
<1>5. \A s : EmitAlign(s)' = EmitAlign(s) BY <1>1, <1>2 DEF EmitAlign
<1>6. \A s : FirstStub(s)' = FirstStub(s) BY <1>1, <1>3 DEF FirstStub
<1>7. \A k : OfKind(k)' = OfKind(k) BY DEF OfKind, Secs, Sec
<1>8. GOTSize' = GOTSize
  <2>1. [i \in Secs |-> Sec(i).gots]' = [i \in Secs |-> Sec(i).gots] BY <1>1
  <2> QED BY <1>1, <2>1 DEF GOTSize
<1>9. \A k : KindAlign(k)' = KindAlign(k)
  <2> TAKE k
  <2>1. {Sec(i).align : i \in OfKind(k)}' = {Sec(i).align : i \in OfKind(k)} BY <1>1, <1>7
  <2> QED BY <1>1, <1>8, <2>1 DEF KindAlign
<1>10. \A k : Sizes(k)' = Sizes(k) BY <1>1, <1>4, <1>9 DEF Sizes
<1>11. \A k : TotalSize(k)' = TotalSize(k) BY <1>7, <1>8, <1>9, <1>10 DEF TotalSize
<1>12. MaxAlign' = MaxAlign
  <2>1. {KindAlign(k) : k \in Kind}' = {KindAlign(k) : k \in Kind} BY <1>9
  <2> QED BY <2>1 DEF MaxAlign
<1>13. SelfContained' = SelfContained BY <1>1 DEF SelfContained
<1> QED BY <1>1, <1>4, <1>5, <1>6, <1>7, <1>9, <1>11, <1>12, <1>13

-----------------------------------------------------------------------------
(* What was placed so far takes less than what was reserved for all. *)
PlacedSizes(k) ==
  [i \in Secs |-> IF Sec(i).kind = k /\ placed[i] # Nowhere
                  THEN AlignBy(AllocSize(Sec(i)), KindAlign(k)) ELSE 0]

(* The sizes of the sections that were placed sum up to no more than those of
   all. *)
LEMMA SizesIs ==
  ASSUME obj \in Objects, NEW k \in Kind
  PROVE /\ Sizes(k) \in Seq(Nat) /\ PlacedSizes(k) \in Seq(Nat)
        /\ Len(Sizes(k)) = Len(obj.secs) /\ Len(PlacedSizes(k)) = Len(obj.secs)
        /\ \A i \in 1 .. Len(obj.secs) :
             Sizes(k)[i] % KindAlign(k) = 0 /\ PlacedSizes(k)[i] % KindAlign(k) = 0
        /\ Total(PlacedSizes(k)) \in Nat /\ Total(Sizes(k)) \in Nat
        /\ Total(PlacedSizes(k)) <= Total(Sizes(k)) /\ Total(PlacedSizes(k)) % KindAlign(k) = 0
<1> DEFINE a == KindAlign(k)  size(i) == AlignBy(AllocSize(Sec(i)), a)
<1>1. a \in Nat \ {0} BY KindAlignIs, AlignmentIs
<1>2. \A i \in Secs : size(i) \in Nat /\ size(i) % a = 0
  <2>1. \A i \in Secs : AllocSize(Sec(i)) \in Nat BY ObjectFacts, SectionRoom
  <2> HIDE DEF a
  <2> QED BY <1>1, <2>1, AlignByIs
<1>3. Sizes(k) = [i \in Secs |-> IF Sec(i).kind = k THEN size(i) ELSE 0] BY DEF Sizes
<1>4. PlacedSizes(k) = [i \in Secs |-> IF Sec(i).kind = k /\ placed[i] # Nowhere THEN size(i) ELSE 0]
  BY DEF PlacedSizes
<1> HIDE DEF size
<1>5. Secs = 1 .. Len(obj.secs) /\ Len(obj.secs) \in Nat /\ 0 % a = 0 BY <1>1, ObjectFacts
<1>6. Sizes(k) \in Seq(Nat) /\ Len(Sizes(k)) = Len(obj.secs)
  BY <1>2, <1>3, <1>5
<1>7. PlacedSizes(k) \in Seq(Nat) /\ Len(PlacedSizes(k)) = Len(obj.secs)
  BY <1>2, <1>4, <1>5
<1>8. \A i \in 1 .. Len(obj.secs) :
        /\ Sizes(k)[i] % a = 0 /\ PlacedSizes(k)[i] % a = 0
        /\ PlacedSizes(k)[i] <= Sizes(k)[i]
  BY <1>2, <1>3, <1>4, <1>5
<1>9. Total(PlacedSizes(k)) <= Total(Sizes(k)) BY <1>6, <1>7, <1>8, TotalMonotone
<1>10. Total(PlacedSizes(k)) % a = 0 BY <1>1, <1>7, <1>8, TotalMultiple
<1> QED BY <1>6, <1>7, <1>8, <1>9, <1>10, TotalNat

Gots == [i \in Secs |-> Sec(i).gots]

(* The size of the GOT is that of the uses of it that were counted. *)
LEMMA GotsIs ==
  ASSUME obj \in Objects
  PROVE /\ Gots \in Seq(Nat) /\ Len(Gots) = Len(obj.secs) /\ Total(Gots) \in Nat
        /\ GOTSize = Total(Gots) * GOTEntrySize /\ GOTSize \in Nat
<1>1. \A i \in Secs : Sec(i).gots \in Nat BY ObjectFacts DEF Section
<1>2. Gots \in Seq(Nat) /\ Len(Gots) = Len(obj.secs) BY <1>1, ObjectFacts DEF Gots
<1>3. Total(Gots) \in Nat BY <1>2, TotalNat
<1>4. GOTEntrySize \in Nat BY FormatFacts
<1>5. GOTSize = Total(Gots) * GOTEntrySize BY DEF GOTSize, Gots
<1> HIDE DEF Gots
<1> QED BY <1>2, <1>3, <1>4, <1>5

(* The sections of a kind fit, together with the GOT, into what was reserved
   for it. *)
LEMMA Capacity ==
  ASSUME obj \in Objects, NEW k \in Kind
  PROVE /\ TotalSize(k) \in Nat /\ Total(Sizes(k)) <= TotalSize(k)
        /\ k = "rw" /\ GOTSize > 0 =>
             Total(Sizes(k)) + AlignBy(GOTSize, KindAlign(k)) <= TotalSize(k)
        /\ AlignBy(TotalSize(k), MaxAlign) \in Nat
        /\ TotalSize(k) <= AlignBy(TotalSize(k), MaxAlign)
        /\ AlignBy(TotalSize(k), MaxAlign) % MaxAlign = 0
<1> DEFINE a == KindAlign(k)
           t == Total(Sizes(k))
           g == IF k = "rw" /\ GOTSize > 0 THEN AlignBy(GOTSize, a) ELSE 0
           c == IF k = "code" /\ OfKind(k) # {} THEN AlignBy(64, a) ELSE 0
<1>1. a \in Nat \ {0} BY KindAlignIs, AlignmentIs
<1>2. g \in Nat /\ c \in Nat
  <2>1. GOTSize \in Nat /\ 64 \in Nat BY GotsIs
  <2> HIDE DEF a
  <2> QED BY <1>1, <2>1, AlignByIs
<1>3. t \in Nat BY SizesIs
<1>4. TotalSize(k) = t + g + c BY DEF TotalSize
<1>5. k = "rw" /\ GOTSize > 0 => g = AlignBy(GOTSize, a) OBVIOUS
<1> HIDE DEF t, g, c
<1>6. TotalSize(k) \in Nat /\ t <= TotalSize(k) /\ t + g <= TotalSize(k) BY <1>2, <1>3, <1>4
<1>7. MaxAlign \in Nat \ {0} BY MaxAlignIs, AlignmentIs
<1>8. /\ AlignBy(TotalSize(k), MaxAlign) \in Nat /\ TotalSize(k) <= AlignBy(TotalSize(k), MaxAlign)
      /\ AlignBy(TotalSize(k), MaxAlign) % MaxAlign = 0
  BY <1>6, <1>7, AlignByIs
<1> QED BY <1>5, <1>6, <1>8 DEF t

-----------------------------------------------------------------------------
(***************************************************************************)
(* The inductive invariant.  What was reserved is known from the object    *)
(* (Layout).  While loading, the sections of a kind take no more than the  *)
(* sizes summed up for those that were placed (Measured), each lies within *)
(* what its kind has taken (Within), and a section has room for as many    *)
(* stubs as it has relocations left (StubSpace).  The GOT has room for as  *)
(* many entries as were counted (GotCount), and is placed last.            *)
(***************************************************************************)
Layout ==
  phase # "new" =>
    /\ maxAlign = MaxAlign
    /\ padded = [k \in Kind |-> AlignBy(TotalSize(k), MaxAlign)]
    /\ data = [code |-> base, ro |-> base + padded["code"],
               rw |-> base + padded["code"] + padded["ro"]]

Before == phase = "new" => szb = Zero /\ placed = [i \in Secs \cup {GOT} |-> Nowhere]
GOTLast == phase # "loaded" => placed[GOT] = Nowhere

NoneOnly(k) == \A i \in OfKind(k) : ~Only(i, k)
Measured ==
  phase = "load" => \A k \in Kind :
    /\ szb[k] <= padded[k]
    /\ NoneOnly(k) => szb[k] <= Total(PlacedSizes(k))
    /\ (\A i \in OfKind(k) : placed[i] = Nowhere) => szb[k] = 0
Enough == phase = "loaded" => \A k \in Kind : k # "rw" \/ SelfContained => szb[k] <= padded[k]

KindOf(i) == IF i = GOT THEN "rw" ELSE Sec(i).kind
Within ==
  /\ \A i \in Placed : /\ data[KindOf(i)] <= placed[i].addr
                       /\ placed[i].addr + placed[i].size <= data[KindOf(i)] + szb[KindOf(i)]
  /\ \A i \in Placed \cap Secs : placed[i].size = AllocSize(Sec(i))

Pending(i) == IF obj.fmt = "elf" THEN todo[i].calls ELSE todo[i].gots
ToDo == \A i \in Secs : todo[i].calls <= Sec(i).calls /\ todo[i].gots <= Sec(i).gots
StubSpace ==
  \A i \in Secs : placed[i] # Nowhere =>
    /\ FirstStub(Sec(i)) <= stubOff[i]
    /\ stubOff[i] + MaxStubSize * Pending(i) <= FirstStub(Sec(i)) + MaxStubSize * NeedStub(Sec(i))
    /\ NeedStub(Sec(i)) > 0 => stubOff[i] % StubAlignment = 0
StubPlaces ==
  \A st \in stubs :
    /\ placed[st.sec] # Nowhere /\ st.addr % StubAlignment = 0
    /\ st.addr >= placed[st.sec].addr + Sec(st.sec).size
    /\ st.addr + MaxStubSize <= placed[st.sec].addr + stubOff[st.sec]
StubsApart ==
  \A st, tt \in stubs : st # tt =>
    st.addr + MaxStubSize <= tt.addr \/ tt.addr + MaxStubSize <= st.addr

TodoGots == [i \in Secs |-> todo[i].gots]
GotCount ==
  /\ obj.fmt = "macho" => gotIndex = 0
  /\ obj.fmt = "elf" /\ SelfContained => gotIndex + Total(TodoGots) <= Total(Gots)

LInv ==
  /\ TypeOK /\ obj \in Objects
  /\ Layout /\ Before /\ GOTLast /\ Measured /\ Enough /\ Within /\ SectionsApart
  /\ ToDo /\ StubSpace /\ StubPlaces /\ StubsApart /\ GotCount

(* A new MemManager, before anything is reserved *)
LEMMA LoaderInit == Init => LInv
<1> SUFFICES ASSUME Init PROVE LInv OBVIOUS
<1>0. obj \in Objects BY DEF Init
<1>1. Secs = 1 .. Len(obj.secs) /\ obj.fmt \in Format /\ obj.secs \in Seq(Section)
      /\ \A i \in Secs : Sec(i) \in Section
  BY <1>0, ObjectFacts
<1>2. TypeOK
  <2>1. obj.secs \in [Secs -> Section] BY <1>1
  <2>2. base = 0 /\ BaseAlign = 4096 /\ base % BaseAlign = 0 BY DEF Init, BaseAlign
  <2>3. todo \in [Secs -> [calls: Nat, gots: Nat]] BY <1>1 DEF Init, Section
  <2>4. /\ phase = "new" /\ base = 0 /\ data = Zero /\ szb = Zero /\ padded = Zero /\ maxAlign = 1
        /\ placed = [i \in Secs \cup {GOT} |-> Nowhere] /\ stubOff = [i \in Secs |-> 0]
        /\ stubs = {} /\ gotIndex = 0
    BY DEF Init
  <2>5. Zero \in [Kind -> Nat] BY DEF Zero
  <2> QED BY <1>1, <2>1, <2>2, <2>3, <2>4, <2>5 DEF TypeOK
<1>3. Layout /\ Before /\ GOTLast /\ Measured /\ Enough BY DEF Init, Layout, Before, GOTLast, Measured, Enough
<1>4. Placed = {} BY DEF Init, Placed
<1>5. Within /\ SectionsApart BY <1>4 DEF Within, SectionsApart
<1>6. ToDo
  <2>1. \A i \in Secs : todo[i].calls = Sec(i).calls /\ todo[i].gots = Sec(i).gots BY DEF Init
  <2>2. \A i \in Secs : Sec(i).calls \in Nat /\ Sec(i).gots \in Nat BY <1>1 DEF Section
  <2> QED BY <2>1, <2>2 DEF ToDo
<1>7. StubSpace /\ StubPlaces /\ StubsApart BY DEF Init, StubSpace, StubPlaces, StubsApart
<1>8. GotCount
  <2>1. TodoGots = Gots BY DEF Init, TodoGots, Gots
  <2>2. gotIndex = 0 /\ Total(Gots) \in Nat BY <1>0, GotsIs DEF Init
  <2> QED BY <2>1, <2>2 DEF GotCount
<1> QED BY <1>0, <1>2, <1>3, <1>5, <1>6, <1>7, <1>8 DEF LInv

-----------------------------------------------------------------------------
(* The three areas follow each other, at multiples of every alignment. *)
LEMMA Areas ==
  ASSUME LInv, phase # "new"
  PROVE /\ \A k \in Kind : /\ padded[k] \in Nat /\ padded[k] = AlignBy(TotalSize(k), MaxAlign)
                           /\ data[k] \in Nat
        /\ data["ro"] = data["code"] + padded["code"]
        /\ data["rw"] = data["ro"] + padded["ro"]
        /\ \A e \in Alignment : MaxAlign % e = 0 =>
             \A k \in Kind : data[k] % e = 0 /\ padded[k] % e = 0
<1>0. obj \in Objects /\ TypeOK /\ Layout BY DEF LInv
<1>1. /\ base \in Nat /\ base % BaseAlign = 0
      /\ data \in [Kind -> Nat] /\ padded \in [Kind -> Nat]
  BY <1>0 DEF TypeOK
<1>2. padded = [k \in Kind |-> AlignBy(TotalSize(k), MaxAlign)] BY <1>0 DEF Layout
<1>3. /\ data["code"] = base /\ data["ro"] = base + padded["code"]
      /\ data["rw"] = base + padded["code"] + padded["ro"]
  BY <1>0 DEF Layout
<1>4. ASSUME NEW e \in Alignment, MaxAlign % e = 0, NEW k \in Kind
      PROVE data[k] % e = 0 /\ padded[k] % e = 0
  <2>1. e \in Nat \ {0} /\ MaxAlign \in Nat \ {0} /\ BaseAlign \in Nat \ {0} /\ e <= BaseAlign
    <3>1. MaxAlign \in Alignment BY <1>0, MaxAlignIs
    <3>2. BaseAlign \in Nat \ {0} BY DEF BaseAlign
    <3> QED BY <3>1, <3>2, AlignmentIs
  <2>2. BaseAlign \in Alignment BY DEF Alignment
  <2>3. BaseAlign % e = 0 BY <2>1, <2>2, AlignmentDivides
  <2>4. base \in Int BY <1>1
  <2>5. base % e = 0 BY <1>1, <2>1, <2>3, <2>4, MultipleTransitive
  <2>6. \A l \in Kind : padded[l] \in Int /\ padded[l] % e = 0
    <3> TAKE l \in Kind
    <3>1. padded[l] \in Int BY <1>1
    <3>2. padded[l] % MaxAlign = 0 BY <1>0, <1>2, Capacity
    <3> QED BY <2>1, <3>1, <3>2, <1>4, MultipleTransitive
  <2>7. padded["code"] % e = 0 /\ padded["ro"] % e = 0 /\ padded["code"] \in Int /\ padded["ro"] \in Int
    BY <2>6 DEF Kind
  <2>8. base + padded["code"] \in Int /\ (base + padded["code"]) % e = 0
    BY <2>1, <2>4, <2>5, <2>7, MultipleSum
  <2>9. (base + padded["code"] + padded["ro"]) % e = 0 BY <2>1, <2>7, <2>8, MultipleSum
  <2>10. CASE k = "code" BY <1>3, <2>5, <2>6, <2>10
  <2>11. CASE k = "ro" BY <1>3, <2>6, <2>8, <2>11
  <2>12. CASE k = "rw" BY <1>3, <2>6, <2>9, <2>12
  <2> QED BY <2>10, <2>11, <2>12 DEF Kind
<1> QED BY <1>1, <1>2, <1>3, <1>4

(* Placing section i takes no more than its part of the sum. *)
LEMMA EmitFits ==
  ASSUME LInv, phase = "load", NEW i \in Secs, placed[i] = Nowhere,
         placed' = [placed EXCEPT ![i] = [addr |-> data[Sec(i).kind]
                                                     + AllocOffset(Sec(i).kind, EmitAlign(Sec(i))),
                                          size |-> AllocSize(Sec(i))]],
         obj' = obj
  PROVE LET k == Sec(i).kind
            new == NewTop(k, AllocSize(Sec(i)), EmitAlign(Sec(i)))
        IN /\ szb[k] <= AllocOffset(k, EmitAlign(Sec(i)))
           /\ AllocOffset(k, EmitAlign(Sec(i))) \in Nat /\ new \in Nat
           /\ AllocOffset(k, EmitAlign(Sec(i))) % EmitAlign(Sec(i)) = 0
           /\ AllocOffset(k, EmitAlign(Sec(i))) + AllocSize(Sec(i)) <= new
           /\ new <= padded[k]
           /\ NoneOnly(k) => new <= Total(PlacedSizes(k)')
<1> DEFINE k == Sec(i).kind  s == Sec(i)  n == AllocSize(s)  e == EmitAlign(s)  a == KindAlign(k)
           top == AlignBy(szb[k], e)  new == top + AlignBy(n, e)
           P == PlacedSizes(k)  Q == PlacedSizes(k)'
<1>0. obj \in Objects /\ TypeOK /\ Measured BY DEF LInv
<1>1. s \in Section /\ k \in Kind /\ i \in OfKind(k) BY <1>0, ObjectFacts DEF OfKind, Section
<1>2. n \in Nat /\ e \in Alignment /\ e \in Nat \ {0} BY <1>0, <1>1, SectionRoom, SectionAlign, AlignmentIs
<1>3. a \in Alignment /\ a \in Nat \ {0} BY <1>0, <1>1, KindAlignIs, AlignmentIs
<1>4. szb[k] \in Nat BY <1>0, <1>1 DEF TypeOK
<1>5. AllocOffset(k, e) = top /\ NewTop(k, n, e) = new BY DEF AllocOffset, NewTop
<1>6. /\ szb[k] <= padded[k] /\ (NoneOnly(k) => szb[k] <= Total(P))
      /\ (\A j \in OfKind(k) : placed[j] = Nowhere) => szb[k] = 0
  BY <1>0, <1>1 DEF Measured
<1>7. /\ P \in Seq(Nat) /\ Len(P) = Len(obj.secs) /\ Total(P) \in Nat /\ Total(Sizes(k)) \in Nat
      /\ Total(P) % a = 0
      /\ Sizes(k) \in Seq(Nat) /\ Len(Sizes(k)) = Len(obj.secs)
  BY <1>0, <1>1, SizesIs
<1>8. padded[k] \in Nat /\ padded[k] = AlignBy(TotalSize(k), MaxAlign) BY <1>1, Areas
<1>9. Total(Sizes(k)) <= padded[k]
  <2>1. /\ TotalSize(k) \in Nat /\ Total(Sizes(k)) <= TotalSize(k)
        /\ TotalSize(k) <= AlignBy(TotalSize(k), MaxAlign)
    BY <1>0, <1>1, Capacity
  <2> QED BY <1>7, <1>8, <2>1
<1>10. padded[k] % e = 0 BY <1>0, <1>1, <1>2, Areas, EmitAlignDivides
<1>11. i \in 1 .. Len(obj.secs) /\ Secs = 1 .. Len(obj.secs) BY <1>0, ObjectFacts
<1>12. i \in DOMAIN placed BY <1>0 DEF TypeOK
<1>13. placed'[i] # Nowhere
  <2>1. data[k] \in Nat BY <1>1, Areas
  <2>2. AllocOffset(k, e) \in Nat BY <1>2, <1>4, <1>5, AlignByIs
  <2>3. placed'[i] = [addr |-> data[k] + AllocOffset(k, e), size |-> n] BY <1>12
  <2>4. placed'[i] \in [addr: Nat, size: Nat] BY <1>2, <2>1, <2>2, <2>3
  <2> QED BY <2>4, NowhereAssumption
<1>14. AlignBy(n, a) \in Nat /\ n <= AlignBy(n, a) BY <1>2, <1>3, AlignByIs
<1>15. /\ Q = [P EXCEPT ![i] = AlignBy(n, a)] /\ P[i] = 0
  <2>1. Q = [j \in Secs |-> IF Sec(j).kind = k /\ placed'[j] # Nowhere
                           THEN AlignBy(AllocSize(Sec(j)), KindAlign(k)) ELSE 0]
    <3>1. /\ Secs' = Secs /\ \A j : Sec(j)' = Sec(j)
          /\ \A t : AllocSize(t)' = AllocSize(t)
          /\ \A l : KindAlign(l)' = KindAlign(l)
      BY SameObject
    <3> QED BY <3>1 DEF PlacedSizes
  <2>2. \A j \in Secs : j # i => placed'[j] = placed[j] BY <1>12
  <2> QED BY <1>1, <1>11, <1>13, <2>1, <2>2 DEF PlacedSizes
<1> HIDE DEF P, Q
<1>16. /\ Q \in Seq(Nat) /\ Len(Q) = Len(P) /\ Q[i] = AlignBy(n, a)
       /\ \A j \in 1 .. Len(P) : i # j => Q[j] = P[j]
  BY <1>7, <1>11, <1>14, <1>15
<1>17. Total(Q) = Total(P) + AlignBy(n, a) /\ Total(Q) \in Nat
  <2>1. Total(Q) + P[i] = Total(P) + Q[i] BY <1>7, <1>11, <1>16, TotalChange
  <2>2. Total(Q) \in Nat BY <1>16, TotalNat
  <2> QED BY <1>7, <1>14, <1>15, <1>16, <2>1, <2>2
<1>18. /\ top \in Nat /\ szb[k] <= top /\ AlignBy(n, e) \in Nat /\ n <= AlignBy(n, e)
       /\ szb[k] = 0 => top = 0
       /\ top % e = 0
  <2>1. 0 % e = 0 BY <1>2
  <2> QED BY <1>2, <1>4, <2>1, AlignByIs
<1> HIDE DEF top
<1>19. new \in Nat /\ top + n <= new BY <1>2, <1>18
<1>20. new = top + AlignBy(n, e) OBVIOUS
<1> HIDE DEF new
<1>21. CASE Only(i, k)
  <2>1. OfKind(k) = {i} /\ ~ NoneOnly(k) BY <1>1, <1>21 DEF Only, NoneOnly
  <2>2. top = 0 /\ new = AlignBy(n, e)
    <3>1. szb[k] = 0 BY <1>6, <2>1
    <3> QED BY <1>18, <1>20, <3>1
  <2>3. n <= padded[k]
    <3>1. Sizes(k)[i] = AlignBy(n, a) BY <1>1, <1>11 DEF Sizes
    <3>2. Sizes(k)[i] <= Total(Sizes(k)) BY <1>7, <1>11, TotalAbove
    <3> QED BY <1>2, <1>7, <1>8, <1>9, <1>14, <3>1, <3>2
  <2>4. new <= padded[k] BY <1>2, <1>8, <1>10, <2>2, <2>3, AlignByLeast
  <2> QED BY <1>5, <1>18, <1>19, <2>1, <2>4
<1>22. CASE ~ Only(i, k)
  <2>1. NoneOnly(k)
    <3>1. ASSUME NEW j \in OfKind(k), Only(j, k) PROVE FALSE
      <4>1. j = i BY <1>1, <3>1 DEF Only
      <4> QED BY <1>22, <3>1, <4>1
    <3> QED BY <3>1 DEF NoneOnly
  <2>2. a % e = 0 BY <1>0, <1>1, <1>22, EmitAlignDivides
  <2>3. szb[k] <= Total(P) BY <1>6, <2>1
  <2>4. top <= Total(P)
    <3>1. Total(P) % e = 0
      <4>1. Total(P) \in Int BY <1>7
      <4> QED BY <1>2, <1>3, <1>7, <2>2, <4>1, MultipleTransitive
    <3> QED BY <1>2, <1>4, <1>7, <2>3, <3>1, AlignByLeast DEF top
  <2>5. AlignBy(n, e) <= AlignBy(n, a) BY <1>2, <1>3, <2>2, LargerAlignment
  <2>6. new <= Total(Q) BY <1>7, <1>14, <1>17, <1>18, <1>20, <2>4, <2>5
  <2>7. Total(Q) <= Total(Sizes(k))
    <3>1. \A j \in 1 .. Len(Q) : Q[j] <= Sizes(k)[j]
      <4>1. \A j \in Secs : Sizes(k)[j] \in Nat BY <1>7, <1>11
      <4>2. \A j \in Secs : Q[j] = 0 \/ Q[j] = Sizes(k)[j]
        BY <1>1, <1>11, <1>15 DEF P, PlacedSizes, Sizes
      <4>3. Len(Q) = Len(obj.secs) BY <1>7, <1>16
      <4> TAKE j \in 1 .. Len(Q)
      <4>4. Sizes(k)[j] \in Nat /\ (Q[j] = 0 \/ Q[j] = Sizes(k)[j]) BY <1>11, <4>1, <4>2, <4>3
      <4> DEFINE x == Sizes(k)[j]  y == Q[j]
      <4>5. x \in Nat /\ (y = 0 \/ y = x) BY <4>4
      <4> HIDE DEF x, y
      <4>6. y <= x BY <4>5
      <4> QED BY <4>6 DEF x, y
    <3> QED BY <1>7, <1>16, <3>1, TotalMonotone
  <2>8. new <= padded[k] BY <1>7, <1>8, <1>9, <1>17, <1>19, <2>6, <2>7
  <2>9. Q = PlacedSizes(k)' BY DEF Q
  <2> QED BY <1>5, <1>18, <1>19, <2>6, <2>8, <2>9
<1> QED BY <1>21, <1>22

-----------------------------------------------------------------------------
(* What is placed within the area of its kind is apart from all the rest; the
   last area may overflow. *)
InArea(i) == /\ data[KindOf(i)] <= placed[i].addr
             /\ placed[i].addr + placed[i].size <= data[KindOf(i)] + szb[KindOf(i)]
Apart(i, j) == \/ placed[i].addr + placed[i].size <= placed[j].addr
               \/ placed[j].addr + placed[j].size <= placed[i].addr

(* A section placed at the top of its area is apart from those placed before. *)
LEMMA PlaceApart ==
  ASSUME LInv, phase = "load", NEW i \in Secs \cup {GOT}, placed[i] = Nowhere,
         NEW n \in Nat, NEW e \in Nat \ {0}, Place(i, KindOf(i), n, e), UNCHANGED <<obj, mem>>,
         NewTop(KindOf(i), n, e) <= padded[KindOf(i)] \/ KindOf(i) = "rw"
  PROVE /\ placed' \in [Secs \cup {GOT} -> Block \cup {Nowhere}] /\ szb' \in [Kind -> Nat]
        /\ Placed' = Placed \cup {i}
        /\ placed'[i] = [addr |-> data[KindOf(i)] + AllocOffset(KindOf(i), e), size |-> n]
        /\ \A j \in Placed : j # i /\ placed'[j] = placed[j]
        /\ \A j \in Placed' : InArea(j)'
        /\ \A j, l \in Placed' : j # l => Apart(j, l)'
<1> DEFINE k == KindOf(i)  top == AllocOffset(k, e)  new == NewTop(k, n, e)  b == data[k] + top
<1>0. /\ obj \in Objects /\ TypeOK /\ Measured /\ Within /\ SectionsApart /\ obj' = obj /\ data' = data
  BY DEF LInv, mem
<1>1. \A j \in Secs \cup {GOT} : KindOf(j) \in Kind /\ KindOf(j)' = KindOf(j)
  <2>1. \A j : Sec(j)' = Sec(j) BY <1>0, SameObject
  <2>2. \A j \in Secs : Sec(j).kind \in Kind BY <1>0, ObjectFacts DEF Section
  <2> QED BY <2>1, <2>2 DEF KindOf, Kind
<1>2. k \in Kind BY <1>1
<1>3. /\ szb \in [Kind -> Nat] /\ placed \in [Secs \cup {GOT} -> Block \cup {Nowhere}]
      /\ data \in [Kind -> Nat]
  BY <1>0 DEF TypeOK
<1>4. top \in Nat /\ szb[k] <= top /\ new \in Nat /\ top + n <= new
  <2>1. szb[k] \in Nat BY <1>2, <1>3
  <2>2. AlignBy(szb[k], e) \in Nat /\ szb[k] <= AlignBy(szb[k], e) BY <2>1, AlignByIs
  <2>3. AlignBy(n, e) \in Nat /\ n <= AlignBy(n, e) BY AlignByIs
  <2>4. top = AlignBy(szb[k], e) /\ new = AlignBy(szb[k], e) + AlignBy(n, e) BY DEF AllocOffset, NewTop
  <2> HIDE DEF top, new
  <2> QED BY <2>2, <2>3, <2>4
<1>5. /\ placed' = [placed EXCEPT ![i] = [addr |-> b, size |-> n]]
      /\ szb' = [szb EXCEPT ![k] = new]
  BY DEF Place
<1>6. new <= padded[k] \/ k = "rw" OBVIOUS
<1> HIDE DEF top, new, k
<1>7. b \in Nat /\ data[k] <= b /\ b + n <= data[k] + new /\ data[k] + szb[k] <= b
  BY <1>2, <1>3, <1>4
<1>8. [addr |-> b, size |-> n] \in Block BY <1>7 DEF Block
<1>9. [addr |-> b, size |-> n] # Nowhere BY <1>8, NowhereAssumption DEF Block
<1> HIDE DEF b
<1>10. /\ placed' \in [Secs \cup {GOT} -> Block \cup {Nowhere}] /\ szb' \in [Kind -> Nat]
       /\ placed'[i] = [addr |-> b, size |-> n] /\ szb'[k] = new
       /\ \A j \in DOMAIN placed : j # i => placed'[j] = placed[j]
       /\ \A l \in Kind : szb[l] <= szb'[l]
  <2>1. szb[k] <= new BY <1>2, <1>3, <1>4
  <2>2. \A l \in Kind : szb[l] \in Nat BY <1>3
  <2> QED BY <1>2, <1>3, <1>4, <1>5, <1>8, <2>1, <2>2
<1>11. Placed' = Placed \cup {i} /\ i \notin Placed
  BY <1>3, <1>9, <1>10 DEF Placed
<1>12. \A j \in Placed : j # i /\ placed'[j] = placed[j] /\ placed[j] \in Block /\ j \in Secs \cup {GOT}
  BY <1>3, <1>10, <1>11 DEF Placed
<1>13. ASSUME NEW j \in Placed' PROVE InArea(j)'
  <2>1. CASE j = i
    <3>1. KindOf(j)' = k BY <1>1, <2>1 DEF k
    <3>2. placed'[j].addr = b /\ placed'[j].size = n BY <1>10, <2>1
    <3> QED BY <1>0, <1>7, <1>10, <3>1, <3>2 DEF InArea
  <2>2. CASE j # i
    <3>1. j \in Placed /\ placed'[j] = placed[j] /\ placed[j] \in Block BY <1>11, <1>12, <2>2
    <3> DEFINE l == KindOf(j)
    <3>2. l \in Kind /\ KindOf(j)' = l BY <1>1, <1>12, <3>1
    <3>3. data[l] <= placed[j].addr /\ placed[j].addr + placed[j].size <= data[l] + szb[l]
      BY <1>0, <3>1 DEF Within
    <3> HIDE DEF l
    <3>4. szb[l] \in Nat /\ szb'[l] \in Nat /\ data[l] \in Nat /\ szb[l] <= szb'[l]
      BY <1>3, <1>10, <3>2
    <3>5. placed[j].addr \in Nat /\ placed[j].size \in Nat BY <3>1 DEF Block
    <3>6. placed[j].addr + placed[j].size <= data[l] + szb'[l] BY <3>3, <3>4, <3>5
    <3> QED BY <1>0, <3>1, <3>2, <3>3, <3>6 DEF InArea
  <2> QED BY <2>1, <2>2
<1>14. ASSUME NEW j \in Placed
       PROVE placed[j].addr + placed[j].size <= b \/ b + n <= placed[j].addr
  <2> DEFINE l == KindOf(j)
  <2>1. l \in Kind BY <1>1, <1>12
  <2>2. data[l] <= placed[j].addr /\ placed[j].addr + placed[j].size <= data[l] + szb[l]
    BY <1>0 DEF Within
  <2> HIDE DEF l
  <2>3. placed[j].addr \in Nat /\ placed[j].size \in Nat BY <1>12 DEF Block
  <2>4. phase # "new" OBVIOUS
  <2>5. /\ \A m \in Kind : padded[m] \in Nat /\ data[m] \in Nat /\ szb[m] \in Nat /\ szb[m] <= padded[m]
        /\ data["ro"] = data["code"] + padded["code"] /\ data["rw"] = data["ro"] + padded["ro"]
    BY <1>0, <1>3, <2>4, Areas DEF Measured
  <2>6. CASE l = k BY <1>2, <1>7, <2>2, <2>3, <2>5, <2>6
  <2>7. CASE data[l] + padded[l] <= data[k]
    <3>1. data[l] + szb[l] <= b BY <1>2, <1>7, <2>1, <2>5, <2>7
    <3> QED BY <1>7, <2>1, <2>2, <2>3, <2>5, <3>1
  <2>8. CASE k # "rw" /\ data[k] + padded[k] <= data[l]
    <3>1. b + n <= data[l] BY <1>2, <1>4, <1>6, <1>7, <2>1, <2>5, <2>8
    <3> QED BY <1>7, <2>1, <2>2, <2>3, <2>5, <3>1
  <2>9. \/ l = k \/ data[l] + padded[l] <= data[k]
        \/ k # "rw" /\ data[k] + padded[k] <= data[l]
    <3>1. /\ data["code"] \in Nat /\ data["ro"] \in Nat /\ data["rw"] \in Nat
          /\ padded["code"] \in Nat /\ padded["ro"] \in Nat
          /\ data["ro"] = data["code"] + padded["code"] /\ data["rw"] = data["ro"] + padded["ro"]
      BY <2>5 DEF Kind
    <3>2. /\ data["code"] + padded["code"] <= data["ro"] /\ data["code"] + padded["code"] <= data["rw"]
          /\ data["ro"] + padded["ro"] <= data["rw"]
      BY <3>1
    <3>3. k \in {"code", "ro", "rw"} /\ l \in {"code", "ro", "rw"} BY <1>2, <2>1 DEF Kind
    <3> QED BY <3>2, <3>3
  <2> QED BY <2>6, <2>7, <2>8, <2>9
<1>15. ASSUME NEW j \in Placed', NEW l \in Placed', j # l PROVE Apart(j, l)'
  <2>1. placed'[i].addr = b /\ placed'[i].size = n BY <1>10
  <2>2. CASE j = i
    <3>1. l \in Placed /\ placed'[l] = placed[l] BY <1>11, <1>12, <1>15, <2>2
    <3> QED BY <1>14, <2>1, <2>2, <3>1 DEF Apart
  <2>3. CASE l = i
    <3>1. j \in Placed /\ placed'[j] = placed[j] BY <1>11, <1>12, <1>15, <2>3
    <3> QED BY <1>14, <2>1, <2>3, <3>1 DEF Apart
  <2>4. CASE j # i /\ l # i
    <3>1. /\ j \in Placed /\ placed'[j] = placed[j] /\ l \in Placed /\ placed'[l] = placed[l]
      BY <1>11, <1>12, <2>4
    <3> QED BY <1>0, <1>15, <3>1 DEF Apart, SectionsApart
  <2> QED BY <2>2, <2>3, <2>4
<1> QED BY <1>10, <1>11, <1>12, <1>13, <1>15 DEF b, top, k

-----------------------------------------------------------------------------
(* What an action leaves alone *)
LEMMA SamePlaces ==
  ASSUME obj' = obj, placed' = placed
  PROVE /\ Placed' = Placed
        /\ \A k : PlacedSizes(k)' = PlacedSizes(k)
        /\ \A k : NoneOnly(k)' = NoneOnly(k)
        /\ \A i : KindOf(i)' = KindOf(i)
<1>1. Placed' = Placed BY DEF Placed
<1>2. \A k : PlacedSizes(k)' = PlacedSizes(k) BY SameObject DEF PlacedSizes
<1>3. \A k : NoneOnly(k)' = NoneOnly(k) BY SameObject DEF NoneOnly, Only
<1>4. \A i : KindOf(i)' = KindOf(i) BY SameObject DEF KindOf
<1> QED BY <1>1, <1>2, <1>3, <1>4

(* What is about the sections stays when none is placed. *)
LEMMA PlacesFrame ==
  ASSUME LInv, UNCHANGED <<obj, phase, mem, szb, placed>>
  PROVE /\ obj' \in Objects
        /\ Layout' /\ Before' /\ GOTLast' /\ Measured' /\ Enough' /\ Within' /\ SectionsApart'
<1>0. /\ obj' = obj /\ phase' = phase /\ szb' = szb /\ placed' = placed
      /\ base' = base /\ data' = data /\ padded' = padded /\ maxAlign' = maxAlign
  BY DEF mem
<1>1. /\ obj \in Objects /\ Layout /\ Before /\ GOTLast /\ Measured /\ Enough /\ Within /\ SectionsApart
  BY DEF LInv
<1>2. Layout'
  <2>1. [k \in Kind |-> AlignBy(TotalSize(k), MaxAlign)]' = [k \in Kind |-> AlignBy(TotalSize(k), MaxAlign)]
    BY <1>0, SameObject DEF AlignBy
  <2> QED BY <1>0, <1>1, <2>1, SameObject DEF Layout
<1>3. Before' BY <1>0, <1>1, SameObject DEF Before, Zero
<1>4. GOTLast' BY <1>0, <1>1 DEF GOTLast
<1>5. Measured'
  <2>1. \A k : OfKind(k)' = OfKind(k) BY <1>0, SameObject
  <2>2. \A k : Total(PlacedSizes(k))' = Total(PlacedSizes(k)) BY <1>0, SamePlaces
  <2>3. \A k : NoneOnly(k)' = NoneOnly(k) BY <1>0, SamePlaces
  <2> QED BY <1>0, <1>1, <2>1, <2>2, <2>3 DEF Measured
<1>6. Enough' BY <1>0, <1>1, SameObject DEF Enough
<1>7. Within' BY <1>0, <1>1, SameObject, SamePlaces DEF Within
<1>8. SectionsApart' BY <1>0, <1>1, SameObject, SamePlaces DEF SectionsApart
<1> QED BY <1>0, <1>1, <1>2, <1>3, <1>4, <1>5, <1>6, <1>7, <1>8

(* What is about the stubs stays when none is made. *)
LEMMA StubsFrame ==
  ASSUME LInv, UNCHANGED <<obj, placed, stubs, stubOff>>,
         \A i \in Secs : Pending(i) \in Nat /\ Pending(i)' \in Nat /\ Pending(i)' <= Pending(i)
  PROVE StubSpace' /\ StubPlaces' /\ StubsApart'
<1>0. obj \in Objects /\ TypeOK /\ StubSpace /\ StubPlaces /\ StubsApart BY DEF LInv
<1>1. /\ Secs' = Secs /\ MaxStubSize' = MaxStubSize /\ StubAlignment' = StubAlignment
      /\ \A i : Sec(i)' = Sec(i)
      /\ \A s : FirstStub(s)' = FirstStub(s) /\ NeedStub(s)' = NeedStub(s)
  BY SameObject
<1>2. StubPlaces' /\ StubsApart' BY <1>0, <1>1 DEF StubPlaces, StubsApart
<1>3. ASSUME NEW i \in Secs, placed[i] # Nowhere
      PROVE stubOff[i] + MaxStubSize * Pending(i)' <= FirstStub(Sec(i)) + MaxStubSize * NeedStub(Sec(i))
  <2> DEFINE m == MaxStubSize  x == Pending(i)  y == Pending(i)'
             lim == FirstStub(Sec(i)) + MaxStubSize * NeedStub(Sec(i))  o == stubOff[i]
  <2>1. m \in Nat /\ x \in Nat /\ y \in Nat /\ y <= x BY <1>0, FormatFacts
  <2>2. o \in Nat BY <1>0 DEF TypeOK
  <2>3. lim \in Nat
    <3>1. Sec(i) \in Section BY <1>0, ObjectFacts
    <3>2. FirstStub(Sec(i)) \in Nat BY <1>0, <3>1, FirstStubIs
    <3>3. MaxStubSize * NeedStub(Sec(i)) \in Nat BY <1>0, <3>1, StubRoom
    <3> QED BY <3>2, <3>3
  <2>4. o + m * x <= lim BY <1>0, <1>3 DEF StubSpace
  <2> HIDE DEF m, x, y, o, lim
  <2>5. m * y <= m * x /\ m * y \in Nat /\ m * x \in Nat BY <2>1, TimesMonotone, TimesNat
  <2>6. o + m * y <= lim BY <2>2, <2>3, <2>4, <2>5
  <2> QED BY <2>6 DEF m, y, o, lim
<1>4. StubSpace' BY <1>0, <1>1, <1>3 DEF StubSpace
<1> QED BY <1>2, <1>4

-----------------------------------------------------------------------------
(* The stubs of section i, and where the next one will be, are within its
   room. *)
LEMMA StubsWithin ==
  ASSUME LInv, NEW i \in Secs, placed[i] # Nowhere
  PROVE /\ placed[i].addr \in Nat /\ placed[i].size \in Nat /\ stubOff[i] \in Nat /\ MaxStubSize \in Nat
        /\ Pending(i) \in Nat /\ NeedStub(Sec(i)) \in Nat /\ Sec(i).size \in Nat
        /\ Pending(i) <= NeedStub(Sec(i))
        /\ Sec(i).size <= stubOff[i]
        /\ stubOff[i] <= placed[i].size
        /\ Pending(i) > 0 => stubOff[i] + MaxStubSize <= placed[i].size
<1>0. obj \in Objects /\ TypeOK /\ StubSpace /\ ToDo /\ Within BY DEF LInv
<1>1. Sec(i) \in Section /\ Sec(i).size \in Nat /\ obj.fmt \in Format
  BY <1>0, ObjectFacts DEF Section
<1>2. placed[i] \in Block BY <1>0 DEF TypeOK
<1>3. placed[i].addr \in Nat /\ placed[i].size \in Nat BY <1>2 DEF Block
<1>4. placed[i].size = AllocSize(Sec(i))
  <2>1. i \in Placed BY <1>0 DEF Placed, TypeOK
  <2> QED BY <1>0, <2>1 DEF Within
<1>5. todo[i] \in [calls: Nat, gots: Nat] /\ stubOff[i] \in Nat BY <1>0 DEF TypeOK
<1>6. Pending(i) \in Nat /\ NeedStub(Sec(i)) \in Nat /\ Pending(i) <= NeedStub(Sec(i))
  <2>1. /\ Sec(i).calls \in Nat /\ Sec(i).gots \in Nat /\ Sec(i).others \in Nat
    BY <1>1 DEF Section
  <2>2. todo[i].calls \in Nat /\ todo[i].gots \in Nat BY <1>5
  <2>3. todo[i].calls <= Sec(i).calls /\ todo[i].gots <= Sec(i).gots BY <1>0 DEF ToDo
  <2> QED BY <1>1, <2>1, <2>2, <2>3 DEF Pending, NeedStub, Format
<1>7. MaxStubSize \in {6, 8} BY <1>0, FormatFacts
<1> DEFINE m == MaxStubSize  p == Pending(i)  n == NeedStub(Sec(i))  first == FirstStub(Sec(i))
           o == stubOff[i]  z == placed[i].size  x == Sec(i).size
           pad == Padding(Sec(i))  buf == StubBufSize(Sec(i))
<1>8. /\ first \in Nat /\ x <= first /\ first <= x + pad
  BY <1>0, <1>1, FirstStubIs
<1>9. m * n \in Nat /\ buf \in Nat /\ m * n <= buf /\ pad \in Nat BY <1>0, <1>1, StubRoom
<1>10. x + pad + buf <= z BY <1>0, <1>1, <1>4, SectionRoom
<1>11. first <= o /\ o + m * p <= first + m * n BY <1>0 DEF StubSpace
<1>12. m \in {6, 8} /\ p \in Nat /\ n \in Nat /\ o \in Nat /\ z \in Nat /\ x \in Nat
  BY <1>1, <1>3, <1>5, <1>6, <1>7
<1> HIDE DEF m, p, n, first, o, z, x, pad, buf
<1>13. m * p \in Nat /\ (p > 0 => m <= m * p) BY <1>12
<1>14. x <= o /\ o <= z /\ (p > 0 => o + m <= z) BY <1>8, <1>9, <1>10, <1>11, <1>12, <1>13
<1> QED BY <1>1, <1>3, <1>5, <1>6, <1>7, <1>14 DEF m, p, n, o, z, x

(* Sections are apart, and so are the stubs in them. *)
LEMMA StubsDisjoint ==
  ASSUME LInv
  PROVE \A st \in stubs : /\ st.sec \in Secs /\ st.addr \in Nat
                          /\ placed[st.sec].addr <= st.addr
                          /\ st.addr + MaxStubSize <= placed[st.sec].addr + placed[st.sec].size
<1> SUFFICES ASSUME NEW st \in stubs
    PROVE /\ st.sec \in Secs /\ st.addr \in Nat /\ placed[st.sec].addr <= st.addr
          /\ st.addr + MaxStubSize <= placed[st.sec].addr + placed[st.sec].size
  OBVIOUS
<1>0. TypeOK /\ StubPlaces BY DEF LInv
<1>1. st.sec \in Secs /\ st.addr \in Nat BY <1>0 DEF TypeOK
<1> DEFINE i == st.sec  a == placed[i].addr  z == placed[i].size  o == stubOff[i]  x == Sec(i).size
           m == MaxStubSize  b == st.addr
<1>2. placed[i] # Nowhere /\ b >= a + x /\ b + m <= a + o
  BY <1>0 DEF StubPlaces
<1>3. a \in Nat /\ z \in Nat /\ o \in Nat /\ m \in Nat /\ x \in Nat /\ o <= z
  BY <1>1, <1>2, StubsWithin
<1> HIDE DEF a, z, o, x, m, b
<1>4. b \in Nat BY <1>1 DEF b
<1>5. a <= b /\ b + m <= a + z BY <1>2, <1>3, <1>4
<1> QED BY <1>1, <1>5 DEF a, z, m, b

(* One more stub, for a relocation that was counted *)
LEMMA NewStubFits ==
  ASSUME LInv, NEW i \in Secs, placed[i] # Nowhere, Pending(i) > 0, NewStub(i),
         Pending(i)' = Pending(i) - 1, \A j \in Secs : j # i => Pending(j)' = Pending(j),
         UNCHANGED <<obj, placed>>
  PROVE /\ StubSpace' /\ StubPlaces' /\ StubsApart'
        /\ stubOff' \in [Secs -> Nat] /\ stubs' \subseteq [sec: Secs, addr: Nat]
<1>0. /\ obj \in Objects /\ TypeOK /\ StubSpace /\ StubPlaces /\ StubsApart /\ SectionsApart
  BY DEF LInv
<1>1. Sec(i) \in Section BY <1>0, ObjectFacts
<1> DEFINE s == Sec(i)  m == MaxStubSize  p == Pending(i)  n == NeedStub(s)
           a == placed[i].addr  o == stubOff[i]  x == s.size  z == placed[i].size
<1>2. /\ a \in Nat /\ z \in Nat /\ o \in Nat /\ m \in Nat /\ x \in Nat /\ p \in Nat /\ n \in Nat
      /\ p <= n /\ x <= o /\ o <= z /\ (p > 0 => o + m <= z)
  BY StubsWithin
<1>3. p > 0 /\ n > 0 BY <1>2
<1>4. StubAlignment \in {1, 8} /\ StubAlignment \in Nat \ {0} /\ m % StubAlignment = 0
  BY <1>0, ObjectFacts, FormatFacts DEF Format
<1>5. o % StubAlignment = 0 /\ a % StubAlignment = 0
  <2>1. o % StubAlignment = 0 BY <1>0, <1>3 DEF StubSpace
  <2>2. EmitAlign(s) \in Nat \ {0} /\ EmitAlign(s) % StubAlignment = 0
    BY <1>0, <1>1, <1>3, SectionAlign, AlignmentIs
  <2>3. i \in Placed \cap Secs BY <1>0 DEF Placed, TypeOK
  <2>4. a % EmitAlign(s) = 0 BY <1>0, <2>3 DEF SectionsApart
  <2>5. a \in Int BY <1>2
  <2>6. a % StubAlignment = 0 BY <1>4, <2>2, <2>4, <2>5, MultipleTransitive
  <2> QED BY <2>1, <2>6
<1>6. AlignBy(a + o, StubAlignment) = a + o /\ (a + o) % StubAlignment = 0
  <2>1. a \in Int /\ o \in Int /\ a + o \in Nat BY <1>2
  <2> HIDE DEF a, o
  <2>2. (a + o) % StubAlignment = 0 BY <1>4, <1>5, <2>1, MultipleSum
  <2> QED BY <1>4, <2>1, <2>2, AlignByIs
<1> DEFINE new == [sec |-> i, addr |-> a + o]
<1>7. stubs' = stubs \cup {new} /\ stubOff' = [stubOff EXCEPT ![i] = o + m]
  BY <1>6 DEF NewStub
<1>8. stubOff \in [Secs -> Nat] /\ stubs \subseteq [sec: Secs, addr: Nat] BY <1>0 DEF TypeOK
<1>9. /\ stubOff' \in [Secs -> Nat] /\ stubOff'[i] = o + m
      /\ \A j \in Secs : j # i => stubOff'[j] = stubOff[j]
      /\ stubs' \subseteq [sec: Secs, addr: Nat]
  <2>1. a + o \in Nat /\ o + m \in Nat BY <1>2
  <2> HIDE DEF a, o, m
  <2>2. new \in [sec: Secs, addr: Nat] BY <2>1
  <2> QED BY <1>7, <1>8, <2>1, <2>2
<1>10. /\ Secs' = Secs /\ MaxStubSize' = m /\ StubAlignment' = StubAlignment
       /\ \A j : Sec(j)' = Sec(j)
       /\ \A t : FirstStub(t)' = FirstStub(t) /\ NeedStub(t)' = NeedStub(t)
       /\ placed' = placed
  BY SameObject
<1>11. StubSpace'
  <2> SUFFICES ASSUME NEW j \in Secs, placed[j] # Nowhere
      PROVE /\ FirstStub(Sec(j)) <= stubOff'[j]
            /\ stubOff'[j] + m * Pending(j)' <= FirstStub(Sec(j)) + m * NeedStub(Sec(j))
            /\ NeedStub(Sec(j)) > 0 => stubOff'[j] % StubAlignment = 0
    BY <1>10 DEF StubSpace
  <2>1. CASE j # i BY <1>0, <1>9, <2>1 DEF StubSpace
  <2>2. CASE j = i
    <3> DEFINE first == FirstStub(s)
    <3>1. first \in Nat BY <1>0, <1>1, FirstStubIs
    <3>2. first <= o /\ o + m * p <= first + m * n BY <1>0 DEF StubSpace
    <3>3. Pending(i)' = p - 1 /\ p - 1 \in Nat BY <1>2, <1>3
    <3>4. m * n \in Nat BY <1>0, <1>1, StubRoom
    <3>5. (o + m) % StubAlignment = 0
      <4>1. o \in Int /\ m \in Int BY <1>2
      <4> HIDE DEF o, m
      <4> QED BY <1>4, <1>5, <4>1, MultipleSum
    <3> HIDE DEF first, o, m, p, n
    <3>6. m * (p - 1) = m * p - m /\ m * p \in Nat BY <1>2, TimesNat, Distributive
    <3>7. first <= o + m /\ o + m + m * (p - 1) <= first + m * n
      BY <1>2, <3>1, <3>2, <3>4, <3>6
    <3> QED BY <1>9, <2>2, <3>3, <3>5, <3>7 DEF first, o, m, p, n
  <2> QED BY <2>1, <2>2
<1>12. StubPlaces'
  <2> SUFFICES ASSUME NEW st \in stubs'
      PROVE /\ placed[st.sec] # Nowhere /\ st.addr % StubAlignment = 0
            /\ st.addr >= placed[st.sec].addr + Sec(st.sec).size
            /\ st.addr + m <= placed[st.sec].addr + stubOff'[st.sec]
    BY <1>10 DEF StubPlaces
  <2>1. CASE st \in stubs
    <3>1. /\ placed[st.sec] # Nowhere /\ st.addr % StubAlignment = 0
          /\ st.addr >= placed[st.sec].addr + Sec(st.sec).size
          /\ st.addr + m <= placed[st.sec].addr + stubOff[st.sec]
      BY <1>0, <2>1 DEF StubPlaces
    <3>2. st.sec \in Secs /\ st.addr \in Nat BY <1>8, <2>1
    <3>3. CASE st.sec = i
      <4>1. st.addr + m <= a + o BY <3>1, <3>3
      <4>2. st.addr + m <= a + (o + m)
        <5> HIDE DEF a, o, m
        <5> QED BY <1>2, <3>2, <4>1
      <4> QED BY <1>9, <3>1, <3>3, <4>2
    <3>4. CASE st.sec # i BY <1>9, <3>1, <3>2, <3>4
    <3> QED BY <3>3, <3>4
  <2>2. CASE st = new
    <3>1. st.sec = i /\ st.addr = a + o BY <2>2
    <3>2. a + o >= a + x /\ (a + o) + m <= a + (o + m)
      <4> HIDE DEF a, o, m, x
      <4> QED BY <1>2
    <3> QED BY <1>6, <1>9, <3>1, <3>2
  <2> QED BY <1>7, <2>1, <2>2
<1>13. ASSUME NEW st \in stubs
       PROVE st.addr + m <= a + o \/ (a + o) + m <= st.addr
  <2>1. st.sec \in Secs /\ st.addr \in Nat /\ placed[st.sec] # Nowhere
    BY <1>0, <1>8 DEF StubPlaces
  <2>2. CASE st.sec = i BY <1>0, <2>2 DEF StubPlaces
  <2>3. CASE st.sec # i
    <3> DEFINE b == placed[st.sec].addr  y == placed[st.sec].size  c == st.addr
    <3>1. b \in Nat /\ y \in Nat BY <2>1, StubsWithin
    <3>2. b <= c /\ c + m <= b + y BY StubsDisjoint
    <3>3. b + y <= a \/ a + z <= b
      <4>1. i \in Placed /\ st.sec \in Placed BY <1>0, <2>1 DEF Placed, TypeOK
      <4> QED BY <1>0, <2>3, <4>1 DEF SectionsApart
    <3>4. c \in Nat BY <2>1
    <3> HIDE DEF a, b, c, o, m, y, z, p
    <3>5. c + m <= a + o \/ (a + o) + m <= c BY <1>2, <1>3, <3>1, <3>2, <3>3, <3>4
    <3> QED BY <3>5 DEF c
  <2> QED BY <2>2, <2>3
<1>14. StubsApart'
  <2> SUFFICES ASSUME NEW st \in stubs', NEW tt \in stubs', st # tt
      PROVE st.addr + m <= tt.addr \/ tt.addr + m <= st.addr
    BY <1>10 DEF StubsApart
  <2>1. CASE st \in stubs /\ tt \in stubs BY <1>0, <2>1 DEF StubsApart
  <2>2. CASE st = new /\ tt \in stubs BY <1>13, <2>2
  <2>3. CASE tt = new /\ st \in stubs BY <1>13, <2>3
  <2> QED BY <1>7, <2>1, <2>2, <2>3
<1> QED BY <1>9, <1>11, <1>12, <1>14

-----------------------------------------------------------------------------
(* One lemma per operation *)
LEMMA ReserveStep == LInv /\ Reserve => LInv'
<1> SUFFICES ASSUME LInv, Reserve PROVE LInv' OBVIOUS
<1>0. /\ phase = "new" /\ phase' = "load"
      /\ obj' = obj /\ szb' = szb /\ placed' = placed /\ stubOff' = stubOff /\ stubs' = stubs
      /\ gotIndex' = gotIndex /\ todo' = todo
  BY DEF Reserve
<1>1. /\ obj \in Objects /\ TypeOK /\ Before /\ GOTLast /\ SectionsApart /\ ToDo
      /\ StubSpace /\ StubPlaces /\ StubsApart /\ GotCount
  BY DEF LInv
<1>2. szb = Zero /\ placed = [i \in Secs \cup {GOT} |-> Nowhere] BY <1>0, <1>1 DEF Before
<1>3. maxAlign' = MaxAlign BY DEF Reserve, MaxAlign
<1>4. MaxAlign \in Nat \ {0} BY <1>1, MaxAlignIs, AlignmentIs
<1>5. padded' = [k \in Kind |-> AlignBy(TotalSize(k), MaxAlign)]
  BY <1>3 DEF Reserve
<1>6. padded' \in [Kind -> Nat] BY <1>1, <1>5, Capacity
<1>7. base' \in Nat /\ base' % BaseAlign = 0
  <2>1. PICK a \in MemAddrs : base' = AlignBy(a, BaseAlign) BY DEF Reserve
  <2>2. a \in Nat /\ BaseAlign \in Nat \ {0} BY MemAddrsAssumption DEF BaseAlign
  <2> QED BY <2>1, <2>2, AlignByIs
<1>8. data' = [code |-> base', ro |-> base' + padded'["code"],
               rw |-> base' + padded'["code"] + padded'["ro"]]
  BY DEF Reserve
<1>9. data' \in [Kind -> Nat]
  <2>1. padded'["code"] \in Nat /\ padded'["ro"] \in Nat BY <1>6 DEF Kind
  <2>2. base' + padded'["code"] \in Nat /\ base' + padded'["code"] + padded'["ro"] \in Nat
    BY <1>7, <2>1
  <2> QED BY <1>7, <1>8, <2>2 DEF Kind
<1>10. TypeOK'
  <2>1. Secs' = Secs BY <1>0, SameObject
  <2> QED BY <1>0, <1>1, <1>3, <1>4, <1>6, <1>7, <1>9, <2>1 DEF TypeOK
<1>11. Layout'
  <2>1. MaxAlign' = MaxAlign /\ \A k : TotalSize(k)' = TotalSize(k) BY <1>0, SameObject
  <2> QED BY <1>3, <1>5, <1>8, <2>1 DEF Layout
<1>12. Before' /\ Enough' BY <1>0 DEF Before, Enough
<1>13. GOTLast' BY <1>0, <1>1 DEF GOTLast
<1>14. Measured'
  <2>1. \A k \in Kind : szb'[k] = 0 /\ padded'[k] \in Nat BY <1>0, <1>2, <1>6 DEF Zero
  <2>2. \A k \in Kind : Total(PlacedSizes(k)') \in Nat
    <3>1. \A k \in Kind : Total(PlacedSizes(k)) \in Nat BY <1>1, SizesIs
    <3> QED BY <1>0, <3>1, SamePlaces
  <2> QED BY <2>1, <2>2 DEF Measured
<1>15. Within' /\ SectionsApart'
  <2>1. Placed' = {} BY <1>0, <1>2 DEF Placed
  <2> QED BY <2>1 DEF Within, SectionsApart
<1>16. ToDo' BY <1>0, <1>1, SameObject DEF ToDo
<1>17. StubSpace' /\ StubPlaces' /\ StubsApart'
  <2>1. StubSpace'
    <3>1. \A i \in Secs : placed'[i] = Nowhere BY <1>0, <1>2
    <3>2. Secs' = Secs BY <1>0, SameObject
    <3> QED BY <3>1, <3>2 DEF StubSpace
  <2>2. stubs = {}
    <3>1. \A st \in stubs : st.sec \in Secs /\ placed[st.sec] # Nowhere BY <1>1 DEF TypeOK, StubPlaces
    <3> QED BY <1>2, <3>1
  <2> QED BY <1>0, <2>1, <2>2 DEF StubPlaces, StubsApart
<1>18. GotCount'
  <2>1. SelfContained' = SelfContained /\ Secs' = Secs /\ \A i : Sec(i)' = Sec(i) BY <1>0, SameObject
  <2>2. TodoGots' = TodoGots /\ Gots' = Gots BY <1>0, <2>1 DEF TodoGots, Gots
  <2> QED BY <1>0, <1>1, <2>1, <2>2 DEF GotCount
<1> QED BY <1>0, <1>1, <1>10, <1>11, <1>12, <1>13, <1>14, <1>15, <1>16, <1>17, <1>18 DEF LInv

(* emitSection keeps the invariant. *)
LEMMA EmitStep == \A i \in Secs : LInv /\ Emit(i) => LInv'
<1> SUFFICES ASSUME NEW i \in Secs, LInv, Emit(i) PROVE LInv' OBVIOUS
<1> DEFINE k == Sec(i).kind  n == AllocSize(Sec(i))  e == EmitAlign(Sec(i))
<1>0. /\ phase = "load" /\ placed[i] = Nowhere /\ Place(i, k, n, e)
      /\ stubOff' = [stubOff EXCEPT ![i] = FirstStub(Sec(i))]
      /\ obj' = obj /\ phase' = phase /\ stubs' = stubs /\ gotIndex' = gotIndex /\ todo' = todo
      /\ base' = base /\ data' = data /\ padded' = padded /\ maxAlign' = maxAlign
      /\ UNCHANGED <<obj, mem>>
  BY DEF Emit, mem
<1>1. /\ obj \in Objects /\ TypeOK /\ Layout /\ GOTLast /\ Measured /\ Within /\ SectionsApart /\ ToDo
      /\ StubSpace /\ StubPlaces /\ StubsApart /\ GotCount
  BY DEF LInv
<1>2. Sec(i) \in Section /\ k \in Kind /\ 0 \notin Secs BY <1>1, ObjectFacts DEF Section
<1>3. KindOf(i) = k BY <1>2 DEF KindOf, GOT
<1>4. n \in Nat /\ e \in Alignment /\ e \in Nat \ {0}
  BY <1>1, <1>2, SectionRoom, SectionAlign, AlignmentIs
<1>5. placed' = [placed EXCEPT ![i] = [addr |-> data[k] + AllocOffset(k, e), size |-> n]]
      /\ szb' = [szb EXCEPT ![k] = NewTop(k, n, e)]
  BY <1>0 DEF Place
<1>6. /\ szb[k] <= AllocOffset(k, e) /\ AllocOffset(k, e) \in Nat /\ NewTop(k, n, e) \in Nat
      /\ AllocOffset(k, e) % e = 0
      /\ NewTop(k, n, e) <= padded[k]
      /\ NoneOnly(k) => NewTop(k, n, e) <= Total(PlacedSizes(k)')
  BY <1>0, <1>5, EmitFits
<1>7. /\ placed' \in [Secs \cup {GOT} -> Block \cup {Nowhere}] /\ szb' \in [Kind -> Nat]
      /\ Placed' = Placed \cup {i}
      /\ placed'[i] = [addr |-> data[k] + AllocOffset(k, e), size |-> n]
      /\ \A j \in Placed : j # i /\ placed'[j] = placed[j]
      /\ \A j \in Placed' : InArea(j)'
      /\ \A j, l \in Placed' : j # l => Apart(j, l)'
  <2>1. i \in Secs \cup {GOT} OBVIOUS
  <2>2. Place(i, KindOf(i), n, e) /\ NewTop(KindOf(i), n, e) <= padded[KindOf(i)]
    BY <1>0, <1>3, <1>6
  <2> HIDE DEF k, n, e
  <2>3. /\ placed' \in [Secs \cup {GOT} -> Block \cup {Nowhere}] /\ szb' \in [Kind -> Nat]
        /\ Placed' = Placed \cup {i}
        /\ placed'[i] = [addr |-> data[KindOf(i)] + AllocOffset(KindOf(i), e), size |-> n]
        /\ \A j \in Placed : j # i /\ placed'[j] = placed[j]
        /\ \A j \in Placed' : InArea(j)'
        /\ \A j, l \in Placed' : j # l => Apart(j, l)'
    BY <1>0, <1>4, <2>1, <2>2, PlaceApart
  <2> QED BY <1>3, <2>3
<1>8. /\ Secs' = Secs /\ MaxAlign' = MaxAlign /\ SelfContained' = SelfContained
      /\ \A j : Sec(j)' = Sec(j)
      /\ \A l : OfKind(l)' = OfKind(l) /\ TotalSize(l)' = TotalSize(l) /\ KindAlign(l)' = KindAlign(l)
      /\ \A s : /\ NeedStub(s)' = NeedStub(s) /\ AllocSize(s)' = AllocSize(s)
                /\ EmitAlign(s)' = EmitAlign(s) /\ FirstStub(s)' = FirstStub(s)
      /\ MaxStubSize' = MaxStubSize /\ StubAlignment' = StubAlignment
  BY <1>0, SameObject
<1>9. FirstStub(Sec(i)) \in Nat BY <1>1, <1>2, FirstStubIs
<1>10. TypeOK'
  <2>1. stubOff' \in [Secs -> Nat] BY <1>0, <1>1, <1>9 DEF TypeOK
  <2> QED BY <1>0, <1>1, <1>7, <1>8, <2>1 DEF TypeOK
<1>11. Layout' BY <1>0, <1>1, <1>8 DEF Layout
<1>12. Before' /\ Enough' BY <1>0 DEF Before, Enough
<1>13. GOTLast'
  <2>1. i # GOT BY <1>2 DEF GOT
  <2> QED BY <1>0, <1>1, <1>5, <2>1 DEF GOTLast
<1>14. Measured'
  <2> SUFFICES ASSUME NEW l \in Kind
      PROVE /\ szb'[l] <= padded[l]
            /\ NoneOnly(l)' => szb'[l] <= Total(PlacedSizes(l)')
            /\ (\A j \in OfKind(l) : placed'[j] = Nowhere) => szb'[l] = 0
    BY <1>0, <1>8 DEF Measured
  <2>1. NoneOnly(l)' = NoneOnly(l) BY <1>0, <1>8 DEF NoneOnly, Only
  <2>2. CASE l = k
    <3>1. szb'[l] = NewTop(k, n, e) BY <1>1, <1>2, <1>5, <2>2 DEF TypeOK
    <3>2. i \in OfKind(l) /\ placed'[i] # Nowhere
      <4>1. i \in Placed' BY <1>7
      <4> QED BY <2>2, <4>1 DEF OfKind, Placed
    <3>3. Sec(i)' = Sec(i) BY <1>8
    <3>4. NoneOnly(l) => NewTop(k, n, e) <= Total(PlacedSizes(l)')
      BY <1>6, <2>2, <3>3 DEF PlacedSizes
    <3>5. NewTop(k, n, e) <= padded[l] BY <1>6, <2>2
    <3> QED BY <2>1, <3>1, <3>2, <3>4, <3>5
  <2>3. CASE l # k
    <3>1. szb'[l] = szb[l] BY <1>1, <1>2, <1>5, <2>3 DEF TypeOK
    <3>2. \A j \in OfKind(l) : placed'[j] = placed[j]
      <4>1. i \notin OfKind(l) BY <2>3 DEF OfKind
      <4> QED BY <1>1, <1>5, <4>1 DEF OfKind, TypeOK
    <3>3. PlacedSizes(l)' = PlacedSizes(l) BY <1>8, <3>2 DEF PlacedSizes, OfKind
    <3>4. /\ szb[l] <= padded[l] /\ (NoneOnly(l) => szb[l] <= Total(PlacedSizes(l)))
          /\ (\A j \in OfKind(l) : placed[j] = Nowhere) => szb[l] = 0
      BY <1>0, <1>1 DEF Measured
    <3> HIDE DEF k, n, e
    <3> QED BY <2>1, <3>1, <3>2, <3>3, <3>4
  <2> QED BY <2>2, <2>3
<1>15. Within'
  <2>1. ASSUME NEW j \in Placed' \cap Secs PROVE placed'[j].size = AllocSize(Sec(j))
    <3>1. CASE j = i BY <1>7, <3>1
    <3>2. CASE j # i BY <1>1, <1>7, <3>2 DEF Within
    <3> QED BY <3>1, <3>2
  <2> QED BY <1>7, <1>8, <2>1 DEF Within, InArea
<1>16. SectionsApart'
  <2>1. ASSUME NEW j \in Placed' \cap Secs PROVE placed'[j].addr % EmitAlign(Sec(j)) = 0
    <3>1. CASE j = i
      <4> DEFINE top == AllocOffset(k, e)
      <4>1. data[k] % e = 0 /\ data[k] \in Int
        <5>1. i \in OfKind(k) BY DEF OfKind
        <5>2. MaxAlign % e = 0 BY <1>1, <1>2, <5>1, EmitAlignDivides
        <5>3. phase # "new" BY <1>0
        <5> QED BY <1>2, <1>4, <5>2, <5>3, Areas
      <4>2. top % e = 0 /\ top \in Int BY <1>6
      <4> HIDE DEF top
      <4>3. (data[k] + top) % e = 0 BY <1>4, <4>1, <4>2, MultipleSum
      <4> QED BY <1>7, <3>1, <4>3 DEF top
    <3>2. CASE j # i BY <1>1, <1>7, <3>2 DEF SectionsApart
    <3> QED BY <3>1, <3>2
  <2> QED BY <1>7, <1>8, <2>1 DEF SectionsApart, Apart
<1>17. ToDo' BY <1>0, <1>1, <1>8 DEF ToDo
<1>18. \A st \in stubs : st.sec \in Secs /\ st.sec # i /\ placed'[st.sec] = placed[st.sec]
                         /\ stubOff'[st.sec] = stubOff[st.sec]
  <2>1. \A st \in stubs : st.sec \in Secs /\ placed[st.sec] # Nowhere BY <1>1 DEF TypeOK, StubPlaces
  <2>2. \A j \in Secs : j # i => placed'[j] = placed[j] /\ stubOff'[j] = stubOff[j]
    BY <1>0, <1>1, <1>5 DEF TypeOK
  <2> QED BY <1>0, <2>1, <2>2
<1>19. StubPlaces' /\ StubsApart' BY <1>0, <1>1, <1>8, <1>18 DEF StubPlaces, StubsApart
<1>20. StubSpace'
  <2> SUFFICES ASSUME NEW j \in Secs, placed'[j] # Nowhere
      PROVE /\ FirstStub(Sec(j)) <= stubOff'[j]
            /\ stubOff'[j] + MaxStubSize * Pending(j) <= FirstStub(Sec(j)) + MaxStubSize * NeedStub(Sec(j))
            /\ NeedStub(Sec(j)) > 0 => stubOff'[j] % StubAlignment = 0
    <3>1. \A j \in Secs : Pending(j)' = Pending(j) BY <1>0 DEF Pending
    <3> QED BY <1>8, <3>1 DEF StubSpace
  <2>1. CASE j # i
    <3>1. placed'[j] = placed[j] /\ stubOff'[j] = stubOff[j] BY <1>0, <1>1, <1>5, <2>1 DEF TypeOK
    <3> QED BY <1>1, <3>1 DEF StubSpace
  <2>2. CASE j = i
    <3> DEFINE first == FirstStub(Sec(i))  m == MaxStubSize  p == Pending(i)  need == NeedStub(Sec(i))
    <3>1. stubOff'[i] = first BY <1>0, <1>1 DEF TypeOK
    <3>2. p \in Nat /\ need \in Nat /\ p <= need
      <4>1. todo[i].calls <= Sec(i).calls /\ todo[i].gots <= Sec(i).gots BY <1>1 DEF ToDo
      <4>2. todo[i].calls \in Nat /\ todo[i].gots \in Nat BY <1>1 DEF TypeOK
      <4>3. Sec(i).calls \in Nat /\ Sec(i).gots \in Nat /\ Sec(i).others \in Nat BY <1>2 DEF Section
      <4> QED BY <4>1, <4>2, <4>3 DEF Pending, NeedStub
    <3>3. m \in Nat BY <1>1, FormatFacts
    <3>4. need > 0 => first % StubAlignment = 0 BY <1>1, <1>2, FirstStubIs
    <3>5. m * p <= m * need /\ m * p \in Nat /\ m * need \in Nat BY <3>2, <3>3, TimesMonotone, TimesNat
    <3> HIDE DEF first, m, p, need
    <3>6. first \in Nat BY <1>9 DEF first
    <3>7. first <= first /\ first + m * p <= first + m * need BY <3>5, <3>6
    <3> QED BY <2>2, <3>1, <3>4, <3>7 DEF first, m, p, need
  <2> QED BY <2>1, <2>2
<1>21. GotCount'
  <2>1. TodoGots' = TodoGots /\ Gots' = Gots BY <1>0, <1>8 DEF TodoGots, Gots
  <2> QED BY <1>0, <1>1, <1>8, <2>1 DEF GotCount
<1> QED BY <1>0, <1>1, <1>10, <1>11, <1>12, <1>13, <1>14, <1>15, <1>16, <1>17, <1>19, <1>20, <1>21
        DEF LInv

(* The relocations left to process, and the GOT entries still to be made *)
LEMMA TodoFacts ==
  ASSUME LInv
  PROVE /\ \A i \in Secs : /\ todo[i] \in [calls: Nat, gots: Nat] /\ Pending(i) \in Nat
                           /\ todo[i].calls <= Sec(i).calls /\ todo[i].gots <= Sec(i).gots
        /\ TodoGots \in Seq(Nat) /\ Len(TodoGots) = Len(obj.secs) /\ DOMAIN TodoGots = Secs
        /\ Total(TodoGots) \in Nat
<1>1. obj \in Objects /\ TypeOK /\ ToDo BY DEF LInv
<1>2. \A i \in Secs : todo[i] \in [calls: Nat, gots: Nat] BY <1>1 DEF TypeOK
<1>3. \A i \in Secs : Pending(i) \in Nat BY <1>2 DEF Pending
<1>4. Secs = 1 .. Len(obj.secs) /\ Len(obj.secs) \in Nat BY <1>1, ObjectFacts
<1>5. TodoGots \in Seq(Nat) /\ Len(TodoGots) = Len(obj.secs) /\ DOMAIN TodoGots = Secs
  BY <1>2, <1>4 DEF TodoGots
<1>6. Total(TodoGots) \in Nat BY <1>5, TotalNat
<1> QED BY <1>1, <1>2, <1>3, <1>5, <1>6 DEF ToDo

(* Processing a call keeps the invariant. *)
LEMMA ProcessCallStep == \A i \in Secs : LInv /\ ProcessCall(i) => LInv'
<1> SUFFICES ASSUME NEW i \in Secs, LInv, ProcessCall(i) PROVE LInv' OBVIOUS
<1>0. /\ phase = "load" /\ placed[i] # Nowhere /\ todo[i].calls > 0
      /\ todo' = [todo EXCEPT ![i].calls = @ - 1]
      /\ UNCHANGED <<obj, phase, mem, szb, placed>>
      /\ obj' = obj /\ phase' = phase /\ szb' = szb /\ placed' = placed
      /\ base' = base /\ data' = data /\ padded' = padded /\ maxAlign' = maxAlign
  BY DEF ProcessCall, mem
<1>1. obj \in Objects /\ TypeOK /\ ToDo /\ GotCount BY DEF LInv
<1>2. /\ obj' \in Objects
      /\ Layout' /\ Before' /\ GOTLast' /\ Measured' /\ Enough' /\ Within' /\ SectionsApart'
  BY <1>0, PlacesFrame
<1>3. \A j \in Secs : todo[j] \in [calls: Nat, gots: Nat] /\ todo[j].calls <= Sec(j).calls
                      /\ todo[j].gots <= Sec(j).gots /\ Pending(j) \in Nat
  BY TodoFacts
<1>4. /\ todo' \in [Secs -> [calls: Nat, gots: Nat]]
      /\ todo'[i].calls = todo[i].calls - 1 /\ todo'[i].gots = todo[i].gots
      /\ \A j \in Secs : j # i => todo'[j] = todo[j]
  BY <1>0, <1>1, <1>3 DEF TypeOK
<1>5. Secs' = Secs /\ SelfContained' = SelfContained /\ \A j : Sec(j)' = Sec(j)
  BY <1>0, SameObject
<1>6. \A j \in Secs : todo'[j].gots = todo[j].gots BY <1>4
<1>7. TodoGots' = TodoGots /\ Gots' = Gots BY <1>5, <1>6 DEF TodoGots, Gots
<1>8. ToDo'
  <2> SUFFICES ASSUME NEW j \in Secs
      PROVE todo'[j].calls <= Sec(j).calls /\ todo'[j].gots <= Sec(j).gots
    BY <1>5 DEF ToDo
  <2>1. Sec(j).calls \in Nat BY <1>1, ObjectFacts DEF Section
  <2>2. CASE j = i BY <1>3, <1>4, <2>1, <2>2
  <2>3. CASE j # i BY <1>3, <1>4, <2>3
  <2> QED BY <2>2, <2>3
<1>9. ASSUME StubSpace' /\ StubPlaces' /\ StubsApart', gotIndex' \in Nat, GotCount',
             stubOff' \in [Secs -> Nat], stubs' \subseteq [sec: Secs, addr: Nat]
      PROVE LInv'
  <2>1. TypeOK' BY <1>0, <1>1, <1>4, <1>5, <1>9 DEF TypeOK
  <2> QED BY <1>2, <1>8, <1>9, <2>1 DEF LInv
<1>10. CASE obj.fmt = "elf" /\ NewStub(i) /\ gotIndex' = gotIndex + 1
  <2>1. Pending(i) > 0 /\ Pending(i)' = Pending(i) - 1 BY <1>0, <1>4, <1>10 DEF Pending
  <2>2. \A j \in Secs : j # i => Pending(j)' = Pending(j) BY <1>0, <1>4 DEF Pending
  <2>3. /\ StubSpace' /\ StubPlaces' /\ StubsApart'
        /\ stubOff' \in [Secs -> Nat] /\ stubs' \subseteq [sec: Secs, addr: Nat]
    BY <1>0, <1>10, <2>1, <2>2, NewStubFits
  <2>4. gotIndex' \in Nat BY <1>1, <1>10 DEF TypeOK
  <2>5. ~ SelfContained
    <3>1. Sec(i).calls # 0
      <4>1. Sec(i).calls \in Nat BY <1>1, ObjectFacts DEF Section
      <4> QED BY <1>0, <1>3, <4>1
    <3> QED BY <1>10, <3>1 DEF SelfContained
  <2>6. GotCount' BY <1>0, <1>5, <1>10, <2>5 DEF GotCount
  <2> QED BY <1>9, <2>3, <2>4, <2>6
<1>11. CASE UNCHANGED <<stubs, stubOff, gotIndex>>
  <2>1. \A j \in Secs : Pending(j)' \in Nat /\ Pending(j)' <= Pending(j)
    <3> TAKE j \in Secs
    <3>1. CASE j = i BY <1>0, <1>3, <1>4, <3>1 DEF Pending
    <3>2. CASE j # i BY <1>0, <1>3, <1>4, <3>2 DEF Pending
    <3> QED BY <3>1, <3>2
  <2>2. StubSpace' /\ StubPlaces' /\ StubsApart' BY <1>0, <1>3, <1>11, <2>1, StubsFrame
  <2>3. GotCount' BY <1>0, <1>1, <1>5, <1>7, <1>11 DEF GotCount
  <2>4. /\ gotIndex' \in Nat /\ stubOff' \in [Secs -> Nat]
        /\ stubs' \subseteq [sec: Secs, addr: Nat]
    BY <1>1, <1>11 DEF TypeOK
  <2> QED BY <1>9, <2>2, <2>3, <2>4
<1> QED BY <1>10, <1>11 DEF ProcessCall

(* Processing a use of the GOT keeps the invariant. *)
LEMMA ProcessGotStep == \A i \in Secs : LInv /\ ProcessGot(i) => LInv'
<1> SUFFICES ASSUME NEW i \in Secs, LInv, ProcessGot(i) PROVE LInv' OBVIOUS
<1>0. /\ phase = "load" /\ placed[i] # Nowhere /\ todo[i].gots > 0
      /\ todo' = [todo EXCEPT ![i].gots = @ - 1]
      /\ UNCHANGED <<obj, phase, mem, szb, placed>>
      /\ obj' = obj /\ phase' = phase /\ szb' = szb /\ placed' = placed
      /\ base' = base /\ data' = data /\ padded' = padded /\ maxAlign' = maxAlign
  BY DEF ProcessGot, mem
<1>1. obj \in Objects /\ TypeOK /\ ToDo /\ GotCount BY DEF LInv
<1>2. /\ obj' \in Objects
      /\ Layout' /\ Before' /\ GOTLast' /\ Measured' /\ Enough' /\ Within' /\ SectionsApart'
  BY <1>0, PlacesFrame
<1>3. \A j \in Secs : todo[j] \in [calls: Nat, gots: Nat] /\ todo[j].calls <= Sec(j).calls
                      /\ todo[j].gots <= Sec(j).gots /\ Pending(j) \in Nat
  BY TodoFacts
<1>4. /\ todo' \in [Secs -> [calls: Nat, gots: Nat]]
      /\ todo'[i].gots = todo[i].gots - 1 /\ todo'[i].calls = todo[i].calls
      /\ \A j \in Secs : j # i => todo'[j] = todo[j]
  BY <1>0, <1>1, <1>3 DEF TypeOK
<1>5. Secs' = Secs /\ SelfContained' = SelfContained /\ \A j : Sec(j)' = Sec(j)
  BY <1>0, SameObject
<1>6. Gots' = Gots /\ Total(Gots) \in Nat BY <1>1, <1>5, GotsIs DEF Gots
<1>7. Total(TodoGots) \in Nat /\ Total(TodoGots') \in Nat /\ Total(TodoGots') + 1 = Total(TodoGots)
  <2> DEFINE f == TodoGots  g == [j \in Secs |-> todo'[j].gots]
  <2>1. /\ f \in Seq(Nat) /\ DOMAIN f = Secs /\ Secs = 1 .. Len(obj.secs)
        /\ Len(f) = Len(obj.secs) /\ Len(obj.secs) \in Nat
    BY <1>1, TodoFacts, ObjectFacts
  <2>2. \A j \in Secs : todo'[j].gots \in Nat /\ f[j] = todo[j].gots BY <1>4 DEF TodoGots
  <2>3. g \in Seq(Nat) /\ Len(g) = Len(obj.secs) BY <2>1, <2>2
  <2>4. TodoGots' = g BY <1>5 DEF TodoGots
  <2>5. \A j \in Secs : j # i => g[j] = f[j] BY <1>4, <2>2
  <2>6. f[i] \in Nat /\ g[i] = f[i] - 1 BY <1>3, <1>4, <2>2
  <2> HIDE DEF f, g
  <2>7. Total(g) + f[i] = Total(f) + g[i] BY <2>1, <2>3, <2>5, TotalChange
  <2>8. Total(g) \in Nat /\ Total(f) \in Nat BY <2>1, <2>3, TotalNat
  <2>9. Total(g) + 1 = Total(f) BY <2>6, <2>7, <2>8
  <2> QED BY <2>4, <2>8, <2>9 DEF f
<1>8. ToDo'
  <2> SUFFICES ASSUME NEW j \in Secs
      PROVE todo'[j].calls <= Sec(j).calls /\ todo'[j].gots <= Sec(j).gots
    BY <1>5 DEF ToDo
  <2>1. Sec(j).gots \in Nat BY <1>1, ObjectFacts DEF Section
  <2>2. CASE j = i BY <1>3, <1>4, <2>1, <2>2
  <2>3. CASE j # i BY <1>3, <1>4, <2>3
  <2> QED BY <2>2, <2>3
<1>9. ASSUME StubSpace' /\ StubPlaces' /\ StubsApart', gotIndex' \in Nat, GotCount',
             stubOff' \in [Secs -> Nat], stubs' \subseteq [sec: Secs, addr: Nat]
      PROVE LInv'
  <2>1. TypeOK' BY <1>0, <1>1, <1>4, <1>5, <1>9 DEF TypeOK
  <2> QED BY <1>2, <1>8, <1>9, <2>1 DEF LInv
<1>10. ASSUME UNCHANGED <<stubs, stubOff>>
       PROVE /\ StubSpace' /\ StubPlaces' /\ StubsApart'
             /\ stubOff' \in [Secs -> Nat] /\ stubs' \subseteq [sec: Secs, addr: Nat]
  <2>1. \A j \in Secs : Pending(j)' \in Nat /\ Pending(j)' <= Pending(j)
    <3> TAKE j \in Secs
    <3>1. CASE j = i BY <1>0, <1>3, <1>4, <3>1 DEF Pending
    <3>2. CASE j # i BY <1>0, <1>3, <1>4, <3>2 DEF Pending
    <3> QED BY <3>1, <3>2
  <2>2. StubSpace' /\ StubPlaces' /\ StubsApart' BY <1>0, <1>3, <1>10, <2>1, StubsFrame
  <2> QED BY <1>1, <1>10, <2>2 DEF TypeOK
<1>11. CASE obj.fmt = "elf" /\ gotIndex' = gotIndex + 1 /\ UNCHANGED <<stubs, stubOff>>
  <2>1. gotIndex \in Nat /\ gotIndex' \in Nat BY <1>1, <1>11 DEF TypeOK
  <2>2. SelfContained => gotIndex + Total(TodoGots) <= Total(Gots) BY <1>1, <1>11 DEF GotCount
  <2>3. SelfContained => gotIndex' + Total(TodoGots') <= Total(Gots)
    BY <1>6, <1>7, <1>11, <2>1, <2>2
  <2>4. GotCount' BY <1>0, <1>5, <1>6, <1>11, <2>3 DEF GotCount
  <2> QED BY <1>9, <1>10, <1>11, <2>1, <2>4
<1>12. ASSUME obj.fmt = "macho", gotIndex' = gotIndex PROVE gotIndex' \in Nat /\ GotCount'
  BY <1>0, <1>1, <1>12 DEF GotCount, TypeOK
<1>13. CASE obj.fmt = "macho" /\ NewStub(i) /\ UNCHANGED gotIndex
  <2>1. Pending(i) > 0 /\ Pending(i)' = Pending(i) - 1 BY <1>0, <1>4, <1>13 DEF Pending
  <2>2. \A j \in Secs : j # i => Pending(j)' = Pending(j) BY <1>0, <1>4 DEF Pending
  <2>3. /\ StubSpace' /\ StubPlaces' /\ StubsApart'
        /\ stubOff' \in [Secs -> Nat] /\ stubs' \subseteq [sec: Secs, addr: Nat]
    BY <1>0, <1>13, <2>1, <2>2, NewStubFits
  <2> QED BY <1>9, <1>12, <1>13, <2>3
<1>14. CASE obj.fmt = "macho" /\ UNCHANGED <<stubs, stubOff, gotIndex>>
  BY <1>9, <1>10, <1>12, <1>14
<1> QED BY <1>11, <1>13, <1>14 DEF ProcessGot

(* The GOT fits, if calls of library functions added no entries to it. *)
LEMMA GOTFits ==
  ASSUME LInv, phase = "load", gotIndex > 0, SelfContained
  PROVE NewTop("rw", gotIndex * GOTEntrySize, GOTEntrySize) <= padded["rw"]
<1>0. obj \in Objects /\ TypeOK /\ Measured /\ GotCount BY DEF LInv
<1>1. "rw" \in Kind /\ gotIndex \in Nat /\ szb["rw"] \in Nat BY <1>0 DEF TypeOK, Kind
<1>2. obj.fmt = "elf"
  <2>1. obj.fmt \in {"elf", "macho"} BY <1>0, ObjectFacts DEF Format
  <2> QED BY <1>0, <1>1, <2>1 DEF GotCount
<1>3. GOTEntrySize = 8 BY <1>0, <1>2, FormatFacts
<1> DEFINE a == KindAlign("rw")  P == PlacedSizes("rw")  t == Total(P)  g == Total(Gots)
           n == gotIndex * 8  top == AlignBy(szb["rw"], 8)
<1>4. gotIndex <= g /\ g \in Nat
  <2>1. gotIndex + Total(TodoGots) <= g BY <1>0, <1>2 DEF GotCount
  <2>2. Total(TodoGots) \in Nat BY TodoFacts
  <2>3. g \in Nat BY <1>0, GotsIs
  <2> QED BY <1>1, <2>1, <2>2, <2>3
<1>5. GOTSize = g * 8 /\ GOTSize \in Nat /\ GOTSize > 0 /\ n \in Nat /\ n <= GOTSize
  <2>1. GOTSize = g * 8 BY <1>0, <1>3, GotsIs
  <2> HIDE DEF g
  <2> QED BY <1>1, <1>4, <2>1
<1>6. a \in Alignment /\ a >= 8 BY <1>0, <1>1, <1>3, <1>5, KindAlignIs
<1>7. a \in Nat \ {0} /\ a % 8 = 0
  <2>1. 8 \in Alignment /\ a \in Nat \ {0} BY <1>6, AlignmentIs DEF Alignment
  <2>2. 8 <= a BY <1>6, <2>1
  <2> QED BY <1>6, <2>1, <2>2, AlignmentDivides
<1>8. szb["rw"] <= t /\ t \in Nat /\ t % a = 0 /\ t <= Total(Sizes("rw")) /\ Total(Sizes("rw")) \in Nat
  <2>1. NoneOnly("rw") BY <1>2 DEF NoneOnly, Only
  <2>2. szb["rw"] <= t BY <1>0, <1>1, <2>1 DEF Measured
  <2> QED BY <1>0, <1>1, <2>2, SizesIs
<1>9. /\ Total(Sizes("rw")) + AlignBy(GOTSize, a) <= TotalSize("rw") /\ TotalSize("rw") \in Nat
      /\ TotalSize("rw") <= padded["rw"] /\ padded["rw"] \in Nat
  <2>1. padded["rw"] = AlignBy(TotalSize("rw"), MaxAlign) /\ padded["rw"] \in Nat BY <1>1, Areas
  <2> QED BY <1>0, <1>1, <1>5, <2>1, Capacity
<1> HIDE DEF a, t, g, n
<1>10. top \in Nat /\ top <= t
  <2>1. 8 \in Nat \ {0} OBVIOUS
  <2>2. t % 8 = 0
    <3>1. t \in Int BY <1>8
    <3> QED BY <1>7, <1>8, <2>1, <3>1, MultipleTransitive
  <2> QED BY <1>1, <1>8, <2>1, <2>2, AlignByIs, AlignByLeast
<1>11. AlignBy(n, 8) \in Nat /\ AlignBy(n, 8) <= AlignBy(GOTSize, a) /\ AlignBy(GOTSize, a) \in Nat
  <2>1. AlignBy(GOTSize, a) \in Nat /\ GOTSize <= AlignBy(GOTSize, a) /\ AlignBy(GOTSize, a) % a = 0
    BY <1>5, <1>7, AlignByIs
  <2>2. 8 \in Nat \ {0} OBVIOUS
  <2>3. AlignBy(GOTSize, a) % 8 = 0
    <3>1. AlignBy(GOTSize, a) \in Int BY <2>1
    <3> QED BY <1>7, <2>1, <2>2, <3>1, MultipleTransitive
  <2>4. n <= AlignBy(GOTSize, a) BY <1>5, <2>1
  <2> QED BY <1>5, <2>1, <2>2, <2>3, <2>4, AlignByIs, AlignByLeast
<1>12. NewTop("rw", gotIndex * GOTEntrySize, GOTEntrySize) = top + AlignBy(n, 8)
  BY <1>3 DEF NewTop, AllocOffset, n
<1> HIDE DEF top
<1> QED BY <1>8, <1>9, <1>10, <1>11, <1>12

(* finalizeLoad keeps the invariant; it may place the GOT. *)
LEMMA FinalizeStep == LInv /\ FinalizeLoad => LInv'
<1> SUFFICES ASSUME LInv, FinalizeLoad PROVE LInv' OBVIOUS
<1>0. /\ phase = "load" /\ phase' = "loaded"
      /\ obj' = obj /\ stubOff' = stubOff /\ stubs' = stubs /\ gotIndex' = gotIndex /\ todo' = todo
      /\ base' = base /\ data' = data /\ padded' = padded /\ maxAlign' = maxAlign
      /\ UNCHANGED <<obj, mem>>
  BY DEF FinalizeLoad, mem
<1>1. /\ obj \in Objects /\ TypeOK /\ Layout /\ GOTLast /\ Measured /\ Within /\ SectionsApart /\ ToDo
      /\ StubSpace /\ StubPlaces /\ StubsApart /\ GotCount
  BY DEF LInv
<1>2. /\ Secs' = Secs /\ MaxAlign' = MaxAlign /\ SelfContained' = SelfContained
      /\ \A j : Sec(j)' = Sec(j)
      /\ \A k : TotalSize(k)' = TotalSize(k)
      /\ \A s : /\ NeedStub(s)' = NeedStub(s) /\ AllocSize(s)' = AllocSize(s)
                /\ EmitAlign(s)' = EmitAlign(s) /\ FirstStub(s)' = FirstStub(s)
      /\ MaxStubSize' = MaxStubSize /\ StubAlignment' = StubAlignment
  BY <1>0, SameObject
<1>3. Layout' BY <1>0, <1>1, <1>2 DEF Layout
<1>4. Before' /\ GOTLast' /\ Measured' BY <1>0 DEF Before, GOTLast, Measured
<1>5. ToDo' BY <1>0, <1>1, <1>2 DEF ToDo
<1>6. GotCount'
  <2>1. TodoGots' = TodoGots /\ Gots' = Gots BY <1>0, <1>2 DEF TodoGots, Gots
  <2> QED BY <1>0, <1>1, <1>2, <2>1 DEF GotCount
<1>7. GOT \notin Secs /\ placed[GOT] = Nowhere BY <1>0, <1>1, ObjectFacts DEF GOTLast, GOT
<1>8. \A j \in Secs : Pending(j)' = Pending(j) BY <1>0 DEF Pending
<1>9. ASSUME placed' \in [Secs \cup {GOT} -> Block \cup {Nowhere}], szb' \in [Kind -> Nat],
             \A j \in Secs : placed'[j] = placed[j], Enough', Within', SectionsApart'
      PROVE LInv'
  <2>1. TypeOK' BY <1>0, <1>1, <1>2, <1>9 DEF TypeOK
  <2>2. StubSpace' BY <1>0, <1>1, <1>2, <1>8, <1>9 DEF StubSpace
  <2>3. StubPlaces'
    <3>1. \A st \in stubs : st.sec \in Secs BY <1>1 DEF TypeOK
    <3> QED BY <1>0, <1>1, <1>2, <1>9, <3>1 DEF StubPlaces
  <2>4. StubsApart' BY <1>0, <1>1, <1>2 DEF StubsApart
  <2> QED BY <1>0, <1>1, <1>3, <1>4, <1>5, <1>6, <1>9, <2>1, <2>2, <2>3, <2>4 DEF LInv
<1>10. CASE gotIndex > 0
  <2> DEFINE n == gotIndex * GOTEntrySize  e == GOTEntrySize
  <2>1. KindOf(GOT) = "rw" BY DEF KindOf
  <2>2. e = 8 /\ n \in Nat
    <3>1. gotIndex \in Nat /\ obj.fmt \in {"elf", "macho"} BY <1>1, ObjectFacts DEF TypeOK, Format
    <3>2. obj.fmt = "elf" BY <1>1, <1>10, <3>1 DEF GotCount
    <3>3. e = 8 BY <1>1, <3>2, FormatFacts
    <3> QED BY <3>1, <3>3
  <2>3. Place(GOT, "rw", n, e) BY <1>10 DEF FinalizeLoad
  <2>4. /\ placed' \in [Secs \cup {GOT} -> Block \cup {Nowhere}] /\ szb' \in [Kind -> Nat]
        /\ Placed' = Placed \cup {GOT}
        /\ \A j \in Placed : j # GOT /\ placed'[j] = placed[j]
        /\ \A j \in Placed' : InArea(j)'
        /\ \A j, l \in Placed' : j # l => Apart(j, l)'
    <3>1. GOT \in Secs \cup {GOT} /\ e \in Nat \ {0} BY <2>2
    <3>2. Place(GOT, KindOf(GOT), n, e) BY <2>1, <2>3
    <3> HIDE DEF n, e
    <3>3. NewTop(KindOf(GOT), n, e) <= padded[KindOf(GOT)] \/ KindOf(GOT) = "rw" BY <2>1
    <3> QED BY <1>0, <1>7, <2>2, <3>1, <3>2, <3>3, PlaceApart
  <2>5. /\ \A j \in Secs : placed'[j] = placed[j]
        /\ szb' = [szb EXCEPT !["rw"] = NewTop("rw", n, e)]
    BY <1>1, <1>7, <2>3 DEF Place, TypeOK
  <2>6. Placed' \cap Secs = Placed \cap Secs BY <1>7, <2>4
  <2>7. Within' BY <1>1, <1>2, <2>4, <2>5, <2>6 DEF Within, InArea
  <2>8. SectionsApart' BY <1>1, <1>2, <2>4, <2>5, <2>6 DEF SectionsApart, Apart
  <2>9. Enough'
    <3> SUFFICES ASSUME NEW k \in Kind, k # "rw" \/ SelfContained PROVE szb'[k] <= padded[k]
      BY <1>0, <1>2 DEF Enough
    <3>1. CASE k # "rw"
      <4>1. szb'[k] = szb[k] BY <1>1, <2>5, <3>1 DEF TypeOK
      <4> QED BY <1>0, <1>1, <4>1 DEF Measured
    <3>2. CASE k = "rw"
      <4>1. szb'[k] = NewTop("rw", n, e) BY <1>1, <2>5, <3>2 DEF TypeOK
      <4>2. NewTop("rw", n, e) <= padded["rw"] BY <1>0, <1>10, <3>2, GOTFits
      <4> QED BY <3>2, <4>1, <4>2
    <3> QED BY <3>1, <3>2
  <2> QED BY <1>9, <2>4, <2>5, <2>7, <2>8, <2>9
<1>11. CASE ~ (gotIndex > 0)
  <2>1. placed' = placed /\ szb' = szb BY <1>11 DEF FinalizeLoad
  <2>2. Enough' BY <1>0, <1>1, <2>1 DEF Enough, Measured
  <2>3. Within' BY <1>0, <1>1, <1>2, <2>1, SamePlaces DEF Within
  <2>4. SectionsApart' BY <1>0, <1>1, <1>2, <2>1, SamePlaces DEF SectionsApart
  <2>5. placed' \in [Secs \cup {GOT} -> Block \cup {Nowhere}] /\ szb' \in [Kind -> Nat]
    BY <1>1, <2>1 DEF TypeOK
  <2> QED BY <1>9, <2>1, <2>2, <2>3, <2>4, <2>5
<1> QED BY <1>10, <1>11

(* The invariant is about the variables of the loader only. *)
LEMMA StutterStep == LInv /\ UNCHANGED vars => LInv'
<1> SUFFICES ASSUME LInv, UNCHANGED vars PROVE LInv' OBVIOUS
<1>0. /\ UNCHANGED <<obj, phase, mem, szb, placed>>
      /\ obj' = obj /\ placed' = placed /\ stubs' = stubs /\ stubOff' = stubOff
      /\ gotIndex' = gotIndex /\ todo' = todo /\ phase' = phase
  BY DEF vars, mem
<1>1. obj \in Objects /\ TypeOK /\ ToDo /\ GotCount BY DEF LInv
<1>2. /\ obj' \in Objects
      /\ Layout' /\ Before' /\ GOTLast' /\ Measured' /\ Enough' /\ Within' /\ SectionsApart'
  BY <1>0, PlacesFrame
<1>3. Secs' = Secs /\ SelfContained' = SelfContained /\ \A j : Sec(j)' = Sec(j)
  BY <1>0, SameObject
<1>4. TypeOK' BY <1>1, <1>3 DEF TypeOK, vars
<1>5. ToDo' BY <1>0, <1>1, <1>3 DEF ToDo
<1>6. GotCount'
  <2>1. TodoGots' = TodoGots /\ Gots' = Gots BY <1>0, <1>3 DEF TodoGots, Gots
  <2> QED BY <1>0, <1>1, <1>3, <2>1 DEF GotCount
<1>7. StubSpace' /\ StubPlaces' /\ StubsApart'
  <2>1. \A j \in Secs : Pending(j) \in Nat /\ Pending(j)' = Pending(j)
    BY <1>0, TodoFacts DEF Pending
  <2>2. \A j \in Secs : Pending(j) \in Nat /\ Pending(j)' \in Nat /\ Pending(j)' <= Pending(j) BY <2>1
  <2> QED BY <1>0, <2>2, StubsFrame
<1> QED BY <1>2, <1>4, <1>5, <1>6, <1>7 DEF LInv

-----------------------------------------------------------------------------
(***************************************************************************)
(* The theorems: for all objects, whatever the addresses that new[]        *)
(* returns, in whatever order RuntimeDyld meets sections and relocations.  *)
(***************************************************************************)

(* What MemManager and RuntimeDyld keep is related as LInv says, always. *)
THEOREM LoaderInvariant == Spec => []LInv
<1>1. Init => LInv BY LoaderInit
<1>2. LInv /\ [Next]_vars => LInv'
  BY ReserveStep, EmitStep, ProcessCallStep, ProcessGotStep, FinalizeStep, StutterStep DEF Next
<1> QED BY <1>1, <1>2, PTL DEF Spec

(* The type invariant of the loader. *)
THEOREM LoaderTypes == Spec => []TypeOK
<1>1. LInv => TypeOK BY DEF LInv
<1> QED BY <1>1, LoaderInvariant, PTL

(* What _Section::alloc hands out of each kind is no more than what
   reserveAllocationSpace got for it, when ELF objects have no calls. *)
THEOREM ReservationSuffices == Spec => []AllocFits
<1>1. LInv => AllocFits
  <2> SUFFICES ASSUME LInv, SelfContained, NEW k \in Kind PROVE szb[k] <= padded[k]
    BY DEF AllocFits
  <2>0. obj \in Objects /\ TypeOK /\ Before /\ Measured /\ Enough BY DEF LInv
  <2>1. CASE phase = "new"
    <3>1. szb[k] = 0 BY <2>0, <2>1 DEF Before, Zero
    <3>2. padded[k] \in Nat BY <2>0 DEF TypeOK
    <3> QED BY <3>1, <3>2
  <2>2. CASE phase = "load" BY <2>0, <2>2 DEF Measured
  <2>3. CASE phase = "loaded" BY <2>0, <2>3 DEF Enough
  <2> QED BY <2>0, <2>1, <2>2, <2>3 DEF TypeOK
<1> QED BY <1>1, LoaderInvariant, PTL

(* Sections that emitSection placed do not overlap and are aligned. *)
THEOREM SectionsDisjoint == Spec => []SectionsApart
<1>1. LInv => SectionsApart BY DEF LInv
<1> QED BY <1>1, LoaderInvariant, PTL

(* Stubs are aligned, within the room of their section, and do not overlap. *)
THEOREM StubsInside == Spec => []StubsFit
<1>1. LInv => StubsFit
  <2> SUFFICES ASSUME LInv PROVE StubsFit OBVIOUS
  <2>1. StubPlaces /\ StubsApart BY DEF LInv
  <2>2. ASSUME NEW st \in stubs
        PROVE /\ st.addr % StubAlignment = 0
              /\ st.addr >= placed[st.sec].addr + Sec(st.sec).size
              /\ st.addr + MaxStubSize <= placed[st.sec].addr + placed[st.sec].size
    BY <2>1, StubsDisjoint DEF StubPlaces
  <2> QED BY <2>1, <2>2 DEF StubsFit, StubsApart
<1> QED BY <1>1, LoaderInvariant, PTL
=============================================================================
