--------------------------- MODULE CallConvProofs ---------------------------
(***************************************************************************)
(* Proofs about CallConv, for any lists of parameters: values arrive, and  *)
(* the runtime system finds them in its registers.                         *)
(***************************************************************************)
EXTENDS CallConv, WellFoundedInduction, FiniteSetTheorems, SequenceTheorems, TLAPS

-----------------------------------------------------------------------------
(* Facts about numbers. *)

(* The order of the naturals is well-founded. *)
LEMMA LessIsWellFounded == IsWellFoundedOn({ss \in Nat \X Nat : ss[1] < ss[2]}, Nat)
BY NatLessThanWellFounded DEF OpToRel

(* Each nonempty set of naturals has a least element. *)
LEMMA LeastNat ==
  ASSUME NEW T \in SUBSET Nat, T # {}
  PROVE \E x \in T : \A y \in T : x <= y
<1> DEFINE R == {ss \in Nat \X Nat : ss[1] < ss[2]}
<1>1. \E x \in T : \A y \in T : ~ (<<y, x>> \in R)
  <2>1. IsWellFoundedOn(R, Nat) BY LessIsWellFounded
  <2> HIDE DEF R
  <2> QED BY <2>1, WFMin
<1>2. PICK x \in T : \A y \in T : ~ (<<y, x>> \in R) BY <1>1
<1>3. ASSUME NEW y \in T PROVE x <= y
  <2>1. <<y, x>> \in Nat \X Nat OBVIOUS
  <2>2. ~ (<<y, x>> \in R) BY <1>2
  <2> QED BY <2>1, <2>2
<1> QED BY <1>3

-----------------------------------------------------------------------------
Classes == {"gp", "fp"}
Kinds == {"STD_FUN", "KNOWN_FUN", "STD_CONT"}
SMLRegs == {"ALLOC", "LIMIT", "STORE", "EXN", "VAR"}

-----------------------------------------------------------------------------
(* How many registers the convention of a target has. *)
LEMMA Registers ==
  ASSUME NEW t \in DOMAIN JWA
  PROVE  /\ t \in {"x86_64", "aarch64"}
         /\ \A c \in Classes : DOMAIN JWA[t][c] = 1 .. Len(JWA[t][c])
         /\ Len(JWA[t].gp) = IF t = "x86_64" THEN 14 ELSE 27
         /\ Len(JWA[t].fp) = 16
<1>1. t \in {"x86_64", "aarch64"}
  BY DEF JWA
<1>2. CASE t = "x86_64"
  <2>1. DOMAIN JWA[t].gp = 1 .. Len(JWA[t].gp) /\ Len(JWA[t].gp) = 14
    BY <1>2 DEF JWA
  <2>2. DOMAIN JWA[t].fp = 1 .. Len(JWA[t].fp) /\ Len(JWA[t].fp) = 16
    BY <1>2 DEF JWA
  <2> QED
    BY <1>2, <2>1, <2>2 DEF Classes
<1>3. CASE t = "aarch64"
  <2>1. DOMAIN JWA[t].gp = 1 .. Len(JWA[t].gp) /\ Len(JWA[t].gp) = 27
    BY <1>3 DEF JWA
  <2>2. DOMAIN JWA[t].fp = 1 .. Len(JWA[t].fp) /\ Len(JWA[t].fp) = 16
    BY <1>3 DEF JWA
  <2> QED
    BY <1>3, <2>1, <2>2 DEF Classes
<1> QED
  BY <1>1, <1>2, <1>3

(* No register is in a convention twice, or in both of its lists. *)
LEMMA RegistersApart ==
  ASSUME NEW t \in DOMAIN JWA
  PROVE  /\ \A i, j \in DOMAIN JWA[t].gp : JWA[t].gp[i] = JWA[t].gp[j] => i = j
         /\ \A i, j \in DOMAIN JWA[t].fp : JWA[t].fp[i] = JWA[t].fp[j] => i = j
         /\ \A i \in DOMAIN JWA[t].gp, j \in DOMAIN JWA[t].fp : JWA[t].gp[i] # JWA[t].fp[j]
         /\ \A c \in Classes : \A i \in DOMAIN JWA[t][c] : JWA[t][c][i] # "none"
<1>1. t \in {"x86_64", "aarch64"}
  BY DEF JWA
<1>2. \A i, j \in DOMAIN JWA[t].gp : JWA[t].gp[i] = JWA[t].gp[j] => i = j
  BY <1>1 DEF JWA
<1>3. \A i, j \in DOMAIN JWA[t].fp : JWA[t].fp[i] = JWA[t].fp[j] => i = j
  BY <1>1 DEF JWA
<1>4. \A i \in DOMAIN JWA[t].gp, j \in DOMAIN JWA[t].fp : JWA[t].gp[i] # JWA[t].fp[j]
  BY <1>1 DEF JWA
<1>5. \A c \in Classes : \A i \in DOMAIN JWA[t][c] : JWA[t][c][i] # "none"
  BY <1>1 DEF JWA, Classes
<1> QED
  BY <1>2, <1>3, <1>4, <1>5

(* The first registers are those that the runtime system uses. *)
LEMMA RolesFirst ==
  ASSUME NEW t \in DOMAIN JWA
  PROVE  /\ Len(MachineRegs[t]) = IF t = "x86_64" THEN 3 ELSE 5
         /\ MachineRegs[t] \in Seq(SMLRegs)
         /\ \A i, j \in DOMAIN MachineRegs[t] : MachineRegs[t][i] = MachineRegs[t][j] => i = j
         /\ \A i \in DOMAIN MachineRegs[t] : JWA[t].gp[i] = Role[t][MachineRegs[t][i]]
         /\ \A i \in 1 .. 7 : JWA[t].gp[Len(MachineRegs[t]) + i] = Role[t][StdRoles[i]]
         /\ "ALLOC" \in Range(MachineRegs[t])
<1>1. t \in {"x86_64", "aarch64"}
  BY DEF JWA
<1>2. CASE t = "x86_64"
  <2>1. MachineRegs[t] \in Seq(SMLRegs) /\ Len(MachineRegs[t]) = 3
    BY <1>2 DEF MachineRegs, SMLRegs
  <2>2. \A i, j \in DOMAIN MachineRegs[t] : MachineRegs[t][i] = MachineRegs[t][j] => i = j
    BY <1>2 DEF MachineRegs
  <2>3. \A i \in DOMAIN MachineRegs[t] : JWA[t].gp[i] = Role[t][MachineRegs[t][i]]
    BY <1>2 DEF MachineRegs, JWA, Role
  <2>4. \A i \in 1 .. 7 : JWA[t].gp[3 + i] = Role[t][StdRoles[i]]
    BY <1>2 DEF JWA, Role, StdRoles
  <2>5. MachineRegs[t][1] = "ALLOC"
    BY <1>2 DEF MachineRegs
  <2> QED
    BY <1>2, <2>1, <2>2, <2>3, <2>4, <2>5 DEF Range
<1>3. CASE t = "aarch64"
  <2>1. MachineRegs[t] \in Seq(SMLRegs) /\ Len(MachineRegs[t]) = 5
    BY <1>3 DEF MachineRegs, SMLRegs
  <2>2. \A i, j \in DOMAIN MachineRegs[t] : MachineRegs[t][i] = MachineRegs[t][j] => i = j
    BY <1>3 DEF MachineRegs
  <2>3. \A i \in DOMAIN MachineRegs[t] : JWA[t].gp[i] = Role[t][MachineRegs[t][i]]
    BY <1>3 DEF MachineRegs, JWA, Role
  <2>4. \A i \in 1 .. 7 : JWA[t].gp[5 + i] = Role[t][StdRoles[i]]
    BY <1>3 DEF JWA, Role, StdRoles
  <2>5. MachineRegs[t][1] = "ALLOC"
    BY <1>3 DEF MachineRegs
  <2> QED
    BY <1>3, <2>1, <2>2, <2>3, <2>4, <2>5 DEF Range
<1> QED
  BY <1>1, <1>2, <1>3

-----------------------------------------------------------------------------
(* How registers are assigned to the elements of a list. *)

(* The i-th element of tys is the Rank(tys, i)-th of its class. *)
Rank(tys, i) == Cardinality({j \in 1 .. i : tys[j] = tys[i]})

(* The elements of a class are numbered in their order, up to their count. *)
LEMMA RankFacts ==
  ASSUME NEW tys \in Seq(Classes)
  PROVE  /\ \A i \in DOMAIN tys : Rank(tys, i) \in 1 .. i /\ Rank(tys, i) <= Count(tys[i], tys)
         /\ \A i, j \in DOMAIN tys : i < j /\ tys[i] = tys[j] => Rank(tys, i) < Rank(tys, j)
         /\ \A c \in Classes : Count(c, tys) \in Nat
<1>1. DOMAIN tys = 1 .. Len(tys) /\ Len(tys) \in Nat
  OBVIOUS
<1> DEFINE upto(i) == {j \in 1 .. i : tys[j] = tys[i]}
           all(c) == {i \in DOMAIN tys : tys[i] = c}
<1>2. ASSUME NEW i \in DOMAIN tys
      PROVE  /\ IsFiniteSet(1 .. i) /\ Cardinality(1 .. i) = i
             /\ IsFiniteSet(upto(i)) /\ Cardinality(upto(i)) \in 1 .. i
  <2>1. i \in Int /\ i >= 1
    BY <1>1
  <2>2. IsFiniteSet(1 .. i) /\ Cardinality(1 .. i) = i
    BY <2>1, FS_Interval
  <2>3. upto(i) \in SUBSET (1 .. i) /\ i \in upto(i)
    BY <2>1
  <2> HIDE DEF upto
  <2>4. IsFiniteSet(upto(i)) /\ Cardinality(upto(i)) <= i
    BY <2>2, <2>3, FS_Subset
  <2>5. Cardinality(upto(i)) \in Nat /\ Cardinality(upto(i)) # 0
    BY <2>3, <2>4, FS_CardinalityType, FS_EmptySet
  <2> QED
    BY <2>1, <2>2, <2>4, <2>5
<1>3. ASSUME NEW c PROVE IsFiniteSet(all(c)) /\ Cardinality(all(c)) \in Nat
  <2>1. IsFiniteSet(1 .. Len(tys)) /\ all(c) \in SUBSET (1 .. Len(tys))
    BY <1>1, FS_Interval
  <2> HIDE DEF all
  <2>2. IsFiniteSet(all(c))
    BY <2>1, FS_Subset
  <2> QED
    BY <2>2, FS_CardinalityType
<1>4. ASSUME NEW i \in DOMAIN tys PROVE Cardinality(upto(i)) <= Cardinality(all(tys[i]))
  <2>1. upto(i) \in SUBSET all(tys[i])
    BY <1>1
  <2>2. IsFiniteSet(all(tys[i]))
    BY <1>3
  <2> HIDE DEF upto, all
  <2> QED
    BY <2>1, <2>2, FS_Subset
<1>5. ASSUME NEW i \in DOMAIN tys, NEW j \in DOMAIN tys, i < j, tys[i] = tys[j]
      PROVE  Cardinality(upto(i)) < Cardinality(upto(j))
  <2>1. upto(i) \in SUBSET upto(j) /\ j \in upto(j) /\ j \notin upto(i)
    BY <1>1, <1>5
  <2> HIDE DEF upto
  <2>2. IsFiniteSet(upto(j)) /\ Cardinality(upto(i)) \in Nat /\ Cardinality(upto(j)) \in Nat
    <3>1. Cardinality(upto(i)) \in 1 .. i /\ Cardinality(upto(j)) \in 1 .. j /\ IsFiniteSet(upto(j))
      BY <1>2
    <3> QED
      BY <1>1, <3>1
  <2>3. Cardinality(upto(i)) <= Cardinality(upto(j)) /\ Cardinality(upto(i)) # Cardinality(upto(j))
    BY <2>1, <2>2, FS_Subset
  <2> QED
    BY <2>2, <2>3
<1> QED
  BY <1>2, <1>3, <1>4, <1>5 DEF Rank, Count

(* The last of a class has the count of the class as its rank. *)
LEMMA LastRank ==
  ASSUME NEW tys \in Seq(Classes), NEW c \in Classes, Count(c, tys) # 0
  PROVE  \E i \in DOMAIN tys : tys[i] = c /\ Rank(tys, i) = Count(c, tys)
<1> DEFINE all == {i \in DOMAIN tys : tys[i] = c}
           back == {Len(tys) - i : i \in all}
<1>1. DOMAIN tys = 1 .. Len(tys) /\ Len(tys) \in Nat
  OBVIOUS
<1>2. all # {}
  BY FS_EmptySet DEF Count
<1>3. back \in SUBSET Nat /\ back # {}
  BY <1>1, <1>2
<1> HIDE DEF back
<1>4. PICK k \in back : \A m \in back : k <= m
  BY <1>3, LeastNat
<1> USE DEF back
<1>5. PICK i \in all : k = Len(tys) - i
  BY <1>4
<1>6. \A j \in all : j <= i
  <2> SUFFICES ASSUME NEW j \in all PROVE j <= i
    OBVIOUS
  <2>1. Len(tys) - i <= Len(tys) - j
    BY <1>4, <1>5
  <2> QED
    BY <1>1, <2>1
<1>7. all = {j \in 1 .. i : tys[j] = tys[i]}
  BY <1>1, <1>5, <1>6
<1> QED
  BY <1>5, <1>7 DEF Rank, Count

(* A missing register is none of the target's. *)
LEMMA NoneApart ==
  ASSUME target \in DOMAIN JWA
  PROVE  "none" \notin HWRegs
BY RegistersApart DEF HWRegs, Range, Classes

(* Elements with a register have one of the target's, each its own. *)
LEMMA AssignedFacts ==
  ASSUME target \in DOMAIN JWA, NEW tys \in Seq(Classes)
  PROVE  /\ \A i \in DOMAIN tys :
              LET of == JWA[target][tys[i]] IN
              IF Rank(tys, i) <= Len(of)
              THEN /\ Rank(tys, i) \in DOMAIN of /\ Assigned(tys, i) = of[Rank(tys, i)]
                   /\ Assigned(tys, i) \in HWRegs /\ Assigned(tys, i) # "none"
              ELSE Assigned(tys, i) = "none"
         /\ \A i, j \in DOMAIN tys :
              Assigned(tys, i) = Assigned(tys, j) /\ Assigned(tys, i) # "none" => i = j
<1>1. DOMAIN tys = 1 .. Len(tys) /\ Len(tys) \in Nat /\ \A i \in DOMAIN tys : tys[i] \in Classes
  OBVIOUS
<1>2. ASSUME NEW i \in DOMAIN tys
      PROVE  LET of == JWA[target][tys[i]] IN
              IF Rank(tys, i) <= Len(of)
              THEN /\ Rank(tys, i) \in DOMAIN of /\ Assigned(tys, i) = of[Rank(tys, i)]
                   /\ Assigned(tys, i) \in HWRegs /\ Assigned(tys, i) # "none"
              ELSE Assigned(tys, i) = "none"
  <2> DEFINE of == JWA[target][tys[i]]
  <2>1. Assigned(tys, i) = IF Rank(tys, i) <= Len(of) THEN of[Rank(tys, i)] ELSE "none"
    BY DEF Assigned, Rank
  <2>2. CASE Rank(tys, i) <= Len(of)
    <3>1. tys[i] \in Classes /\ DOMAIN of = 1 .. Len(of) /\ Rank(tys, i) \in 1 .. i
      BY <1>1, Registers, RankFacts
    <3>2. Rank(tys, i) \in DOMAIN of
      BY <1>1, <2>2, <3>1
    <3>3. of[Rank(tys, i)] # "none"
      BY <3>1, <3>2, RegistersApart
    <3>4. of[Rank(tys, i)] \in Range(of)
      BY <3>2 DEF Range
    <3>5. of[Rank(tys, i)] \in HWRegs
      BY <3>1, <3>4 DEF HWRegs, Classes
    <3> QED
      BY <2>1, <2>2, <3>2, <3>3, <3>5
  <2> QED
    BY <2>1, <2>2
<1>3. ASSUME NEW i \in DOMAIN tys, NEW j \in DOMAIN tys,
             Assigned(tys, i) = Assigned(tys, j), Assigned(tys, i) # "none"
      PROVE  i = j
  <2>1. /\ Rank(tys, i) \in DOMAIN JWA[target][tys[i]]
        /\ Rank(tys, j) \in DOMAIN JWA[target][tys[j]]
        /\ JWA[target][tys[i]][Rank(tys, i)] = JWA[target][tys[j]][Rank(tys, j)]
    BY <1>2, <1>3
  <2>2. tys[i] \in {"gp", "fp"} /\ tys[j] \in {"gp", "fp"}
    BY <1>1 DEF Classes
  <2>3. tys[i] = tys[j]
    BY <2>1, <2>2, RegistersApart
  <2>4. Rank(tys, i) = Rank(tys, j)
    BY <2>1, <2>2, <2>3, RegistersApart
  <2>5. ~(i < j) /\ ~(j < i)
    <3>1. Rank(tys, i) \in Nat /\ Rank(tys, j) \in Nat
      BY <1>1, RankFacts
    <3> QED
      BY <2>3, <2>4, <3>1, RankFacts
  <2> QED
    BY <1>1, <2>5
<1> QED
  BY <1>2, <1>3

(* A list that starts with general elements has the first general registers. *)
LEMMA AssignedFirst ==
  ASSUME target \in DOMAIN JWA, NEW tys \in Seq(Classes), NEW k \in DOMAIN tys,
         \A j \in 1 .. k : tys[j] = "gp", k <= Len(JWA[target].gp)
  PROVE  Assigned(tys, k) = JWA[target].gp[k]
<1>1. k \in Int /\ k >= 1 /\ k \in 1 .. k
  OBVIOUS
<1>2. tys[k] = "gp"
  BY <1>1
<1> DEFINE upto == {j \in 1 .. k : tys[j] = tys[k]}
<1>3. upto = 1 .. k /\ Rank(tys, k) = Cardinality(upto)
  BY <1>2 DEF Rank
<1> HIDE DEF upto
<1>4. Rank(tys, k) = k
  <2>1. Cardinality(1 .. k) = IF 1 > k THEN 0 ELSE k - 1 + 1
    BY <1>1, FS_Interval
  <2> QED
    BY <1>1, <1>3, <2>1
<1> QED
  BY <1>2, <1>4, AssignedFacts

(* What is placed in the register of an element is read back from there. *)
LEMMA PlacedFacts ==
  ASSUME target \in DOMAIN JWA, hw \in [HWRegs -> Values],
         NEW tys \in Seq(Classes), NEW list \in Seq(Values), Len(list) = Len(tys),
         AllAssigned(tys)
  PROVE  /\ Placed(tys, list) \in [HWRegs -> Values]
         /\ \A i \in DOMAIN tys : Placed(tys, list)[Assigned(tys, i)] = list[i]
<1>1. DOMAIN list = DOMAIN tys /\ \A i \in DOMAIN list : list[i] \in Values
  <2>1. DOMAIN list = 1 .. Len(list) /\ DOMAIN tys = 1 .. Len(tys)
    OBVIOUS
  <2> QED
    BY <2>1
<1>2. \A i \in DOMAIN tys : Assigned(tys, i) \in HWRegs /\ Assigned(tys, i) # "none"
  BY AssignedFacts DEF AllAssigned
<1>3. \A i, j \in DOMAIN tys : Assigned(tys, i) = Assigned(tys, j) => i = j
  BY <1>2, AssignedFacts
<1> DEFINE at(r) == CHOOSE i \in DOMAIN list : Assigned(tys, i) = r
<1>4. ASSUME NEW r \in HWRegs, \E i \in DOMAIN list : Assigned(tys, i) = r
      PROVE  at(r) \in DOMAIN list /\ Assigned(tys, at(r)) = r
  BY <1>4
<1>5. \A i \in DOMAIN tys : at(Assigned(tys, i)) = i
  <2> TAKE i \in DOMAIN tys
  <2>1. at(Assigned(tys, i)) \in DOMAIN tys /\ Assigned(tys, at(Assigned(tys, i))) = Assigned(tys, i)
    BY <1>1, <1>2, <1>4
  <2> HIDE DEF at
  <2> QED
    BY <1>3, <2>1
<1>6. \A r \in HWRegs :
        Placed(tys, list)[r] =
          IF \E i \in DOMAIN list : Assigned(tys, i) = r THEN list[at(r)] ELSE hw[r]
  BY DEF Placed
<1>7. Placed(tys, list) \in [HWRegs -> Values]
  <2>1. \A r \in HWRegs : Placed(tys, list)[r] \in Values
    <3> HIDE DEF at
    <3> QED
      BY <1>1, <1>4, <1>6
  <2>2. DOMAIN Placed(tys, list) = HWRegs /\ Placed(tys, list) = [r \in HWRegs |-> Placed(tys, list)[r]]
    BY DEF Placed
  <2> QED
    BY <2>1, <2>2
<1>8. \A i \in DOMAIN tys : Placed(tys, list)[Assigned(tys, i)] = list[i]
  <2> HIDE DEF at
  <2> QED
    BY <1>1, <1>2, <1>5, <1>6
<1> QED
  BY <1>7, <1>8

-----------------------------------------------------------------------------
(* The lists of the code generator. *)

(* The parameters follow the general ones that hold the machine registers,
   and the two that a continuation does not use. *)
LEMMA ListFacts ==
  ASSUME target \in DOMAIN JWA, regs \in [Range(MachRegs) -> Values],
         NEW kind \in Kinds, NEW tys \in Seq(Classes), NEW args \in Seq(Values), Len(args) = Len(tys)
  PROVE  LET k == NExtra + NUnused(kind)
             ty == CreateFnTy(kind, tys)
             list == CreateArgs(kind) \o args
         IN /\ NExtra \in 3 .. 5 /\ NUnused(kind) \in {0, 2} /\ k \in Nat
            /\ ty \in Seq(Classes) /\ list \in Seq(Values)
            /\ Len(ty) = k + Len(tys) /\ Len(list) = Len(ty)
            /\ \A i \in 1 .. k : i \in DOMAIN ty /\ ty[i] = "gp"
            /\ \A i \in 1 .. NExtra : list[i] = regs[MachRegs[i]]
            /\ \A i \in DOMAIN tys :
                 k + i \in DOMAIN ty /\ ty[k + i] = tys[i] /\ list[k + i] = args[i]
<1> DEFINE u == NUnused(kind)
           k == NExtra + u
           front == CreateParamTys(kind)
           hwl == [i \in 1 .. NExtra |-> regs[MachRegs[i]]]
           un == [i \in 1 .. u |-> Undef]
           args0 == CreateArgs(kind)
<1>1. NExtra \in 3 .. 5 /\ u \in {0, 2} /\ MachRegs \in Seq(SMLRegs) /\ Len(MachRegs) = NExtra
  <2>1. MachineRegs[target] \in Seq(SMLRegs)
    BY RolesFirst
  <2>2. Len(MachineRegs[target]) = 3 \/ Len(MachineRegs[target]) = 5
    BY RolesFirst
  <2> QED
    BY <2>1, <2>2 DEF NExtra, NUnused, MachRegs
<1>2. k \in Nat /\ NExtra \in Nat /\ u \in Nat
  BY <1>1
<1>3. DOMAIN MachRegs = 1 .. NExtra
  BY <1>1
<1>4. \A i \in 1 .. NExtra : regs[MachRegs[i]] \in Values
  BY <1>3 DEF Range
<1>5. Undef \in Values
  BY DEF Undef, Values
<1>6. front = [i \in 1 .. k |-> "gp"]
  BY DEF CreateParamTys, GP
<1> HIDE DEF u, k
<1>7. front \in Seq(Classes) /\ Len(front) = k /\ \A i \in 1 .. k : front[i] = "gp"
  <2>1. front \in [1 .. k -> Classes]
    BY <1>6 DEF Classes
  <2> QED
    BY <1>2, <1>6, <2>1, SeqDef
<1>80. \A i \in 1 .. NExtra : hwl[i] = regs[MachRegs[i]]
  OBVIOUS
<1>8. hwl \in Seq(Values) /\ Len(hwl) = NExtra
  <2>1. hwl \in [1 .. NExtra -> Values]
    BY <1>4
  <2> QED
    BY <1>2, <2>1, SeqDef
<1>9. un \in Seq(Values) /\ Len(un) = u
  <2>1. un \in [1 .. u -> Values]
    BY <1>5
  <2> QED
    BY <1>2, <2>1, SeqDef
<1>10. args0 = hwl \o un
  BY DEF CreateArgs, u
<1> HIDE DEF front, hwl, un, args0
<1>11. args0 \in Seq(Values) /\ Len(args0) = k
  <2>1. hwl \o un \in Seq(Values) /\ Len(hwl \o un) = NExtra + u
    BY <1>8, <1>9, ConcatProperties
  <2> QED
    BY <1>2, <1>10, <2>1 DEF k
<1>110. \A i \in 1 .. NExtra : args0[i] = hwl[i]
  <2>1. \A i \in 1 .. NExtra + u : (hwl \o un)[i] = IF i <= NExtra THEN hwl[i] ELSE un[i - NExtra]
    BY <1>8, <1>9, ConcatProperties
  <2> TAKE i \in 1 .. NExtra
  <2>2. i \in 1 .. NExtra + u /\ i <= NExtra
    BY <1>2
  <2> QED
    BY <1>10, <2>1, <2>2
<1>12. /\ front \o tys \in Seq(Classes) /\ Len(front \o tys) = k + Len(tys)
       /\ \A i \in 1 .. k + Len(tys) : (front \o tys)[i] = IF i <= k THEN front[i] ELSE tys[i - k]
  BY <1>7, ConcatProperties
<1>13. args0 \o args \in Seq(Values) /\ Len(args0 \o args) = k + Len(args)
  BY <1>11, ConcatProperties
<1>130. \A i \in 1 .. k + Len(args) : (args0 \o args)[i] = IF i <= k THEN args0[i] ELSE args[i - k]
  BY <1>11, ConcatProperties
<1>14. /\ DOMAIN tys = 1 .. Len(tys) /\ Len(tys) \in Nat
       /\ DOMAIN (front \o tys) = 1 .. Len(front \o tys)
  BY <1>12, LenProperties
<1>15. \A i \in 1 .. k : i \in DOMAIN (front \o tys) /\ (front \o tys)[i] = "gp"
  BY <1>2, <1>7, <1>12, <1>14
<1>16. \A i \in 1 .. NExtra : (args0 \o args)[i] = regs[MachRegs[i]]
  <2> TAKE i \in 1 .. NExtra
  <2>1. k = NExtra + u
    BY DEF k
  <2>2. i \in 1 .. k + Len(args) /\ i <= k
    BY <1>2, <1>14, <2>1
  <2> QED
    BY <1>80, <1>110, <1>130, <2>2
<1>17. ASSUME NEW i \in DOMAIN tys
       PROVE  /\ k + i \in DOMAIN (front \o tys)
              /\ (front \o tys)[k + i] = tys[i] /\ (args0 \o args)[k + i] = args[i]
  <2>1. k + i \in 1 .. k + Len(tys) /\ ~(k + i <= k) /\ (k + i) - k = i
    BY <1>2, <1>14
  <2> QED
    BY <1>12, <1>130, <1>14, <2>1
<1> QED
  BY <1>1, <1>2, <1>12, <1>13, <1>15, <1>16, <1>17 DEF CreateFnTy, front, args0, k, u

(* The types of a function, whatever its arguments. *)
LEMMA TypeFacts ==
  ASSUME target \in DOMAIN JWA, regs \in [Range(MachRegs) -> Values],
         NEW kind \in Kinds, NEW tys \in Seq(Classes)
  PROVE  LET k == NExtra + NUnused(kind)
             ty == CreateFnTy(kind, tys)
         IN /\ k \in Nat /\ ty \in Seq(Classes) /\ Len(ty) = k + Len(tys)
            /\ \A i \in 1 .. k : i \in DOMAIN ty /\ ty[i] = "gp"
            /\ \A i \in DOMAIN tys : k + i \in DOMAIN ty /\ ty[k + i] = tys[i]
<1> DEFINE args == [i \in 1 .. Len(tys) |-> Undef]
<1>1. Len(tys) \in Nat /\ Undef \in Values
  BY DEF Undef, Values
<1>2. args \in [1 .. Len(tys) -> Values]
  BY <1>1
<1>3. args \in Seq(Values) /\ Len(args) = Len(tys)
  BY <1>1, <1>2, SeqDef
<1> HIDE DEF args
<1> QED
  BY <1>3, ListFacts

(* The types of a function are its machine registers and unused ones, all
   of them general, and its parameters. *)
LEMMA CountFnTy ==
  ASSUME target \in DOMAIN JWA, regs \in [Range(MachRegs) -> Values],
         NEW kind \in Kinds, NEW tys \in Seq(Classes), NEW c \in Classes
  PROVE  Count(c, CreateFnTy(kind, tys))
           = Count(c, tys) + IF c = "gp" THEN NExtra + NUnused(kind) ELSE 0
<1> DEFINE k == NExtra + NUnused(kind)
           ty == CreateFnTy(kind, tys)
           old == {i \in DOMAIN tys : tys[i] = c}
           moved == {k + i : i \in old}
           all == {i \in DOMAIN ty : ty[i] = c}
           front == IF c = "gp" THEN 1 .. k ELSE {}
           f == [i \in old |-> k + i]
<1>2. /\ k \in Nat /\ ty \in Seq(Classes) /\ Len(ty) = k + Len(tys)
      /\ \A i \in 1 .. k : i \in DOMAIN ty /\ ty[i] = "gp"
      /\ \A i \in DOMAIN tys : k + i \in DOMAIN ty /\ ty[k + i] = tys[i]
  BY TypeFacts
<1> HIDE DEF ty, k
<1>3. DOMAIN tys = 1 .. Len(tys) /\ Len(tys) \in Nat /\ DOMAIN ty = 1 .. k + Len(tys)
  BY <1>2, LenProperties
<1>4. all = moved \cup front
  <2>1. moved \subseteq all /\ front \subseteq all
    BY <1>2
  <2>2. ASSUME NEW i \in all PROVE i \in moved \cup front
    <3>1. CASE i <= k
      <4>1. i \in 1 .. k
        BY <1>3, <3>1
      <4> QED
        BY <1>2, <4>1
    <3>2. CASE ~(i <= k)
      <4>1. i - k \in 1 .. Len(tys) /\ k + (i - k) = i
        BY <1>2, <1>3, <3>2
      <4> QED
        BY <1>2, <1>3, <4>1
    <3> QED
      BY <3>1, <3>2
  <2> QED
    BY <2>1, <2>2
<1>5. moved \cap front = {}
  BY <1>2, <1>3
<1>6. IsFiniteSet(old) /\ Cardinality(old) \in Nat
  <2>1. IsFiniteSet(1 .. Len(tys)) /\ old \in SUBSET (1 .. Len(tys))
    BY <1>3, FS_Interval
  <2> HIDE DEF old
  <2> QED
    BY <2>1, FS_Subset, FS_CardinalityType
<1>7. f \in Bijection(old, moved)
  <2>1. \A i, j \in old : f[i] = f[j] => i = j
    BY <1>2, <1>3
  <2>2. \A m \in moved : \E i \in old : f[i] = m
    OBVIOUS
  <2>3. f \in [old -> moved]
    OBVIOUS
  <2> HIDE DEF old, moved, f
  <2> QED
    BY <2>1, <2>2, <2>3 DEF Bijection, Injection, Surjection, IsInjective
<1>8. IsFiniteSet(moved) /\ Cardinality(moved) = Cardinality(old)
  <2>1. ExistsBijection(old, moved)
    BY <1>7 DEF ExistsBijection
  <2> HIDE DEF old, moved
  <2> QED
    BY <1>6, <2>1, FS_Bijection
<1>9. IsFiniteSet(front) /\ Cardinality(front) = IF c = "gp" THEN k ELSE 0
  <2>1. k \in Int /\ k >= 0
    BY <1>2
  <2>2. IsFiniteSet(1 .. k) /\ Cardinality(1 .. k) = IF 1 > k THEN 0 ELSE k - 1 + 1
    BY <2>1, FS_Interval
  <2>3. Cardinality(1 .. k) = k
    BY <2>1, <2>2
  <2> QED
    BY <2>2, <2>3, FS_EmptySet
<1> HIDE DEF moved, front, old
<1>10. Cardinality(moved \cup front) = Cardinality(moved) + Cardinality(front)
  <2>1. Cardinality(moved \cup front) =
          Cardinality(moved) + Cardinality(front) - Cardinality(moved \cap front)
    BY <1>8, <1>9, FS_Union
  <2>2. Cardinality(moved \cap front) = 0
    BY <1>5, FS_EmptySet
  <2> QED
    BY <1>2, <1>6, <1>8, <1>9, <2>1, <2>2
<1>11. Cardinality(all) = Cardinality(old) + IF c = "gp" THEN k ELSE 0
  BY <1>4, <1>8, <1>9, <1>10
<1> QED
  BY <1>11 DEF Count, ty, k, old

(* The assertions of APPLY and THROW count what the convention has, but for
   the floats of AArch64. *)
LEMMA AssertionFacts ==
  ASSUME target \in DOMAIN JWA, regs \in [Range(MachRegs) -> Values],
         NEW kind \in Kinds, NEW tys \in Seq(Classes)
  PROVE  LET ty == CreateFnTy(kind, tys)
             n == Count("fp", tys)
         IN /\ TooMany(kind, tys) => ~AllAssigned(ty)
            /\ ~TooMany(kind, tys) /\ ~AllAssigned(ty) => target = "aarch64" /\ n \in 17 .. 32
<1> DEFINE ty == CreateFnTy(kind, tys)
           gps == Count("gp", tys)
           fps == Count("fp", tys)
           u == IF kind = "STD_CONT" THEN 2 ELSE 0
<1>2. ty \in Seq(Classes)
  BY TypeFacts
<1>3. /\ gps \in Nat /\ fps \in Nat
      /\ Count("gp", ty) = gps + (NExtra + u) /\ Count("fp", ty) = fps + 0
  BY RankFacts, CountFnTy DEF Classes, NUnused
<1>4. /\ target \in {"x86_64", "aarch64"}
      /\ NExtra = IF target = "x86_64" THEN 3 ELSE 5
      /\ Len(JWA[target].gp) = IF target = "x86_64" THEN 14 ELSE 27
      /\ Len(JWA[target].fp) = 16
  BY Registers, RolesFirst DEF NExtra, MachRegs
<1>5. /\ TargetInfo[target].numGPArgRegs = IF target = "x86_64" THEN 11 ELSE 22
      /\ TargetInfo[target].numFPArgRegs = IF target = "x86_64" THEN 16 ELSE 32
  BY <1>4 DEF TargetInfo
<1>6. TooMany(kind, tys) <=> \/ Count("gp", ty) > Len(JWA[target].gp)
                             \/ fps > TargetInfo[target].numFPArgRegs
  <2>1. TooMany(kind, tys) <=> \/ gps > TargetInfo[target].numGPArgRegs - u
                               \/ fps > TargetInfo[target].numFPArgRegs
    BY DEF TooMany
  <2> HIDE DEF gps, fps, ty
  <2>2. u \in {0, 2}
    OBVIOUS
  <2> HIDE DEF u
  <2> QED
    BY <1>3, <1>4, <1>5, <2>1, <2>2
<1>7. AllAssigned(ty) <=>
        Count("gp", ty) <= Len(JWA[target].gp) /\ Count("fp", ty) <= Len(JWA[target].fp)
  <2>1. ASSUME NEW c \in Classes, ~(Count(c, ty) <= Len(JWA[target][c])) PROVE ~AllAssigned(ty)
    <3>1. Count(c, ty) \in Nat /\ Len(JWA[target][c]) \in Nat
      BY <1>2, <1>4, RankFacts DEF Classes
    <3>2. PICK i \in DOMAIN ty : ty[i] = c /\ Rank(ty, i) = Count(c, ty)
      BY <1>2, <2>1, <3>1, LastRank
    <3>3. Assigned(ty, i) = "none"
      BY <1>2, <2>1, <3>2, AssignedFacts
    <3> QED
      BY <3>3 DEF AllAssigned
  <2>2. ASSUME NEW i \in DOMAIN ty, Assigned(ty, i) = "none"
        PROVE  \E c \in Classes : ~(Count(c, ty) <= Len(JWA[target][c]))
    <3>1. /\ ty[i] \in Classes /\ Rank(ty, i) \in 1 .. i /\ Rank(ty, i) <= Count(ty[i], ty)
          /\ Count(ty[i], ty) \in Nat
      BY <1>2, RankFacts
    <3>2. ~(Rank(ty, i) <= Len(JWA[target][ty[i]])) /\ Len(JWA[target][ty[i]]) \in Nat
      BY <1>2, <1>4, <2>2, <3>1, AssignedFacts DEF Classes
    <3> QED
      BY <3>1, <3>2
  <2> QED
    BY <2>1, <2>2 DEF AllAssigned, Classes
<1>8. fps > 16 /\ ~(fps > TargetInfo[target].numFPArgRegs) => target = "aarch64" /\ fps \in 17 .. 32
  <2> HIDE DEF fps
  <2>1. CASE target = "x86_64"
    <3>1. TargetInfo[target].numFPArgRegs = 16
      BY <1>5, <2>1
    <3> QED
      BY <3>1
  <2>2. CASE target = "aarch64"
    <3>1. TargetInfo[target].numFPArgRegs = 32 /\ fps \in Nat
      BY <1>3, <1>5, <2>2
    <3> QED
      BY <2>2, <3>1
  <2> QED
    BY <1>4, <2>1, <2>2
<1> HIDE DEF ty, fps, gps, u
<1>9. /\ TooMany(kind, tys) => ~AllAssigned(ty)
      /\ ~TooMany(kind, tys) /\ ~AllAssigned(ty) => target = "aarch64" /\ fps \in 17 .. 32
  <2>1. Count("gp", ty) \in Nat
    BY <1>2, RankFacts DEF Classes
  <2> QED
    BY <1>3, <1>4, <1>5, <1>6, <1>7, <1>8, <2>1
<1> QED
  BY <1>9 DEF ty, fps
-----------------------------------------------------------------------------
(* The inductive invariant *)

CTypes ==
  /\ target \in DOMAIN JWA /\ debug \in BOOLEAN /\ step \in 1 .. MaxSteps
  /\ pc \in {"entry", "body", "gc", "gcret", "overflow", "failed", "unassigned"}
  /\ fn \in [kind: Kinds, params: Seq(Classes)]
  /\ hw \in [HWRegs -> Values]
  /\ regs \in [Range(MachRegs) -> Values] /\ vals \in Seq(Values)
  /\ meant \in [regs: [Range(MachRegs) -> Values], vals: Seq(Values)]

(* In the code of a function its view is what is meant. *)
BodyHolds ==
  pc = "body" =>
    regs = meant.regs /\ vals = meant.vals /\ Len(vals) \in {Len(fn.params), Len(StdRoles)}

(* Between functions the processor has what is meant: the SML registers and
   the roots where the runtime system has them, the parameters where the
   function's own type puts them. *)
RegsHold ==
  pc \in {"entry", "gc", "gcret", "overflow"} =>
    \A r \in Range(MachRegs) : hw[Role[target][r]] = meant.regs[r]
EntryHolds ==
  pc = "entry" =>
    AllAssigned(FnTy) /\ EntryParams = meant.vals /\ Len(meant.vals) = Len(fn.params)
RootsHold ==
  pc \in {"gc", "gcret"} =>
    /\ Len(meant.vals) = Len(StdRoles)
    /\ \A i \in DOMAIN StdRoles : hw[Role[target][StdRoles[i]]] = meant.vals[i]

CInv ==
  /\ CTypes /\ BodyHolds /\ RegsHold /\ EntryHolds /\ RootsHold
  /\ AssertionsExact

-----------------------------------------------------------------------------
(* What the runtime system has in registers is in the first general ones. *)
LEMMA RoleFacts ==
  ASSUME target \in DOMAIN JWA
  PROVE  /\ NExtra \in 3 .. 5 /\ DOMAIN MachRegs = 1 .. NExtra
         /\ NExtra + 7 <= Len(JWA[target].gp) /\ DOMAIN StdRoles = 1 .. 7 /\ Len(StdRoles) = 7
         /\ \A i \in 1 .. NExtra : /\ MachRegs[i] \in Range(MachRegs)
                                   /\ JWA[target].gp[i] = Role[target][MachRegs[i]]
         /\ \A r \in Range(MachRegs) : \E i \in 1 .. NExtra : MachRegs[i] = r
         /\ \A i, j \in 1 .. NExtra : MachRegs[i] = MachRegs[j] => i = j
         /\ \A i \in 1 .. 7 : JWA[target].gp[NExtra + i] = Role[target][StdRoles[i]]
         /\ \A r \in Range(MachRegs) : Role[target][r] \in HWRegs
         /\ \A i \in 1 .. 7 : Role[target][StdRoles[i]] \in HWRegs
<1>1. /\ NExtra = Len(MachRegs) /\ MachRegs \in Seq(SMLRegs)
      /\ target \in {"x86_64", "aarch64"}
      /\ NExtra = IF target = "x86_64" THEN 3 ELSE 5
      /\ Len(JWA[target].gp) = IF target = "x86_64" THEN 14 ELSE 27
      /\ DOMAIN JWA[target].gp = 1 .. Len(JWA[target].gp)
  BY Registers, RolesFirst DEF NExtra, MachRegs, Classes
<1>2. DOMAIN MachRegs = 1 .. NExtra
  BY <1>1, LenProperties
<1>3. NExtra \in 3 .. 5 /\ NExtra + 7 <= Len(JWA[target].gp)
  BY <1>1
<1>4. DOMAIN StdRoles = 1 .. 7 /\ Len(StdRoles) = 7
  BY DEF StdRoles
<1>5. \A i \in 1 .. NExtra : MachRegs[i] \in Range(MachRegs)
  BY <1>2 DEF Range
<1>6. \A i \in 1 .. NExtra : JWA[target].gp[i] = Role[target][MachRegs[i]]
  <2>1. \A i \in DOMAIN MachineRegs[target] : JWA[target].gp[i] = Role[target][MachineRegs[target][i]]
    BY RolesFirst
  <2> QED
    BY <1>2, <2>1 DEF MachRegs
<1>7. \A r \in Range(MachRegs) : \E i \in 1 .. NExtra : MachRegs[i] = r
  BY <1>2 DEF Range
<1>8. \A i, j \in 1 .. NExtra : MachRegs[i] = MachRegs[j] => i = j
  BY <1>2, RolesFirst DEF MachRegs
<1>9. \A i \in 1 .. 7 : JWA[target].gp[NExtra + i] = Role[target][StdRoles[i]]
  BY RolesFirst DEF NExtra, MachRegs
<1>10. \A i \in DOMAIN JWA[target].gp : JWA[target].gp[i] \in HWRegs
  <2> TAKE i \in DOMAIN JWA[target].gp
  <2>1. JWA[target].gp[i] \in Range(JWA[target].gp)
    BY DEF Range
  <2> QED
    BY <2>1 DEF HWRegs
<1>11. \A r \in Range(MachRegs) : Role[target][r] \in HWRegs
  <2> TAKE r \in Range(MachRegs)
  <2>1. PICK i \in 1 .. NExtra : MachRegs[i] = r
    BY <1>7
  <2>2. i \in DOMAIN JWA[target].gp
    BY <1>1
  <2> QED
    BY <1>6, <1>10, <2>1, <2>2
<1>12. \A i \in 1 .. 7 : Role[target][StdRoles[i]] \in HWRegs
  <2> TAKE i \in 1 .. 7
  <2>1. NExtra + i \in DOMAIN JWA[target].gp
    BY <1>1
  <2> QED
    BY <1>9, <1>10, <2>1
<1> QED
  BY <1>2, <1>3, <1>4, <1>5, <1>6, <1>7, <1>8, <1>9, <1>11, <1>12

(* The registers of a list that starts with as many general elements as
   there are machine registers *)
LEMMA FirstAssigned ==
  ASSUME target \in DOMAIN JWA, NEW tys \in Seq(Classes),
         \A i \in 1 .. NExtra : i \in DOMAIN tys /\ tys[i] = "gp"
  PROVE  \A i \in 1 .. NExtra : Assigned(tys, i) = Role[target][MachRegs[i]]
<1> TAKE i \in 1 .. NExtra
<1>1. NExtra \in 3 .. 5 /\ NExtra + 7 <= Len(JWA[target].gp)
      /\ JWA[target].gp[i] = Role[target][MachRegs[i]]
  BY RoleFacts
<1>2. Len(JWA[target].gp) \in Nat
  BY Registers
<1>3. i <= Len(JWA[target].gp) /\ \A j \in 1 .. i : j \in 1 .. NExtra
  BY <1>1, <1>2
<1>4. i \in DOMAIN tys /\ \A j \in 1 .. i : tys[j] = "gp"
  BY <1>3
<1> QED
  BY <1>1, <1>3, <1>4, AssignedFirst

(* A list that starts with the machine registers puts them where the
   runtime system has them. *)
LEMMA PlacedRegs ==
  ASSUME target \in DOMAIN JWA, hw \in [HWRegs -> Values],
         NEW tys \in Seq(Classes), NEW list \in Seq(Values), Len(list) = Len(tys),
         AllAssigned(tys),
         \A i \in 1 .. NExtra : i \in DOMAIN tys /\ tys[i] = "gp" /\ list[i] = regs[MachRegs[i]]
  PROVE  \A r \in Range(MachRegs) : Placed(tys, list)[Role[target][r]] = regs[r]
<1> TAKE r \in Range(MachRegs)
<1>1. PICK i \in 1 .. NExtra : MachRegs[i] = r
  BY RoleFacts
<1>2. Placed(tys, list)[Assigned(tys, i)] = list[i]
  BY PlacedFacts
<1>3. Assigned(tys, i) = Role[target][MachRegs[i]]
  BY FirstAssigned
<1> QED
  BY <1>1, <1>2, <1>3

(* The types of every function start with the machine registers. *)
LEMMA EntryRegsFacts ==
  ASSUME target \in DOMAIN JWA, regs \in [Range(MachRegs) -> Values], NEW kind \in Kinds, NEW tys \in Seq(Classes)
  PROVE  LET ty == CreateFnTy(kind, tys) IN
         /\ ty \in Seq(Classes)
         /\ \A i \in 1 .. NExtra :
              i \in DOMAIN ty /\ ty[i] = "gp" /\ Assigned(ty, i) = Role[target][MachRegs[i]]
<1> DEFINE ty == CreateFnTy(kind, tys)
           k == NExtra + NUnused(kind)
<1>1. ty \in Seq(Classes) /\ \A i \in 1 .. k : i \in DOMAIN ty /\ ty[i] = "gp"
  BY TypeFacts
<1>2. \A i \in 1 .. NExtra : i \in 1 .. k
  BY RoleFacts, SMTT(60) DEF NUnused
<1> HIDE DEF k, ty
<1>3. \A i \in 1 .. NExtra : i \in DOMAIN ty /\ ty[i] = "gp"
  BY <1>1, <1>2
<1>4. \A i \in 1 .. NExtra : Assigned(ty, i) = Role[target][MachRegs[i]]
  BY <1>1, <1>3, FirstAssigned
<1> QED
  BY <1>1, <1>3, <1>4 DEF ty

(* The list of callGC: all are general, and have registers. *)
LEMMA GCFacts ==
  ASSUME target \in DOMAIN JWA, regs \in [Range(MachRegs) -> Values],
         NEW roots \in Seq(Values), Len(roots) = 7
  PROVE  LET list == CreateArgs("STD_FUN") \o roots IN
         /\ GCTys \in Seq(Classes) /\ list \in Seq(Values)
         /\ Len(GCTys) = NExtra + 7 /\ Len(list) = Len(GCTys) /\ AllAssigned(GCTys)
         /\ \A i \in 1 .. NExtra : /\ i \in DOMAIN GCTys /\ GCTys[i] = "gp"
                                   /\ list[i] = regs[MachRegs[i]]
                                   /\ Assigned(GCTys, i) = Role[target][MachRegs[i]]
         /\ \A i \in 1 .. 7 : /\ NExtra + i \in DOMAIN GCTys /\ list[NExtra + i] = roots[i]
                              /\ Assigned(GCTys, NExtra + i) = Role[target][StdRoles[i]]
<1> DEFINE list == CreateArgs("STD_FUN") \o roots
<1>1. NumGCRoots = 7
  <2>1. target \in {"x86_64", "aarch64"}
    BY Registers
  <2>2. TargetInfo[target].numCalleeSaves = 3
    BY <2>1 DEF TargetInfo
  <2> QED
    BY <2>2 DEF NumGCRoots
<1>2. GP(7) \in Seq(Classes) /\ Len(GP(7)) = 7 /\ DOMAIN GP(7) = 1 .. 7 /\ \A i \in 1 .. 7 : GP(7)[i] = "gp"
  <2>1. GP(7) \in [1 .. 7 -> Classes]
    BY DEF GP, Classes
  <2>2. GP(7) \in Seq(Classes)
    BY <2>1, SeqDef
  <2> QED
    BY <2>1, <2>2 DEF GP
<1>3. GCTys = CreateFnTy("STD_FUN", GP(7))
  BY <1>1 DEF GCTys, CreateFnTy
<1>4. "STD_FUN" \in Kinds /\ NUnused("STD_FUN") = 0
  BY DEF Kinds, NUnused
<1>5. /\ NExtra \in 3 .. 5 /\ NExtra + 7 <= Len(JWA[target].gp)
      /\ \A i \in 1 .. NExtra : JWA[target].gp[i] = Role[target][MachRegs[i]]
      /\ \A i \in 1 .. 7 : JWA[target].gp[NExtra + i] = Role[target][StdRoles[i]]
  BY RoleFacts
<1> DEFINE k == NExtra + NUnused("STD_FUN")
<1>6. /\ GCTys \in Seq(Classes) /\ list \in Seq(Values)
      /\ Len(GCTys) = k + 7 /\ Len(list) = Len(GCTys)
      /\ \A i \in 1 .. k : i \in DOMAIN GCTys /\ GCTys[i] = "gp"
      /\ \A i \in 1 .. NExtra : list[i] = regs[MachRegs[i]]
      /\ \A i \in 1 .. 7 :
           k + i \in DOMAIN GCTys /\ GCTys[k + i] = "gp" /\ list[k + i] = roots[i]
  <2> HIDE DEF k
  <2>1. Len(roots) = Len(GP(7))
    BY <1>2
  <2>2. /\ GCTys \in Seq(Classes) /\ list \in Seq(Values)
        /\ Len(GCTys) = k + Len(GP(7)) /\ Len(list) = Len(GCTys)
        /\ \A i \in 1 .. k : i \in DOMAIN GCTys /\ GCTys[i] = "gp"
        /\ \A i \in 1 .. NExtra : list[i] = regs[MachRegs[i]]
        /\ \A i \in DOMAIN GP(7) :
             k + i \in DOMAIN GCTys /\ GCTys[k + i] = GP(7)[i] /\ list[k + i] = roots[i]
    <3> DEFINE tys == GP(7)
               ty == CreateFnTy("STD_FUN", tys)
    <3>1. tys \in Seq(Classes) /\ Len(roots) = Len(tys)
      BY <1>2, <2>1
    <3> HIDE DEF tys
    <3>2. /\ ty \in Seq(Classes) /\ list \in Seq(Values)
          /\ Len(ty) = k + Len(tys) /\ Len(list) = Len(ty)
          /\ \A i \in 1 .. k : i \in DOMAIN ty /\ ty[i] = "gp"
          /\ \A i \in 1 .. NExtra : list[i] = regs[MachRegs[i]]
          /\ \A i \in DOMAIN tys : k + i \in DOMAIN ty /\ ty[k + i] = tys[i] /\ list[k + i] = roots[i]
      BY <1>4, <3>1, ListFacts, ZenonT(60) DEF k
    <3>3. GCTys = ty
      BY <1>3 DEF tys
    <3> HIDE DEF ty, list
    <3> QED
      BY <3>2, <3>3 DEF tys
  <2> QED
    BY <1>2, <2>2
<1>7. k = NExtra
  BY <1>4, <1>5
<1> HIDE DEF k, list
<1>8. DOMAIN GCTys = 1 .. NExtra + 7
  BY <1>6, <1>7, LenProperties
<1>9. \A i \in 1 .. NExtra + 7 : GCTys[i] = "gp"
  <2> TAKE i \in 1 .. NExtra + 7
  <2>1. CASE i <= NExtra
    <3>1. i \in 1 .. NExtra
      BY <1>5, <2>1
    <3> QED
      BY <1>6, <1>7, <3>1
  <2>2. CASE ~(i <= NExtra)
    <3>1. i - NExtra \in 1 .. 7 /\ NExtra + (i - NExtra) = i
      BY <1>5, <2>2
    <3> QED
      BY <1>6, <1>7, <3>1
  <2> QED
    BY <2>1, <2>2
<1>10. \A i \in 1 .. NExtra + 7 : Assigned(GCTys, i) = JWA[target].gp[i]
  <2> TAKE i \in 1 .. NExtra + 7
  <2>1. Len(JWA[target].gp) \in Nat
    BY Registers
  <2>2. i <= Len(JWA[target].gp) /\ \A j \in 1 .. i : j \in 1 .. NExtra + 7
    BY <1>5, <2>1, SMTT(60)
  <2> QED
    BY <1>6, <1>8, <1>9, <2>2, AssignedFirst
<1>11. AllAssigned(GCTys)
  <2> SUFFICES ASSUME NEW i \in DOMAIN GCTys PROVE Assigned(GCTys, i) # "none"
    BY DEF AllAssigned
  <2>1. Len(JWA[target].gp) \in Nat /\ DOMAIN JWA[target].gp = 1 .. Len(JWA[target].gp)
    BY Registers DEF Classes
  <2>2. i \in 1 .. NExtra + 7 /\ i \in DOMAIN JWA[target].gp
    BY <1>5, <1>8, <2>1
  <2> QED
    BY <1>10, <2>2, RegistersApart DEF Classes
<1>12. \A i \in 1 .. NExtra : i \in 1 .. NExtra + 7
  BY <1>5
<1>13. \A i \in 1 .. 7 : NExtra + i \in 1 .. NExtra + 7
  BY <1>5
<1> QED
  BY <1>5, <1>6, <1>7, <1>10, <1>11, <1>12, <1>13 DEF list
(* Where the parameters of an escaping function are, the SML registers and
   general parameters being first in the list. *)
LEMMA StdParamFacts ==
  ASSUME target \in DOMAIN JWA, regs \in [Range(MachRegs) -> Values],
         NEW kind \in Kinds, NEW tys \in Seq(Classes), NEW i \in DOMAIN tys,
         \A j \in 1 .. i : tys[j] = "gp", i + NUnused(kind) \in DOMAIN StdRoles
  PROVE  Assigned(CreateFnTy(kind, tys), NExtra + NUnused(kind) + i)
           = Role[target][StdRoles[i + NUnused(kind)]]
<1> DEFINE u == NUnused(kind)
           k == NExtra + u
           ty == CreateFnTy(kind, tys)
<1>2. /\ ty \in Seq(Classes) /\ \A n \in 1 .. k : n \in DOMAIN ty /\ ty[n] = "gp"
      /\ \A n \in DOMAIN tys : k + n \in DOMAIN ty /\ ty[k + n] = tys[n]
  BY TypeFacts
<1>3. /\ NExtra \in 3 .. 5 /\ u \in {0, 2} /\ i + u \in 1 .. 7 /\ i \in 1 .. Len(tys) /\ Len(tys) \in Nat
      /\ NExtra + 7 <= Len(JWA[target].gp) /\ Len(JWA[target].gp) \in Nat
  <2>1. NExtra \in 3 .. 5 /\ NExtra + 7 <= Len(JWA[target].gp) /\ DOMAIN StdRoles = 1 .. 7
    BY RoleFacts
  <2>2. Len(JWA[target].gp) \in Nat
    BY Registers
  <2>3. i \in 1 .. Len(tys) /\ Len(tys) \in Nat
    BY LenProperties
  <2>4. u \in {0, 2}
    BY DEF NUnused
  <2> QED
    BY <2>1, <2>2, <2>3, <2>4
<1> HIDE DEF u, ty
<1>4. \A j \in 1 .. k + i : ty[j] = "gp"
  <2> TAKE j \in 1 .. k + i
  <2>1. CASE j <= k
    <3>1. j \in 1 .. k
      BY <1>3, <2>1
    <3> QED
      BY <1>2, <3>1
  <2>2. CASE ~(j <= k)
    <3>1. j - k \in 1 .. i /\ k + (j - k) = j /\ j - k \in DOMAIN tys
      BY <1>3, <2>2
    <3> QED
      BY <1>2, <3>1
  <2> QED
    BY <2>1, <2>2
<1>5. k + i \in DOMAIN ty /\ k + i <= Len(JWA[target].gp) /\ k + i = NExtra + (i + u)
  <2>1. k + i \in DOMAIN ty
    BY <1>2
  <2>2. k + i = NExtra + (i + u) /\ k + i <= NExtra + 7
    BY <1>3, SMTT(60)
  <2>3. k + i <= Len(JWA[target].gp)
    <3> DEFINE gps == Len(JWA[target].gp)
    <3>1. NExtra + 7 <= gps /\ gps \in Nat /\ k + i \in Nat /\ NExtra \in Nat
      BY <1>3
    <3> HIDE DEF gps, k
    <3>2. k + i <= gps
      BY <2>2, <3>1
    <3> QED
      BY <3>2 DEF gps
  <2> QED
    BY <2>1, <2>2, <2>3
<1>6. Assigned(ty, k + i) = JWA[target].gp[k + i]
  BY <1>2, <1>4, <1>5, AssignedFirst
<1>7. JWA[target].gp[NExtra + (i + u)] = Role[target][StdRoles[i + u]]
  BY <1>3, RoleFacts
<1> QED
  BY <1>5, <1>6, <1>7 DEF u, ty

-----------------------------------------------------------------------------
(* The values that a step makes are values. *)
LEMMA NewValuesFacts ==
  ASSUME step \in Nat, NEW name \in {"arg", "root"}, NEW n \in Nat
  PROVE  NewValues(name, n) \in Seq(Values) /\ Len(NewValues(name, n)) = n
<1>1. \A i \in 1 .. n : <<name, step * 100 + i>> \in Values
  BY DEF Values
<1>2. NewValues(name, n) \in [1 .. n -> Values]
  BY <1>1 DEF NewValues
<1> HIDE DEF NewValues
<1>3. NewValues(name, n) \in Seq(Values)
  BY <1>2, SeqDef
<1>4. DOMAIN NewValues(name, n) = 1 .. n
  BY <1>2
<1> QED
  BY <1>3, <1>4, LenProperties

(* CInv is what the program starts with. *)
LEMMA InitInv ==
  Init => CInv
<1> SUFFICES ASSUME Init PROVE CInv
  OBVIOUS
<1>1. target \in DOMAIN JWA /\ pc = "body"
  BY DEF Init
<1>2. Range(MachRegs) \subseteq SMLRegs
  <2>1. MachRegs \in Seq(SMLRegs)
    BY <1>1, RolesFirst DEF MachRegs
  <2> QED
    BY <2>1 DEF Range
<1>3. regs \in [Range(MachRegs) -> Values]
  <2>1. \A r \in Range(MachRegs) : <<r, 0>> \in Values
    BY <1>2 DEF SMLRegs, Values
  <2> QED
    BY <2>1 DEF Init
<1>4. vals \in Seq(Values) /\ vals = <<>> /\ Len(vals) = 0
  BY DEF Init
<1>5. fn \in [kind: Kinds, params: Seq(Classes)] /\ Len(fn.params) = 0
  BY DEF Init, Kinds
<1>6. meant = [regs |-> regs, vals |-> vals]
  BY DEF Init
<1>7. hw \in [HWRegs -> Values]
  BY DEF Init, Undef, Values
<1>8. step \in 1 .. MaxSteps
  BY MaxStepsAssumption DEF Init
<1>9. CTypes
  BY <1>1, <1>3, <1>4, <1>5, <1>6, <1>7, <1>8 DEF CTypes, Init
<1>10. BodyHolds
  BY <1>4, <1>5, <1>6 DEF BodyHolds
<1> QED
  BY <1>1, <1>9, <1>10 DEF CInv, RegsHold, EntryHolds, RootsHold, AssertionsExact

(* What a call leaves behind is the type of the function it enters. *)
LEMMA SameTarget ==
  ASSUME target' = target, NEW f, fn' = f
  PROVE  LET ty == CreateFnTy(f.kind, f.params) IN
         /\ MachRegs' = MachRegs /\ NExtra' = NExtra /\ HWRegs' = HWRegs
         /\ FnTy' = ty
         /\ AllAssigned(FnTy)' <=> AllAssigned(ty)
         /\ EntryParams' =
              [i \in DOMAIN f.params |-> hw'[Assigned(ty, NExtra + NUnused(f.kind) + i)]]
         /\ FloatsShort' <=> target = "aarch64" /\ Count("fp", f.params) \in 17 .. 32
<1>1. MachRegs' = MachRegs /\ NExtra' = NExtra /\ HWRegs' = HWRegs
  BY DEF MachRegs, NExtra, HWRegs
<1>2. FnTy' = CreateFnTy(f.kind, f.params)
  BY <1>1 DEF FnTy, CreateFnTy, CreateParamTys, NUnused, GP
<1>3. \A i : Assigned(FnTy, i)' = Assigned(CreateFnTy(f.kind, f.params), i)
  BY <1>1, <1>2 DEF Assigned
<1>4. AllAssigned(FnTy)' <=> AllAssigned(CreateFnTy(f.kind, f.params))
  BY <1>2, <1>3 DEF AllAssigned
<1>5. EntryParams' =
        [i \in DOMAIN f.params |->
           hw'[Assigned(CreateFnTy(f.kind, f.params), NExtra + NUnused(f.kind) + i)]]
  <2>1. (NExtra + NUnused(fn.kind))' = NExtra + NUnused(f.kind)
    BY <1>1 DEF NUnused
  <2> QED
    BY <1>2, <2>1 DEF EntryParams, Element, Assigned
<1>6. FloatsShort' <=> target = "aarch64" /\ Count("fp", f.params) \in 17 .. 32
  BY DEF FloatsShort, Count
<1> QED
  BY <1>1, <1>2, <1>4, <1>5, <1>6
(* A call keeps CInv: where the convention has registers, they have the
   arguments at the entry; otherwise an assertion has failed, or LLVM does. *)
LEMMA TransferInv ==
  ASSUME CInv, NEW f \in Functions, NEW label \in BOOLEAN, Transfer(f, f.kind, label)
  PROVE  CInv'
<1> DEFINE nv == NewValues("arg", Len(f.params))
           ty == CreateFnTy(f.kind, f.params)
           list == CreateArgs(f.kind) \o nv
           k == NExtra + NUnused(f.kind)
<1>1. /\ target \in DOMAIN JWA /\ step \in 1 .. MaxSteps /\ debug \in BOOLEAN
      /\ hw \in [HWRegs -> Values] /\ regs \in [Range(MachRegs) -> Values] /\ vals \in Seq(Values)
  BY DEF CInv, CTypes
<1>2. /\ fn' = f /\ target' = target /\ debug' = debug /\ regs' = regs /\ vals' = vals
      /\ meant' = [regs |-> regs, vals |-> nv] /\ meant'.vals = nv /\ meant'.regs = regs
      /\ step < MaxSteps /\ step' = step + 1
  BY DEF Transfer, Step
<1>3. f.kind \in Kinds /\ f.params \in Seq(Classes) /\ f \in [kind: Kinds, params: Seq(Classes)]
  BY ParamsAssumption DEF Functions, Kinds, Classes
<1>4. nv \in Seq(Values) /\ Len(nv) = Len(f.params)
  BY <1>1, <1>3, NewValuesFacts
<1>5. IF debug /\ TooMany(f.kind, f.params) THEN pc' = "failed" /\ hw' = hw
      ELSE IF AllAssigned(ty) THEN pc' = "entry" /\ hw' = Placed(ty, list)
      ELSE pc' = "unassigned" /\ hw' = hw
  BY <1>2 DEF Transfer, JWACall
<1> HIDE DEF nv
<1>6. /\ k \in Nat /\ ty \in Seq(Classes) /\ list \in Seq(Values)
      /\ Len(list) = Len(ty)
      /\ \A i \in 1 .. k : i \in DOMAIN ty /\ ty[i] = "gp"
      /\ \A i \in 1 .. NExtra : list[i] = regs[MachRegs[i]]
      /\ \A i \in DOMAIN f.params : k + i \in DOMAIN ty /\ list[k + i] = nv[i]
  <2> DEFINE kind == f.kind
             tys == f.params
  <2>1. kind \in Kinds /\ tys \in Seq(Classes) /\ Len(nv) = Len(tys)
    BY <1>3, <1>4
  <2> HIDE DEF kind, tys
  <2>2. LET n == NExtra + NUnused(kind)
            t == CreateFnTy(kind, tys)
            l == CreateArgs(kind) \o nv
        IN /\ n \in Nat /\ t \in Seq(Classes) /\ l \in Seq(Values)
           /\ Len(l) = Len(t)
           /\ \A i \in 1 .. n : i \in DOMAIN t /\ t[i] = "gp"
           /\ \A i \in 1 .. NExtra : l[i] = regs[MachRegs[i]]
           /\ \A i \in DOMAIN tys : n + i \in DOMAIN t /\ l[n + i] = nv[i]
    BY <1>1, <1>4, <2>1, ListFacts
  <2> QED
    BY <2>2 DEF kind, tys
<1>7. \A i \in 1 .. NExtra : i \in 1 .. k
  BY <1>1, RoleFacts, SMTT(60) DEF NUnused
<1>8. /\ TooMany(f.kind, f.params) => ~AllAssigned(ty)
      /\ ~TooMany(f.kind, f.params) /\ ~AllAssigned(ty) =>
           target = "aarch64" /\ Count("fp", f.params) \in 17 .. 32
  BY <1>1, <1>3, AssertionFacts
<1>9. /\ MachRegs' = MachRegs /\ NExtra' = NExtra /\ HWRegs' = HWRegs
      /\ AllAssigned(FnTy)' <=> AllAssigned(ty)
      /\ EntryParams' = [i \in DOMAIN f.params |-> hw'[Assigned(ty, k + i)]]
      /\ FloatsShort' <=> target = "aarch64" /\ Count("fp", f.params) \in 17 .. 32
  BY <1>2, SameTarget
<1> HIDE DEF ty, list
<1>10. AllAssigned(ty) =>
         /\ Placed(ty, list) \in [HWRegs -> Values]
         /\ \A i \in DOMAIN ty : Placed(ty, list)[Assigned(ty, i)] = list[i]
  BY <1>1, <1>6, PlacedFacts
<1>11. AllAssigned(ty) => \A r \in Range(MachRegs) : Placed(ty, list)[Role[target][r]] = regs[r]
  <2> HIDE DEF k
  <2> QED
    BY <1>1, <1>6, <1>7, PlacedRegs
<1>12. /\ pc' \in {"entry", "failed", "unassigned"} /\ hw' \in [HWRegs -> Values]
       /\ pc' = "entry" => AllAssigned(ty) /\ hw' = Placed(ty, list)
       /\ pc' = "failed" => ~AllAssigned(ty)
       /\ pc' = "unassigned" => ~debug \/ FloatsShort'
  BY <1>1, <1>5, <1>8, <1>9, <1>10
<1>13. CTypes'
  <2>1. step' \in 1 .. MaxSteps
    BY <1>1, <1>2, MaxStepsAssumption
  <2>2. Range(MachRegs)' = Range(MachRegs)
    BY <1>9 DEF Range
  <2> QED
    BY <1>1, <1>2, <1>3, <1>4, <1>9, <1>12, <2>1, <2>2 DEF CTypes
<1>14. BodyHolds' /\ RootsHold'
  BY <1>12 DEF BodyHolds, RootsHold
<1>15. RegsHold'
  <2>1. Range(MachRegs)' = Range(MachRegs)
    BY <1>9 DEF Range
  <2> QED
    BY <1>2, <1>11, <1>12, <2>1 DEF RegsHold
<1>16. EntryHolds'
  <2> SUFFICES ASSUME pc' = "entry"
               PROVE  AllAssigned(FnTy)' /\ EntryParams' = nv /\ Len(nv) = Len(f.params)
    BY <1>2 DEF EntryHolds
  <2>1. \A i \in DOMAIN f.params : hw'[Assigned(ty, k + i)] = nv[i]
    <3> HIDE DEF k
    <3> QED
      BY <1>6, <1>10, <1>12
  <2>2. DOMAIN nv = DOMAIN f.params /\ nv = [i \in DOMAIN f.params |-> nv[i]]
    BY <1>3, <1>4, LenProperties
  <2> QED
    BY <1>4, <1>9, <1>12, <2>1, <2>2
<1>17. AssertionsExact'
  BY <1>2, <1>9, <1>12 DEF AssertionsExact
<1> QED
  BY <1>13, <1>14, <1>15, <1>16, <1>17 DEF CInv
(* At its entry a function takes what its caller gave. *)
LEMMA EntryInv ==
  ASSUME CInv, SetupStdEntry
  PROVE  CInv'
<1>1. /\ target \in DOMAIN JWA /\ step \in 1 .. MaxSteps /\ debug \in BOOLEAN
      /\ fn \in [kind: Kinds, params: Seq(Classes)]
      /\ hw \in [HWRegs -> Values] /\ regs \in [Range(MachRegs) -> Values] /\ vals \in Seq(Values)
      /\ meant \in [regs: [Range(MachRegs) -> Values], vals: Seq(Values)]
  BY DEF CInv, CTypes
<1>2. /\ pc = "entry" /\ regs' = EntryRegs /\ vals' = EntryParams /\ pc' = "body"
      /\ target' = target /\ debug' = debug /\ fn' = fn /\ hw' = hw /\ meant' = meant /\ step' = step
  BY DEF SetupStdEntry
<1>3. /\ AllAssigned(FnTy) /\ EntryParams = meant.vals /\ Len(meant.vals) = Len(fn.params)
      /\ \A r \in Range(MachRegs) : hw[Role[target][r]] = meant.regs[r]
  BY <1>2 DEF CInv, EntryHolds, RegsHold
<1>4. meant.regs \in [Range(MachRegs) -> Values] /\ meant.vals \in Seq(Values)
  BY <1>1
<1>5. EntryRegs = meant.regs
  <2>1. \A i \in 1 .. NExtra : Assigned(FnTy, i) = Role[target][MachRegs[i]]
    BY <1>1, EntryRegsFacts DEF FnTy
  <2>2. ASSUME NEW r \in Range(MachRegs)
        PROVE  Element(FnTy, CHOOSE i \in 1 .. NExtra : MachRegs[i] = r) = meant.regs[r]
    <3>1. \E i \in 1 .. NExtra : MachRegs[i] = r
      BY <1>1, RoleFacts
    <3> DEFINE i == CHOOSE n \in 1 .. NExtra : MachRegs[n] = r
    <3>2. i \in 1 .. NExtra /\ MachRegs[i] = r
      BY <3>1
    <3> HIDE DEF i
    <3>3. Element(FnTy, i) = meant.regs[r]
      BY <1>3, <2>1, <3>2 DEF Element
    <3> QED
      BY <3>3 DEF i
  <2>3. meant.regs = [r \in Range(MachRegs) |-> meant.regs[r]]
    BY <1>4
  <2> QED
    BY <2>2, <2>3 DEF EntryRegs
<1>6. /\ MachRegs' = MachRegs /\ HWRegs' = HWRegs /\ Range(MachRegs)' = Range(MachRegs)
  BY <1>2 DEF MachRegs, HWRegs, Range
<1>7. CTypes'
  BY <1>1, <1>2, <1>3, <1>4, <1>5, <1>6 DEF CTypes
<1>8. BodyHolds'
  BY <1>2, <1>3, <1>5 DEF BodyHolds
<1> QED
  BY <1>2, <1>7, <1>8 DEF CInv, RegsHold, EntryHolds, RootsHold, AssertionsExact

(* A change of the allocation pointer is meant. *)
LEMMA AllocateInv ==
  ASSUME CInv, Allocate
  PROVE  CInv'
<1>1. /\ target \in DOMAIN JWA /\ step \in 1 .. MaxSteps /\ debug \in BOOLEAN
      /\ fn \in [kind: Kinds, params: Seq(Classes)]
      /\ hw \in [HWRegs -> Values] /\ regs \in [Range(MachRegs) -> Values] /\ vals \in Seq(Values)
      /\ meant \in [regs: [Range(MachRegs) -> Values], vals: Seq(Values)]
  BY DEF CInv, CTypes
<1>2. /\ pc = "body" /\ pc' = "body" /\ regs' = [regs EXCEPT !["ALLOC"] = <<"ALLOC", step>>]
      /\ meant' = [meant EXCEPT !.regs = regs'] /\ step < MaxSteps /\ step' = step + 1
      /\ target' = target /\ debug' = debug /\ fn' = fn /\ hw' = hw /\ vals' = vals
  BY DEF Allocate, Step
<1>3. vals = meant.vals /\ Len(vals) \in {Len(fn.params), Len(StdRoles)}
  BY <1>2 DEF CInv, BodyHolds
<1>4. /\ MachRegs' = MachRegs /\ HWRegs' = HWRegs /\ Range(MachRegs)' = Range(MachRegs)
  BY <1>2 DEF MachRegs, HWRegs, Range
<1>5. step' \in 1 .. MaxSteps
  BY <1>1, <1>2, MaxStepsAssumption
<1>6. regs' \in [Range(MachRegs) -> Values]
  <2>1. <<"ALLOC", step>> \in Values
    BY <1>1 DEF Values
  <2> QED
    BY <1>1, <1>2, <2>1
<1>7. meant' = [regs |-> regs', vals |-> meant.vals]
  BY <1>1, <1>2
<1>8. CTypes'
  BY <1>1, <1>2, <1>3, <1>4, <1>5, <1>6, <1>7 DEF CTypes
<1>9. BodyHolds'
  BY <1>2, <1>3, <1>7 DEF BodyHolds
<1> QED
  BY <1>2, <1>8, <1>9 DEF CInv, RegsHold, EntryHolds, RootsHold, AssertionsExact

(* callGC never fails, and puts the roots where the collector has them. *)
LEMMA CallGCInv ==
  ASSUME CInv, CallGC
  PROVE  CInv'
<1> DEFINE roots == NewValues("root", 7)
           list == CreateArgs("STD_FUN") \o roots
<1>1. /\ target \in DOMAIN JWA /\ step \in 1 .. MaxSteps /\ debug \in BOOLEAN
      /\ fn \in [kind: Kinds, params: Seq(Classes)]
      /\ hw \in [HWRegs -> Values] /\ regs \in [Range(MachRegs) -> Values] /\ vals \in Seq(Values)
      /\ meant \in [regs: [Range(MachRegs) -> Values], vals: Seq(Values)]
  BY DEF CInv, CTypes
<1>2. Len(StdRoles) = 7 /\ DOMAIN StdRoles = 1 .. 7
  BY <1>1, RoleFacts
<1>3. roots \in Seq(Values) /\ Len(roots) = 7
  <2>1. step \in Nat /\ 7 \in Nat
    BY <1>1
  <2> QED
    BY <2>1, NewValuesFacts
<1>4. /\ IF Len(GCTys) # NExtra + Len(roots) THEN pc' = "failed" /\ UNCHANGED <<hw, meant>>
         ELSE /\ hw' = Placed(GCTys, list) /\ meant' = [meant EXCEPT !.vals = roots] /\ pc' = "gc"
      /\ pc = "body" /\ step < MaxSteps /\ step' = step + 1
      /\ target' = target /\ debug' = debug /\ fn' = fn /\ regs' = regs /\ vals' = vals
  BY <1>2 DEF CallGC, Step
<1> HIDE DEF roots
<1>5. /\ GCTys \in Seq(Classes) /\ list \in Seq(Values)
      /\ Len(GCTys) = NExtra + 7 /\ Len(list) = Len(GCTys) /\ AllAssigned(GCTys)
  BY <1>1, <1>3, GCFacts
<1>6. \A i \in 1 .. NExtra : /\ i \in DOMAIN GCTys /\ GCTys[i] = "gp"
                             /\ list[i] = regs[MachRegs[i]]
                             /\ Assigned(GCTys, i) = Role[target][MachRegs[i]]
  BY <1>1, <1>3, GCFacts
<1>7. \A i \in 1 .. 7 : /\ NExtra + i \in DOMAIN GCTys /\ list[NExtra + i] = roots[i]
                        /\ Assigned(GCTys, NExtra + i) = Role[target][StdRoles[i]]
  BY <1>1, <1>3, GCFacts
<1> HIDE DEF list
<1>8. hw' = Placed(GCTys, list) /\ meant' = [meant EXCEPT !.vals = roots] /\ pc' = "gc"
  BY <1>3, <1>4, <1>5
<1>9. /\ hw' \in [HWRegs -> Values]
      /\ \A i \in DOMAIN GCTys : hw'[Assigned(GCTys, i)] = list[i]
      /\ \A r \in Range(MachRegs) : hw'[Role[target][r]] = regs[r]
  <2>1. /\ Placed(GCTys, list) \in [HWRegs -> Values]
        /\ \A i \in DOMAIN GCTys : Placed(GCTys, list)[Assigned(GCTys, i)] = list[i]
    BY <1>1, <1>5, PlacedFacts
  <2>2. \A r \in Range(MachRegs) : Placed(GCTys, list)[Role[target][r]] = regs[r]
    <3>1. \A i \in 1 .. NExtra :
            i \in DOMAIN GCTys /\ GCTys[i] = "gp" /\ list[i] = regs[MachRegs[i]]
      BY <1>6
    <3> QED
      BY <1>1, <1>5, <3>1, PlacedRegs, ZenonT(60)
  <2> QED
    BY <1>8, <2>1, <2>2
<1>10. \A i \in 1 .. 7 : hw'[Role[target][StdRoles[i]]] = roots[i]
  BY <1>7, <1>9
<1>11. /\ MachRegs' = MachRegs /\ HWRegs' = HWRegs /\ Range(MachRegs)' = Range(MachRegs)
  BY <1>4 DEF MachRegs, HWRegs, Range
<1>12. step' \in 1 .. MaxSteps
  BY <1>1, <1>4, MaxStepsAssumption
<1>13. regs = meant.regs
  BY <1>4 DEF CInv, BodyHolds
<1>14. meant' = [regs |-> regs, vals |-> roots]
  BY <1>1, <1>8, <1>13
<1>15. CTypes'
  BY <1>1, <1>3, <1>4, <1>8, <1>9, <1>11, <1>12, <1>14 DEF CTypes
<1>16. RegsHold'
  BY <1>4, <1>9, <1>11, <1>14 DEF RegsHold
<1>17. RootsHold'
  BY <1>2, <1>3, <1>4, <1>10, <1>14 DEF RootsHold
<1> QED
  BY <1>8, <1>15, <1>16, <1>17 DEF CInv, BodyHolds, EntryHolds, AssertionsExact
(* The collector moves the roots it finds, and leaves its own registers. *)
LEMMA GCInv ==
  ASSUME CInv, GC
  PROVE  CInv'
<1>1. /\ target \in DOMAIN JWA /\ step \in 1 .. MaxSteps /\ debug \in BOOLEAN
      /\ fn \in [kind: Kinds, params: Seq(Classes)]
      /\ hw \in [HWRegs -> Values] /\ regs \in [Range(MachRegs) -> Values] /\ vals \in Seq(Values)
      /\ meant \in [regs: [Range(MachRegs) -> Values], vals: Seq(Values)]
  BY DEF CInv, CTypes
<1> DEFINE root(r) == \E i \in DOMAIN StdRoles : Role[target][StdRoles[i]] = r
           mach(r) == \E m \in Range(MachRegs) : Role[target][m] = r
<1>2. /\ hw' = [r \in HWRegs |-> IF root(r) THEN Moved(hw[r])
                                 ELSE IF mach(r) THEN <<"gc", hw[r][2]>> ELSE Undef]
      /\ meant' = [regs |-> [m \in Range(MachRegs) |-> hw'[Role[target][m]]],
                   vals |-> [i \in DOMAIN meant.vals |-> Moved(meant.vals[i])]]
      /\ pc = "gc" /\ pc' = "gcret"
      /\ target' = target /\ debug' = debug /\ fn' = fn /\ regs' = regs /\ vals' = vals
      /\ step' = step
  BY DEF GC
<1>3. /\ Len(meant.vals) = Len(StdRoles) /\ Len(StdRoles) = 7 /\ DOMAIN StdRoles = 1 .. 7
      /\ \A i \in DOMAIN StdRoles : hw[Role[target][StdRoles[i]]] = meant.vals[i]
      /\ \A r \in Range(MachRegs) : Role[target][r] \in HWRegs
      /\ \A i \in 1 .. 7 : Role[target][StdRoles[i]] \in HWRegs
  BY <1>1, <1>2, RoleFacts DEF CInv, RootsHold
<1>4. \A v \in Values : Moved(v) \in Values /\ <<"gc", v[2]>> \in Values
  BY DEF Moved, Values
<1>5. hw' \in [HWRegs -> Values]
  <2>1. Undef \in Values
    BY DEF Undef, Values
  <2> HIDE DEF root, mach
  <2> QED
    BY <1>1, <1>2, <1>4, <2>1
<1>6. meant.vals \in Seq(Values) /\ DOMAIN meant.vals = 1 .. 7
  <2>1. meant.vals \in Seq(Values)
    BY <1>1
  <2> QED
    BY <1>3, <2>1, LenProperties
<1>7. meant'.vals \in Seq(Values) /\ Len(meant'.vals) = 7
  <2>1. \A i \in 1 .. 7 : meant.vals[i] \in Values
    BY <1>6, ElementOfSeq
  <2>2. meant'.vals = [i \in 1 .. 7 |-> Moved(meant.vals[i])]
    BY <1>2, <1>6
  <2>3. meant'.vals \in [1 .. 7 -> Values]
    BY <1>4, <2>1, <2>2
  <2>4. meant'.vals \in Seq(Values)
    BY <2>3, SeqDef
  <2>5. DOMAIN meant'.vals = 1 .. 7
    BY <2>2
  <2> DEFINE moved == meant'.vals
  <2>6. moved \in Seq(Values) /\ DOMAIN moved = 1 .. 7
    BY <2>4, <2>5
  <2> HIDE DEF moved
  <2>7. Len(moved) = 7
    BY <2>6, LenProperties
  <2> QED
    BY <2>4, <2>7 DEF moved
<1>8. meant'.regs \in [Range(MachRegs) -> Values]
  <2>1. meant'.regs = [m \in Range(MachRegs) |-> hw'[Role[target][m]]]
    BY <1>2
  <2> QED
    BY <1>3, <1>5, <2>1
<1>9. meant' = [regs |-> meant'.regs, vals |-> meant'.vals]
  BY <1>2
<1>10. /\ MachRegs' = MachRegs /\ HWRegs' = HWRegs /\ Range(MachRegs)' = Range(MachRegs)
  BY <1>2 DEF MachRegs, HWRegs, Range
<1>11. CTypes'
  <2>1. meant' \in [regs: [Range(MachRegs) -> Values], vals: Seq(Values)]
    BY <1>7, <1>8, <1>9
  <2> QED
    BY <1>1, <1>2, <1>5, <1>10, <2>1 DEF CTypes
<1>12. RegsHold'
  <2>1. \A r \in Range(MachRegs) : hw'[Role[target][r]] = meant'.regs[r]
    BY <1>2
  <2> QED
    BY <1>2, <1>10, <2>1 DEF RegsHold
<1>13. RootsHold'
  <2>1. \A i \in 1 .. 7 : hw'[Role[target][StdRoles[i]]] = meant'.vals[i]
    <3> TAKE i \in 1 .. 7
    <3>1. root(Role[target][StdRoles[i]]) /\ Role[target][StdRoles[i]] \in HWRegs
      BY <1>3
    <3>2. hw'[Role[target][StdRoles[i]]] = Moved(hw[Role[target][StdRoles[i]]])
      <4> HIDE DEF root, mach
      <4> QED
        BY <1>2, <3>1
    <3>3. meant'.vals[i] = Moved(meant.vals[i])
      BY <1>2, <1>6
    <3> QED
      BY <1>3, <3>2, <3>3
  <2> QED
    BY <1>2, <1>3, <1>7, <2>1 DEF RootsHold
<1> QED
  BY <1>2, <1>11, <1>12, <1>13 DEF CInv, BodyHolds, EntryHolds, AssertionsExact

(* After the collection the code takes the fields of what is returned, which
   are where the collector put them. *)
LEMMA ExtractInv ==
  ASSUME CInv, ExtractRoots
  PROVE  CInv'
<1> DEFINE roots == NewValues("root", 7)
<1>1. /\ target \in DOMAIN JWA /\ step \in 1 .. MaxSteps /\ debug \in BOOLEAN
      /\ fn \in [kind: Kinds, params: Seq(Classes)]
      /\ hw \in [HWRegs -> Values] /\ regs \in [Range(MachRegs) -> Values] /\ vals \in Seq(Values)
      /\ meant \in [regs: [Range(MachRegs) -> Values], vals: Seq(Values)]
  BY DEF CInv, CTypes
<1>2. /\ regs' = [r \in Range(MachRegs) |-> Element(GCTys, CHOOSE i \in 1 .. NExtra : MachRegs[i] = r)]
      /\ vals' = [i \in DOMAIN StdRoles |-> Element(GCTys, NExtra + i)]
      /\ pc = "gcret" /\ pc' = "body" /\ hw' = hw /\ meant' = meant
      /\ target' = target /\ debug' = debug /\ fn' = fn /\ step' = step
  BY DEF ExtractRoots
<1>3. /\ Len(meant.vals) = Len(StdRoles) /\ Len(StdRoles) = 7 /\ DOMAIN StdRoles = 1 .. 7
      /\ \A i \in DOMAIN StdRoles : hw[Role[target][StdRoles[i]]] = meant.vals[i]
      /\ \A r \in Range(MachRegs) : hw[Role[target][r]] = meant.regs[r]
      /\ \A r \in Range(MachRegs) : \E i \in 1 .. NExtra : MachRegs[i] = r
  BY <1>1, <1>2, RoleFacts DEF CInv, RootsHold, RegsHold
<1>4. /\ \A i \in 1 .. NExtra : Assigned(GCTys, i) = Role[target][MachRegs[i]]
      /\ \A i \in 1 .. 7 : Assigned(GCTys, NExtra + i) = Role[target][StdRoles[i]]
  <2>1. step \in Nat /\ 7 \in Nat
    BY <1>1
  <2>2. roots \in Seq(Values) /\ Len(roots) = 7
    BY <2>1, NewValuesFacts
  <2> HIDE DEF roots
  <2> QED
    BY <1>1, <2>2, GCFacts
<1>5. meant.regs \in [Range(MachRegs) -> Values] /\ meant.vals \in Seq(Values)
  BY <1>1
<1>6. regs' = meant.regs
  <2>1. ASSUME NEW r \in Range(MachRegs)
        PROVE  Element(GCTys, CHOOSE i \in 1 .. NExtra : MachRegs[i] = r) = meant.regs[r]
    <3> DEFINE i == CHOOSE n \in 1 .. NExtra : MachRegs[n] = r
    <3>1. i \in 1 .. NExtra /\ MachRegs[i] = r
      BY <1>3
    <3> HIDE DEF i
    <3>2. Element(GCTys, i) = meant.regs[r]
      BY <1>3, <1>4, <3>1 DEF Element
    <3> QED
      BY <3>2 DEF i
  <2>2. meant.regs = [r \in Range(MachRegs) |-> meant.regs[r]]
    BY <1>5
  <2> QED
    BY <1>2, <2>1, <2>2
<1>7. vals' = meant.vals
  <2>1. \A i \in 1 .. 7 : Element(GCTys, NExtra + i) = meant.vals[i]
    BY <1>3, <1>4 DEF Element
  <2>2. DOMAIN meant.vals = 1 .. 7 /\ meant.vals = [i \in 1 .. 7 |-> meant.vals[i]]
    <3> DEFINE found == meant.vals
    <3>1. found \in Seq(Values) /\ Len(found) = 7
      BY <1>3, <1>5
    <3> HIDE DEF found
    <3>2. DOMAIN found = 1 .. 7 /\ found = [i \in 1 .. 7 |-> found[i]]
      BY <3>1, LenProperties
    <3> QED
      BY <3>2 DEF found
  <2> QED
    BY <1>2, <1>3, <2>1, <2>2
<1>8. /\ MachRegs' = MachRegs /\ HWRegs' = HWRegs /\ Range(MachRegs)' = Range(MachRegs)
  BY <1>2 DEF MachRegs, HWRegs, Range
<1>9. CTypes'
  BY <1>1, <1>2, <1>5, <1>6, <1>7, <1>8 DEF CTypes
<1>10. BodyHolds'
  BY <1>2, <1>3, <1>6, <1>7 DEF BodyHolds
<1> QED
  BY <1>2, <1>9, <1>10 DEF CInv, RegsHold, EntryHolds, RootsHold, AssertionsExact

(* The call of raise_overflow has the machine registers, and nothing else. *)
LEMMA OverflowInv ==
  ASSUME CInv, RaiseOverflow
  PROVE  CInv'
<1> DEFINE tys == GP(NExtra)
           list == [i \in 1 .. NExtra |-> regs[MachRegs[i]]]
<1>1. /\ target \in DOMAIN JWA /\ step \in 1 .. MaxSteps /\ debug \in BOOLEAN
      /\ fn \in [kind: Kinds, params: Seq(Classes)]
      /\ hw \in [HWRegs -> Values] /\ regs \in [Range(MachRegs) -> Values] /\ vals \in Seq(Values)
      /\ meant \in [regs: [Range(MachRegs) -> Values], vals: Seq(Values)]
  BY DEF CInv, CTypes
<1>2. /\ hw' = Placed(tys, list) /\ pc = "body" /\ pc' = "overflow" /\ regs' = regs /\ vals' = vals
      /\ meant' = meant /\ target' = target /\ debug' = debug /\ fn' = fn /\ step' = step
  BY DEF RaiseOverflow
<1>3. NExtra \in Nat /\ \A i \in 1 .. NExtra : MachRegs[i] \in Range(MachRegs)
  BY <1>1, RoleFacts, SMTT(60)
<1>4. /\ tys \in Seq(Classes) /\ Len(tys) = NExtra /\ DOMAIN tys = 1 .. NExtra
      /\ \A i \in 1 .. NExtra : tys[i] = "gp"
  <2>1. tys \in [1 .. NExtra -> Classes]
    BY DEF GP, Classes
  <2>2. tys \in Seq(Classes)
    BY <1>3, <2>1, SeqDef
  <2> QED
    BY <1>3, <2>1, <2>2, LenProperties DEF GP
<1>5. list \in Seq(Values) /\ Len(list) = NExtra /\ \A i \in 1 .. NExtra : list[i] = regs[MachRegs[i]]
  <2>1. list \in [1 .. NExtra -> Values]
    BY <1>1, <1>3
  <2>2. list \in Seq(Values)
    BY <1>3, <2>1, SeqDef
  <2> QED
    BY <1>3, <2>1, <2>2, LenProperties
<1> HIDE DEF tys, list
<1>6. AllAssigned(tys)
  <2>1. \A i \in DOMAIN tys : Assigned(tys, i) = Role[target][MachRegs[i]]
    BY <1>1, <1>4, FirstAssigned
  <2>2. \A r \in Range(MachRegs) : Role[target][r] \in HWRegs
    BY <1>1, RoleFacts
  <2>3. "none" \notin HWRegs
    BY <1>1, NoneApart
  <2> QED
    BY <1>3, <1>4, <2>1, <2>2, <2>3 DEF AllAssigned
<1>7. hw' \in [HWRegs -> Values]
  BY <1>1, <1>2, <1>4, <1>5, <1>6, PlacedFacts
<1>8. \A r \in Range(MachRegs) : hw'[Role[target][r]] = regs[r]
  <2>1. \A i \in 1 .. NExtra : i \in DOMAIN tys /\ tys[i] = "gp" /\ list[i] = regs[MachRegs[i]]
    BY <1>4, <1>5
  <2>2. Len(list) = Len(tys)
    BY <1>4, <1>5
  <2>3. \A r \in Range(MachRegs) : Placed(tys, list)[Role[target][r]] = regs[r]
    <3>1. target \in DOMAIN JWA /\ hw \in [HWRegs -> Values] /\ tys \in Seq(Classes) /\ list \in Seq(Values)
      BY <1>1, <1>4, <1>5
    <3> QED
      BY <1>6, <2>1, <2>2, <3>1, PlacedRegs
  <2> QED
    BY <1>2, <2>3
<1>9. regs = meant.regs
  BY <1>2 DEF CInv, BodyHolds
<1>10. /\ MachRegs' = MachRegs /\ HWRegs' = HWRegs /\ Range(MachRegs)' = Range(MachRegs)
  BY <1>2 DEF MachRegs, HWRegs, Range
<1>11. CTypes'
  BY <1>1, <1>2, <1>7, <1>10 DEF CTypes
<1>12. RegsHold'
  BY <1>2, <1>8, <1>9, <1>10 DEF RegsHold
<1> QED
  BY <1>2, <1>11, <1>12 DEF CInv, BodyHolds, EntryHolds, RootsHold, AssertionsExact
(* CInv is inductive. *)
LEMMA NextInv ==
  CInv /\ [Next]_vars => CInv'
<1> SUFFICES ASSUME CInv, [Next]_vars PROVE CInv'
  OBVIOUS
<1>1. CASE Apply
  <2>1. PICK f \in Functions :
          \/ f.kind = "STD_FUN" /\ Transfer(f, "STD_FUN", FALSE)
          \/ f.kind # "STD_CONT" /\ Transfer(f, f.kind, TRUE)
    BY <1>1 DEF Apply
  <2>2. \E label \in BOOLEAN : Transfer(f, f.kind, label)
    BY <2>1
  <2> QED
    BY <2>2, TransferInv
<1>2. CASE Throw
  <2>1. PICK f \in Functions, label \in BOOLEAN : f.kind = "STD_CONT" /\ Transfer(f, "STD_CONT", label)
    BY <1>2 DEF Throw
  <2>2. Transfer(f, f.kind, label)
    BY <2>1
  <2> QED
    BY <2>2, TransferInv
<1>3. CASE UNCHANGED vars
  <2>1. /\ target' = target /\ debug' = debug /\ fn' = fn /\ regs' = regs /\ vals' = vals
        /\ hw' = hw /\ meant' = meant /\ pc' = pc /\ step' = step
    BY <1>3 DEF vars
  <2>2. MachRegs' = MachRegs /\ HWRegs' = HWRegs /\ Range(MachRegs)' = Range(MachRegs)
    BY <2>1 DEF MachRegs, HWRegs, Range
  <2>3. /\ AllAssigned(FnTy)' <=> AllAssigned(FnTy)
        /\ EntryParams' = EntryParams
        /\ FloatsShort' <=> FloatsShort
    <3>1. FnTy = CreateFnTy(fn.kind, fn.params)
      BY DEF FnTy
    <3>2. EntryParams = [i \in DOMAIN fn.params |-> hw[Assigned(FnTy, NExtra + NUnused(fn.kind) + i)]]
      BY DEF EntryParams, Element
    <3> QED
      BY <2>1, <3>1, <3>2, SameTarget DEF FloatsShort
  <2>4. CTypes' /\ BodyHolds' /\ RegsHold' /\ RootsHold'
    BY <2>1, <2>2 DEF CInv, CTypes, BodyHolds, RegsHold, RootsHold
  <2>5. EntryHolds'
    BY <2>1, <2>3 DEF CInv, EntryHolds
  <2>6. AssertionsExact'
    BY <2>1, <2>3 DEF CInv, AssertionsExact
  <2> QED
    BY <2>4, <2>5, <2>6 DEF CInv
<1> QED
  BY <1>1, <1>2, <1>3, AllocateInv, EntryInv, CallGCInv, GCInv, ExtractInv, OverflowInv DEF Next

-----------------------------------------------------------------------------
(* The SML registers and the standard parameters are where code that was
   compiled apart has them. *)
LEMMA InPlaceFacts ==
  CInv => InPlace
<1> SUFFICES ASSUME CInv PROVE InPlace
  OBVIOUS
<1>1. /\ target \in DOMAIN JWA /\ fn.kind \in Kinds /\ fn.params \in Seq(Classes)
      /\ regs \in [Range(MachRegs) -> Values]
  BY DEF CInv, CTypes
<1>2. pc \in {"entry", "gc", "overflow"} => \A r \in Range(MachRegs) : hw[Role[target][r]] = meant.regs[r]
  BY DEF CInv, RegsHold
<1>3. pc = "gc" => \A i \in DOMAIN StdRoles : hw[Role[target][StdRoles[i]]] = meant.vals[i]
  BY DEF CInv, RootsHold
<1>4. ASSUME pc = "entry", NEW i \in DOMAIN fn.params, \A j \in 1 .. i : fn.params[j] = "gp",
             i + NUnused(fn.kind) \in DOMAIN StdRoles
      PROVE  hw[Role[target][StdRoles[i + NUnused(fn.kind)]]] = meant.vals[i]
  <2>1. EntryParams = meant.vals
    BY <1>4 DEF CInv, EntryHolds
  <2>2. meant.vals[i] = hw[Assigned(FnTy, NExtra + NUnused(fn.kind) + i)]
    BY <2>1 DEF EntryParams, Element
  <2>3. Assigned(FnTy, NExtra + NUnused(fn.kind) + i) = Role[target][StdRoles[i + NUnused(fn.kind)]]
    <3> DEFINE kind == fn.kind
               tys == fn.params
    <3>1. /\ kind \in Kinds /\ tys \in Seq(Classes) /\ i \in DOMAIN tys
          /\ \A j \in 1 .. i : tys[j] = "gp"
          /\ i + NUnused(kind) \in DOMAIN StdRoles
      BY <1>1, <1>4
    <3> HIDE DEF kind, tys
    <3>2. Assigned(CreateFnTy(kind, tys), NExtra + NUnused(kind) + i)
            = Role[target][StdRoles[i + NUnused(kind)]]
      BY <1>1, <3>1, StdParamFacts
    <3> QED
      BY <3>2 DEF kind, tys, FnTy
  <2> QED
    BY <2>2, <2>3
<1>5. pc = "entry" /\ fn.kind = "STD_FUN" =>
        \A i \in DOMAIN fn.params :
          (\A j \in 1 .. i : fn.params[j] = "gp") /\ i + 0 \in DOMAIN StdRoles =>
            hw[Role[target][StdRoles[i + 0]]] = meant.vals[i]
  BY <1>4 DEF NUnused
<1>6. pc = "entry" /\ fn.kind = "STD_CONT" =>
        \A i \in DOMAIN fn.params :
          (\A j \in 1 .. i : fn.params[j] = "gp") /\ i + 2 \in DOMAIN StdRoles =>
            hw[Role[target][StdRoles[i + 2]]] = meant.vals[i]
  BY <1>4 DEF NUnused
<1> QED
  BY <1>2, <1>3, <1>5, <1>6 DEF InPlace

(* CInv holds throughout. *)
LEMMA CInvHolds ==
  Spec => []CInv
<1>1. Init => CInv
  BY InitInv
<1>2. CInv /\ [Next]_vars => CInv'
  BY NextInv
<1> QED
  BY <1>1, <1>2, PTL DEF Spec

(* Every register has a value, and the code of a function as many as it has
   parameters, or as callGC has roots. *)
THEOREM CallTypes ==
  Spec => []TypeOK
<1>1. CInv => TypeOK
  BY DEF CInv, CTypes, BodyHolds, TypeOK
<1> QED
  BY <1>1, CInvHolds, PTL

(* Values arrive: what setupStdEntry and callGC take is what APPLY, THROW and
   the collector gave, for functions of any parameters. *)
THEOREM ValuesArrive ==
  Spec => []Arrives
<1>1. CInv => Arrives
  BY DEF CInv, BodyHolds, Arrives
<1> QED
  BY <1>1, CInvHolds, PTL

(* The runtime system finds the SML registers, the roots and the standard
   parameters in its registers, whatever parameters come after them. *)
THEOREM RegistersInPlace ==
  Spec => []InPlace
<1>1. CInv => InPlace
  BY InPlaceFacts
<1> QED
  BY <1>1, CInvHolds, PTL

(* The assertions of APPLY and THROW fail only where registers are missing,
   and only floats on AArch64 get past them; that of callGC never fails. *)
THEOREM AssertionsRight ==
  Spec => []AssertionsExact
<1>1. CInv => AssertionsExact
  BY DEF CInv
<1> QED
  BY <1>1, CInvHolds, PTL
=============================================================================
