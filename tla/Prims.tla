------------------------------- MODULE Prims -------------------------------
(***************************************************************************)
(* What the code generated for a primitive computes: the arith, pure and   *)
(* branch primitives of cfg-prim-codegen.cpp, each with the LLVM           *)
(* instruction, intrinsic or predicate that it selects, against what the   *)
(* CFG primitives stand for (tests/Synthetic/cfg.sml).                     *)
(*                                                                         *)
(* A word is its bit pattern.  A float is a sign and a magnitude that      *)
(* counts halves: there are values between the integers, two zeros and     *)
(* NaNs.                                                                   *)
(***************************************************************************)
EXTENDS Integers, Sequences, FiniteSets

CONSTANTS
  Width,    \* bits of a word
  MaxMag    \* largest magnitude of a float that is not a NaN

ASSUME WidthSize == Width \in Nat /\ Width > 1
ASSUME MagSize == MaxMag \in Nat

Word == 0 .. 2^Width - 1
Float == [neg: BOOLEAN, mag: 0 .. MaxMag + 1]
NaN(f) == f.mag = MaxMag + 1

ArithOp == <<"IADD", "ISUB", "IMUL", "IDIV", "IREM">>
PureOp == <<"ADD", "SUB", "MUL", "SDIV", "SREM", "UDIV", "UREM", "SHL", "ASHR", "LSHR",
            "CNTPOP", "CNTLZ", "CNTTZ", "ROTL", "ROTR">>
CmpOp == <<"GT", "GTE", "LT", "LTE", "EQL", "NEQ">>
FCmpOp == <<"F_EQ", "F_ULG", "F_UN", "F_LEG", "F_GT", "F_GE", "F_UGT", "F_UGE",
            "F_LT", "F_LE", "F_ULT", "F_ULE", "F_LG", "F_UE">>
RoundingMode == {"TO_NEAREST", "TO_NEGINF", "TO_POSINF", "TO_ZERO"}

Prim ==
  [class: {"arith", "pure"}, oper: 1 .. Len(PureOp), signed: {TRUE}]
  \cup [class: {"cmp"}, oper: 1 .. Len(CmpOp), signed: BOOLEAN]
  \cup [class: {"fcmp"}, oper: 1 .. Len(FCmpOp), signed: {TRUE}]
  \cup [class: {"fsgn"}, oper: {1}, signed: {TRUE}]
  \cup [class: {"float_to_int"}, oper: RoundingMode, signed: {TRUE}]

VARIABLES
  target,   \* "x86_64" or "aarch64"
  prim,     \* the primitive
  x, y,     \* its arguments
  out       \* its outcome

vars == <<target, prim, x, y, out>>

Signed(w) == IF w >= 2^(Width - 1) THEN w - 2^Width ELSE w
Unwrapped(n) == n
Wrap(n) == n % 2^Width
MinInt == -(2^(Width - 1))
InRange(n) == MinInt <= n /\ n < 2^(Width - 1)
Abs(n) == IF n < 0 THEN -n ELSE n

(* Division that rounds to zero, and its remainder *)
Quot(a, b) == IF (a < 0) = (b < 0) THEN Abs(a) \div Abs(b) ELSE -(Abs(a) \div Abs(b))
Rem(a, b) == a - b * Quot(a, b)

Bit(w, i) == (w \div 2^i) % 2
BitsSet(w) == {i \in 0 .. Width - 1 : Bit(w, i) = 1}

-----------------------------------------------------------------------------
(* LLVM *)

(* Outcomes: a result, or control at the overflow block or in a trap.  An
   operation that is undefined has every result. *)
Result(v) == [kind |-> "value", v |-> v]
Raise == [kind |-> "overflow", v |-> 0]
HardwareTrap == [kind |-> "trap", v |-> 0]
Poison == {Result(v) : v \in Word}

(* llvm.{sadd,ssub,smul}.with.overflow *)
WithOverflow(n) == [res |-> Wrap(n), obit |-> ~InRange(n)]

(* sdiv and srem: undefined on overflow, where the two processors differ *)
Divide(n, a, b, wrapped) ==
  IF b = 0 THEN Poison
  ELSE IF a = MinInt /\ b = -1
       THEN {IF target = "x86_64" THEN HardwareTrap ELSE Result(wrapped)}
       ELSE {Result(Wrap(n))}
SDiv(a, b) == Divide(Quot(Signed(a), Signed(b)), Signed(a), Signed(b), Wrap(MinInt))
SRem(a, b) == Divide(Rem(Signed(a), Signed(b)), Signed(a), Signed(b), 0)

Shift(s, v) == IF s < Width THEN {Result(v)} ELSE Poison
FShl(a, b, s) == ((a * 2^Width + b) * 2^(s % Width)) \div 2^Width % 2^Width
FShr(a, b, s) == ((a * 2^Width + b) \div 2^(s % Width)) % 2^Width

ICmp(p, a, b) ==
  CASE p = "SGT" -> Signed(a) > Signed(b) [] p = "UGT" -> a > b
    [] p = "SGE" -> Signed(a) >= Signed(b) [] p = "UGE" -> a >= b
    [] p = "SLT" -> Signed(a) < Signed(b) [] p = "ULT" -> a < b
    [] p = "SLE" -> Signed(a) <= Signed(b) [] p = "ULE" -> a <= b
    [] p = "EQ" -> a = b [] p = "NE" -> a # b

Value(f) == IF f.neg THEN -f.mag ELSE f.mag
Relation(f, g) ==
  IF NaN(f) \/ NaN(g) THEN "?"
  ELSE IF Value(f) < Value(g) THEN "<" ELSE IF Value(f) > Value(g) THEN ">" ELSE "="

(* The relations for which a predicate of fcmp is true *)
FCmpTrue ==
  [OEQ |-> {"="}, UNE |-> {"?", "<", ">"}, ONE |-> {"<", ">"}, ORD |-> {"<", "=", ">"},
   OGT |-> {">"}, OGE |-> {">", "="}, UGT |-> {"?", ">"}, UGE |-> {"?", ">", "="},
   OLT |-> {"<"}, OLE |-> {"<", "="}, ULT |-> {"?", "<"}, ULE |-> {"?", "<", "="},
   UEQ |-> {"?", "="}, UNO |-> {"?"}]

(* fptosi: rounds to zero *)
FPToSI(f) ==
  LET n == IF f.neg THEN -(f.mag \div 2) ELSE f.mag \div 2 IN
  IF NaN(f) \/ ~InRange(n) THEN Poison ELSE {Result(Wrap(n))}

-----------------------------------------------------------------------------
(* ARITH::codegen *)
NextBlock(pair) == {Result(pair.res)}
OnOverflow(pair) == {IF pair.obit THEN Raise ELSE Result(pair.res)}

Arith(op, a, b) ==
  CASE op = "IADD" -> OnOverflow(WithOverflow(Signed(a) + Signed(b)))
    [] op = "ISUB" -> OnOverflow(WithOverflow(Signed(a) - Signed(b)))
    [] op = "IMUL" -> OnOverflow(WithOverflow(Signed(a) * Signed(b)))
    [] op = "IDIV" -> SDiv(a, b)
    [] op = "IREM" -> SRem(a, b)

(* PURE_ARITH::codegen, the integer operations *)
RotateLeft(a, b) == FShl(a, b, b)
Rotated(a, b) == FShl(a, a, b)
Pure(op, a, b) ==
  CASE op = "ADD" -> {Result(Wrap(a + b))}
    [] op = "SUB" -> {Result(Wrap(a - b))}
    [] op = "MUL" -> {Result(Wrap(a * b))}
    [] op = "SDIV" -> SDiv(a, b)
    [] op = "SREM" -> SRem(a, b)
    [] op = "UDIV" -> IF b = 0 THEN Poison ELSE {Result(a \div b)}
    [] op = "UREM" -> IF b = 0 THEN Poison ELSE {Result(a % b)}
    [] op = "SHL" -> Shift(b, Wrap(a * 2^b))
    [] op = "ASHR" -> Shift(b, Wrap(Signed(a) \div 2^b))
    [] op = "LSHR" -> Shift(b, a \div 2^b)
    [] op = "CNTPOP" -> {Result(Cardinality(BitsSet(a)))}
    [] op = "CNTLZ" -> {Result(Cardinality({i \in 0 .. Width - 1 : a < 2^i}))}
    [] op = "CNTTZ" -> {Result(Cardinality({i \in 1 .. Width : a % 2^i = 0}))}
    [] op = "ROTL" -> {Result(Rotated(a, b))}
    [] op = "ROTR" -> {Result(FShr(a, a, b))}

(* CMP::codegen: the table has the signed predicate before the unsigned one *)
ICmpMap == <<"SGT", "UGT", "SGE", "UGE", "SLT", "ULT", "SLE", "ULE", "EQ", "EQ", "NE", "NE">>
UnsignedFirst(op, signed) == 2 * (op - 1) + IF signed THEN 1 ELSE 0
CmpIndex(op, signed) == 2 * (op - 1) + IF signed THEN 0 ELSE 1
Cmp(op, signed, a, b) == ICmp(ICmpMap[CmpIndex(op, signed) + 1], a, b)

(* FCMP::codegen *)
FCmpMap == <<"OEQ", "UNE", "ONE", "ORD", "OGT", "OGE", "UGT", "UGE",
             "OLT", "OLE", "ULT", "ULE", "ONE", "UEQ">>
FCmp(op, f, g) == Relation(f, g) \in FCmpTrue[FCmpMap[op]]

(* FSGN::codegen: the pattern of a float has its sign as the highest bit *)
FSgn(f) == f.neg

Truth(b) == {Result(IF b THEN 1 ELSE 0)}

Init ==
  /\ target \in {"x86_64", "aarch64"}
  /\ prim \in Prim
  /\ prim.class = "arith" => prim.oper <= Len(ArithOp)
  /\ IF prim.class \in {"arith", "pure", "cmp"} THEN x \in Word /\ y \in Word
     ELSE x \in Float /\ y \in IF prim.class = "fcmp" THEN Float ELSE {x}
  /\ out = [kind |-> "none", v |-> 0]

Outcomes ==
  CASE prim.class = "arith" -> Arith(ArithOp[prim.oper], x, y)
    [] prim.class = "pure" -> Pure(PureOp[prim.oper], x, y)
    [] prim.class = "cmp" -> Truth(Cmp(prim.oper, prim.signed, x, y))
    [] prim.class = "fcmp" -> Truth(FCmp(prim.oper, x, y))
    [] prim.class = "fsgn" -> Truth(FSgn(x))
    [] prim.class = "float_to_int" -> FPToSI(x)

Eval == out.kind = "none" /\ out' \in Outcomes /\ UNCHANGED <<target, prim, x, y>>

Next == Eval
Spec == Init /\ [][Next]_vars

-----------------------------------------------------------------------------
(* What the primitives stand for *)
Done == out.kind # "none"
Is(class) == Done /\ prim.class = class
Overflows == out.kind \in {"overflow", "trap"}
Returns(v) == out = Result(v)

Exact(op, a, b) ==
  CASE op \in {"IADD", "ADD"} -> a + b
    [] op \in {"ISUB", "SUB"} -> a - b
    [] op \in {"IMUL", "MUL"} -> a * b
    [] op \in {"IDIV", "SDIV"} -> Quot(a, b)
    [] op \in {"IREM", "SREM"} -> Rem(a, b)

Division == {"IDIV", "IREM", "SDIV", "SREM", "UDIV", "UREM"}

(* The type invariant. *)
TypeOK ==
  /\ prim \in Prim
  /\ out.kind \in {"none", "value", "overflow", "trap"}
  /\ out.v \in Word
  /\ out.kind \in {"overflow", "trap"} => prim.class \in {"arith", "pure"}

(* The one division of a word whose exact quotient is no signed word *)
LeastByMinusOne == Signed(x) = MinInt /\ Signed(y) = -1

(***************************************************************************)
(* "arithmetic operations that may overflow": an arith operation whose     *)
(* divisor is not zero, which the front end tests, returns the exact       *)
(* result when it is representable, and otherwise does not return.  The    *)
(* least integer divided by -1 is left to the processor: on x86-64 both    *)
(* IDIV and IREM trap, on AArch64 both return, the quotient wrapped.  A    *)
(* conversion that asks for TO_ZERO returns the integral part of a float   *)
(* that lies inside the range of integers.                                 *)
(***************************************************************************)
ArithExact ==
  /\ LET op == ArithOp[prim.oper]  n == Exact(op, Signed(x), Signed(y)) IN
     Is("arith") /\ (op \in Division => y # 0) =>
       IF op \in Division /\ LeastByMinusOne
       THEN IF target = "x86_64" THEN Overflows ELSE Returns(Wrap(n))
       ELSE IF InRange(n) THEN Returns(Wrap(n)) ELSE Overflows
  /\ Is("float_to_int") /\ prim.oper = "TO_ZERO" /\ ~NaN(x)
       /\ InRange((Value(x) - 1) \div 2) /\ InRange((Value(x) + 1) \div 2) =>
       LET n == Signed(out.v) IN
       Abs(2 * n) <= Abs(Value(x)) /\ Abs(Value(x)) < Abs(2 * n) + 2 /\ n * Value(x) >= 0

(***************************************************************************)
(* The pure operations compute modulo the word size; shifts and rotations  *)
(* move every bit to its place and fill with zeros or the sign.  Divisors  *)
(* are not zero, nor -1 of the least integer, and shifts are by less than  *)
(* the width.                                                              *)
(***************************************************************************)
PureRight ==
  LET op == PureOp[prim.oper]
      Low(i) == IF i >= 0 /\ i < Width THEN Bit(x, i) ELSE 0
      High(i) == IF i < Width THEN Bit(x, i) ELSE Bit(x, Width - 1)
      Moved(f(_)) == \A i \in 0 .. Width - 1 : Bit(out.v, i) = f(i)
  IN Is("pure") =>
     /\ op \in {"ADD", "SUB", "MUL"} => Returns(Wrap(Exact(op, Signed(x), Signed(y))))
     /\ op \in {"SDIV", "SREM"} /\ y # 0 /\ ~LeastByMinusOne =>
          Returns(Wrap(Exact(op, Signed(x), Signed(y))))
     /\ op = "UDIV" /\ y # 0 => y * out.v <= x /\ x < y * (out.v + 1)
     /\ op = "UREM" /\ y # 0 => out.v < y /\ (x - out.v) % y = 0
     /\ op = "SHL" /\ y < Width => Moved(LAMBDA i : Low(i - y))
     /\ op = "LSHR" /\ y < Width => Moved(LAMBDA i : Low(i + y))
     /\ op = "ASHR" /\ y < Width => Moved(LAMBDA i : High(i + y))
     /\ op = "ROTL" => Moved(LAMBDA i : Bit(x, (i - y) % Width))
     /\ op = "ROTR" => Moved(LAMBDA i : Bit(x, (i + y) % Width))
     /\ op = "CNTLZ" => \A i \in 0 .. Width - 1 : Bit(x, i) = 1 => i + out.v < Width
     /\ op = "CNTLZ" /\ out.v < Width => Bit(x, Width - 1 - out.v) = 1
     /\ op = "CNTTZ" => \A i \in 0 .. Width - 1 : Bit(x, i) = 1 => i >= out.v
     /\ op = "CNTTZ" /\ out.v < Width => Bit(x, out.v) = 1

(* The IEEE predicates that the comments of fcmpop give *)
Predicate ==
  <<{"="}, {"?", "<", ">"}, {"?"}, {"<", "=", ">"}, {">"}, {">", "="}, {"?", ">"}, {"?", ">", "="},
    {"<"}, {"<", "="}, {"?", "<"}, {"?", "<", "="}, {"<", ">"}, {"?", "="}>>

FCmpRight == Is("fcmp") => (Returns(1) <=> Relation(x, y) \in Predicate[prim.oper])

(***************************************************************************)
(* A branch is taken when its relation holds, for signed and for unsigned  *)
(* words, for floats with NaNs and two zeros (all of fcmpop but F_UN), and *)
(* for the sign of a float.                                                *)
(***************************************************************************)
BranchRight ==
  /\ LET V(w) == IF prim.signed THEN Signed(w) ELSE w
         op == CmpOp[prim.oper]
         less == op \in {"LT", "LTE", "NEQ"}
         equal == op \in {"GTE", "LTE", "EQL"}
         greater == op \in {"GT", "GTE", "NEQ"}
     IN Is("cmp") => (Returns(1) <=> \/ less /\ V(x) < V(y)
                                     \/ equal /\ V(x) = V(y)
                                     \/ greater /\ V(x) > V(y))
  /\ Is("fcmp") /\ FCmpOp[prim.oper] # "F_UN" => FCmpRight
  /\ Is("fsgn") /\ ~NaN(x) /\ x.mag > 0 => (Returns(1) <=> Value(x) < 0)

(***************************************************************************)
(* "fcmpop conforms to the IEEE std 754 predicates": F_UN is "?", true on  *)
(* unordered arguments.  The table has FCMP_ONE for it.                    *)
(***************************************************************************)
UnorderedIsIEEE == FCmpRight

=============================================================================
