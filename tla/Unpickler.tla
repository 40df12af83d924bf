----------------------------- MODULE Unpickler -----------------------------
(***************************************************************************)
(* Reading a compilation unit (cfg.cpp, cfg.hpp), as the SML/NJ compiler   *)
(* wrote it (Pickler).  Both sides were generated from one description,    *)
(* which neither has at run time: they agree only if each constructor has  *)
(* the same tag, and the same fields in the same order, on both.           *)
(*                                                                         *)
(* The nesting of the read functions is a stack of frames.  One byte of    *)
(* the file may be damaged, into one that is no constructor's tag.         *)
(***************************************************************************)
EXTENDS Pickler

CONSTANTS
  Units,   \* compilation units: terms of type comp_unit
  BadTag   \* a byte that is the tag of no constructor

ASSUME BadTagIsBad == BadTag \in Nat /\ \A ty \in DOMAIN Sml : BadTag > Len(Sml[ty])

VARIABLES
  unit,    \* what was written
  damage,  \* the position of the damaged byte, or 0
  toks,    \* what is left of the file
  stack,   \* the read functions in progress, the innermost first
  result,  \* <<>>, or the unit that was read
  phase    \* "read", "done", "exit"; "lost" when a value is misunderstood

vars == <<unit, damage, toks, stack, result, phase>>

-----------------------------------------------------------------------------
(* The constructors of enumerations and of classes, by tag *)

EnumTags ==
  [c_int |-> <<"I_char", "I_short", "I_int", "I_long", "I_long_long">>,
   numkind |-> <<"INT", "FLT">>,
   rounding_mode |-> <<"TO_NEAREST", "TO_NEGINF", "TO_POSINF", "TO_ZERO">>,
   arithop |-> <<"IADD", "ISUB", "IMUL", "IDIV", "IREM">>,
   cmpop |-> <<"GT", "GTE", "LT", "LTE", "EQL", "NEQ">>,
   frag_kind |-> <<"STD_FUN", "STD_CONT", "KNOWN_FUN", "INTERNAL">>]
  @@ [pureop |-> <<"ADD", "SUB", "MUL", "SDIV", "SREM", "UDIV", "UREM", "SHL", "ASHR", "LSHR",
                   "ORB", "XORB", "ANDB", "CNTPOP", "CNTLZ", "CNTTZ", "ROTL", "ROTR", "FADD",
                   "FSUB", "FMUL", "FDIV", "FREM", "FMADD", "FNEG", "FABS", "FCOPYSIGN", "FSQRT">>]
  @@ [fcmpop |-> <<"F_EQ", "F_ULG", "F_UN", "F_LEG", "F_GT", "F_GE", "F_UGT", "F_UGE", "F_LT",
                   "F_LE", "F_ULT", "F_ULE", "F_LG", "F_UE">>]

CTypeCon == <<"C_void", "C_float", "C_double", "C_long_double", "C_unsigned", "C_signed", "C_PTR",
              "C_ARRAY", "C_STRUCT", "C_UNION">>
AllocCon == <<"SPECIAL", "RECORD", "RAW_RECORD", "RAW_ALLOC">>
ArithCon == <<"ARITH", "FLOAT_TO_INT">>
PureCon == <<"PURE_ARITH", "EXTEND", "TRUNC", "INT_TO_FLOAT", "FLOAT_TO_BITS", "BITS_TO_FLOAT",
             "PURE_SUBSCRIPT", "PURE_RAW_SUBSCRIPT", "RAW_SELECT">>
GetsSwapped == <<"DEREF", "SUBSCRIPT", "RAW_SUBSCRIPT", "RAW_LOAD", "GET_VAR", "GET_HDLR">>
LookerCon == <<"DEREF", "SUBSCRIPT", "RAW_SUBSCRIPT", "RAW_LOAD", "GET_HDLR", "GET_VAR">>
SetterCon == <<"UNBOXED_UPDATE", "UPDATE", "UNBOXED_ASSIGN", "ASSIGN", "RAW_UPDATE", "RAW_STORE",
               "SET_HDLR", "SET_VAR">>
BranchCon == <<"CMP", "FCMP", "FSGN", "PEQL", "PNEQ", "LIMIT">>
TyCon == <<"LABt", "PTRt", "TAGt", "NUMt", "FLTt">>
ExpCon == <<"VAR", "LABEL", "NUM", "LOOKER", "PURE", "SELECT">>
StmCon == <<"LET", "ALLOC", "APPLY", "THROW", "GOTO", "SWITCH", "BRANCH", "ARITH", "SETTER",
            "CALLGC", "RCC">>

ClassTags ==
  [c_type |-> CTypeCon, alloc |-> AllocCon, arith |-> ArithCon, pure |-> PureCon,
   looker |-> LookerCon, setter |-> SetterCon, branch |-> BranchCon, ty |-> TyCon,
   exp |-> ExpCon, stm |-> StmCon]

(* What the read functions read for a constructor, in their order; those not
   listed have no fields. *)

CTypesReads ==
  [C_unsigned |-> <<"c_int">>, C_signed |-> <<"c_int">>, C_ARRAY |-> <<"c_type", "int">>,
   C_STRUCT |-> <<"c_type_seq">>, C_UNION |-> <<"c_type_seq">>]

AllocReads ==
  [RECORD |-> <<"integer", "bool">>, RAW_RECORD |-> <<"integer", "int", "raw_ty_seq">>,
   RAW_ALLOC |-> <<"integer_option", "int", "int">>]

ArithReads == [ARITH |-> <<"arithop", "int">>, FLOAT_TO_INT |-> <<"rounding_mode", "int", "int">>]

PureReads ==
  [PURE_ARITH |-> <<"pureop", "int">>, EXTEND |-> <<"bool", "int", "int">>,
   TRUNC |-> <<"int", "int">>, INT_TO_FLOAT |-> <<"int", "int">>,
   FLOAT_TO_BITS |-> <<"int">>, BITS_TO_FLOAT |-> <<"int">>,
   PURE_RAW_SUBSCRIPT |-> <<"numkind", "int">>, RAW_SELECT |-> <<"numkind", "int", "int">>]

LookerReads == [RAW_SUBSCRIPT |-> <<"numkind", "int">>, RAW_LOAD |-> <<"numkind", "int">>]
SetterReads == [RAW_UPDATE |-> <<"numkind", "int">>, RAW_STORE |-> <<"numkind", "int">>]
SignedLimit ==
  [CMP |-> <<"cmpop", "bool", "int">>, FCMP |-> <<"fcmpop", "int">>, FSGN |-> <<"int">>,
   LIMIT |-> <<"int">>]
BranchReads ==
  [CMP |-> <<"cmpop", "bool", "int">>, FCMP |-> <<"fcmpop", "int">>, FSGN |-> <<"int">>,
   LIMIT |-> <<"uint">>]

TyReads == [NUMt |-> <<"int">>, FLTt |-> <<"int">>]
ExpReads ==
  [VAR |-> <<"lvar">>, LABEL |-> <<"lvar">>, NUM |-> <<"integer", "int">>,
   LOOKER |-> <<"looker", "exp_seq">>, PURE |-> <<"pure", "exp_seq">>, SELECT |-> <<"int", "exp">>]

StmReads ==
  [LET |-> <<"exp", "param", "stm">>, ALLOC |-> <<"alloc", "exp_seq", "lvar", "stm">>,
   APPLY |-> <<"exp", "exp_seq", "ty_seq">>, THROW |-> <<"exp", "exp_seq", "ty_seq">>,
   GOTO |-> <<"lvar", "exp_seq">>, SWITCH |-> <<"exp", "stm_seq">>,
   BRANCH |-> <<"branch", "exp_seq", "int", "stm", "stm">>,
   ARITH |-> <<"arith", "exp_seq", "param", "stm">>, SETTER |-> <<"setter", "exp_seq", "stm">>,
   CALLGC |-> <<"exp_seq", "lvar_seq", "stm">>,
   RCC |-> <<"bool", "string", "c_proto", "exp_seq", "param_seq", "param_seq", "stm">>]

RecordReads ==
  [c_proto |-> <<"string", "c_type", "c_type_seq">>, raw_ty |-> <<"numkind", "int">>,
   param |-> <<"lvar", "ty">>, frag |-> <<"frag_kind", "lvar", "param_seq", "stm">>,
   attrs |-> <<"int", "bool", "bool", "bool">>, cluster |-> <<"attrs", "frag_seq">>,
   comp_unit |-> <<"string", "cluster", "cluster_seq">>]

Reads ==
  [c_type |-> CTypesReads, alloc |-> AllocReads, arith |-> ArithReads, pure |-> PureReads,
   looker |-> LookerReads, setter |-> SetterReads, branch |-> BranchReads, ty |-> TyReads,
   exp |-> ExpReads, stm |-> StmReads]

FieldsOf(ty, con) == IF con \in DOMAIN Reads[ty] THEN Reads[ty][con] ELSE <<>>

-----------------------------------------------------------------------------
(* A read function that has to read the types in todo and then returns *)
Frame(con, todo) == [con |-> con, todo |-> todo, args |-> <<>>]

Init ==
  /\ unit \in Units
  /\ \E file \in {Written("comp_unit", unit)} :
       \/ damage = 0 /\ toks = file
       \/ \E i \in DOMAIN file :
            file[i].k = "byte" /\ damage = i /\ toks = [file EXCEPT ![i].v = BadTag]
  /\ stack = <<Frame("comp_unit", RecordReads["comp_unit"])>>
  /\ result = <<>>
  /\ phase = "read"

Top == Head(stack)
Wanted == Head(Top.todo)   \* the type to be read
Reading(types) == phase = "read" /\ Top.todo # <<>> /\ Wanted \in types
Tok == Head(toks)
Got(k) == toks # <<>> /\ Tok.k = k

(* The innermost function got a value, or calls another one. *)
Received(t) == [Top EXCEPT !.todo = Tail(@), !.args = Append(@, t)]
Receive(t) == stack' = <<Received(t)>> \o Tail(stack)
CallTwice(con, todo) == stack' = <<Frame(con, todo)>> \o stack
Call(con, todo) == stack' = <<Frame(con, todo), [Top EXCEPT !.todo = Tail(@)]>> \o Tail(stack)

Consume == toks' = Tail(toks) /\ UNCHANGED <<unit, damage, result, phase>>

(* read_int, read_uint, read_string, read_integer and read_lvar *)
ReadBasic ==
  /\ Reading(Basic \ {"bool"}) /\ Got(Wanted)
  /\ Receive(Value(Wanted, Tok.v))
  /\ Consume

ReadBool ==
  /\ Reading({"bool"}) /\ Got("byte") /\ Tok.v \in {1, 2}
  /\ Receive(Value("bool", Tok.v))
  /\ Consume

(* read_<enumeration>: static_cast, whatever the tag is *)
EnumCon(ty, tag) == IF tag \in DOMAIN EnumTags[ty] THEN EnumTags[ty][tag] ELSE "?"
ReadEnum ==
  /\ Reading(DOMAIN EnumTags) /\ Got("byte")
  /\ Receive(Term(EnumCon(Wanted, Tok.v), <<>>))
  /\ Consume

(* <class>::read *)
ReadClass ==
  /\ Reading(DOMAIN ClassTags) /\ Got("byte") /\ Tok.v \in DOMAIN ClassTags[Wanted]
  /\ LET con == ClassTags[Wanted][Tok.v] IN Call(con, FieldsOf(Wanted, con))
  /\ Consume

ReadRecord ==
  /\ Reading(Record)
  /\ Call(Wanted, RecordReads[Wanted])
  /\ UNCHANGED <<unit, damage, toks, result, phase>>

(* read_seq and read_lvar_seq *)
ReadSeq ==
  /\ Reading(DOMAIN Items) /\ Got("uint")
  /\ Call("seq", [i \in 1 .. Tok.v |-> Items[Wanted]])
  /\ Consume

(* read_integer_option *)
ReadOption ==
  /\ Reading(DOMAIN Content) /\ Got("byte") /\ Tok.v \in {0, 1}
  /\ Call("option", [i \in 1 .. Tok.v |-> Content[Wanted]])
  /\ Consume

(* make: a function returns what it built to its caller *)
Return ==
  /\ phase = "read" /\ Top.todo = <<>>
  /\ LET t == Term(Top.con, Top.args)
         rest == Tail(stack)
     IN IF rest = <<>> THEN stack' = <<>> /\ result' = <<t>> /\ phase' = "done"
        ELSE /\ stack' = <<[Head(rest) EXCEPT !.args = Append(@, t)]>> \o Tail(rest)
             /\ UNCHANGED <<result, phase>>
  /\ UNCHANGED <<unit, damage, toks>>

(* invalidTag: the program exits *)
InvalidTag ==
  /\ Reading({"bool"} \cup DOMAIN ClassTags \cup DOMAIN Content) /\ Got("byte")
  /\ Tok.v \notin CASE Wanted = "bool" -> {1, 2}
                    [] Wanted \in DOMAIN ClassTags -> DOMAIN ClassTags[Wanted]
                    [] Wanted \in DOMAIN Content -> {0, 1}
  /\ phase' = "exit"
  /\ UNCHANGED <<unit, damage, toks, stack, result>>

Next ==
  \/ ReadBasic \/ ReadBool \/ ReadEnum \/ ReadClass \/ ReadRecord \/ ReadSeq \/ ReadOption
  \/ Return \/ InvalidTag

Spec == Init /\ [][Next]_vars

-----------------------------------------------------------------------------
Type == Basic \cup Record \cup DOMAIN EnumTags \cup DOMAIN ClassTags \cup DOMAIN Items \cup DOMAIN Content

(* The numbers of fields that the writer has for a constructor *)
Arities(con) ==
  UNION {{Len(Sml[ty][i].fields) : i \in {j \in DOMAIN Sml[ty] : Sml[ty][j].name = con}} :
           ty \in DOMAIN Sml}

(* The type invariant of the unpickler: a frame has what it read and what it
   has to read, and waits for one value if it is not the innermost. *)
TypeOK ==
  /\ unit.con = "comp_unit" /\ damage \in Nat
  /\ phase \in {"read", "done", "exit"} /\ (phase = "done" <=> stack = <<>>)
  /\ toks \in Seq([k: Basic \cup {"byte"}, v: Nat])
  /\ \A i \in DOMAIN stack :
       LET f == stack[i]  waits == IF i = 1 THEN 0 ELSE 1 IN
       /\ f.todo \in Seq(Type)
       /\ f.con \notin {"seq", "option"} =>
            Len(f.args) + Len(f.todo) + waits \in Arities(f.con)

(***************************************************************************)
(* The file has no types, but reader and writer stay in step: whenever a   *)
(* read function takes a value, it is one of the kind that was written,    *)
(* also behind a damaged tag; and the file ends with the unit.             *)
(***************************************************************************)
InStep ==
  /\ phase = "read" /\ Top.todo # <<>> /\ Wanted \notin Record =>
       Got(CASE Wanted \in Basic \ {"bool"} -> Wanted
             [] Wanted \in DOMAIN Items -> "uint"
             [] OTHER -> "byte")
  /\ phase = "done" => toks = <<>>

RECURSIVE OneUnknown(_, _)
OneUnknown(t, u) ==
  \/ t.con = "?" /\ u.con # "?" /\ t.args = u.args
  \/ /\ t.con = u.con /\ t.v = u.v /\ DOMAIN t.args = DOMAIN u.args
     /\ \E i \in DOMAIN t.args :
          /\ OneUnknown(t.args[i], u.args[i])
          /\ \A j \in DOMAIN t.args \ {i} : t.args[j] = u.args[j]

(***************************************************************************)
(* The unit that is read is the one that was written.  A damaged tag of a  *)
(* class, a bool or an option stops the program; that of an enumeration    *)
(* goes unnoticed, and damages nothing else.                               *)
(***************************************************************************)
ReadBack ==
  /\ phase = "exit" => damage # 0
  /\ phase = "done" => IF damage = 0 THEN result = <<unit>> ELSE OneUnknown(result[1], unit)
=============================================================================
