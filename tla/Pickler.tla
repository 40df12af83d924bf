------------------------------ MODULE Pickler ------------------------------
(***************************************************************************)
(* What the SML/NJ compiler writes for a compilation unit (the pickler in  *)
(* cfg-file-pickle.sml).  A pickle is a sequence of values as module       *)
(* Pickle has them; bytes are the tags, of which bool has two.  The file   *)
(* has no types: the reader has to know them.                              *)
(***************************************************************************)
EXTENDS Naturals, Sequences, SequencesExt

(* A term: a constructor with its arguments.  A basic value has its type for
   a constructor, and a number. *)
Term(con, args) == [con |-> con, v |-> 0, args |-> args]
Value(ty, n) == [con |-> ty, v |-> n, args |-> <<>>]

Basic == {"uint", "int", "bool", "string", "integer", "lvar"}

(* Types of records, which have no tag, and of sequences and options *)
Record == {"c_proto", "raw_ty", "param", "frag", "attrs", "cluster", "comp_unit"}
Items == [c_type_seq |-> "c_type", raw_ty_seq |-> "raw_ty", ty_seq |-> "ty", exp_seq |-> "exp",
          param_seq |-> "param", stm_seq |-> "stm", frag_seq |-> "frag",
          cluster_seq |-> "cluster", lvar_seq |-> "lvar"]
Content == [integer_option |-> "integer"]

Con(name, fields) == [name |-> name, fields |-> fields]
Names(names) == [i \in DOMAIN names |-> Con(names[i], <<>>)]

-----------------------------------------------------------------------------
(* For each type its constructors, the one with tag 1 first, with the types
   of what is written after the tag. *)

SmlCTypes ==
  [c_int |-> Names(<<"I_char", "I_short", "I_int", "I_long", "I_long_long">>),
   c_type |-> Names(<<"C_void", "C_float", "C_double", "C_long_double">>)
     \o <<Con("C_unsigned", <<"c_int">>), Con("C_signed", <<"c_int">>), Con("C_PTR", <<>>),
          Con("C_ARRAY", <<"c_type", "int">>), Con("C_STRUCT", <<"c_type_seq">>),
          Con("C_UNION", <<"c_type_seq">>)>>,
   c_proto |-> <<Con("c_proto", <<"string", "c_type", "c_type_seq">>)>>]

SmlPrim ==
  [fcmpop |-> Names(<<"F_EQ", "F_ULG", "F_UN", "F_LEG", "F_GT", "F_GE", "F_UGT", "F_UGE", "F_LT",
                      "F_LE", "F_ULT", "F_ULE", "F_LG", "F_UE">>),
   cmpop |-> Names(<<"GT", "GTE", "LT", "LTE", "EQL", "NEQ">>),
   branch |-> <<Con("CMP", <<"cmpop", "bool", "int">>), Con("FCMP", <<"fcmpop", "int">>),
                Con("FSGN", <<"int">>), Con("PEQL", <<>>), Con("PNEQ", <<>>),
                Con("LIMIT", <<"uint">>)>>,
   numkind |-> Names(<<"INT", "FLT">>),
   setter |-> Names(<<"UNBOXED_UPDATE", "UPDATE", "UNBOXED_ASSIGN", "ASSIGN">>)
     \o <<Con("RAW_UPDATE", <<"numkind", "int">>), Con("RAW_STORE", <<"numkind", "int">>),
          Con("SET_HDLR", <<>>), Con("SET_VAR", <<>>)>>,
   looker |-> <<Con("DEREF", <<>>), Con("SUBSCRIPT", <<>>),
                Con("RAW_SUBSCRIPT", <<"numkind", "int">>), Con("RAW_LOAD", <<"numkind", "int">>),
                Con("GET_HDLR", <<>>), Con("GET_VAR", <<>>)>>]

SmlPureArith ==
  [pureop |-> Names(<<"ADD", "SUB", "MUL", "SDIV", "SREM", "UDIV", "UREM", "SHL", "ASHR", "LSHR",
                      "ORB", "XORB", "ANDB", "CNTPOP", "CNTLZ", "CNTTZ", "ROTL", "ROTR", "FADD",
                      "FSUB", "FMUL", "FDIV", "FREM", "FMADD", "FNEG", "FABS", "FCOPYSIGN",
                      "FSQRT">>),
   pure |-> <<Con("PURE_ARITH", <<"pureop", "int">>), Con("EXTEND", <<"bool", "int", "int">>),
              Con("TRUNC", <<"int", "int">>), Con("INT_TO_FLOAT", <<"int", "int">>),
              Con("FLOAT_TO_BITS", <<"int">>), Con("BITS_TO_FLOAT", <<"int">>),
              Con("PURE_SUBSCRIPT", <<>>), Con("PURE_RAW_SUBSCRIPT", <<"numkind", "int">>),
              Con("RAW_SELECT", <<"numkind", "int", "int">>)>>,
   arithop |-> Names(<<"IADD", "ISUB", "IMUL", "IDIV", "IREM">>),
   rounding_mode |-> Names(<<"TO_NEAREST", "TO_NEGINF", "TO_POSINF", "TO_ZERO">>),
   arith |-> <<Con("ARITH", <<"arithop", "int">>),
               Con("FLOAT_TO_INT", <<"rounding_mode", "int", "int">>)>>,
   raw_ty |-> <<Con("raw_ty", <<"numkind", "int">>)>>,
   alloc |-> <<Con("SPECIAL", <<>>), Con("RECORD", <<"integer", "bool">>),
               Con("RAW_RECORD", <<"integer", "int", "raw_ty_seq">>),
               Con("RAW_ALLOC", <<"integer_option", "int", "int">>)>>]

SmlTypes ==
  [attrs |-> <<Con("attrs", <<"int", "bool", "bool", "bool">>)>>,
   frag_kind |-> Names(<<"STD_FUN", "STD_CONT", "KNOWN_FUN", "INTERNAL">>),
   ty |-> <<Con("LABt", <<>>), Con("PTRt", <<>>), Con("TAGt", <<>>), Con("NUMt", <<"int">>),
            Con("FLTt", <<"int">>)>>,
   param |-> <<Con("param", <<"lvar", "ty">>)>>,
   exp |-> <<Con("VAR", <<"lvar">>), Con("LABEL", <<"lvar">>), Con("NUM", <<"integer", "int">>),
             Con("LOOKER", <<"looker", "exp_seq">>), Con("PURE", <<"pure", "exp_seq">>),
             Con("SELECT", <<"int", "exp">>)>>]

SmlStm ==
  [stm |-> <<Con("LET", <<"exp", "param", "stm">>), Con("ALLOC", <<"alloc", "exp_seq", "lvar", "stm">>),
             Con("APPLY", <<"exp", "exp_seq", "ty_seq">>), Con("THROW", <<"exp", "exp_seq", "ty_seq">>),
             Con("GOTO", <<"lvar", "exp_seq">>), Con("SWITCH", <<"exp", "stm_seq">>),
             Con("BRANCH", <<"branch", "exp_seq", "int", "stm", "stm">>),
             Con("ARITH", <<"arith", "exp_seq", "param", "stm">>),
             Con("SETTER", <<"setter", "exp_seq", "stm">>),
             Con("CALLGC", <<"exp_seq", "lvar_seq", "stm">>),
             Con("RCC", <<"bool", "string", "c_proto", "exp_seq", "param_seq", "param_seq", "stm">>)>>,
   frag |-> <<Con("frag", <<"frag_kind", "lvar", "param_seq", "stm">>)>>,
   cluster |-> <<Con("cluster", <<"attrs", "frag_seq">>)>>,
   comp_unit |-> <<Con("comp_unit", <<"string", "cluster", "cluster_seq">>)>>]

Sml == SmlCTypes @@ SmlPrim @@ SmlPureArith @@ SmlTypes @@ SmlStm

Token(k, v) == [k |-> k, v |-> v]

(* write_<ty>, writeSeq and writeOption *)
RECURSIVE Written(_, _)
Written(ty, t) ==
  CASE ty = "bool" -> <<Token("byte", t.v)>>
    [] ty \in Basic \ {"bool"} -> <<Token(ty, t.v)>>
    [] ty \in DOMAIN Items ->
         <<Token("uint", Len(t.args))>>
         \o FlattenSeq([i \in DOMAIN t.args |-> Written(Items[ty], t.args[i])])
    [] ty \in DOMAIN Content ->
         <<Token("byte", Len(t.args))>>
         \o FlattenSeq([i \in DOMAIN t.args |-> Written(Content[ty], t.args[i])])
    [] OTHER ->
         LET tag == CHOOSE i \in DOMAIN Sml[ty] : Sml[ty][i].name = t.con
         IN (IF ty \in Record THEN <<>> ELSE <<Token("byte", tag)>>)
            \o FlattenSeq([i \in DOMAIN t.args |-> Written(Sml[ty][tag].fields[i], t.args[i])])
=============================================================================
