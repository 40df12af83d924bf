---------------------------- MODULE MCUnpickler ----------------------------
(***************************************************************************)
(* Units for TLC: together they have every constructor of every type.  A   *)
(* unit differs from the plainest one in a single argument, down to any    *)
(* depth.  Basic values are numbered by their position among the arguments *)
(* of a constructor, so that no two of one type are alike.                 *)
(***************************************************************************)
EXTENDS Unpickler

(* The plainest constructors: GOTO and those with tag 1 *)
PlainTag(ty) == IF ty = "stm" THEN 5 ELSE 1

RECURSIVE Plain(_, _)
Make(c, args) == Term(c.name, args)
PlainArgs(c) == [i \in DOMAIN c.fields |-> Plain(c.fields[i], i)]
Plain(ty, n) ==
  IF ty \in Basic THEN Value(ty, IF ty = "bool" THEN 1 + (n % 2) ELSE n)
  ELSE IF ty \in DOMAIN Items THEN Term("seq", <<Plain(Items[ty], 1)>>)
  ELSE IF ty \in DOMAIN Content THEN Term("option", <<>>)
  ELSE Make(Sml[ty][PlainTag(ty)], PlainArgs(Sml[ty][PlainTag(ty)]))

RECURSIVE Variants(_, _, _)
(* Terms of type ty, as the n-th argument, in which terms of a type in plain
   are the plainest.  Plain become the types around a term, so that there are
   finitely many, but for those around a fragment. *)
Variants(ty, n, plain) ==
  IF ty \in Basic \cup plain THEN {Plain(ty, n)}
  ELSE IF ty \in DOMAIN Items
  THEN LET a == Plain(Items[ty], 1) IN {Term("seq", <<>>), Term("seq", <<a, a, a>>)}
       \cup {Term("seq", <<b>>) : b \in Variants(Items[ty], 1, plain \cup {"exp", "cluster", "stm"})}
  ELSE IF ty \in DOMAIN Content THEN {Term("option", <<>>), Term("option", <<Plain(Content[ty], 1)>>)}
  ELSE UNION {
    LET c == Sml[ty][k]  inner == IF ty = "frag" THEN {"frag"} ELSE plain \cup {ty}
    IN {Make(c, PlainArgs(c))} \cup
       UNION {{Make(c, [PlainArgs(c) EXCEPT ![i] = a]) : a \in Variants(c.fields[i], i, inner)} :
                i \in DOMAIN c.fields} : k \in DOMAIN Sml[ty]}

AllUnits == Variants("comp_unit", 1, {})
=============================================================================
