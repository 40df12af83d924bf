------------------------------- MODULE Units -------------------------------
(***************************************************************************)
(* Small compilation units, ten statements each, of two shapes, with every *)
(* kind of statement somewhere among their straight-line statements S:     *)
(*   Loop:  f(a) = S1; BRANCH {S3; GOTO g a} {S5; GOTO g a or APPLY f}      *)
(*          g(a) = S7; BRANCH {GOTO g} {APPLY}                             *)
(*   Pair:  f(a) = S1; SWITCH {S3; THROW} {S5; APPLY g}                    *)
(*          g(a) = S7; S8; S9; APPLY, in a cluster of its own              *)
(***************************************************************************)
EXTENDS CFG

MCNode == 1..10
MCVar == {"a", "x", "y", "z", "w"}
MCLab == {"f", "g"}
X86 == {"ALLOC", "LIMIT", "STORE"}
Arm64 == {"ALLOC", "LIMIT", "STORE", "EXN", "VAR"}
MCTargets == {X86, Arm64}

s0(op, prim, args, res, next) ==
  [op |-> op, prim |-> prim, reg |-> "EXN", args |-> args, res |-> res,
   to |-> NoLab, next |-> next]

(* The straight-line statements at n that may bind x. *)
Line(n, x) ==
  {s0("LET", "VAR", <<"a">>, <<x>>, <<n>>),
   s0("LET", "PURE", <<"a">>, <<x>>, <<n>>),
   s0("LET", "GET", <<>>, <<x>>, <<n>>),
   s0("ALLOC", "-", <<"a">>, <<x>>, <<n>>),
   s0("ARITH", "TRAP", <<"a", "a">>, <<x>>, <<n>>),
   s0("ARITH", "DIV", <<"a", "a">>, <<x>>, <<n>>),
   s0("SETTER", "SET", <<"a">>, <<>>, <<n>>),
   s0("SETTER", "RECORD", <<"a">>, <<>>, <<n>>),
   s0("SETTER", "POKE", <<"a">>, <<>>, <<n>>),
   s0("CALLGC", "-", <<"a">>, <<x>>, <<n>>)}

Only(ss, prims) == {s \in ss : <<s.op, s.prim>> \in prims}
Trap == <<"ARITH", "TRAP">>
Alloc == <<"ALLOC", "-">>
Set == <<"SETTER", "SET">>
Get == <<"LET", "GET">>
GC == <<"CALLGC", "-">>
Record == <<"SETTER", "RECORD">>

(* The last variable that s, or else the parameter, makes available *)
Last(s) == IF s.res = <<>> THEN "a" ELSE s.res[1]

Goto(l, args) == [s0("GOTO", "-", args, <<>>, <<>>) EXCEPT !.to = l]
Call(l, args) == [s0("APPLY", "-", args, <<>>, <<>>) EXCEPT !.to = l]
Throw(args) == s0("THROW", "-", args, <<>>, <<>>)

F(kind, params, body) == [kind |-> kind, params |-> params, body |-> body]

(* A unit, with the owner and the scope of every statement worked out. *)
Unit(stm, frag, clusters) ==
  LET p == [stm |-> stm, frag |-> frag, clusters |-> clusters]
      owner == [n \in MCNode |-> CHOOSE l \in MCLab : frag[l].body \in Path(p, n)]
      scope == [n \in MCNode |-> Elems(frag[owner[n]].params)
                                  \cup UNION {Elems(stm[m].res) : m \in Path(p, n) \ {n}}]
  IN [stm |-> stm, frag |-> frag, clusters |-> clusters, owner |-> owner, scope |-> scope]

(* first: the statements to try as S1; arm: those to try as S3. *)
Loop(first, arm) ==
  {Unit(<<s1, s0("BRANCH", t, <<Last(s1)>>, <<>>, <<3, 5>>),
              s3, Goto("g", <<Last(s3)>>),
              s5, s6,
              s7, s0("BRANCH", "CMP", <<"a">>, <<>>, <<9, 10>>),
              Goto("g", <<Last(s7)>>), Call(NoLab, <<"a">>)>>,
    [l \in MCLab |-> IF l = "f" THEN F("STD_FUN", <<"a">>, 1)
                              ELSE F("INTERNAL", <<"a">>, 7)],
    << <<"f", "g">> >>) :
    s1 \in Only(Line(2, "x"), first),
    s3 \in Only(Line(4, "y"), arm),
    s5 \in Only(Line(6, "z"), {Trap, Set}),
    s6 \in {Goto("g", <<"a">>), Call("f", <<"a">>)},
    s7 \in Only(Line(8, "x"), {Trap, Get}),
    t \in {"CMP", "LIMIT"}}

Pair(first, arm) ==
  {Unit(<<s1, s0("SWITCH", "-", <<Last(s1)>>, <<>>, <<3, 5>>),
              s3, Throw(<<Last(s3)>>),
              s5, Call("g", <<Last(s1)>>),
              s7, s8, s9, Call(NoLab, <<Last(s8)>>)>>,
    [l \in MCLab |-> IF l = "f" THEN F("STD_FUN", <<"a">>, 1)
                              ELSE F("STD_CONT", <<"a">>, 7)],
    << <<"f">>, <<"g">> >>) :
    s1 \in Only(Line(2, "x"), first),
    s3 \in Only(Line(4, "y"), arm),
    s5 \in Only(Line(6, "z"), {Trap, Set}),
    s7 \in Only(Line(8, "x"), {Trap, Set}),
    s8 \in Only(Line(9, "y"), {Trap, GC}),
    s9 \in Only(Line(10, "z"), {Record})}

=============================================================================
