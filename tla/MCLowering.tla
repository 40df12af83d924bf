----------------------------- MODULE MCLowering -----------------------------
(* The units of Units, for the two targets the code supports, compiled and
   then executed. *)
EXTENDS Lowering, Units

AllLines == {<<s.op, s.prim>> : s \in Line(1, "x")}
Loops == Loop(AllLines, {Trap, Alloc, Set, GC, Record})
Pairs == Pair(AllLines, {Trap, Set, Get})
MCPrograms == Loops \cup Pairs
=============================================================================
