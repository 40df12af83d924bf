--------------------------- MODULE LoweringProofs ---------------------------
(***************************************************************************)
(* The generated code implements the unit, for every set of well-formed    *)
(* units, every choice of machine registers and any number of steps: what  *)
(* each group of instructions holds and where it stands in out, what a run *)
(* of one group does to the values, and the step of CFGSem it comes to.    *)
(***************************************************************************)
EXTENDS CodeGenProofs, Lowering

-----------------------------------------------------------------------------
(* Running instructions: the recursive function of Run exists, one
   instruction at a time. *)
IsRun(run, n, ins, p) ==
  run = [i \in 0..Len(ins) |-> IF i = 0 THEN p ELSE Exec(n, ins[i], run[i - 1])]

LEMMA RunEquation ==
  ASSUME NEW n, NEW T, NEW ins \in Seq(T), NEW p
  PROVE  \E run : IsRun(run, n, ins, p) /\ Run(n, ins, p) = run[Len(ins)]
<1> DEFINE L == Len(ins)
           Runs(run, k) == run = [i \in 0..k |-> IF i = 0 THEN p ELSE Exec(n, ins[i], run[i - 1])]
           Short == {k \in 0..L : ~ \E run : Runs(run, k)}
<1>1. L \in Nat
  OBVIOUS
<1> HIDE DEF L
<1>2. Short = {}
  <2> SUFFICES ASSUME Short # {} PROVE FALSE
    OBVIOUS
  <2>1. Short \in SUBSET Nat
    BY <1>1
  <2>2. PICK k \in Short : \A j \in Short : k <= j
    <3> HIDE DEF Short
    <3> QED
      BY <2>1, LeastNat
  <2>3. k \in 0..L /\ k \in Nat /\ ~ \E run : Runs(run, k)
    BY <1>1, <2>2
  <2>4. CASE k = 0
    <3> DEFINE r == [i \in 0..0 |-> p]
    <3>1. Runs(r, 0)
      <4>1. 0..0 = {0}
        OBVIOUS
      <4> QED
        BY <4>1
    <3> QED
      BY <2>3, <2>4, <3>1
  <2>5. CASE k # 0
    <3>1. k - 1 \in 0..L /\ k - 1 \in Nat /\ k - 1 < k
      BY <2>3, <2>5, <1>1
    <3>2. PICK r : Runs(r, k - 1)
      BY <2>2, <3>1
    <3> DEFINE q == [i \in 0..k |-> IF i = k THEN Exec(n, ins[k], r[k - 1]) ELSE r[i]]
               h == [i \in 0..k |-> IF i = 0 THEN p ELSE Exec(n, ins[i], q[i - 1])]
    <3>3. DOMAIN r = 0..(k - 1) /\ \A i \in 0..(k - 1) : r[i] = IF i = 0 THEN p ELSE Exec(n, ins[i], r[i - 1])
      BY <3>2
    <3>4. \A i \in 0..k : q[i] = h[i]
      <4> TAKE i \in 0..k
      <4>1. CASE i = k
        <5>1. q[i] = Exec(n, ins[k], r[k - 1]) /\ q[k - 1] = r[k - 1] /\ h[i] = Exec(n, ins[k], q[k - 1])
          BY <2>3, <2>5, <3>1, <4>1
        <5> QED
          BY <5>1
      <4>2. CASE i # k /\ i # 0
        <5>1. i \in 0..(k - 1) /\ i - 1 \in 0..(k - 1) /\ i - 1 \in 0..k /\ i - 1 # k
          BY <2>3, <4>2
        <5>2. q[i] = r[i] /\ q[i - 1] = r[i - 1] /\ h[i] = Exec(n, ins[i], q[i - 1])
          BY <4>2, <5>1
        <5> QED
          BY <3>3, <4>2, <5>1, <5>2
      <4>3. CASE i # k /\ i = 0
        <5>1. 0 \in 0..(k - 1) /\ 0 \in 0..k
          BY <2>3, <4>3
        <5> QED
          BY <3>3, <4>3, <5>1
      <4> QED
        BY <4>1, <4>2, <4>3
    <3>5. q = h
      BY <3>4
    <3>6. Runs(q, k)
      BY <3>5
    <3> QED
      BY <2>3, <3>6
  <2> QED
    BY <2>4, <2>5
<1>3. \E run : Runs(run, L)
  <2>1. L \in 0..L
    BY <1>1
  <2> QED
    BY <1>2, <2>1
<1> DEFINE run == CHOOSE run : Runs(run, L)
<1>4. Runs(run, L)
  <2> HIDE DEF Runs
  <2> QED
    BY <1>3
<1>5. Run(n, ins, p) = run[L]
  BY DEF Run, L
<1> HIDE DEF run
<1>6. IsRun(run, n, ins, p)
  BY <1>4 DEF IsRun, L
<1> QED
  BY <1>5, <1>6 DEF L

LEMMA RunNone ==
  ASSUME NEW n, NEW p
  PROVE  Run(n, <<>>, p) = p
<1> DEFINE none == <<>>
<1>1. none \in Seq({}) /\ Len(none) = 0
  OBVIOUS
<1> HIDE DEF none
<1>2. PICK run : IsRun(run, n, none, p) /\ Run(n, none, p) = run[Len(none)]
  BY <1>1, RunEquation
<1>3. run[0] = p
  BY <1>1, <1>2 DEF IsRun
<1> QED
  BY <1>1, <1>2, <1>3 DEF none

LEMMA RunAppend ==
  ASSUME NEW n, NEW p, NEW T, NEW a \in Seq(T), NEW c \in T
  PROVE  Run(n, Append(a, c), p) = Exec(n, c, Run(n, a, p))
<1> DEFINE b == Append(a, c)
           L == Len(a)
<1>1. /\ b \in Seq(T) /\ Len(b) = L + 1 /\ L \in Nat /\ b[L + 1] = c
      /\ \A i \in 1..L : b[i] = a[i]
  OBVIOUS
<1> HIDE DEF b
<1>2. PICK r : IsRun(r, n, a, p) /\ Run(n, a, p) = r[Len(a)]
  BY RunEquation
<1>3. PICK q : IsRun(q, n, b, p) /\ Run(n, b, p) = q[Len(b)]
  BY <1>1, RunEquation
<1>4. \A i \in 0..L : r[i] = IF i = 0 THEN p ELSE Exec(n, a[i], r[i - 1])
  BY <1>2 DEF IsRun
<1>5. \A i \in 0..(L + 1) : q[i] = IF i = 0 THEN p ELSE Exec(n, b[i], q[i - 1])
  BY <1>1, <1>3 DEF IsRun
<1> HIDE DEF L
<1>6. \A i \in 0..L : q[i] = r[i]
  <2> DEFINE Differ == {i \in 0..L : q[i] # r[i]}
  <2> SUFFICES ASSUME Differ # {} PROVE FALSE
    OBVIOUS
  <2>1. Differ \in SUBSET Nat
    BY <1>1
  <2>2. PICK k \in Differ : \A j \in Differ : k <= j
    <3> HIDE DEF Differ
    <3> QED
      BY <2>1, LeastNat
  <2>3. k \in Nat /\ k <= L /\ q[k] # r[k]
    BY <1>1, <2>2
  <2>4. k # 0
    <3>1. 0 \in 0..L /\ 0 \in 0..(L + 1)
      BY <1>1
    <3>2. r[0] = p /\ q[0] = p
      BY <1>4, <1>5, <3>1
    <3> QED
      BY <2>3, <3>2
  <2>5. k \in 0..L /\ k \in 0..(L + 1) /\ k - 1 \in 0..L /\ k - 1 < k /\ k \in 1..L
    BY <1>1, <2>3, <2>4
  <2>6. q[k - 1] = r[k - 1]
    BY <2>2, <2>3, <2>5
  <2>7. r[k] = Exec(n, a[k], r[k - 1]) /\ q[k] = Exec(n, b[k], q[k - 1])
    BY <1>4, <1>5, <2>4, <2>5
  <2> QED
    BY <1>1, <2>3, <2>5, <2>6, <2>7
<1>7. q[L + 1] = Exec(n, c, q[L]) /\ q[L] = r[L]
  <2>1. L + 1 \in 0..(L + 1) /\ L + 1 # 0 /\ (L + 1) - 1 = L /\ L \in 0..L
    BY <1>1
  <2> QED
    BY <1>1, <1>5, <1>6, <2>1
<1> QED
  BY <1>1, <1>2, <1>3, <1>7 DEF b, L

LEMMA AppendLast ==
  ASSUME NEW T, NEW a \in Seq(T), NEW t \in Seq(T), NEW c \in T
  PROVE  a \o Append(t, c) = Append(a \o t, c)
OBVIOUS

(* Instructions one after the other *)
LEMMA RunConcat ==
  ASSUME NEW n, NEW p, NEW T, NEW a \in Seq(T), NEW b \in Seq(T)
  PROVE  Run(n, a \o b, p) = Run(n, b, Run(n, a, p))
<1> DEFINE P(s) == Run(n, a \o s, p) = Run(n, s, Run(n, a, p))
           Wrong == {k \in Nat : \E s \in Seq(T) : Len(s) = k /\ ~P(s)}
<1> SUFFICES ASSUME ~P(b) PROVE FALSE
  OBVIOUS
<1>1. Wrong \in SUBSET Nat
  OBVIOUS
<1>2. Len(b) \in Wrong
  <2>1. Len(b) \in Nat
    OBVIOUS
  <2> HIDE DEF P
  <2> QED
    BY <2>1
<1>3. PICK k \in Wrong : \A j \in Wrong : k <= j
  <2> HIDE DEF Wrong
  <2> QED
    BY <1>1, <1>2, LeastNat
<1>4. PICK s \in Seq(T) : Len(s) = k /\ ~P(s)
  <2> HIDE DEF P
  <2> QED
    BY <1>3
<1>5. s # <<>>
  <2> SUFFICES ASSUME s = <<>> PROVE P(s)
    BY <1>4
  <2>1. a \o <<>> = a
    BY ConcatEmptySeq
  <2> QED
    BY <2>1, RunNone
<1>6. PICK t \in Seq(T), c \in T : s = Append(t, c)
  BY <1>5, SequenceEmptyOrAppend
<1>7. Len(t) \in Nat /\ Len(t) < k
  BY <1>4, <1>6, AppendProperties
<1>8. P(t)
  <2>1. Len(t) \notin Wrong
    <3>1. k \in Nat
      BY <1>3
    <3> HIDE DEF Wrong
    <3> QED
      BY <1>3, <1>7, <3>1
  <2> HIDE DEF P
  <2> QED
    BY <1>7, <2>1
<1>9. a \o t \in Seq(T)
  BY ConcatProperties
<1>10. a \o s = Append(a \o t, c)
  BY <1>6, AppendLast
<1>11. Run(n, a \o s, p) = Exec(n, c, Run(n, a \o t, p))
  <2> DEFINE u == a \o t
  <2>1. u \in Seq(T)
    BY <1>9
  <2> HIDE DEF u
  <2>2. Run(n, Append(u, c), p) = Exec(n, c, Run(n, u, p))
    BY <2>1, RunAppend
  <2> QED
    BY <1>10, <2>2 DEF u
<1>12. Run(n, s, Run(n, a, p)) = Exec(n, c, Run(n, t, Run(n, a, p)))
  <2> DEFINE q == Run(n, a, p)
  <2> HIDE DEF q
  <2>1. Run(n, Append(t, c), q) = Exec(n, c, Run(n, t, q))
    BY RunAppend
  <2> QED
    BY <1>6, <2>1 DEF q
<1> QED
  BY <1>4, <1>8, <1>11, <1>12

(* One instruction *)
LEMMA RunOne ==
  ASSUME NEW n, NEW c, NEW p
  PROVE  Run(n, <<c>>, p) = Exec(n, c, p)
<1> DEFINE none == <<>>
           T == {c}
<1>1. none \in Seq(T) /\ c \in T /\ Append(none, c) = <<c>>
  OBVIOUS
<1>2. Run(n, none, p) = p
  BY RunNone
<1> HIDE DEF none, T
<1>3. Run(n, Append(none, c), p) = Exec(n, c, Run(n, none, p))
  BY <1>1, RunAppend
<1> QED
  BY <1>1, <1>2, <1>3

(* New values in place of old ones *)
LEMMA HeldWith ==
  ASSUME NEW e, NEW f, NEW v
  PROVE  Held(With(e, f), v) = IF v \in DOMAIN f THEN f[v] ELSE Held(e, v)
BY DEF Held, With

(* An operation gives its value a value, from those of its arguments. *)
Computes(n, c, p, q) ==
  /\ q.f = p.f
  /\ Held(q.e, c.def) = Fn(n, c.nm, HeldAll(p.e, c.args))
  /\ \A v : v # c.def => Held(q.e, v) = Held(p.e, v)

LEMMA ExecOp ==
  ASSUME NEW n, NEW c, c.op = "ins", NEW p
  PROVE  Computes(n, c, p, Exec(n, c, p))
<1> DEFINE one == [v \in {c.def} |-> Fn(n, c.nm, HeldAll(p.e, c.args))]
<1>1. Exec(n, c, p) = [e |-> With(p.e, one), f |-> p.f]
  BY DEF Exec
<1>2. DOMAIN one = {c.def} /\ one[c.def] = Fn(n, c.nm, HeldAll(p.e, c.args))
  OBVIOUS
<1> HIDE DEF one
<1> QED
  BY <1>1, <1>2, HeldWith DEF Computes

-----------------------------------------------------------------------------
(***************************************************************************)
(* The generated code implements the source.  Inductively, the groups of   *)
(* a block follow one another as the statements do, and the instructions   *)
(* of a statement do to what the registers and the variable map stand for  *)
(* what CFGSem says the statement does to registers and variables.         *)
(***************************************************************************)

(* What the registers rs hold, and the variables vs of scope sc. *)
RegsIn(rs, e, f) == [r \in Reg |-> IF rs[r] = NoVal THEN f[r] ELSE Held(e, rs[r])]
VarsIn(vs, sc, e) == [x \in Var |-> IF x \in sc THEN Held(e, vs[x]) ELSE Undef]

(* CFGSem's arguments, registers and variables after statement s at n,
   executed with registers R and variables X *)
ArgsOf(s, X) == [i \in DOMAIN s.args |-> X[s.args[i]]]

NextRegs(n, s, R, X) ==
  [r \in Reg |->
     IF r \notin Writes(s) THEN R[r]
     ELSE IF s.prim = "SET" THEN ArgsOf(s, X)[1]
     ELSE IF r = "STORE" /\ s.prim = "RECORD"
          THEN Fn(n, r, <<R["ALLOC"], R["STORE"]>> \o ArgsOf(s, X))
     ELSE Fn(n, r, <<R[r]>>)]

ResultOf(n, s, R, X, i) ==
  CASE s.prim = "VAR" -> ArgsOf(s, X)[1]
    [] s.prim = "GET" -> R[s.reg]
    [] s.op = "ALLOC" -> Fn(n, s.res[i], <<R["ALLOC"]>> \o ArgsOf(s, X))
    [] s.op = "CALLGC" -> Fn(n, s.res[i], <<ArgsOf(s, X)[i]>>)
    [] OTHER -> Fn(n, s.res[i], ArgsOf(s, X))

NextVars(n, s, R, X) ==
  [x \in Var |-> IF \E i \in DOMAIN s.res : s.res[i] = x
                 THEN ResultOf(n, s, R, X, CHOOSE i \in DOMAIN s.res : s.res[i] = x) ELSE X[x]]

(* The values of registers and variables after statement s at n, of those
   before it in a, where hw are the machine registers *)
RegVals(hw, n, s, a) ==
  [r \in Reg |-> IF r \notin hw THEN NoVal
                 ELSE IF r \notin Writes(s) THEN a.regs[r]
                 ELSE IF s.prim = "SET" THEN a.vars[s.args[1]]
                 ELSE V("ins", n, r)]
VarVals(n, s, a) ==
  [x \in Var |-> IF x \notin Elems(s.res) THEN a.vars[x]
                 ELSE IF s.prim = "VAR" THEN a.vars[s.args[1]]
                 ELSE IF s.prim = "GET" THEN (IF a.regs[s.reg] = NoVal THEN V("load", n, s.reg)
                                              ELSE a.regs[s.reg])
                 ELSE V("ins", n, x)]
ArgVals(s, a) == [i \in DOMAIN s.args |-> a.vars[s.args[i]]]

IsFrame(f) == f = [r \in Reg |-> f[r]]

(* The values that statement n defines *)
Own(n) == {V(k, n, x) : k \in {"ins", "load"}, x \in Reg \cup Var}

(* What is known of the registers and variables a that statement n
   finds: exactly the machine registers have values, and none is one of its own *)
Fits(hw, n, s, sc, a) ==
  /\ n \in Node /\ s \in Stm /\ Arity(s)
  /\ hw \subseteq Reg /\ sc \subseteq Var
  /\ \A r \in Reg : a.regs[r] = NoVal <=> r \notin hw
  /\ \A r \in hw : a.regs[r] \notin Own(n)
  /\ \A x \in sc : a.vars[x] # NoVal /\ a.vars[x] \notin Own(n)
  /\ \A i \in DOMAIN s.args : s.args[i] \in sc
  /\ \A x \in Elems(s.res) : x \in Var \ sc

(* The instructions ins of statement s do what s does. *)
Means(hw, n, s, sc, a, ins) ==
  \A e, f : IsFrame(f) =>
    LET q == Run(n, ins, [e |-> e, f |-> f])
        R == RegsIn(a.regs, e, f)
        X == VarsIn(a.vars, sc, e)
    IN /\ IsFrame(q.f)
       /\ RegsIn(RegVals(hw, n, s, a), q.e, q.f) = NextRegs(n, s, R, X)
       /\ VarsIn(VarVals(n, s, a), sc \cup Elems(s.res), q.e) = NextVars(n, s, R, X)

(* After them, the values args are what s tests. *)
Tests(n, s, sc, a, ins, args) ==
  \A e, f : IsFrame(f) =>
    LET R == RegsIn(a.regs, e, f)
    IN HeldAll(Run(n, ins, [e |-> e, f |-> f]).e, args)
         = IF s.prim = "LIMIT" THEN <<R["ALLOC"], R["LIMIT"]>> ELSE ArgsOf(s, VarsIn(a.vars, sc, e))

-----------------------------------------------------------------------------
(* A group of a statement's own code, and not of a block aside. *)
Main(g) == g.end.op \notin {"raise", "unreachable"}

Raises(m) == \E i \in DOMAIN out : out[i].blk = Blk("overflow", m)

Entry(v, val, b) == [phi |-> v, val |-> val, pred |-> b] \in inc

(* How the code of statement n, whose bindings are a, ends *)
GotoRight(n, s, a, g) ==
  LET f == prog.frag[s.to] IN
  /\ s.op = "GOTO" /\ g.end.to = <<BB(f.body)>>
  /\ \A r \in mach : Entry(V("phi", f.body, r), a.regs[r], a.blk)
  /\ \A i \in DOMAIN s.args : Entry(V("phi", f.body, f.params[i]), a.vars[s.args[i]], a.blk)

BranchRight(n, s, a, g) ==
  /\ s.op \in {"BRANCH", "SWITCH"} /\ Len(g.end.to) > 1
  /\ {b \in Elems(g.end.to) : b.k # "impossible"} = {BB(m) : m \in Children(prog, n)}
  /\ Tests(n, s, prog.scope[n], a, g.ins, g.end.args)

TrapRight(n, s, a, g) ==
  /\ s.prim = "TRAP"
  /\ \E m \in Node : /\ g.end.to = <<Blk("overflow", m), Blk("ok", n)>> /\ Raises(m)
                     /\ \A r \in mach : Entry(V("ovphi", m, r), a.regs[r], a.blk)

EndRight(n, s, a, g) ==
  \/ g.end.op = "fall" /\ s.op \in {"LET", "ALLOC", "ARITH", "SETTER"} /\ s.prim # "TRAP"
  \/ g.end.op = "gc" /\ s.op = "CALLGC" /\ g.ins = <<>> /\ g.end.regs = a.regs /\ g.end.args = ArgVals(s, a)
  \/ g.end.op = "br" /\ (GotoRight(n, s, a, g) \/ BranchRight(n, s, a, g))
  \/ g.end.op = "ovbr" /\ TrapRight(n, s, a, g)
  \/ g.end.op = "call" /\ s.op \in {"APPLY", "THROW"} /\ g.ins = <<>>
     /\ g.end.regs = a.regs /\ g.end.args = ArgVals(s, a)

MainRight(g) ==
  LET n == g.at  s == prog.stm[n]  a == at[n] IN
  /\ g.blk = a.blk /\ g.blk.k \in {"bb", "ok"}
  /\ Fits(mach, n, s, prog.scope[n], a)
  /\ g.end.op # "gc" => Means(mach, n, s, prog.scope[n], a, g.ins)
  /\ EndRight(n, s, a, g)

AsideRight(g) ==
  \/ g.end.op = "unreachable" /\ g.blk = Blk("impossible", g.at)
  \/ g.end.op = "raise" /\ g.blk = Blk("overflow", g.at) /\ g.end.regs = MachRegs("ovphi", g.at)

GroupsRightIn(gs) == \A i \in DOMAIN gs : IF Main(gs[i]) THEN MainRight(gs[i]) ELSE AsideRight(gs[i])
GroupsRight == GroupsRightIn(out)

(* What the code of done statements defines is theirs. *)
DefsOwn ==
  \A i \in DOMAIN out : LET g == out[i] IN
    /\ g.at \in Done
    /\ \A c \in Elems(g.ins) : c.def \in Own(g.at) \cup {NoVal}

(* Every statement that is done has one such group. *)
OneMain ==
  /\ \A n \in Done : \E i \in DOMAIN out : out[i].at = n /\ Main(out[i])
  /\ \A i, j \in DOMAIN out : Main(out[i]) /\ Main(out[j]) /\ out[i].at = out[j].at => i = j

(* Block b has no group in out from i up to j. *)
NoneFrom(b, i, j) == \A k \in i..(j - 1) : out[k].blk # b

(* The code of n may come at place j of out, in block b: it starts its block,
   or follows the code of the statement before n. *)
ComesAt(n, b, j) ==
  \/ n \in Heads /\ b = BB(n) /\ NoneFrom(b, 1, j)
  \/ \E p \in Done : /\ n \in Children(prog, p) /\ prog.stm[p].prim = "TRAP"
                     /\ b = Blk("ok", p) /\ NoneFrom(b, 1, j)
  \/ \E i \in DOMAIN out : /\ i < j /\ out[i].end.op \in {"fall", "gc"} /\ n \in Children(prog, out[i].at)
                           /\ b = out[i].blk /\ NoneFrom(b, i + 1, j)

InOrder ==
  /\ \A j \in DOMAIN out : Main(out[j]) => ComesAt(out[j].at, out[j].blk, j)
  /\ node # NoNode => ComesAt(node, bb, Len(out) + 1)

(* A statement finds the variables as the one before it left them. *)
VarsFollow ==
  \A n \in Done : \A m \in Children(prog, n) :
    LET vs == VarVals(n, prog.stm[n], at[n]) IN
    /\ m \in Done => \A x \in prog.scope[m] : at[m].vars[x] = vs[x]
    /\ m = node => \A x \in prog.scope[m] : vMap[x] = vs[x]
    /\ (\E i \in DOMAIN todo : todo[i].t = "arm" /\ todo[i].n = m) =>
         \A x \in prog.scope[m] : vMap[x] = vs[x]

(* The body of a fragment starts with its entry values. *)
StartsWith(l, rs, vs) ==
  LET f == prog.frag[l]
      k == IF f.kind = "INTERNAL" THEN "phi" ELSE "arg"
  IN /\ \A r \in mach : rs[r] = V(k, f.body, r)
     /\ \A x \in Elems(f.params) : vs[x] = V(k, f.body, x)

BodiesStart ==
  \A l \in Lab : LET n == prog.frag[l].body IN
    /\ n \in Done => StartsWith(l, at[n].regs, at[n].vars)
    /\ n = node => StartsWith(l, regState, vMap)

(* The overflow block of the cluster raises Overflow. *)
OverflowRaises == ovBB # NoBlock => Raises(ovBB.at)

CodeInv ==
  /\ DefsOwn /\ GroupsRight /\ OneMain /\ InOrder
  /\ VarsFollow /\ BodiesStart /\ OverflowRaises

-----------------------------------------------------------------------------
(* When the code of a statement does what the statement does *)

(* Only values of statement n change. *)
Kept(n, e, d) == \A v : v \notin Own(n) => Held(d, v) = Held(e, v)

(* The values and the frame in q are right for R and X after statement s. *)
Does(hw, n, s, a, R, X, e, q) ==
  /\ IsFrame(q.f)
  /\ Kept(n, e, q.e)
  /\ \A r \in Reg \ hw : q.f[r] = NextRegs(n, s, R, X)[r]
  /\ \A r \in hw \cap Writes(s) :
       s.prim # "SET" => Held(q.e, V("ins", n, r)) = NextRegs(n, s, R, X)[r]
  /\ \A x \in Elems(s.res) : Held(q.e, VarVals(n, s, a)[x]) = NextVars(n, s, R, X)[x]

DoesAll(hw, n, s, sc, a, ins) ==
  \A e, f : IsFrame(f) =>
    Does(hw, n, s, a, RegsIn(a.regs, e, f), VarsIn(a.vars, sc, e), e, Run(n, ins, [e |-> e, f |-> f]))

(* Values q, for registers R and variables X that the values e and the frame f hold *)
Effect(hw, n, s, sc, a, e, f, R, X, q) ==
  /\ Fits(hw, n, s, sc, a)
  /\ R = RegsIn(a.regs, e, f) /\ X = VarsIn(a.vars, sc, e)
  /\ Does(hw, n, s, a, R, X, e, q)

(* are what registers and variables after statement s are to hold. *)
Agrees(hw, n, s, sc, a, R, X, q) ==
  /\ IsFrame(q.f)
  /\ RegsIn(RegVals(hw, n, s, a), q.e, q.f) = NextRegs(n, s, R, X)
  /\ VarsIn(VarVals(n, s, a), sc \cup Elems(s.res), q.e) = NextVars(n, s, R, X)

LEMMA DoesMeans ==
  ASSUME NEW hw, NEW n, NEW s, NEW sc, NEW a, NEW e, NEW f, NEW R, NEW X, NEW q,
         Effect(hw, n, s, sc, a, e, f, R, X, q)
  PROVE  Agrees(hw, n, s, sc, a, R, X, q)
<1>1. Fits(hw, n, s, sc, a) /\ R = RegsIn(a.regs, e, f) /\ X = VarsIn(a.vars, sc, e) /\ Does(hw, n, s, a, R, X, e, q)
  BY DEF Effect
<1> DEFINE NR == NextRegs(n, s, R, X)
           NX == NextVars(n, s, R, X)
           rv == RegVals(hw, n, s, a)
           vv == VarVals(n, s, a)
<1>2. /\ IsFrame(q.f) /\ Kept(n, e, q.e)
      /\ \A r \in Reg \ hw : q.f[r] = NR[r]
      /\ \A r \in hw \cap Writes(s) : s.prim # "SET" => Held(q.e, V("ins", n, r)) = NR[r]
      /\ \A x \in Elems(s.res) : Held(q.e, vv[x]) = NX[x]
  BY <1>1 DEF Does
<1>3. \A r \in Reg : R[r] = IF a.regs[r] = NoVal THEN f[r] ELSE Held(e, a.regs[r])
  BY <1>1 DEF RegsIn
<1>4. \A x \in Var : X[x] = IF x \in sc THEN Held(e, a.vars[x]) ELSE Undef
  BY <1>1 DEF VarsIn
<1>5. \A r \in Reg : V("ins", n, r) # NoVal
  BY <1>1, NameTypes, NullAssumption DEF Fits
<1>6. NR = [r \in Reg |-> NR[r]] /\ NX = [x \in Var |-> NX[x]]
  BY DEF NextRegs, NextVars
<1>7. \A r \in Reg : RegsIn(rv, q.e, q.f)[r] = IF rv[r] = NoVal THEN q.f[r] ELSE Held(q.e, rv[r])
  BY DEF RegsIn
<1>8. \A x \in Var : VarsIn(vv, sc \cup Elems(s.res), q.e)[x] =
        IF x \in sc \cup Elems(s.res) THEN Held(q.e, vv[x]) ELSE Undef
  BY DEF VarsIn
<1>9. \A r \in Reg : RegsIn(rv, q.e, q.f)[r] = NR[r]
  <2> TAKE r \in Reg
  <2>1. rv[r] = IF r \notin hw THEN NoVal
                ELSE IF r \notin Writes(s) THEN a.regs[r]
                ELSE IF s.prim = "SET" THEN a.vars[s.args[1]]
                ELSE V("ins", n, r)
    BY DEF RegVals
  <2>2. /\ r \notin Writes(s) => NR[r] = R[r]
        /\ r \in Writes(s) /\ s.prim = "SET" => NR[r] = ArgsOf(s, X)[1]
    BY DEF NextRegs
  <2> HIDE DEF rv, NR, NX
  <2>3. CASE r \notin hw
    BY <1>2, <1>7, <2>1, <2>3
  <2>4. CASE r \in hw /\ r \notin Writes(s)
    <3>1. rv[r] = a.regs[r] /\ rv[r] # NoVal /\ rv[r] \notin Own(n)
      BY <1>1, <2>1, <2>4 DEF Fits
    <3> QED
      BY <1>2, <1>3, <1>7, <2>2, <2>4, <3>1 DEF Kept
  <2>5. CASE r \in hw /\ r \in Writes(s) /\ s.prim = "SET"
    <3>1. 1 \in DOMAIN s.args
      <4>1. Len(s.args) = 1 /\ s.args \in Seq(Var)
        BY <1>1, <2>5 DEF Fits, Arity, Stm
      <4> QED
        BY <4>1
    <3>2. s.args[1] \in sc /\ s.args[1] \in Var
      BY <1>1, <3>1 DEF Fits
    <3>3. rv[r] = a.vars[s.args[1]] /\ rv[r] # NoVal /\ rv[r] \notin Own(n)
      BY <1>1, <2>1, <2>5, <3>2 DEF Fits
    <3>4. ArgsOf(s, X)[1] = Held(e, rv[r])
      BY <1>4, <3>1, <3>2, <3>3 DEF ArgsOf
    <3> QED
      BY <1>2, <1>7, <2>2, <2>5, <3>3, <3>4 DEF Kept
  <2>6. CASE r \in hw /\ r \in Writes(s) /\ s.prim # "SET"
    BY <1>2, <1>5, <1>7, <2>1, <2>6
  <2> QED
    BY <2>3, <2>4, <2>5, <2>6
<1>10. \A x \in Var : VarsIn(vv, sc \cup Elems(s.res), q.e)[x] = NX[x]
  <2> TAKE x \in Var
  <2>1. x \notin Elems(s.res) => vv[x] = a.vars[x] /\ NX[x] = X[x]
    BY DEF VarVals, NextVars, Elems
  <2> HIDE DEF vv, NX
  <2>2. CASE x \in Elems(s.res)
    BY <1>2, <1>8, <2>2
  <2>3. CASE x \notin Elems(s.res) /\ x \in sc
    <3>1. vv[x] = a.vars[x] /\ vv[x] \notin Own(n)
      BY <1>1, <2>1, <2>3 DEF Fits
    <3> QED
      BY <1>2, <1>4, <1>8, <2>1, <2>3, <3>1 DEF Kept
  <2>4. CASE x \notin Elems(s.res) /\ x \notin sc
    BY <1>4, <1>8, <2>1, <2>4
  <2> QED
    BY <2>2, <2>3, <2>4
<1>11. RegsIn(rv, q.e, q.f) = NR
  <2>1. RegsIn(rv, q.e, q.f) = [r \in Reg |-> RegsIn(rv, q.e, q.f)[r]]
    BY DEF RegsIn
  <2> HIDE DEF rv, NR
  <2> QED
    BY <1>6, <1>9, <2>1
<1>12. VarsIn(vv, sc \cup Elems(s.res), q.e) = NX
  <2>1. VarsIn(vv, sc \cup Elems(s.res), q.e) = [x \in Var |-> VarsIn(vv, sc \cup Elems(s.res), q.e)[x]]
    BY DEF VarsIn
  <2> HIDE DEF vv, NX
  <2> QED
    BY <1>6, <1>10, <2>1
<1> QED
  BY <1>2, <1>11, <1>12 DEF Agrees

LEMMA MeansIf ==
  ASSUME NEW hw, NEW n, NEW s, NEW sc, NEW a, NEW ins, Fits(hw, n, s, sc, a), DoesAll(hw, n, s, sc, a, ins)
  PROVE  Means(hw, n, s, sc, a, ins)
<1> SUFFICES ASSUME NEW e, NEW f, IsFrame(f)
             PROVE LET q == Run(n, ins, [e |-> e, f |-> f])
                       R == RegsIn(a.regs, e, f)
                       X == VarsIn(a.vars, sc, e)
                   IN /\ IsFrame(q.f)
                      /\ RegsIn(RegVals(hw, n, s, a), q.e, q.f) = NextRegs(n, s, R, X)
                      /\ VarsIn(VarVals(n, s, a), sc \cup Elems(s.res), q.e) = NextVars(n, s, R, X)
  BY DEF Means
<1> PICK q : q = Run(n, ins, [e |-> e, f |-> f])
  OBVIOUS
<1> PICK R, X : R = RegsIn(a.regs, e, f) /\ X = VarsIn(a.vars, sc, e)
  OBVIOUS
<1>1. Effect(hw, n, s, sc, a, e, f, R, X, q)
  BY DEF DoesAll, Effect
<1>2. Agrees(hw, n, s, sc, a, R, X, q)
  BY <1>1, DoesMeans
<1> QED
  BY <1>2 DEF Agrees

-----------------------------------------------------------------------------
(* The values that the current statement finds *)
Now == [regs |-> regState, vars |-> vMap, blk |-> bb]

(* Values of different statements are different, and none of them is null. *)
LEMMA OwnApart ==
  ASSUME NEW n \in Node
  PROVE  /\ NoVal \notin Own(n)
         /\ \A k, m, z : V(k, m, z) \in Own(n) => m = n /\ k \in {"ins", "load"}
         /\ \A z \in Reg \cup Var : V("ins", n, z) \in Own(n) /\ V("load", n, z) \in Own(n)
<1>1. NoVal \notin Own(n)
  <2>1. \A k \in {"ins", "load"}, z \in Reg \cup Var : V(k, n, z) \in Val
    BY NameTypes
  <2> QED
    BY <2>1, NullAssumption DEF Own
<1>2. \A k, m, z : V(k, m, z) \in Own(n) => m = n /\ k \in {"ins", "load"}
  <2> TAKE k, m, z
  <2> HAVE V(k, m, z) \in Own(n)
  <2>1. PICK j \in {"ins", "load"}, x \in Reg \cup Var : V(k, m, z) = V(j, n, x)
    BY DEF Own
  <2>2. V(k, m, z).k = k /\ V(k, m, z).at = m /\ V(j, n, x).k = j /\ V(j, n, x).at = n
    BY DEF V
  <2> QED
    BY <2>1, <2>2
<1> QED
  BY <1>1, <1>2 DEF Own

LEMMA ReachesOthers ==
  ASSUME TypeOK, RegsInv, DefsOwn, node \in Node, NEW v \in Reaches(node)
  PROVE  v \notin Own(node)
<1> DEFINE f == prog.frag[prog.owner[node]]
           k == IF f.kind = "INTERNAL" THEN "phi" ELSE "arg"
<1>1. \/ \E x \in mach \cup Elems(f.params) : v = V(k, f.body, x)
      \/ \E g \in Groups : g.at \in Path(prog, node) /\ v \in Defs(g)
  BY DEF Reaches
<1>2. CASE \E x \in mach \cup Elems(f.params) : v = V(k, f.body, x)
  <2>1. k \notin {"ins", "load"}
    OBVIOUS
  <2> HIDE DEF k, f
  <2> QED
    BY <1>2, <2>1, OwnApart
<1>3. CASE \E g \in Groups : g.at \in Path(prog, node) /\ v \in Defs(g)
  <2>1. PICK g \in Groups : v \in Defs(g)
    BY <1>3
  <2>2. PICK i \in DOMAIN out : out[i] = g
    BY DEF Groups, Elems
  <2>3. g.at \in Done /\ g.at \in Node /\ \A c \in Elems(g.ins) : c.def \in Own(g.at) \cup {NoVal}
    BY <2>2 DEF DefsOwn, Done
  <2>4. g.at # node
    <3>1. node # NoNode
      BY NullAssumption
    <3> QED
      BY <2>3, <3>1 DEF RegsInv, NodeReady
  <2>5. v \in Own(g.at) \cup {NoVal}
    <3>1. CASE \E c \in Elems(g.ins) : v = c.def
      BY <2>3, <3>1
    <3>2. CASE \E x \in mach \cup Elems(prog.stm[g.at].res) : v = V("ins", g.at, x)
      <4>1. mach \subseteq Reg
        BY TargetsAssumption DEF TypeOK
      <4>2. Elems(prog.stm[g.at].res) \subseteq Var
        <5>1. prog.stm[g.at] \in Stm
          BY <2>3, StmFacts DEF TypeOK
        <5>2. prog.stm[g.at].res \in Seq(Var)
          BY <5>1 DEF Stm
        <5> QED
          BY <5>2 DEF Elems
      <4> QED
        BY <3>2, <4>1, <4>2, <2>3, OwnApart
    <3> QED
      BY <2>1, <3>1, <3>2 DEF Defs
  <2>6. \A w \in Own(g.at) : w \notin Own(node)
    BY <2>4 DEF Own, V
  <2> QED
    BY <2>5, <2>6, OwnApart
<1> QED
  BY <1>1, <1>2, <1>3

LEMMA ReadyFits ==
  ASSUME TypeOK, RegsInv, DomInv, DefsOwn, node \in Node
  PROVE  Fits(mach, node, S, prog.scope[node], Now)
<1>1. node # NoNode
  BY NullAssumption
<1>2. S \in Stm /\ Arity(S)
  BY ArgTypes
<1>3. mach \subseteq Reg
  BY TargetsAssumption DEF TypeOK
<1>4. prog \in Programs /\ WellFormed(prog)
  BY ProgramsAssumption DEF TypeOK
<1>5. prog.scope[node] \subseteq Var
  BY <1>4 DEF WellFormed, WellTyped
<1>6. Now.regs = regState /\ Now.vars = vMap
  BY DEF Now
<1>7. \A r \in Reg : regState[r] = NoVal <=> r \notin mach
  BY ReadyFacts
<1>8. Supplied(node, regState)
  BY <1>1 DEF DomInv, NodeSupplied
<1>9. \A r \in mach : regState[r] \notin Own(node)
  BY <1>8, ReachesOthers DEF Supplied
<1>10. \A x \in prog.scope[node] : vMap[x] # NoVal /\ vMap[x] \notin Own(node)
  BY <1>8, ReachesOthers, ReadyFacts DEF Supplied, ScopeBound
<1>11. /\ \A i \in DOMAIN S.args : S.args[i] \in prog.scope[node]
       /\ \A x \in Elems(S.res) : x \notin prog.scope[node]
  <2>1. Elems(S.args) \subseteq prog.scope[node] /\ Elems(S.res) \cap prog.scope[node] = {}
    BY <1>4 DEF WellFormed, WellScoped, S
  <2>2. \A i \in DOMAIN S.args : S.args[i] \in Elems(S.args)
    BY DEF Elems
  <2> QED
    BY <2>1, <2>2
<1>12. \A x \in Elems(S.res) : x \in Var
  BY <1>2 DEF Stm, Elems
<1> QED
  BY <1>2, <1>3, <1>5, <1>6, <1>7, <1>9, <1>10, <1>11, <1>12 DEF Fits

(* Values of sequences *)
LEMMA HeldShort ==
  ASSUME NEW e, NEW u, NEW v
  PROVE  /\ HeldAll(e, <<u>>) = <<Held(e, u)>>
         /\ HeldAll(e, <<u, v>>) = <<Held(e, u), Held(e, v)>>
BY DEF HeldAll

LEMMA ConcatParts ==
  ASSUME NEW T, NEW a \in Seq(T), NEW b \in Seq(T)
  PROVE  /\ a \o b \in Seq(T) /\ Len(a \o b) = Len(a) + Len(b)
         /\ \A i \in 1..(Len(a) + Len(b)) : (a \o b)[i] = IF i <= Len(a) THEN a[i] ELSE b[i - Len(a)]
OBVIOUS

LEMMA HeldConcat ==
  ASSUME NEW e, NEW T, NEW a \in Seq(T), NEW b \in Seq(T)
  PROVE  HeldAll(e, a \o b) = HeldAll(e, a) \o HeldAll(e, b)
<1>1. HeldAll(e, a \o b) = HeldAll(e, a) \o HeldAll(e, b)
  <2> DEFINE ha == HeldAll(e, a)
             hb == HeldAll(e, b)
             hc == HeldAll(e, a \o b)
             H == {Held(e, x) : x \in T}
  <2>1. ha \in Seq(H) /\ Len(ha) = Len(a) /\ \A i \in 1..Len(a) : ha[i] = Held(e, a[i])
    BY DEF HeldAll
  <2>2. hb \in Seq(H) /\ Len(hb) = Len(b) /\ \A i \in 1..Len(b) : hb[i] = Held(e, b[i])
    BY DEF HeldAll
  <2>3. /\ a \o b \in Seq(T) /\ Len(a \o b) = Len(a) + Len(b)
        /\ \A i \in 1..(Len(a) + Len(b)) : (a \o b)[i] = IF i <= Len(a) THEN a[i] ELSE b[i - Len(a)]
    BY ConcatParts
  <2>4. hc \in Seq(H) /\ Len(hc) = Len(a) + Len(b) /\ \A i \in 1..(Len(a) + Len(b)) : hc[i] = Held(e, (a \o b)[i])
    BY <2>3, SMTT(60) DEF HeldAll
  <2> HIDE DEF ha, hb, hc, H
  <2>5. /\ ha \o hb \in Seq(H) /\ Len(ha \o hb) = Len(a) + Len(b)
        /\ \A i \in 1..(Len(a) + Len(b)) : (ha \o hb)[i] = IF i <= Len(a) THEN ha[i] ELSE hb[i - Len(a)]
    <3>0. ha \in Seq(H) /\ hb \in Seq(H)
      BY <2>1, <2>2
    <3>1. /\ ha \o hb \in Seq(H) /\ Len(ha \o hb) = Len(ha) + Len(hb)
          /\ \A i \in 1..(Len(ha) + Len(hb)) : (ha \o hb)[i] = IF i <= Len(ha) THEN ha[i] ELSE hb[i - Len(ha)]
      BY <3>0, ConcatParts
    <3>2. Len(ha) = Len(a) /\ Len(hb) = Len(b)
      BY <2>1, <2>2
    <3> QED
      BY <3>1, <3>2
  <2>6. \A i \in 1..(Len(a) + Len(b)) : hc[i] = (ha \o hb)[i]
    <3> TAKE i \in 1..(Len(a) + Len(b))
    <3>1. Len(a) \in Nat /\ Len(b) \in Nat /\ i \in Nat
      OBVIOUS
    <3>2. CASE i <= Len(a)
      BY <2>1, <2>3, <2>4, <2>5, <3>1, <3>2
    <3>3. CASE ~(i <= Len(a))
      <4>1. i - Len(a) \in 1..Len(b)
        BY <3>1, <3>3
      <4> QED
        BY <2>2, <2>3, <2>4, <2>5, <3>3, <4>1
    <3> QED
      BY <3>2, <3>3
  <2>7. hc = ha \o hb
    BY <2>4, <2>5, <2>6, SeqEqual
  <2> QED
    BY <2>7 DEF ha, hb, hc
<1> QED
  BY <1>1

(* The arguments that a statement looks up hold what its variables hold. *)
LEMMA ArgsHeld ==
  ASSUME NEW hw, NEW n, NEW s, NEW sc, NEW a, Fits(hw, n, s, sc, a), NEW e, NEW d, Kept(n, e, d)
  PROVE  HeldAll(d, ArgVals(s, a)) = ArgsOf(s, VarsIn(a.vars, sc, e))
<1> DEFINE X == VarsIn(a.vars, sc, e)
<1>1. \A x \in sc : X[x] = Held(e, a.vars[x]) /\ a.vars[x] \notin Own(n)
  BY DEF VarsIn, Fits
<1> HIDE DEF X
<1>2. \A i \in DOMAIN s.args : s.args[i] \in sc
  BY DEF Fits
<1>3. \A i \in DOMAIN s.args : Held(d, a.vars[s.args[i]]) = X[s.args[i]]
  BY <1>1, <1>2 DEF Kept
<1>4. HeldAll(d, ArgVals(s, a)) = [i \in DOMAIN s.args |-> Held(d, a.vars[s.args[i]])]
  BY DEF HeldAll, ArgVals
<1>5. ArgsOf(s, X) = [i \in DOMAIN s.args |-> X[s.args[i]]]
  BY DEF ArgsOf
<1> QED
  BY <1>3, <1>4, <1>5 DEF X

LEMMA ArgsNow == Args = ArgVals(S, Now)
BY DEF Args, ArgVals, Now

(* Loading a register: its value holds the register, nothing else changes. *)
LEMMA LoadRuns ==
  ASSUME TypeOK, RegsInv, node \in Node, NEW r \in Reg, NEW p
  PROVE  LET q == Run(node, Load(r), p) IN
         /\ q.f = p.f
         /\ \A v : v # V("load", node, r) => Held(q.e, v) = Held(p.e, v)
         /\ Held(q.e, RegVal(r)) = IF regState[r] = NoVal THEN p.f[r] ELSE Held(p.e, RegVal(r))
<1> DEFINE q == Run(node, Load(r), p)
<1>1. CASE regState[r] = NoVal
  <2> DEFINE i == Instr("load", V("load", node, r), r, <<>>)
             one == [v \in {i.def} |-> p.f[i.nm]]
  <2>1. RegVal(r) = V("load", node, r) /\ Load(r) = <<i>>
    BY <1>1 DEF RegVal, Load
  <2>2. i.op = "load" /\ i.def = V("load", node, r) /\ i.nm = r
    BY DEF Instr
  <2> HIDE DEF i
  <2>3. q = Exec(node, i, p)
    BY <2>1, RunOne
  <2>4. Exec(node, i, p) = [e |-> With(p.e, one), f |-> p.f]
    BY <2>2 DEF Exec
  <2>5. DOMAIN one = {V("load", node, r)} /\ one[V("load", node, r)] = p.f[r]
    BY <2>2
  <2> HIDE DEF one, q
  <2>6. q.e = With(p.e, one) /\ q.f = p.f
    BY <2>3, <2>4
  <2>7. \A v : Held(q.e, v) = IF v \in {V("load", node, r)} THEN one[v] ELSE Held(p.e, v)
    BY <2>5, <2>6, HeldWith
  <2>8. Held(q.e, V("load", node, r)) = p.f[r]
    BY <2>5, <2>7
  <2>9. \A v : v # V("load", node, r) => Held(q.e, v) = Held(p.e, v)
    BY <2>7
  <2> QED
    BY <1>1, <2>1, <2>6, <2>8, <2>9 DEF q
<1>2. CASE regState[r] # NoVal
  <2>1. Load(r) = <<>>
    BY <1>2 DEF Load
  <2>2. q = p
    BY <2>1, RunNone
  <2> QED
    BY <1>2, <2>2
<1> QED
  BY <1>1, <1>2

(* Storing v in a register that is kept in the frame *)
LEMMA StoreRuns ==
  ASSUME node \in Node, NEW r \in Reg, NEW v, NEW p, IsFrame(p.f)
  PROVE  LET q == Run(node, Store(r, v), p) IN
         /\ q.e = p.e /\ IsFrame(q.f)
         /\ \A t \in Reg : q.f[t] = IF t = r /\ regState[r] = NoVal THEN Held(p.e, v) ELSE p.f[t]
<1> DEFINE q == Run(node, Store(r, v), p)
<1>1. CASE regState[r] = NoVal
  <2> DEFINE i == Instr("store", NoVal, r, <<v>>)
  <2>1. Store(r, v) = <<i>>
    BY <1>1 DEF Store
  <2>2. i.op = "store" /\ i.nm = r /\ i.args[1] = v
    BY DEF Instr
  <2> HIDE DEF i
  <2>3. q = Exec(node, i, p)
    BY <2>1, RunOne
  <2>4. Exec(node, i, p) = [e |-> p.e, f |-> [p.f EXCEPT ![r] = Held(p.e, v)]]
    BY <2>2 DEF Exec
  <2> HIDE DEF q
  <2>5. q.e = p.e /\ q.f = [p.f EXCEPT ![r] = Held(p.e, v)]
    BY <2>3, <2>4
  <2>6. p.f = [t \in Reg |-> p.f[t]]
    BY DEF IsFrame
  <2>7. DOMAIN q.f = Reg /\ \A t \in Reg : q.f[t] = IF t = r THEN Held(p.e, v) ELSE p.f[t]
    BY <2>5, <2>6
  <2>8. IsFrame(q.f)
    BY <2>5, <2>6, <2>7 DEF IsFrame
  <2> QED
    BY <1>1, <2>5, <2>7, <2>8 DEF q
<1>2. CASE regState[r] # NoVal
  <2>1. Store(r, v) = <<>>
    BY <1>2 DEF Store
  <2>2. q = p
    BY <2>1, RunNone
  <2> QED
    BY <1>2, <2>2
<1> QED
  BY <1>1, <1>2

(* A loaded register holds what the register does. *)
Fetches(r, e, f, p, q) ==
  /\ q.f = f /\ Kept(node, e, q.e)
  /\ \A v : v # V("load", node, r) => Held(q.e, v) = Held(p.e, v)
  /\ Held(q.e, RegVal(r)) = RegsIn(regState, e, f)[r]

LEMMA LoadHeld ==
  ASSUME TypeOK, RegsInv, DomInv, DefsOwn, node \in Node, NEW r \in Reg,
         NEW e, NEW f, NEW p, p.f = f, Kept(node, e, p.e)
  PROVE  Fetches(r, e, f, p, Run(node, Load(r), p))
<1> DEFINE q == Run(node, Load(r), p)
<1>1. /\ q.f = f
      /\ \A v : v # V("load", node, r) => Held(q.e, v) = Held(p.e, v)
      /\ Held(q.e, RegVal(r)) = IF regState[r] = NoVal THEN p.f[r] ELSE Held(p.e, RegVal(r))
  BY LoadRuns
<1> HIDE DEF q
<1>2. V("load", node, r) \in Own(node)
  BY OwnApart
<1>3. Kept(node, e, q.e)
  BY <1>1, <1>2 DEF Kept
<1>4. RegsIn(regState, e, f)[r] = IF regState[r] = NoVal THEN f[r] ELSE Held(e, regState[r])
  BY DEF RegsIn
<1>5. regState[r] # NoVal => RegVal(r) = regState[r] /\ regState[r] \notin Own(node)
  BY ReadyFits DEF Fits, Now, RegVal
<1>6. Held(q.e, RegVal(r)) = RegsIn(regState, e, f)[r]
  BY <1>1, <1>4, <1>5 DEF Kept
<1> QED
  BY <1>1, <1>3, <1>6 DEF q, Fetches

(* The value of a register is no result of an operation here. *)
LEMMA RegValApart ==
  ASSUME TypeOK, RegsInv, DomInv, DefsOwn, node \in Node, NEW r \in Reg, NEW z
  PROVE  z \in Reg \cup Var => RegVal(r) # V("ins", node, z)
<1>1. regState[r] # NoVal => RegVal(r) = regState[r] /\ regState[r] \notin Own(node)
  BY ReadyFits DEF Fits, Now, RegVal
<1>2. regState[r] = NoVal => RegVal(r) = V("load", node, r)
  BY DEF RegVal
<1>3. V("load", node, r) # V("ins", node, z)
  BY DEF V
<1>4. z \in Reg \cup Var => V("ins", node, z) \in Own(node)
  BY OwnApart
<1> QED
  BY <1>1, <1>2, <1>3, <1>4

(* A statement that assigns no register *)
LEMMA QuietDoes ==
  ASSUME NEW hw, NEW n, NEW s, NEW sc, NEW a, Fits(hw, n, s, sc, a), Writes(s) = {},
         NEW e, NEW f, IsFrame(f), NEW q, q.f = f, Kept(n, e, q.e), NEW X,
         \A x \in Elems(s.res) :
           Held(q.e, VarVals(n, s, a)[x]) = NextVars(n, s, RegsIn(a.regs, e, f), X)[x]
  PROVE  Does(hw, n, s, a, RegsIn(a.regs, e, f), X, e, q)
<1> DEFINE R == RegsIn(a.regs, e, f)
<1>1. \A r \in Reg : NextRegs(n, s, R, X)[r] = R[r]
  BY DEF NextRegs
<1>2. \A r \in Reg \ hw : R[r] = f[r]
  BY DEF RegsIn, Fits
<1> HIDE DEF R
<1>3. \A r \in Reg \ hw : q.f[r] = NextRegs(n, s, R, X)[r]
  BY <1>1, <1>2
<1>4. hw \cap Writes(s) = {} /\ IsFrame(q.f)
  OBVIOUS
<1> QED
  BY <1>3, <1>4 DEF Does, R

(* The only result of a statement *)
LEMMA OneResult ==
  ASSUME NEW n, NEW s \in Stm, Len(s.res) = 1, NEW R, NEW X
  PROVE  /\ Elems(s.res) = {s.res[1]} /\ s.res[1] \in Var
         /\ NextVars(n, s, R, X)[s.res[1]] = ResultOf(n, s, R, X, 1)
<1>1. DOMAIN s.res = {1} /\ s.res[1] \in Var
  <2>1. s.res \in Seq(Var)
    BY DEF Stm
  <2>2. DOMAIN s.res = 1..1 /\ 1..1 = {1}
    BY <2>1
  <2> QED
    BY <2>1, <2>2
<1>2. Elems(s.res) = {s.res[1]}
  BY <1>1 DEF Elems
<1>3. (CHOOSE i \in DOMAIN s.res : s.res[i] = s.res[1]) = 1
  BY <1>1
<1>4. \E i \in DOMAIN s.res : s.res[i] = s.res[1]
  BY <1>1
<1> QED
  BY <1>1, <1>2, <1>3, <1>4 DEF NextVars

(* SET_HDLR and SET_VAR *)
LEMMA SetDoes ==
  ASSUME TypeOK, RegsInv, DomInv, DefsOwn, node \in Node, S.prim = "SET"
  PROVE  DoesAll(mach, node, S, prog.scope[node], Now, Store(S.reg, Args[1]))
<1> DEFINE sc == prog.scope[node]
           ins == Store(S.reg, Args[1])
<1>1. Fits(mach, node, S, sc, Now)
  BY ReadyFits
<1>2. S.op = "SETTER" /\ S.res = <<>> /\ S.reg \in Reg /\ Writes(S) = {S.reg} /\ Len(S.args) = 1
  <2>1. S \in Stm /\ Arity(S)
    BY <1>1 DEF Fits
  <2> QED
    BY <2>1 DEF Arity, Stm, Writes
<1> SUFFICES ASSUME NEW e, NEW f, IsFrame(f)
             PROVE Does(mach, node, S, Now, RegsIn(Now.regs, e, f), VarsIn(Now.vars, sc, e), e,
                        Run(node, ins, [e |-> e, f |-> f]))
  BY DEF DoesAll
<1> DEFINE p == [e |-> e, f |-> f]
           q == Run(node, ins, p)
           R == RegsIn(Now.regs, e, f)
           X == VarsIn(Now.vars, sc, e)
<1>3. p.e = e /\ p.f = f
  OBVIOUS
<1> HIDE DEF p
<1>4. /\ q.e = e /\ IsFrame(q.f)
      /\ \A t \in Reg : q.f[t] = IF t = S.reg /\ regState[S.reg] = NoVal THEN Held(e, Args[1]) ELSE f[t]
  BY <1>2, <1>3, StoreRuns
<1>5. Kept(node, e, q.e)
  BY <1>4 DEF Kept
<1>6. Held(e, Args[1]) = ArgsOf(S, X)[1]
  <2>1. Kept(node, e, e)
    BY DEF Kept
  <2>2. HeldAll(e, ArgVals(S, Now)) = ArgsOf(S, X)
    BY <1>1, <2>1, ArgsHeld
  <2>3. HeldAll(e, Args) = ArgsOf(S, X)
    BY <2>2, ArgsNow
  <2>4. 1 \in DOMAIN Args
    <3>1. S.args \in Seq(Var)
      BY <1>1 DEF Fits, Stm
    <3> QED
      BY <1>2, <3>1 DEF Args
  <2>5. HeldAll(e, Args)[1] = Held(e, Args[1])
    BY <2>4 DEF HeldAll
  <2> QED
    BY <2>3, <2>5
<1>7. /\ NextRegs(node, S, R, X)[S.reg] = ArgsOf(S, X)[1]
      /\ \A t \in Reg : t # S.reg => NextRegs(node, S, R, X)[t] = R[t]
  BY <1>2 DEF NextRegs
<1>8. \A t \in Reg \ mach : regState[t] = NoVal /\ R[t] = f[t]
  BY <1>1 DEF Fits, Now, RegsIn
<1> HIDE DEF R, X, q, ins
<1>9. \A t \in Reg \ mach : q.f[t] = NextRegs(node, S, R, X)[t]
  BY <1>4, <1>6, <1>7, <1>8
<1>10. Elems(S.res) = {}
  BY <1>2, ElemsShort
<1>11. Does(mach, node, S, Now, R, X, e, q)
  BY <1>4, <1>5, <1>9, <1>10 DEF Does
<1> QED
  BY <1>11 DEF R, X, q, p

(* VAR renames. *)
LEMMA VarDoes ==
  ASSUME TypeOK, RegsInv, DomInv, DefsOwn, node \in Node, S.prim = "VAR"
  PROVE  DoesAll(mach, node, S, prog.scope[node], Now, <<>>)
<1> DEFINE sc == prog.scope[node]
<1>1. Fits(mach, node, S, sc, Now)
  BY ReadyFits
<1>2. S \in Stm /\ Arity(S)
  BY <1>1 DEF Fits
<1>3. S.op = "LET" /\ Len(S.res) = 1 /\ Len(S.args) = 1 /\ Writes(S) = {}
  BY <1>2 DEF Arity, Writes
<1> SUFFICES ASSUME NEW e, NEW f, IsFrame(f)
             PROVE Does(mach, node, S, Now, RegsIn(Now.regs, e, f), VarsIn(Now.vars, sc, e), e,
                        Run(node, <<>>, [e |-> e, f |-> f]))
  BY DEF DoesAll
<1> DEFINE q == Run(node, <<>>, [e |-> e, f |-> f])
           R == RegsIn(Now.regs, e, f)
           X == VarsIn(Now.vars, sc, e)
<1>4. q.e = e /\ q.f = f
  BY RunNone
<1> HIDE DEF q
<1>5. Kept(node, e, q.e)
  BY <1>4 DEF Kept
<1>6. S.args[1] \in sc /\ S.args[1] \in Var /\ 1 \in DOMAIN S.args
  <2>1. S.args \in Seq(Var)
    BY <1>2 DEF Stm
  <2>2. 1 \in DOMAIN S.args
    BY <1>3, <2>1
  <2> QED
    BY <1>1, <2>2 DEF Fits
<1>7. ArgsOf(S, X)[1] = Held(e, Now.vars[S.args[1]])
  BY <1>6 DEF ArgsOf, VarsIn
<1>8. ResultOf(node, S, R, X, 1) = ArgsOf(S, X)[1]
  BY <1>3 DEF ResultOf
<1> HIDE DEF R, X
<1>9. \A x \in Elems(S.res) : Held(q.e, VarVals(node, S, Now)[x]) = NextVars(node, S, R, X)[x]
  <2> TAKE x \in Elems(S.res)
  <2>1. x = S.res[1] /\ x \in Var /\ NextVars(node, S, R, X)[x] = ResultOf(node, S, R, X, 1)
    BY <1>2, <1>3, OneResult
  <2>2. VarVals(node, S, Now)[x] = Now.vars[S.args[1]]
    BY <2>1 DEF VarVals
  <2> QED
    BY <1>4, <1>7, <1>8, <2>1, <2>2
<1> QED
  BY <1>1, <1>3, <1>4, <1>5, <1>9, QuietDoes DEF R, X, q

(* The pure primitives and ARITH compute from the arguments. *)
LEMMA OpDoes ==
  ASSUME TypeOK, RegsInv, DomInv, DefsOwn, node \in Node, S.prim \in {"PURE", "TRAP", "DIV"}
  PROVE  DoesAll(mach, node, S, prog.scope[node], Now, <<Op(S.res[1], Args)>>)
<1> DEFINE sc == prog.scope[node]
           x == S.res[1]
           c == Op(x, Args)
<1>1. Fits(mach, node, S, sc, Now)
  BY ReadyFits
<1>2. S \in Stm /\ Arity(S)
  BY <1>1 DEF Fits
<1>3. S.op \in {"LET", "ARITH"} /\ Len(S.res) = 1 /\ Writes(S) = {}
  BY <1>2 DEF Arity, Writes
<1>4. c.op = "ins" /\ c.def = V("ins", node, x) /\ c.nm = x /\ c.args = Args
  BY DEF Op, Instr
<1> HIDE DEF c
<1> SUFFICES ASSUME NEW e, NEW f, IsFrame(f)
             PROVE Does(mach, node, S, Now, RegsIn(Now.regs, e, f), VarsIn(Now.vars, sc, e), e,
                        Run(node, <<c>>, [e |-> e, f |-> f]))
  BY DEF DoesAll, c
<1> DEFINE p == [e |-> e, f |-> f]
           q == Run(node, <<c>>, p)
           R == RegsIn(Now.regs, e, f)
           X == VarsIn(Now.vars, sc, e)
<1>5. p.e = e /\ p.f = f
  OBVIOUS
<1> HIDE DEF p
<1>6. /\ q.f = f
      /\ Held(q.e, c.def) = Fn(node, c.nm, HeldAll(e, c.args))
      /\ \A v : v # c.def => Held(q.e, v) = Held(e, v)
  <2>1. q = Exec(node, c, p) /\ Computes(node, c, p, Exec(node, c, p))
    BY <1>4, RunOne, ExecOp
  <2> HIDE DEF q
  <2> QED
    BY <1>5, <2>1 DEF Computes
<1> HIDE DEF q
<1>7. x \in Var /\ Elems(S.res) = {x}
  BY <1>2, <1>3, OneResult
<1>8. Kept(node, e, q.e)
  BY <1>4, <1>6, <1>7, OwnApart DEF Kept
<1>9. HeldAll(e, Args) = ArgsOf(S, X)
  <2>1. Kept(node, e, e)
    BY DEF Kept
  <2> QED
    BY <1>1, <2>1, ArgsHeld, ArgsNow
<1>10. ResultOf(node, S, R, X, 1) = Fn(node, x, ArgsOf(S, X))
  BY <1>3 DEF ResultOf
<1>11. VarVals(node, S, Now)[x] = V("ins", node, x)
  BY <1>7 DEF VarVals
<1> HIDE DEF R, X
<1>12. \A z \in Elems(S.res) : Held(q.e, VarVals(node, S, Now)[z]) = NextVars(node, S, R, X)[z]
  <2>1. NextVars(node, S, R, X)[x] = ResultOf(node, S, R, X, 1)
    BY <1>2, <1>3, OneResult
  <2>2. Held(q.e, V("ins", node, x)) = Fn(node, x, HeldAll(e, Args))
    BY <1>4, <1>6
  <2> HIDE DEF x
  <2> QED
    BY <1>7, <1>9, <1>10, <1>11, <2>1, <2>2
<1> QED
  BY <1>1, <1>3, <1>6, <1>8, <1>12, QuietDoes DEF R, X, q, p

(* GET_HDLR and GET_VAR *)
LEMMA GetDoes ==
  ASSUME TypeOK, RegsInv, DomInv, DefsOwn, node \in Node, S.prim = "GET"
  PROVE  DoesAll(mach, node, S, prog.scope[node], Now, Load(S.reg))
<1> DEFINE sc == prog.scope[node]
           ins == Load(S.reg)
<1>1. Fits(mach, node, S, sc, Now)
  BY ReadyFits
<1>2. S \in Stm /\ Arity(S)
  BY <1>1 DEF Fits
<1>3. S.op = "LET" /\ Len(S.res) = 1 /\ Writes(S) = {} /\ S.reg \in Reg
  BY <1>2 DEF Arity, Writes, Stm
<1> SUFFICES ASSUME NEW e, NEW f, IsFrame(f)
             PROVE Does(mach, node, S, Now, RegsIn(Now.regs, e, f), VarsIn(Now.vars, sc, e), e,
                        Run(node, ins, [e |-> e, f |-> f]))
  BY DEF DoesAll
<1> DEFINE p == [e |-> e, f |-> f]
           q == Run(node, ins, p)
           R == RegsIn(Now.regs, e, f)
           X == VarsIn(Now.vars, sc, e)
<1>4. p.f = f /\ Kept(node, e, p.e)
  BY DEF Kept
<1> HIDE DEF p
<1>5. /\ q.f = f /\ Kept(node, e, q.e)
      /\ Held(q.e, RegVal(S.reg)) = RegsIn(regState, e, f)[S.reg]
  <2> DEFINE r == S.reg
  <2>1. r \in Reg
    BY <1>3
  <2> HIDE DEF r
  <2>2. Fetches(r, e, f, p, Run(node, Load(r), p))
    BY <1>4, <2>1, LoadHeld
  <2> QED
    BY <2>2 DEF r, Fetches
<1> HIDE DEF q
<1>6. R = RegsIn(regState, e, f)
  BY DEF Now
<1>7. ResultOf(node, S, R, X, 1) = R[S.reg]
  BY <1>3 DEF ResultOf
<1> HIDE DEF R, X
<1>8. \A z \in Elems(S.res) : Held(q.e, VarVals(node, S, Now)[z]) = NextVars(node, S, R, X)[z]
  <2> TAKE z \in Elems(S.res)
  <2>1. z \in Var /\ NextVars(node, S, R, X)[z] = ResultOf(node, S, R, X, 1)
    BY <1>2, <1>3, OneResult
  <2>2. VarVals(node, S, Now)[z] = RegVal(S.reg)
    BY <2>1 DEF VarVals, RegVal, Now
  <2> QED
    BY <1>5, <1>6, <1>7, <2>1, <2>2
<1> QED
  BY <1>1, <1>3, <1>5, <1>8, QuietDoes DEF R, X, q, p

(* Code that defines values of its own at most *)
LEMMA NothingDoes ==
  ASSUME TypeOK, RegsInv, DomInv, DefsOwn, node \in Node,
         S.prim = "POKE" \/ S.op \in {"BRANCH", "SWITCH", "GOTO", "APPLY", "THROW"}
  PROVE  /\ DoesAll(mach, node, S, prog.scope[node], Now, <<>>)
         /\ DoesAll(mach, node, S, prog.scope[node], Now, Load("ALLOC") \o Load("LIMIT"))
<1> DEFINE sc == prog.scope[node]
<1>1. Fits(mach, node, S, sc, Now)
  BY ReadyFits
<1>2. S \in Stm /\ Arity(S)
  BY <1>1 DEF Fits
<1>3. S.res = <<>> /\ Writes(S) = {}
  BY <1>2 DEF Arity, Writes
<1>4. Elems(S.res) = {}
  BY <1>3, ElemsShort
<1>5. \A e, f, q : IsFrame(f) /\ q.f = f /\ Kept(node, e, q.e)
        => Does(mach, node, S, Now, RegsIn(Now.regs, e, f), VarsIn(Now.vars, sc, e), e, q)
  BY <1>1, <1>3, <1>4, QuietDoes
<1>6. \A e, f : LET q == Run(node, <<>>, [e |-> e, f |-> f]) IN q.f = f /\ Kept(node, e, q.e)
  BY RunNone DEF Kept
<1>7. \A e, f : LET q == Run(node, Load("ALLOC") \o Load("LIMIT"), [e |-> e, f |-> f])
                IN q.f = f /\ Kept(node, e, q.e)
  <2> TAKE e, f
  <2> DEFINE p == [e |-> e, f |-> f]
             q == Run(node, Load("ALLOC"), p)
             u == Run(node, Load("LIMIT"), q)
  <2>1. p.f = f /\ Kept(node, e, p.e) /\ "ALLOC" \in Reg /\ "LIMIT" \in Reg
    BY DEF Kept, Reg
  <2> HIDE DEF p
  <2>2. q.f = f /\ Kept(node, e, q.e)
    BY <2>1, LoadHeld DEF Fetches
  <2> HIDE DEF q
  <2>3. u.f = f /\ Kept(node, e, u.e)
    BY <2>1, <2>2, LoadHeld DEF Fetches
  <2>4. Run(node, Load("ALLOC") \o Load("LIMIT"), p) = u
    <3>1. Load("ALLOC") \in Seq(InstrType) /\ Load("LIMIT") \in Seq(InstrType)
      BY <2>1, RegHelpers DEF TypeOK
    <3> QED
      BY <3>1, RunConcat DEF q
  <2> HIDE DEF u
  <2> QED
    BY <2>3, <2>4 DEF p
<1> QED
  BY <1>5, <1>6, <1>7 DEF DoesAll

(* The values of two registers and a sum of effects: code that loads, then
   computes, then stores. *)
LEMMA RunTwo ==
  ASSUME NEW n, NEW c, NEW d, NEW p
  PROVE  Run(n, <<c, d>>, p) = Exec(n, d, Exec(n, c, p))
<1> DEFINE T == {c, d}
           one == <<c>>
<1>1. one \in Seq(T) /\ d \in T
  OBVIOUS
<1>0. Append(one, d) = <<c, d>>
  <2> DEFINE two == <<c, d>>
             app == Append(one, d)
  <2>1. Len(one) = 1 /\ one[1] = c
    OBVIOUS
  <2>2. Len(two) = 2 /\ two[1] = c /\ two[2] = d /\ two \in Seq(T)
    OBVIOUS
  <2> HIDE DEF one, T, two
  <2>3. app \in Seq(T) /\ Len(app) = 2 /\ app[1] = c /\ app[2] = d
    <3>1. /\ app \in Seq(T) /\ Len(app) = Len(one) + 1 /\ app[Len(one) + 1] = d
          /\ \A i \in 1..Len(one) : app[i] = one[i]
      BY <1>1, AppendProperties
    <3>2. 1 \in 1..Len(one)
      BY <2>1
    <3> HIDE DEF app
    <3> QED
      BY <2>1, <3>1, <3>2
  <2> HIDE DEF app
  <2>4. \A i \in 1..Len(app) : app[i] = two[i]
    BY <2>2, <2>3
  <2> QED
    BY <2>2, <2>3, <2>4, SeqEqual DEF app, two
<1>2. Run(n, one, p) = Exec(n, c, p)
  BY RunOne
<1> HIDE DEF T, one
<1>3. Run(n, Append(one, d), p) = Exec(n, d, Run(n, one, p))
  BY <1>1, RunAppend
<1> QED
  BY <1>0, <1>2, <1>3

(* allocRecord *)
AllocCode(x) ==
  Load("ALLOC") \o <<Op(x, <<RegVal("ALLOC")>> \o Args), Op("ALLOC", <<RegVal("ALLOC")>>)>>
    \o Store("ALLOC", V("ins", node, "ALLOC"))

LEMMA AllocDoes ==
  ASSUME TypeOK, RegsInv, DomInv, DefsOwn, node \in Node, S.op = "ALLOC"
  PROVE  DoesAll(mach, node, S, prog.scope[node], Now, AllocCode(S.res[1]))
<1> DEFINE sc == prog.scope[node]
           x == S.res[1]
           alloc == RegVal("ALLOC")
           new == V("ins", node, "ALLOC")
           c == Op(x, <<alloc>> \o Args)
           d == Op("ALLOC", <<alloc>>)
           ins == AllocCode(x)
<1>1. Fits(mach, node, S, sc, Now)
  BY ReadyFits
<1>2. S \in Stm /\ Arity(S)
  BY <1>1 DEF Fits
<1>3. Len(S.res) = 1 /\ Writes(S) = {"ALLOC"} /\ S.prim \notin {"SET", "VAR", "GET", "RECORD"}
  BY <1>2 DEF Arity, Writes
<1>4. x \in Var /\ Elems(S.res) = {x} /\ "ALLOC" \in Reg
  BY <1>2, <1>3, OneResult DEF Reg
<1>5. /\ c.op = "ins" /\ c.def = V("ins", node, x) /\ c.nm = x /\ c.args = <<alloc>> \o Args
      /\ d.op = "ins" /\ d.def = new /\ d.nm = "ALLOC" /\ d.args = <<alloc>>
  BY DEF Op, Instr
<1>6. /\ alloc \in NVal /\ Load("ALLOC") \in Seq(InstrType) /\ Args \in Seq(NVal)
      /\ Store("ALLOC", new) \in Seq(InstrType)
  BY <1>4, RegHelpers, ArgTypes, NameTypes DEF TypeOK, NVal
<1>7. <<c, d>> \in Seq(InstrType)
  <2>1. <<alloc>> \in Seq(NVal) /\ <<alloc>> \o Args \in Seq(NVal)
    BY <1>6, ConcatProperties
  <2>2. c \in InstrType /\ d \in InstrType
    BY <1>4, <2>1, OpType
  <2> HIDE DEF c, d
  <2> QED
    BY <2>2
<1>8. ins = (Load("ALLOC") \o <<c, d>>) \o Store("ALLOC", new)
  BY DEF AllocCode
<1>9. V("ins", node, x) # new /\ alloc # V("ins", node, x)
  <2>1. x # "ALLOC"
    BY <1>4, NamesAssumption
  <2>2. V("ins", node, x).nm = x /\ new.nm = "ALLOC"
    BY DEF V
  <2> QED
    BY <1>4, <2>1, <2>2, RegValApart
<1>10. new \in Own(node) /\ V("ins", node, x) \in Own(node)
  BY <1>4, OwnApart
<1> HIDE DEF c, d, ins
<1> SUFFICES ASSUME NEW e, NEW f, IsFrame(f)
             PROVE Does(mach, node, S, Now, RegsIn(Now.regs, e, f), VarsIn(Now.vars, sc, e), e,
                        Run(node, ins, [e |-> e, f |-> f]))
  BY DEF DoesAll, ins
<1> DEFINE p0 == [e |-> e, f |-> f]
           p1 == Run(node, Load("ALLOC"), p0)
           p2 == Exec(node, c, p1)
           p3 == Exec(node, d, p2)
           p4 == Run(node, Store("ALLOC", new), p3)
           R == RegsIn(Now.regs, e, f)
           X == VarsIn(Now.vars, sc, e)
<1>11. p0.f = f /\ Kept(node, e, p0.e)
  BY DEF Kept
<1> HIDE DEF p0
<1>12. p1.f = f /\ Kept(node, e, p1.e) /\ Held(p1.e, alloc) = R["ALLOC"]
  <2>1. R = RegsIn(regState, e, f)
    BY DEF Now
  <2> QED
    BY <1>4, <1>11, <2>1, LoadHeld DEF Fetches
<1>13. Run(node, ins, p0) = p4
  <2> DEFINE l == Load("ALLOC")
             two == <<c, d>>
             lt == l \o two
             st == Store("ALLOC", new)
  <2>1. l \in Seq(InstrType) /\ two \in Seq(InstrType) /\ st \in Seq(InstrType)
    BY <1>6, <1>7
  <2>2. Run(node, two, Run(node, l, p0)) = p3
    BY RunTwo
  <2>3. ins = lt \o st /\ p4 = Run(node, st, p3)
    BY <1>8
  <2> HIDE DEF l, two, st, p1, p2, p3, p4
  <2>4. lt \in Seq(InstrType) /\ Run(node, lt, p0) = p3
    BY <2>1, <2>2, RunConcat, ConcatProperties
  <2> HIDE DEF lt
  <2>5. Run(node, lt \o st, p0) = Run(node, st, Run(node, lt, p0))
    BY <2>1, <2>4, RunConcat
  <2> QED
    BY <2>3, <2>4, <2>5
<1> HIDE DEF p1
<1>14. HeldAll(p1.e, c.args) = <<R["ALLOC"]>> \o ArgsOf(S, X)
  <2>1. HeldAll(p1.e, Args) = ArgsOf(S, X)
    BY <1>1, <1>12, ArgsHeld, ArgsNow
  <2>2. HeldAll(p1.e, <<alloc>>) = <<Held(p1.e, alloc)>>
    BY <1>6, HeldShort
  <2>3. <<alloc>> \in Seq(NVal)
    BY <1>6
  <2>4. HeldAll(p1.e, <<alloc>> \o Args) = HeldAll(p1.e, <<alloc>>) \o HeldAll(p1.e, Args)
    <3> DEFINE one == <<alloc>>
               d1 == p1.e
    <3>1. one \in Seq(NVal) /\ Args \in Seq(NVal)
      BY <1>6, <2>3
    <3> HIDE DEF one, d1
    <3>2. HeldAll(d1, one \o Args) = HeldAll(d1, one) \o HeldAll(d1, Args)
      BY <3>1, HeldConcat
    <3> QED
      BY <3>2 DEF one, d1
  <2> QED
    BY <1>5, <1>12, <2>1, <2>2, <2>4
<1>15. /\ p2.f = f
       /\ Held(p2.e, V("ins", node, x)) = Fn(node, x, <<R["ALLOC"]>> \o ArgsOf(S, X))
       /\ \A v : v # V("ins", node, x) => Held(p2.e, v) = Held(p1.e, v)
  <2>1. /\ p2.f = p1.f
        /\ Held(p2.e, c.def) = Fn(node, c.nm, HeldAll(p1.e, c.args))
        /\ \A v : v # c.def => Held(p2.e, v) = Held(p1.e, v)
    <3>1. c.op = "ins"
      BY <1>5
    <3>2. Computes(node, c, p1, p2)
      BY <3>1, ExecOp
    <3> HIDE DEF p2
    <3> QED
      BY <3>2 DEF Computes
  <2> HIDE DEF p2, x, X, R
  <2> QED
    BY <1>5, <1>12, <1>14, <2>1
<1> HIDE DEF p2
<1>16. /\ p3.f = f
       /\ Held(p3.e, new) = Fn(node, "ALLOC", <<R["ALLOC"]>>)
       /\ \A v : v # new => Held(p3.e, v) = Held(p2.e, v)
  <2>1. HeldAll(p2.e, d.args) = <<R["ALLOC"]>>
    <3>1. HeldAll(p2.e, <<alloc>>) = <<Held(p2.e, alloc)>>
      BY <1>6, HeldShort
    <3> QED
      BY <1>5, <1>9, <1>12, <1>15, <3>1
  <2>2. /\ p3.f = p2.f
        /\ Held(p3.e, d.def) = Fn(node, d.nm, HeldAll(p2.e, d.args))
        /\ \A v : v # d.def => Held(p3.e, v) = Held(p2.e, v)
    <3>1. d.op = "ins"
      BY <1>5
    <3>2. Computes(node, d, p2, p3)
      BY <3>1, ExecOp
    <3> HIDE DEF p3
    <3> QED
      BY <3>2 DEF Computes
  <2> HIDE DEF p3, x, X, R, new
  <2> QED
    BY <1>5, <1>15, <2>1, <2>2
<1> HIDE DEF p3
<1>17. /\ p4.e = p3.e /\ IsFrame(p4.f)
       /\ \A t \in Reg : p4.f[t] = IF t = "ALLOC" /\ regState["ALLOC"] = NoVal THEN Held(p3.e, new) ELSE f[t]
  BY <1>4, <1>16, StoreRuns
<1> HIDE DEF p4
<1>18. Kept(node, e, p4.e)
  BY <1>10, <1>12, <1>15, <1>16, <1>17 DEF Kept
<1>19. /\ NextRegs(node, S, R, X)["ALLOC"] = Fn(node, "ALLOC", <<R["ALLOC"]>>)
       /\ \A t \in Reg : t # "ALLOC" => NextRegs(node, S, R, X)[t] = R[t]
  BY <1>3, <1>4 DEF NextRegs
<1>20. \A t \in Reg \ mach : regState[t] = NoVal /\ R[t] = f[t]
  BY <1>1 DEF Fits, Now, RegsIn
<1>21. ResultOf(node, S, R, X, 1) = Fn(node, x, <<R["ALLOC"]>> \o ArgsOf(S, X))
  BY <1>3 DEF ResultOf
<1>22. VarVals(node, S, Now)[x] = V("ins", node, x)
  BY <1>3, <1>4 DEF VarVals
<1> HIDE DEF R, X
<1>23. NextVars(node, S, R, X)[x] = ResultOf(node, S, R, X, 1)
  BY <1>2, <1>3, OneResult
<1>24. \A t \in Reg \ mach : p4.f[t] = NextRegs(node, S, R, X)[t]
  BY <1>16, <1>17, <1>19, <1>20
<1>25. \A r \in mach \cap Writes(S) : Held(p4.e, V("ins", node, r)) = NextRegs(node, S, R, X)[r]
  BY <1>3, <1>16, <1>17, <1>19
<1>26. \A z \in Elems(S.res) : Held(p4.e, VarVals(node, S, Now)[z]) = NextVars(node, S, R, X)[z]
  <2>1. Held(p4.e, V("ins", node, x)) = Fn(node, x, <<R["ALLOC"]>> \o ArgsOf(S, X))
    BY <1>9, <1>15, <1>16, <1>17
  <2> HIDE DEF x
  <2> QED
    BY <1>4, <1>21, <1>22, <1>23, <2>1
<1>27. Does(mach, node, S, Now, R, X, e, p4)
  BY <1>17, <1>18, <1>24, <1>25, <1>26 DEF Does
<1> QED
  BY <1>13, <1>27 DEF R, X, p0

(* Two instructions sequences after another: what comes last runs last. *)
LEMMA RunThen ==
  ASSUME NEW n, NEW p, NEW q, NEW T, NEW a \in Seq(T), NEW b \in Seq(T), Run(n, a, p) = q
  PROVE  a \o b \in Seq(T) /\ Run(n, a \o b, p) = Run(n, b, q)
BY RunConcat, ConcatProperties

(* recordStore *)
RecordCode ==
  Load("ALLOC") \o Load("STORE")
    \o <<Op("STORE", <<RegVal("ALLOC"), RegVal("STORE")>> \o Args)>>
    \o Store("STORE", V("ins", node, "STORE"))
    \o <<Op("ALLOC", <<RegVal("ALLOC")>>)>>
    \o Store("ALLOC", V("ins", node, "ALLOC"))

LEMMA RecordDoes ==
  ASSUME TypeOK, RegsInv, DomInv, DefsOwn, node \in Node, S.prim = "RECORD"
  PROVE  DoesAll(mach, node, S, prog.scope[node], Now, RecordCode)
<1> DEFINE sc == prog.scope[node]
           alloc == RegVal("ALLOC")
           store == RegVal("STORE")
           cell == V("ins", node, "STORE")
           new == V("ins", node, "ALLOC")
           c == Op("STORE", <<alloc, store>> \o Args)
           d == Op("ALLOC", <<alloc>>)
           l1 == Load("ALLOC")
           l2 == Load("STORE")
           o1 == <<c>>
           s1 == Store("STORE", cell)
           o2 == <<d>>
           s2 == Store("ALLOC", new)
<1>1. Fits(mach, node, S, sc, Now)
  BY ReadyFits
<1>2. S \in Stm /\ Arity(S)
  BY <1>1 DEF Fits
<1>3. S.res = <<>> /\ Writes(S) = {"ALLOC", "STORE"} /\ S.op = "SETTER"
  BY <1>2 DEF Arity, Writes
<1>4. "ALLOC" \in Reg /\ "STORE" \in Reg /\ Elems(S.res) = {}
  BY <1>3, ElemsShort DEF Reg
<1>5. /\ c.op = "ins" /\ c.def = cell /\ c.nm = "STORE" /\ c.args = <<alloc, store>> \o Args
      /\ d.op = "ins" /\ d.def = new /\ d.nm = "ALLOC" /\ d.args = <<alloc>>
  BY DEF Op, Instr
<1>6. /\ alloc \in NVal /\ store \in NVal /\ Args \in Seq(NVal)
      /\ l1 \in Seq(InstrType) /\ l2 \in Seq(InstrType)
      /\ s1 \in Seq(InstrType) /\ s2 \in Seq(InstrType)
  BY <1>4, RegHelpers, ArgTypes, NameTypes DEF TypeOK, NVal
<1>7. o1 \in Seq(InstrType) /\ o2 \in Seq(InstrType)
  <2>1. <<alloc>> \in Seq(NVal) /\ <<alloc, store>> \in Seq(NVal)
    BY <1>6
  <2>2. <<alloc, store>> \o Args \in Seq(NVal)
    BY <1>6, <2>1, ConcatProperties
  <2>3. c \in InstrType /\ d \in InstrType
    BY <1>4, <2>1, <2>2, OpType
  <2> HIDE DEF c, d
  <2> QED
    BY <2>3
<1>8. /\ RecordCode = ((((l1 \o l2) \o o1) \o s1) \o o2) \o s2
  BY DEF RecordCode
<1>9. /\ cell # new /\ alloc # cell /\ store # cell /\ alloc # V("load", node, "STORE")
      /\ cell \in Own(node) /\ new \in Own(node)
  <2>1. cell.nm = "STORE" /\ new.nm = "ALLOC"
    BY DEF V
  <2>2. alloc # cell /\ store # cell
    BY <1>4, RegValApart
  <2>3. cell \in Own(node) /\ new \in Own(node) /\ V("load", node, "STORE") \in Own(node)
    BY <1>4, OwnApart
  <2>4. alloc # V("load", node, "STORE")
    <3>1. regState["ALLOC"] # NoVal => alloc = regState["ALLOC"] /\ regState["ALLOC"] \notin Own(node)
      BY <1>1, <1>4 DEF Fits, Now, RegVal
    <3>2. regState["ALLOC"] = NoVal => alloc = V("load", node, "ALLOC")
      BY DEF RegVal
    <3>3. V("load", node, "ALLOC").nm = "ALLOC" /\ V("load", node, "STORE").nm = "STORE"
      BY DEF V
    <3> QED
      BY <2>3, <3>1, <3>2, <3>3
  <2> QED
    BY <2>1, <2>2, <2>3, <2>4
<1> HIDE DEF c, d
<1> SUFFICES ASSUME NEW e, NEW f, IsFrame(f)
             PROVE Does(mach, node, S, Now, RegsIn(Now.regs, e, f), VarsIn(Now.vars, sc, e), e,
                        Run(node, RecordCode, [e |-> e, f |-> f]))
  BY DEF DoesAll
<1> DEFINE p0 == [e |-> e, f |-> f]
           p1 == Run(node, l1, p0)
           p2 == Run(node, l2, p1)
           p3 == Exec(node, c, p2)
           p4 == Run(node, s1, p3)
           p5 == Exec(node, d, p4)
           p6 == Run(node, s2, p5)
           R == RegsIn(Now.regs, e, f)
           X == VarsIn(Now.vars, sc, e)
<1>10. p0.f = f /\ Kept(node, e, p0.e) /\ R = RegsIn(regState, e, f)
  BY DEF Kept, Now
<1> HIDE DEF p0
<1>11. Run(node, RecordCode, p0) = p6
  <2>1. Run(node, o1, p2) = p3 /\ Run(node, o2, p4) = p5
    BY RunOne
  <2>2. Run(node, l1, p0) = p1 /\ Run(node, l2, p1) = p2 /\ Run(node, s1, p3) = p4 /\ Run(node, s2, p5) = p6
    OBVIOUS
  <2> DEFINE a2 == l1 \o l2
             a3 == a2 \o o1
             a4 == a3 \o s1
             a5 == a4 \o o2
  <2>3. RecordCode = a5 \o s2
    BY <1>8
  <2> HIDE DEF l1, l2, o1, o2, s1, s2, p1, p2, p3, p4, p5, p6
  <2>4. a2 \in Seq(InstrType) /\ Run(node, a2, p0) = p2
    BY <1>6, <2>2, RunThen
  <2> HIDE DEF a2
  <2>5. a3 \in Seq(InstrType) /\ Run(node, a3, p0) = p3
    BY <1>7, <2>1, <2>4, RunThen
  <2> HIDE DEF a3
  <2>6. a4 \in Seq(InstrType) /\ Run(node, a4, p0) = p4
    BY <1>6, <2>2, <2>5, RunThen
  <2> HIDE DEF a4
  <2>7. a5 \in Seq(InstrType) /\ Run(node, a5, p0) = p5
    BY <1>7, <2>1, <2>6, RunThen
  <2> HIDE DEF a5
  <2>8. Run(node, a5 \o s2, p0) = p6
    BY <1>6, <2>2, <2>7, RunThen
  <2> QED
    BY <2>3, <2>8
<1>12. p1.f = f /\ Kept(node, e, p1.e) /\ Held(p1.e, alloc) = R["ALLOC"]
  BY <1>4, <1>10, LoadHeld DEF Fetches
<1> HIDE DEF p1
<1>13. p2.f = f /\ Kept(node, e, p2.e) /\ Held(p2.e, store) = R["STORE"] /\ Held(p2.e, alloc) = R["ALLOC"]
  <2>1. /\ p2.f = f /\ Kept(node, e, p2.e) /\ Held(p2.e, store) = R["STORE"]
        /\ \A v : v # V("load", node, "STORE") => Held(p2.e, v) = Held(p1.e, v)
    <3>1. Fetches("STORE", e, f, p1, p2)
      BY <1>4, <1>12, LoadHeld
    <3> HIDE DEF p2, R
    <3> QED
      BY <1>10, <3>1 DEF Fetches
  <2> HIDE DEF p2
  <2> QED
    BY <1>9, <1>12, <2>1
<1> HIDE DEF p2
<1>14. HeldAll(p2.e, c.args) = <<R["ALLOC"], R["STORE"]>> \o ArgsOf(S, X)
  <2> DEFINE two == <<alloc, store>>
             d2 == p2.e
  <2>1. HeldAll(d2, Args) = ArgsOf(S, X)
    BY <1>1, <1>13, ArgsHeld, ArgsNow
  <2>2. HeldAll(d2, two) = <<R["ALLOC"], R["STORE"]>>
    <3>1. HeldAll(d2, two) = <<Held(d2, alloc), Held(d2, store)>>
      BY HeldShort
    <3> QED
      BY <1>13, <3>1
  <2>3. two \in Seq(NVal) /\ Args \in Seq(NVal) /\ c.args = two \o Args
    BY <1>5, <1>6
  <2> HIDE DEF two, d2, X, R
  <2>4. HeldAll(d2, two \o Args) = HeldAll(d2, two) \o HeldAll(d2, Args)
    BY <2>3, HeldConcat
  <2>5. HeldAll(d2, c.args) = <<R["ALLOC"], R["STORE"]>> \o ArgsOf(S, X)
    BY <2>1, <2>2, <2>3, <2>4
  <2> QED
    BY <2>5 DEF d2
<1>15. /\ p3.f = f
       /\ Held(p3.e, cell) = Fn(node, "STORE", <<R["ALLOC"], R["STORE"]>> \o ArgsOf(S, X))
       /\ \A v : v # cell => Held(p3.e, v) = Held(p2.e, v)
  <2>1. c.op = "ins"
    BY <1>5
  <2>2. Computes(node, c, p2, p3)
    BY <2>1, ExecOp
  <2> HIDE DEF p3, R, X, cell
  <2> QED
    BY <1>5, <1>13, <1>14, <2>2 DEF Computes
<1> HIDE DEF p3
<1>16. /\ p4.e = p3.e /\ IsFrame(p4.f)
       /\ \A t \in Reg : p4.f[t] = IF t = "STORE" /\ regState["STORE"] = NoVal THEN Held(p3.e, cell) ELSE f[t]
  BY <1>4, <1>15, StoreRuns
<1> HIDE DEF p4
<1>17. /\ p5.f = p4.f
       /\ Held(p5.e, new) = Fn(node, "ALLOC", <<R["ALLOC"]>>)
       /\ \A v : v # new => Held(p5.e, v) = Held(p3.e, v)
  <2>1. d.op = "ins"
    BY <1>5
  <2>2. Computes(node, d, p4, p5)
    BY <2>1, ExecOp
  <2>3. HeldAll(p4.e, d.args) = <<R["ALLOC"]>>
    <3>1. HeldAll(p4.e, <<alloc>>) = <<Held(p4.e, alloc)>>
      BY HeldShort
    <3> QED
      BY <1>5, <1>9, <1>13, <1>15, <1>16, <3>1
  <2> HIDE DEF p5, R, X, new, cell
  <2> QED
    BY <1>5, <1>16, <2>2, <2>3 DEF Computes
<1> HIDE DEF p5
<1>18. /\ p6.e = p5.e /\ IsFrame(p6.f)
       /\ \A t \in Reg : p6.f[t] = IF t = "ALLOC" /\ regState["ALLOC"] = NoVal THEN Held(p5.e, new) ELSE p4.f[t]
  BY <1>4, <1>16, <1>17, StoreRuns
<1> HIDE DEF p6
<1>19. Kept(node, e, p6.e)
  BY <1>9, <1>13, <1>15, <1>17, <1>18 DEF Kept
<1>20. /\ NextRegs(node, S, R, X)["ALLOC"] = Fn(node, "ALLOC", <<R["ALLOC"]>>)
       /\ NextRegs(node, S, R, X)["STORE"] = Fn(node, "STORE", <<R["ALLOC"], R["STORE"]>> \o ArgsOf(S, X))
       /\ \A t \in Reg : t \notin {"ALLOC", "STORE"} => NextRegs(node, S, R, X)[t] = R[t]
  BY <1>3, <1>4 DEF NextRegs
<1>21. \A t \in Reg \ mach : regState[t] = NoVal /\ R[t] = f[t]
  BY <1>1 DEF Fits, Now, RegsIn
<1> HIDE DEF R, X
<1>22. \A t \in Reg \ mach : p6.f[t] = NextRegs(node, S, R, X)[t]
  <2> TAKE t \in Reg \ mach
  <2>1. CASE t = "ALLOC"
    BY <1>17, <1>18, <1>20, <1>21, <2>1
  <2>2. CASE t = "STORE"
    BY <1>15, <1>16, <1>18, <1>20, <1>21, <2>2
  <2>3. CASE t \notin {"ALLOC", "STORE"}
    BY <1>16, <1>18, <1>20, <1>21, <2>3
  <2> QED
    BY <2>1, <2>2, <2>3
<1>23. \A r \in mach \cap Writes(S) : Held(p6.e, V("ins", node, r)) = NextRegs(node, S, R, X)[r]
  <2>1. Held(p6.e, new) = NextRegs(node, S, R, X)["ALLOC"]
    BY <1>17, <1>18, <1>20
  <2>2. Held(p6.e, cell) = NextRegs(node, S, R, X)["STORE"]
    BY <1>9, <1>15, <1>17, <1>18, <1>20
  <2> QED
    BY <1>3, <2>1, <2>2
<1>24. Does(mach, node, S, Now, R, X, e, p6)
  BY <1>4, <1>18, <1>19, <1>22, <1>23 DEF Does
<1> QED
  BY <1>11, <1>24 DEF R, X, p0

-----------------------------------------------------------------------------
(***************************************************************************)
(* What the codegen method of a statement emits: its own code, to the      *)
(* insert block, and before it perhaps a group of a block aside.  The      *)
(* child that is generated next follows in the block, in the block that a  *)
(* trapping operation goes on in, or in a block of its own.                *)
(***************************************************************************)
OutTurn(es) ==
  /\ phase = "gen" /\ node \in Node
  /\ UNCHANGED <<prog, mach>>
  /\ Visit
  /\ inc \subseteq inc'
  /\ out' = out \o es
  /\ Len(es) \in {1, 2}
  /\ \A i \in DOMAIN es :
       /\ es[i].at = node
       /\ \A c \in Elems(es[i].ins) : c.def \in Own(node) \cup {NoVal}
       /\ IF i = Len(es) THEN Main(es[i]) /\ es[i].blk = bb
          ELSE ~Main(es[i]) /\ es[i].blk \in Asides
  /\ GroupsRightIn(es)'
  /\ \/ node' = NoNode
     \/ /\ node' \in Children(prog, node) /\ bb' = bb
        /\ es[Len(es)].end.op \in {"fall", "gc"}
     \/ node' \in Children(prog, node) /\ S.prim = "TRAP" /\ bb' = Blk("ok", node)
     \/ node' \in Heads /\ bb' = BB(node')

(* The current statement gets done, the others stay as they are. *)
LEMMA DoneGrows ==
  ASSUME TypeOK, RegsInv, node \in Node, Visit
  PROVE  /\ Done' = Done \cup {node} /\ node \notin Done /\ node # NoNode
         /\ at'[node] = Now
         /\ \A k \in Node : k # node => at'[k] = at[k]
<1>1. node # NoNode
  BY NullAssumption
<1>2. node \notin Done /\ bb # NoBlock
  BY <1>1 DEF RegsInv, NodeReady
<1>3. at \in [Node -> [regs: Regs, vars: [Var -> Val \cup {NoVal}], blk: Block \cup {NoBlock}]]
  BY DEF TypeOK
<1>4. at'[node] = Now /\ \A k \in Node : k # node => at'[k] = at[k]
  BY <1>3 DEF Visit, Now
<1>5. at'[node].blk # NoBlock
  BY <1>2, <1>4 DEF Now
<1>6. Done' = {k \in Node : at'[k].blk # NoBlock} /\ Done = {k \in Node : at[k].blk # NoBlock}
  BY DEF Done, Visited
<1>7. Done' = Done \cup {node}
  BY <1>4, <1>5, <1>6
<1> QED
  BY <1>1, <1>2, <1>4, <1>7

(* What is appended to the code comes after it. *)
LEMMA GrownCode ==
  ASSUME TypeOK, NEW es \in Seq(GroupType), out' = out \o es
  PROVE  /\ Len(out) \in Nat /\ Len(es) \in Nat
         /\ DOMAIN out = 1..Len(out) /\ DOMAIN es = 1..Len(es) /\ DOMAIN out' = 1..(Len(out) + Len(es))
         /\ Len(out') = Len(out) + Len(es)
         /\ \A i \in DOMAIN out : i \in DOMAIN out' /\ out'[i] = out[i]
         /\ \A k \in DOMAIN es : Len(out) + k \in DOMAIN out' /\ out'[Len(out) + k] = es[k]
         /\ \A i \in DOMAIN out' : i \in DOMAIN out \/ \E k \in DOMAIN es : i = Len(out) + k
<1>1. out \in Seq(GroupType)
  BY DEF TypeOK
<1>2. out \o es \in Seq(GroupType) /\ Len(out \o es) = Len(out) + Len(es)
  BY <1>1, ConcatProperties
<1>3. /\ \A i \in DOMAIN out : i \in DOMAIN (out \o es) /\ (out \o es)[i] = out[i]
      /\ \A k \in DOMAIN es : Len(out) + k \in DOMAIN (out \o es) /\ (out \o es)[Len(out) + k] = es[k]
  BY <1>1, LaterPlace
<1>4. /\ Len(out) \in Nat /\ Len(es) \in Nat
      /\ DOMAIN out = 1..Len(out) /\ DOMAIN es = 1..Len(es) /\ DOMAIN (out \o es) = 1..(Len(out) + Len(es))
  BY <1>1, ConcatCases
<1>5. \A i \in 1..(Len(out) + Len(es)) : i \in 1..Len(out) \/ \E k \in 1..Len(es) : i = Len(out) + k
  <2> TAKE i \in 1..(Len(out) + Len(es))
  <2>1. CASE i <= Len(out)
    BY <1>4, <2>1
  <2>2. CASE ~(i <= Len(out))
    <3>1. i - Len(out) \in 1..Len(es) /\ i = Len(out) + (i - Len(out))
      BY <1>4, <2>2
    <3> QED
      BY <3>1
  <2> QED
    BY <2>1, <2>2
<1> QED
  BY <1>2, <1>3, <1>4, <1>5

(* Code that is right stays so. *)
LEMMA RightStays ==
  ASSUME TypeOK, RegsInv, node \in Node, Visit, UNCHANGED <<prog, mach>>, inc \subseteq inc',
         NEW es \in Seq(GroupType), out' = out \o es, NEW g, g.at \in Done
  PROVE  /\ MainRight(g) => MainRight(g)'
         /\ AsideRight(g) <=> AsideRight(g)'
<1>1. at'[g.at] = at[g.at]
  <2>1. g.at \in Node /\ g.at # node
    BY DoneGrows DEF Done
  <2> QED
    BY <2>1, DoneGrows
<1>2. \A m : Raises(m) => Raises(m)'
  BY GrownCode DEF Raises
<1>3. \A v, w, b : Entry(v, w, b) => Entry(v, w, b)'
  BY DEF Entry
<1>4. \A n, s, a : GotoRight(n, s, a, g) => GotoRight(n, s, a, g)'
  BY <1>3 DEF GotoRight
<1>5. \A n, s, a : BranchRight(n, s, a, g) => BranchRight(n, s, a, g)'
  BY DEF BranchRight
<1>6. \A n, s, a : TrapRight(n, s, a, g) => TrapRight(n, s, a, g)'
  BY <1>2, <1>3 DEF TrapRight
<1>7. \A n, s, a : EndRight(n, s, a, g) => EndRight(n, s, a, g)'
  BY <1>4, <1>5, <1>6 DEF EndRight
<1>8. MainRight(g) => MainRight(g)'
  BY <1>1, <1>7 DEF MainRight
<1>9. AsideRight(g) <=> AsideRight(g)'
  BY DEF AsideRight, MachRegs
<1> QED
  BY <1>8, <1>9

(* The statement whose code comes at the insert block *)
LEMMA OrderStays ==
  ASSUME TypeOK, RegsInv, node \in Node, Visit, UNCHANGED prog,
         NEW es \in Seq(GroupType), out' = out \o es,
         NEW n, NEW b, NEW j \in Nat, j <= Len(out) + 1, ComesAt(n, b, j),
         NEW k \in Nat, j <= k, \A i \in j..(k - 1) : out'[i].blk # b
  PROVE  ComesAt(n, b, k)'
<1>1. /\ Len(out) \in Nat /\ DOMAIN out = 1..Len(out)
      /\ \A i \in DOMAIN out : i \in DOMAIN out' /\ out'[i] = out[i]
  BY GrownCode
<1>2. \A i \in Nat : i > 0 /\ NoneFrom(b, i, j) => NoneFrom(b, i, k)'
  <2> TAKE i \in Nat
  <2> HAVE i > 0 /\ NoneFrom(b, i, j)
  <2> SUFFICES ASSUME NEW l \in i..(k - 1) PROVE out'[l].blk # b
    BY DEF NoneFrom
  <2>1. CASE l < j
    <3>1. l \in i..(j - 1) /\ l \in DOMAIN out
      BY <1>1, <2>1
    <3> QED
      BY <1>1, <3>1 DEF NoneFrom
  <2>2. CASE ~(l < j)
    <3>1. l \in j..(k - 1)
      BY <2>2
    <3> QED
      BY <3>1
  <2> QED
    BY <2>1, <2>2
<1>3. Heads' = Heads
  BY DEF Heads, Bodies, Arms, Children
<1>4. Done \subseteq Done'
  BY DoneGrows
<1>5. CASE n \in Heads /\ b = BB(n) /\ NoneFrom(b, 1, j)
  <2>1. NoneFrom(b, 1, k)'
    BY <1>2, <1>5
  <2> QED
    BY <1>3, <1>5, <2>1 DEF ComesAt
<1>6. CASE \E p \in Done : /\ n \in Children(prog, p) /\ prog.stm[p].prim = "TRAP"
                           /\ b = Blk("ok", p) /\ NoneFrom(b, 1, j)
  <2>1. NoneFrom(b, 1, k)'
    BY <1>2, <1>6
  <2> QED
    BY <1>4, <1>6, <2>1 DEF ComesAt
<1>7. CASE \E i \in DOMAIN out : /\ i < j /\ out[i].end.op \in {"fall", "gc"} /\ n \in Children(prog, out[i].at)
                                 /\ b = out[i].blk /\ NoneFrom(b, i + 1, j)
  <2>1. PICK i \in DOMAIN out : /\ i < j /\ out[i].end.op \in {"fall", "gc"} /\ n \in Children(prog, out[i].at)
                                /\ b = out[i].blk /\ NoneFrom(b, i + 1, j)
    BY <1>7
  <2>2. i + 1 \in Nat /\ i + 1 > 0 /\ i < k /\ i \in DOMAIN out'
    BY <1>1, <2>1
  <2>3. NoneFrom(b, i + 1, k)'
    BY <1>2, <2>1, <2>2
  <2> QED
    BY <1>1, <2>1, <2>2, <2>3 DEF ComesAt
<1> QED
  BY <1>5, <1>6, <1>7 DEF ComesAt

(* Nothing has been put in the block of a statement that is not done. *)
LEMMA FreshHead ==
  ASSUME TypeOK, RegsInv, BlockInv, node # NoNode, node \in Heads, bb = BB(node)
  PROVE  ComesAt(node, bb, Len(out) + 1)
<1>1. node \notin Done
  BY DEF RegsInv, NodeReady
<1>2. \A i \in DOMAIN out : out[i].blk.at \in Done
  BY DEF BlockInv, TermInv, CodeIsDone
<1>3. Len(out) \in Nat /\ DOMAIN out = 1..Len(out)
  BY DEF TypeOK
<1>4. NoneFrom(bb, 1, Len(out) + 1)
  <2> SUFFICES ASSUME NEW i \in 1..Len(out) PROVE out[i].blk # bb
    BY <1>3 DEF NoneFrom
  <2>1. bb.at = node
    BY DEF BB, Blk
  <2> QED
    BY <1>1, <1>2, <1>3, <2>1
<1> QED
  BY <1>4 DEF ComesAt

LEMMA OutStep ==
  ASSUME TypeOK, TypeOK', RegsInv, RegsInv', BlockInv, BlockInv', CodeInv,
         NEW es \in Seq(GroupType), OutTurn(es)
  PROVE  DefsOwn' /\ GroupsRight' /\ OneMain' /\ InOrder'
<1> DEFINE L == Len(out)
           K == Len(es)
<1>1. /\ node \in Node /\ UNCHANGED <<prog, mach>> /\ Visit /\ inc \subseteq inc' /\ out' = out \o es
      /\ K \in {1, 2}
      /\ \A i \in DOMAIN es :
           /\ es[i].at = node
           /\ \A c \in Elems(es[i].ins) : c.def \in Own(node) \cup {NoVal}
           /\ IF i = K THEN Main(es[i]) /\ es[i].blk = bb
              ELSE ~Main(es[i]) /\ es[i].blk \in Asides
      /\ GroupsRightIn(es)'
  BY DEF OutTurn
<1>2. /\ L \in Nat /\ K \in Nat
      /\ DOMAIN out = 1..L /\ DOMAIN es = 1..K /\ DOMAIN out' = 1..(L + K) /\ Len(out') = L + K
      /\ \A i \in DOMAIN out : i \in DOMAIN out' /\ out'[i] = out[i]
      /\ \A k \in DOMAIN es : L + k \in DOMAIN out' /\ out'[L + k] = es[k]
      /\ \A i \in DOMAIN out' : i \in DOMAIN out \/ \E k \in DOMAIN es : i = L + k
  BY <1>1, GrownCode
<1>3. /\ Done' = Done \cup {node} /\ node \notin Done /\ node # NoNode /\ at'[node] = Now
  BY <1>1, DoneGrows
<1>4. DefsOwn /\ GroupsRight /\ OneMain /\ InOrder
  BY DEF CodeInv
<1> HIDE DEF L, K
<1>5. DefsOwn'
  <2> SUFFICES ASSUME NEW i \in DOMAIN out'
               PROVE out'[i].at \in Done' /\ \A c \in Elems(out'[i].ins) : c.def \in Own(out'[i].at) \cup {NoVal}
    BY DEF DefsOwn
  <2>1. CASE i \in DOMAIN out
    BY <1>2, <1>3, <1>4, <2>1 DEF DefsOwn
  <2>2. CASE \E k \in DOMAIN es : i = L + k
    BY <1>1, <1>2, <1>3, <2>2
  <2> QED
    BY <1>2, <2>1, <2>2
<1>6. GroupsRight'
  <2> SUFFICES ASSUME NEW i \in DOMAIN out'
               PROVE IF Main(out'[i]) THEN MainRight(out[i])' ELSE AsideRight(out[i])'
    BY DEF GroupsRight, GroupsRightIn
  <2>1. CASE i \in DOMAIN out
    <3> DEFINE g == out[i]
    <3>1. g.at \in Done /\ out'[i] = g
      BY <1>2, <1>4, <2>1 DEF DefsOwn
    <3>2. IF Main(g) THEN MainRight(g) ELSE AsideRight(g)
      BY <1>4, <2>1 DEF GroupsRight, GroupsRightIn
    <3> HIDE DEF g
    <3> QED
      BY <1>1, <3>1, <3>2, RightStays
  <2>2. CASE \E k \in DOMAIN es : i = L + k
    BY <1>1, <1>2, <2>2 DEF GroupsRightIn
  <2> QED
    BY <1>2, <2>1, <2>2
<1>7. OneMain'
  <2>1. \A n \in Done' : \E i \in DOMAIN out' : out'[i].at = n /\ Main(out'[i])
    <3> TAKE n \in Done'
    <3>1. CASE n \in Done
      BY <1>2, <1>4, <3>1 DEF OneMain
    <3>2. CASE n = node
      <4>1. K \in DOMAIN es
        BY <1>1, <1>2
      <4> QED
        BY <1>1, <1>2, <3>2, <4>1
    <3> QED
      BY <1>3, <3>1, <3>2
  <2>2. \A i \in DOMAIN out' : \/ i \in DOMAIN out /\ out'[i] = out[i] /\ out[i].at # node
                               \/ out'[i].at = node /\ (Main(out'[i]) => i = L + K)
    <3> TAKE i \in DOMAIN out'
    <3>1. CASE i \in DOMAIN out
      BY <1>2, <1>3, <1>4, <3>1 DEF DefsOwn
    <3>2. CASE \E k \in DOMAIN es : i = L + k
      BY <1>1, <1>2, <3>2, SMTT(60)
    <3> QED
      BY <1>2, <3>1, <3>2
  <2>3. \A i, j \in DOMAIN out : Main(out[i]) /\ Main(out[j]) /\ out[i].at = out[j].at => i = j
    BY <1>4 DEF OneMain
  <2>4. \A i, j \in DOMAIN out' : Main(out'[i]) /\ Main(out'[j]) /\ out'[i].at = out'[j].at => i = j
    BY <2>2, <2>3
  <2> QED
    BY <2>1, <2>4 DEF OneMain
<1>8. \A j \in DOMAIN out' : Main(out'[j]) => ComesAt(out[j].at, out[j].blk, j)'
  <2> TAKE j \in DOMAIN out'
  <2> HAVE Main(out'[j])
  <2>1. CASE j \in DOMAIN out
    <3>1. out'[j] = out[j] /\ j \in Nat /\ j <= L + 1 /\ j <= j /\ j..(j - 1) = {}
      BY <1>2, <2>1
    <3>2. ComesAt(out[j].at, out[j].blk, j)
      BY <1>4, <2>1, <3>1 DEF InOrder
    <3>3. PICK n, b : n = out[j].at /\ b = out[j].blk
      OBVIOUS
    <3>4. ComesAt(n, b, j)
      BY <3>2, <3>3
    <3>5. ComesAt(n, b, j)'
      BY <1>1, <3>1, <3>4, OrderStays DEF L
    <3>6. out'[j].at = n /\ out'[j].blk = b
      BY <3>1, <3>3
    <3> QED
      BY <3>5, <3>6 DEF ComesAt
  <2>2. CASE \E k \in DOMAIN es : j = L + k
    <3>1. j = L + K /\ out'[j].at = node /\ out'[j].blk = bb
      BY <1>1, <1>2, <2>2
    <3>2. ComesAt(node, bb, L + 1)
      BY <1>3, <1>4 DEF InOrder, L
    <3>3. PICK l1 : l1 = L + 1
      OBVIOUS
    <3>4. l1 \in Nat /\ l1 <= L + 1 /\ j \in Nat /\ l1 <= j
      BY <1>1, <1>2, <3>1, <3>3
    <3>5. \A i \in l1..(j - 1) : out'[i].blk # bb
      <4> TAKE i \in l1..(j - 1)
      <4>1. i - L \in DOMAIN es /\ i - L # K /\ i = L + (i - L)
        BY <1>1, <1>2, <3>1, <3>3, SMTT(60)
      <4>2. out'[i].blk \in Asides
        BY <1>1, <1>2, <4>1, SMTT(60)
      <4>3. bb.k \in {"bb", "ok"}
        BY <1>3 DEF BlockInv, TermInv, InsertPointOpen, BB, Blk
      <4>4. \A b \in Asides : b.k \notin {"bb", "ok"}
        BY DEF Asides, Blk
      <4> QED
        BY <4>2, <4>3, <4>4
    <3>6. PICK n, b : n = node /\ b = bb
      OBVIOUS
    <3>7. ComesAt(n, b, l1) /\ \A i \in l1..(j - 1) : out'[i].blk # b
      BY <3>2, <3>3, <3>5, <3>6
    <3>8. ComesAt(n, b, j)'
      BY <1>1, <3>4, <3>7, OrderStays DEF L
    <3>9. out'[j].at = n /\ out'[j].blk = b
      BY <3>1, <3>6
    <3> QED
      BY <3>8, <3>9 DEF ComesAt
  <2> QED
    BY <1>2, <2>1, <2>2
<1>9. node' # NoNode => ComesAt(node, bb, Len(out) + 1)'
  <2> HAVE node' # NoNode
  <2>1. Len(out') = L + K /\ (L + K + 1) - 1 = L + K
    BY <1>2
  <2>2. CASE node' \in Children(prog, node) /\ bb' = bb /\ es[K].end.op \in {"fall", "gc"}
    <3>1. PICK l : l = L + K
      OBVIOUS
    <3>2. /\ l \in DOMAIN out' /\ out'[l] = es[K] /\ es[K].at = node /\ es[K].blk = bb
          /\ l \in Nat /\ Len(out') = l /\ l < Len(out') + 1
      BY <1>1, <1>2, <3>1
    <3>3. \A k \in (l + 1)..(Len(out') + 1 - 1) : out'[k].blk # bb'
      BY <3>2
    <3>4. node' \in Children(prog', out'[l].at) /\ bb' = out'[l].blk /\ out'[l].end.op \in {"fall", "gc"}
      BY <1>1, <2>2, <3>2
    <3> QED
      BY <3>2, <3>3, <3>4 DEF ComesAt, NoneFrom
  <2>3. CASE node' \in Children(prog, node) /\ S.prim = "TRAP" /\ bb' = Blk("ok", node)
    <3>1. \A i \in 1..(L + K) : out'[i].blk # Blk("ok", node)
      <4> TAKE i \in 1..(L + K)
      <4>1. CASE i \in DOMAIN out
        <5>1. out'[i].blk.at \in Done
          BY <1>2, <4>1 DEF BlockInv, TermInv, CodeIsDone
        <5> QED
          BY <1>3, <5>1 DEF Blk
      <4>2. CASE \E k \in DOMAIN es : i = L + k
        <5>1. out'[i].blk = bb \/ out'[i].blk \in Asides
          BY <1>1, <1>2, <4>2
        <5>2. bb # Blk("ok", node)
          <6>1. bb.at \in Done \/ bb = BB(node)
            BY <1>3 DEF BlockInv, TermInv, InsertPointOpen
          <6>2. Blk("ok", node).at = node /\ Blk("ok", node).k = "ok" /\ BB(node).k = "bb"
            BY DEF BB, Blk
          <6> QED
            BY <1>3, <6>1, <6>2
        <5>3. Blk("ok", node) \notin Asides
          BY DEF Asides, Blk
        <5> QED
          BY <5>1, <5>2, <5>3
      <4> QED
        BY <1>2, <4>1, <4>2
    <3>2. prog' = prog /\ node \in Done' /\ prog.stm[node].prim = "TRAP"
      BY <1>1, <1>3, <2>3 DEF S
    <3>3. \A i \in 1..(Len(out') + 1 - 1) : out'[i].blk # bb'
      BY <2>1, <2>3, <3>1
    <3> QED
      BY <2>3, <3>2, <3>3 DEF ComesAt, NoneFrom
  <2>4. CASE node' \in Heads /\ bb' = BB(node')
    <3>1. Heads' = Heads
      BY <1>1 DEF Heads, Bodies, Arms, Children
    <3>2. (node # NoNode)' /\ (node \in Heads)' /\ (bb = BB(node))'
      BY <2>4, <3>1
    <3> QED
      BY <3>2, FreshHead, PTL
  <2> QED
    BY <2>2, <2>3, <2>4 DEF OutTurn, K
<1> QED
  BY <1>5, <1>6, <1>7, <1>8, <1>9 DEF InOrder

(* The variables after the codegen method of a statement with arms new:
   what the statement makes of them. *)
VarTurn(new) ==
  /\ phase = "gen" /\ node \in Node
  /\ UNCHANGED <<prog, mach>>
  /\ Visit
  /\ todo' = new \o todo
  /\ \A i \in DOMAIN new : new[i].n \in Children(prog, node)
  /\ node' \in Children(prog, node) \cup {NoNode}
  /\ \A x \in Var : vMap'[x] = VarVals(node, S, Now)[x]

LEMMA VarStep ==
  ASSUME TypeOK, TypeOK', RegsInv, DomInv, CodeInv, NEW new \in Seq(Task), VarTurn(new)
  PROVE  VarsFollow' /\ BodiesStart'
<1>1. /\ node \in Node /\ UNCHANGED <<prog, mach>> /\ Visit
      /\ node' \in Children(prog, node) \cup {NoNode}
      /\ \A x \in Var : vMap'[x] = VarVals(node, S, Now)[x]
  BY DEF VarTurn
<1>2. /\ Done' = Done \cup {node} /\ node \notin Done /\ node # NoNode /\ at'[node] = Now
      /\ \A k \in Node : k # node => at'[k] = at[k]
  BY <1>1, DoneGrows
<1>3. prog \in Programs /\ Done \subseteq Node
  BY DEF TypeOK, Done
<1>4. VarsFollow /\ BodiesStart
  BY DEF CodeInv
<1>5. NoNode \notin Node
  BY NullAssumption
<1>6. \A n \in Node : \A m \in Children(prog, n) :
        /\ m \in Node /\ m \notin Bodies(prog) /\ prog.scope[m] \subseteq Var
        /\ m \in Children(prog, node) => n = node
  <2> TAKE n \in Node
  <2> TAKE m \in Children(prog, n)
  <2>1. m \in Node /\ m \notin Bodies(prog) /\ \A k \in Node : m \in Children(prog, k) => k = n
    BY <1>3, Forest
  <2>2. prog.scope \in [Node -> SUBSET Var]
    BY <1>3, ProgramsAssumption DEF WellFormed, WellTyped
  <2> QED
    BY <1>1, <2>1, <2>2
<1>7. \A m \in Children(prog, node) : m \notin Done /\ m # node
  BY <1>1, ChildFresh
<1>8. \A i \in DOMAIN todo' : \/ todo'[i].n \in Children(prog, node)
                              \/ \E j \in DOMAIN todo : todo'[i] = todo[j]
  <2>1. todo' = new \o todo /\ \A i \in DOMAIN new : new[i].n \in Children(prog, node)
    BY DEF VarTurn
  <2>2. todo \in Seq(Task)
    BY DEF TypeOK
  <2> QED
    BY <2>1, <2>2, ConcatCases
<1>9. \A x \in Var : vMap[x] # NoVal => vMap'[x] = vMap[x]
  <2> TAKE x \in Var
  <2> HAVE vMap[x] # NoVal
  <2>1. x \notin Elems(S.res)
    BY <1>1, ResFresh
  <2> QED
    BY <1>1, <2>1 DEF VarVals, Now
<1>10. VarsFollow'
  <2> SUFFICES ASSUME NEW n \in Done', NEW m \in Children(prog, n)
               PROVE  LET vs == VarVals(n, prog.stm[n], at'[n]) IN
                      /\ m \in Done' => \A x \in prog.scope[m] : at'[m].vars[x] = vs[x]
                      /\ m = node' => \A x \in prog.scope[m] : vMap'[x] = vs[x]
                      /\ (\E i \in DOMAIN todo' : todo'[i].t = "arm" /\ todo'[i].n = m) =>
                           \A x \in prog.scope[m] : vMap'[x] = vs[x]
    BY <1>1 DEF VarsFollow
  <2> DEFINE vs == VarVals(n, prog.stm[n], at'[n])
  <2>1. CASE n = node
    <3>1. m \notin Done' /\ prog.scope[m] \subseteq Var
      BY <1>1, <1>2, <1>6, <1>7, <2>1
    <3>2. \A x \in Var : vMap'[x] = vs[x]
      BY <1>1, <1>2, <2>1 DEF S
    <3> HIDE DEF vs
    <3> QED
      BY <3>1, <3>2 DEF vs
  <2>2. CASE n # node
    <3>1. n \in Done /\ n \in Node /\ at'[n] = at[n]
      BY <1>2, <1>3, <2>2
    <3>2. m \in Node /\ prog.scope[m] \subseteq Var /\ m \notin Children(prog, node)
      BY <1>6, <2>2, <3>1
    <3>3. /\ m \in Done => \A x \in prog.scope[m] : at[m].vars[x] = vs[x]
          /\ m = node => \A x \in prog.scope[m] : vMap[x] = vs[x]
          /\ (\E i \in DOMAIN todo : todo[i].t = "arm" /\ todo[i].n = m) =>
               \A x \in prog.scope[m] : vMap[x] = vs[x]
      BY <1>4, <3>1 DEF VarsFollow
    <3> HIDE DEF vs
    <3>4. m \in Done' => \A x \in prog.scope[m] : at'[m].vars[x] = vs[x]
      BY <1>2, <3>2, <3>3 DEF Now
    <3>5. m # node'
      BY <1>1, <1>5, <3>2
    <3>6. (\E i \in DOMAIN todo' : todo'[i].t = "arm" /\ todo'[i].n = m) =>
             \A x \in prog.scope[m] : vMap'[x] = vs[x]
      <4> SUFFICES ASSUME NEW i \in DOMAIN todo', todo'[i].t = "arm", todo'[i].n = m
                   PROVE  \A x \in prog.scope[m] : vMap'[x] = vs[x]
        OBVIOUS
      <4>1. PICK j \in DOMAIN todo : todo'[i] = todo[j]
        BY <1>8, <3>2
      <4>2. ScopeBound(m)
        BY <4>1 DEF RegsInv, ArmsReady, ArmReady
      <4>3. \A x \in prog.scope[m] : vMap'[x] = vMap[x]
        BY <1>9, <3>2, <4>2 DEF ScopeBound
      <4>4. \A x \in prog.scope[m] : vMap[x] = vs[x]
        BY <3>3, <4>1
      <4> QED
        BY <4>3, <4>4
    <3> QED
      BY <3>4, <3>5, <3>6 DEF vs
  <2> QED
    BY <2>1, <2>2
<1>11. BodiesStart'
  <2> SUFFICES ASSUME NEW l \in Lab
               PROVE  LET n == prog.frag[l].body IN
                      /\ n \in Done' => StartsWith(l, at'[n].regs, at'[n].vars)
                      /\ n # node'
    <3>1. prog' = prog /\ mach' = mach
      BY <1>1
    <3> QED
      BY <3>1 DEF BodiesStart, StartsWith
  <2> DEFINE n == prog.frag[l].body
  <2>1. /\ n \in Done => StartsWith(l, at[n].regs, at[n].vars)
        /\ n = node => StartsWith(l, regState, vMap)
    BY <1>4 DEF BodiesStart
  <2>2. n \in Bodies(prog)
    BY DEF Bodies
  <2>3. n \in Done' => StartsWith(l, at'[n].regs, at'[n].vars)
    <3>1. CASE n = node
      BY <1>2, <2>1, <3>1 DEF Now
    <3>2. CASE n # node
      BY <1>2, <1>3, <2>1, <3>2
    <3> QED
      BY <3>1, <3>2
  <2>4. n # node'
    <3>1. n \in Node
      BY <1>3, UnitFacts
    <3> QED
      BY <1>1, <1>5, <1>6, <2>2, <3>1
  <2> QED
    BY <2>3, <2>4
<1> QED
  BY <1>10, <1>11

(* The code of the current statement is right if it does what the statement
   does and ends as the statement does. *)
LEMMA MainNow ==
  ASSUME TypeOK, RegsInv, BlockInv, DomInv, DefsOwn, node \in Node, UNCHANGED <<prog, mach>>, Visit,
         NEW n, n = node, NEW s, s = S, NEW a, a = Now, NEW g, g.at = n, g.blk = bb,
         g.end.op # "gc" => DoesAll(mach, node, S, prog.scope[node], Now, g.ins),
         EndRight(n, s, a, g)'
  PROVE  MainRight(g)'
<1>1. at'[n] = a /\ prog' = prog /\ mach' = mach /\ node # NoNode
  BY DoneGrows
<1>2. Fits(mach, n, s, prog.scope[n], a)
  BY ReadyFits
<1>3. g.end.op # "gc" => Means(mach, n, s, prog.scope[n], a, g.ins)
  BY <1>2, MeansIf
<1>4. g.blk = a.blk /\ g.blk.k \in {"bb", "ok"}
  BY <1>1 DEF BlockInv, TermInv, InsertPointOpen, BB, Blk, Now
<1>5. s = prog'.stm[n]
  BY <1>1 DEF S
<1> QED
  BY <1>1, <1>2, <1>3, <1>4, <1>5 DEF MainRight

LEMMA TurnCode ==
  ASSUME TypeOK, TypeOK', RegsInv, RegsInv', BlockInv, BlockInv', DomInv, CodeInv,
         NEW es \in Seq(GroupType), NEW new \in Seq(Task), OutTurn(es), VarTurn(new), OverflowRaises'
  PROVE  CodeInv'
BY OutStep, VarStep DEF CodeInv

(* The overflow block stays. *)
LEMMA RaisesStay ==
  ASSUME TypeOK, CodeInv, NEW es \in Seq(GroupType), out' = out \o es, ovBB' = ovBB
  PROVE  OverflowRaises'
<1>1. ovBB # NoBlock => Raises(ovBB.at)
  BY DEF CodeInv, OverflowRaises
<1> QED
  BY <1>1, GrownCode DEF OverflowRaises, Raises

(* A statement with one group of instructions *)
CodeTurn(new, ins, end) ==
  /\ VarTurn(new)
  /\ inc \subseteq inc' /\ ovBB' = ovBB
  /\ Emit(ins, end)
  /\ end.op \notin {"raise", "unreachable"}
  /\ InsDefs(ins) \subseteq Own(node) \cup {NoVal}
  /\ end.op # "gc" => DoesAll(mach, node, S, prog.scope[node], Now, ins)
  /\ \/ node' = NoNode
     \/ node' \in Children(prog, node) /\ bb' = bb /\ end.op \in {"fall", "gc"}
     \/ node' \in Children(prog, node) /\ S.prim = "TRAP" /\ bb' = Blk("ok", node)
     \/ node' \in Heads /\ bb' = BB(node')

LEMMA OneCode ==
  ASSUME TypeOK, TypeOK', RegsInv, RegsInv', BlockInv, BlockInv', DomInv, CodeInv,
         NEW new \in Seq(Task), NEW ins, NEW end, CodeTurn(new, ins, end),
         NEW n, n = node, NEW s, s = S, NEW a, a = Now, NEW g, g = Group(n, bb, ins, end),
         EndRight(n, s, a, g)'
  PROVE  CodeInv'
<1> DEFINE es == <<g>>
<1>1. /\ phase = "gen" /\ node \in Node /\ UNCHANGED <<prog, mach>> /\ Visit
      /\ VarTurn(new) /\ inc \subseteq inc' /\ ovBB' = ovBB
      /\ g.at = n /\ g.blk = bb /\ g.ins = ins /\ g.end = end
  BY DEF CodeTurn, VarTurn, Group
<1>2. out' = out \o es
  <2>1. out' = Append(out, g) /\ out \in Seq(GroupType)
    BY DEF CodeTurn, Emit, TypeOK
  <2> QED
    BY <2>1, AppendIsConcat
<1>3. es \in Seq(GroupType)
  <2>1. es \in Seq({g})
    OBVIOUS
  <2> HIDE DEF es
  <2> QED
    BY <1>2, <2>1, Appended
<1>4. Len(es) = 1 /\ DOMAIN es = {1} /\ es[1] = g
  OBVIOUS
<1> HIDE DEF es
<1>5. DefsOwn
  BY DEF CodeInv
<1>6. MainRight(g)'
  <2>1. g.end.op # "gc" => DoesAll(mach, node, S, prog.scope[node], Now, g.ins)
    BY <1>1 DEF CodeTurn
  <2> QED
    BY <1>1, <1>5, <2>1, MainNow
<1>7. Main(g)
  BY <1>1 DEF Main, CodeTurn
<1>8. GroupsRightIn(es)'
  BY <1>4, <1>6, <1>7 DEF GroupsRightIn
<1>9. \A c \in Elems(g.ins) : c.def \in Own(node) \cup {NoVal}
  BY <1>1 DEF CodeTurn, InsDefs
<1>10. \/ node' = NoNode
       \/ node' \in Children(prog, node) /\ bb' = bb /\ es[Len(es)].end.op \in {"fall", "gc"}
       \/ node' \in Children(prog, node) /\ S.prim = "TRAP" /\ bb' = Blk("ok", node)
       \/ node' \in Heads /\ bb' = BB(node')
  BY <1>1, <1>4 DEF CodeTurn
<1>11. OutTurn(es)
  BY <1>1, <1>2, <1>4, <1>7, <1>8, <1>9, <1>10 DEF OutTurn
<1>12. OverflowRaises'
  BY <1>1, <1>2, <1>3, RaisesStay
<1> QED
  BY <1>1, <1>3, <1>11, <1>12, TurnCode

(* What loads, stores and operations define *)
LEMMA DefinesOwn ==
  ASSUME node \in Node
  PROVE  /\ \A r \in Reg : InsDefs(Load(r)) \subseteq Own(node) \cup {NoVal}
         /\ \A r \in Reg : \A v : InsDefs(Store(r, v)) \subseteq Own(node) \cup {NoVal}
         /\ \A x \in Reg \cup Var : \A args : InsDefs(<<Op(x, args)>>) \subseteq Own(node) \cup {NoVal}
<1>1. \A z \in Reg \cup Var : V("ins", node, z) \in Own(node) /\ V("load", node, z) \in Own(node)
  BY OwnApart
<1>2. ASSUME NEW r \in Reg PROVE InsDefs(Load(r)) \subseteq Own(node) \cup {NoVal}
  <2> DEFINE i == Instr("load", V("load", node, r), r, <<>>)
  <2>1. Load(r) = <<>> \/ Load(r) = <<i>>
    BY DEF Load
  <2>2. i.def = V("load", node, r)
    BY DEF Instr
  <2> HIDE DEF i
  <2>3. InsDefs(<<>>) = {} /\ InsDefs(<<i>>) = {i.def}
    BY ElemsShort
  <2> QED
    BY <1>1, <2>1, <2>2, <2>3
<1>3. ASSUME NEW r \in Reg, NEW v PROVE InsDefs(Store(r, v)) \subseteq Own(node) \cup {NoVal}
  <2> DEFINE i == Instr("store", NoVal, r, <<v>>)
  <2>1. Store(r, v) = <<>> \/ Store(r, v) = <<i>>
    BY DEF Store
  <2>2. i.def = NoVal
    BY DEF Instr
  <2> HIDE DEF i
  <2>3. InsDefs(<<>>) = {} /\ InsDefs(<<i>>) = {i.def}
    BY ElemsShort
  <2> QED
    BY <2>1, <2>2, <2>3
<1>4. ASSUME NEW x \in Reg \cup Var, NEW args PROVE InsDefs(<<Op(x, args)>>) \subseteq Own(node) \cup {NoVal}
  <2>1. Op(x, args).def = V("ins", node, x)
    BY DEF Op, Instr
  <2> QED
    BY <1>1, <2>1, ElemsShort
<1> QED
  BY <1>2, <1>3, <1>4

(* A statement with one continuation, and what it makes of the variables *)
LineTurn(ins) ==
  /\ phase = "gen" /\ node \in Node
  /\ UNCHANGED <<prog, mach, todo, bb, ovBB, inc>>
  /\ Visit
  /\ Len(S.next) = 1 /\ node' = S.next[1]
  /\ S.op \in {"LET", "ALLOC", "ARITH", "SETTER"} /\ S.prim # "TRAP"
  /\ \A x \in Var : vMap'[x] = VarVals(node, S, Now)[x]
  /\ Emit(ins, Fall)
  /\ InsDefs(ins) \subseteq Own(node) \cup {NoVal}
  /\ DoesAll(mach, node, S, prog.scope[node], Now, ins)

LEMMA LineCode ==
  ASSUME TypeOK, TypeOK', RegsInv, RegsInv', BlockInv, BlockInv', DomInv, CodeInv,
         NEW ins, LineTurn(ins)
  PROVE  CodeInv'
<1> DEFINE none == <<>>
           end == Fall
<1>1. none \in Seq(Task) /\ todo = none \o todo /\ DOMAIN none = {}
  BY NoArms
<1>2. end.op = "fall"
  BY DEF Fall, End
<1> HIDE DEF none
<1>3. /\ phase = "gen" /\ node \in Node /\ UNCHANGED <<prog, mach, todo, bb, ovBB, inc>> /\ Visit
      /\ Len(S.next) = 1 /\ node' = S.next[1] /\ Emit(ins, end)
      /\ S.op \in {"LET", "ALLOC", "ARITH", "SETTER"} /\ S.prim # "TRAP"
  BY DEF LineTurn
<1> HIDE DEF end
<1>4. node' \in Children(prog, node)
  BY <1>3, NextFacts
<1>5. VarTurn(none)
  BY <1>1, <1>3, <1>4 DEF VarTurn, LineTurn
<1>6. CodeTurn(none, ins, end)
  BY <1>2, <1>3, <1>4, <1>5 DEF CodeTurn, LineTurn
<1>7. PICK n, s, a, g : n = node /\ s = S /\ a = Now /\ g = Group(n, bb, ins, end)
  OBVIOUS
<1>8. EndRight(n, s, a, g)'
  BY <1>2, <1>3, <1>7 DEF EndRight, Group
<1> QED
  BY <1>1, <1>6, <1>7, <1>8, OneCode

(* The results of a statement *)
LEMMA VarsBound ==
  ASSUME TypeOK, RegsInv, DomInv, node \in Node
  PROVE  /\ S.res = <<>> /\ vMap' = vMap => \A x \in Var : vMap'[x] = VarVals(node, S, Now)[x]
         /\ \A v : Len(S.res) = 1 /\ vMap' = Bind(vMap, S.res[1], v) /\ v = VarVals(node, S, Now)[S.res[1]]
              => \A x \in Var : vMap'[x] = VarVals(node, S, Now)[x]
<1>1. \A x \in Var : x \notin Elems(S.res) => VarVals(node, S, Now)[x] = vMap[x]
  BY DEF VarVals, Now
<1>2. ASSUME S.res = <<>>, vMap' = vMap, NEW x \in Var PROVE vMap'[x] = VarVals(node, S, Now)[x]
  <2>1. Elems(S.res) = {}
    BY <1>2 DEF Elems
  <2> QED
    BY <1>1, <1>2, <2>1
<1>3. ASSUME NEW v, Len(S.res) = 1, vMap' = Bind(vMap, S.res[1], v), v = VarVals(node, S, Now)[S.res[1]],
             NEW x \in Var
      PROVE  vMap'[x] = VarVals(node, S, Now)[x]
  <2>1. /\ \A z \in Elems(S.res) : vMap'[z] = v
        /\ x \notin Elems(S.res) => vMap'[x] = vMap[x]
    <3>1. /\ \A z \in Elems(S.res) : vMap'[z] = v
          /\ \A z \in Var : vMap'[z] = vMap[z] \/ z \in Elems(S.res)
      BY <1>3, BindFresh
    <3> QED
      BY <3>1
  <2>2. Elems(S.res) = {S.res[1]}
    <3>1. S \in Stm
      BY ArgTypes
    <3> QED
      BY <1>3, <3>1, OneResult
  <2>3. CASE x \in Elems(S.res)
    BY <1>3, <2>1, <2>2, <2>3
  <2>4. CASE x \notin Elems(S.res)
    BY <1>1, <2>1, <2>4
  <2> QED
    BY <2>3, <2>4
<1> QED
  BY <1>2, <1>3

LEMMA LetCode ==
  ASSUME TypeOK, TypeOK', RegsInv, RegsInv', BlockInv, BlockInv', DomInv, CodeInv, GenLet
  PROVE  CodeInv'
<1>1. node \in Node /\ S \in Stm /\ Arity(S) /\ S.op = "LET"
  BY RunningFacts DEF GenLet
<1>2. Len(S.next) = 1 /\ Len(S.res) = 1 /\ S.reg \in Reg
  BY <1>1 DEF Arity, Stm
<1>3. /\ phase = "gen" /\ Visit /\ node' = S.next[1]
      /\ UNCHANGED <<prog, mach, todo, bb, ovBB, inc>> /\ DefsOwn
  BY DEF GenLet, Running, const, ovVars, CodeInv
<1>4. S.res[1] \in Elems(S.res) /\ S.res[1] \in Var
  BY <1>1, <1>2, OneResult
<1>5. ASSUME NEW ins, Emit(ins, Fall), vMap' = Bind(vMap, S.res[1], VarVals(node, S, Now)[S.res[1]]),
             InsDefs(ins) \subseteq Own(node) \cup {NoVal}, S.prim # "TRAP",
             DoesAll(mach, node, S, prog.scope[node], Now, ins)
      PROVE  CodeInv'
  <2>1. \A x \in Var : vMap'[x] = VarVals(node, S, Now)[x]
    BY <1>1, <1>2, <1>5, VarsBound
  <2>2. LineTurn(ins)
    BY <1>1, <1>2, <1>3, <1>5, <2>1 DEF LineTurn
  <2> QED
    BY <2>2, LineCode
<1>6. CASE S.prim = "VAR" /\ Emit(<<>>, Fall) /\ vMap' = Bind(vMap, S.res[1], Args[1])
  <2> DEFINE ins == <<>>
  <2>1. Args[1] = VarVals(node, S, Now)[S.res[1]]
    <3>1. Len(S.args) = 1 /\ S.args \in Seq(Var)
      BY <1>1, <1>6 DEF Arity, Stm
    <3>2. 1 \in DOMAIN S.args
      BY <3>1
    <3> QED
      BY <1>4, <1>6, <3>2 DEF Args, VarVals, Now
  <2>2. InsDefs(ins) = {} /\ Emit(ins, Fall)
    BY <1>6, ElemsShort
  <2>3. DoesAll(mach, node, S, prog.scope[node], Now, ins)
    BY <1>1, <1>3, <1>6, VarDoes
  <2> HIDE DEF ins
  <2> QED
    BY <1>5, <1>6, <2>1, <2>2, <2>3
<1>7. CASE LET z == S.res[1] IN
           S.prim = "PURE" /\ Emit(<<Op(z, Args)>>, Fall) /\ vMap' = Bind(vMap, z, V("ins", node, z))
  <2> DEFINE ins == <<Op(S.res[1], Args)>>
  <2>1. V("ins", node, S.res[1]) = VarVals(node, S, Now)[S.res[1]]
    BY <1>4, <1>7 DEF VarVals
  <2>2. Emit(ins, Fall) /\ vMap' = Bind(vMap, S.res[1], V("ins", node, S.res[1])) /\ S.prim = "PURE"
    BY <1>7
  <2>3. InsDefs(ins) \subseteq Own(node) \cup {NoVal}
    BY <1>1, <1>4, DefinesOwn
  <2>4. DoesAll(mach, node, S, prog.scope[node], Now, ins)
    BY <1>1, <1>3, <2>2, OpDoes
  <2> HIDE DEF ins
  <2> QED
    BY <1>5, <2>1, <2>2, <2>3, <2>4
<1>8. CASE S.prim = "GET" /\ Emit(Load(S.reg), Fall) /\ vMap' = Bind(vMap, S.res[1], RegVal(S.reg))
  <2>1. RegVal(S.reg) = VarVals(node, S, Now)[S.res[1]]
    BY <1>4, <1>8 DEF VarVals, Now, RegVal
  <2>2. InsDefs(Load(S.reg)) \subseteq Own(node) \cup {NoVal}
    BY <1>1, <1>2, DefinesOwn
  <2>3. DoesAll(mach, node, S, prog.scope[node], Now, Load(S.reg))
    BY <1>1, <1>3, <1>8, GetDoes
  <2> QED
    BY <1>5, <1>8, <2>1, <2>2, <2>3
<1> QED
  BY <1>6, <1>7, <1>8 DEF GenLet

LEMMA AllocCodeRight ==
  ASSUME TypeOK, TypeOK', RegsInv, RegsInv', BlockInv, BlockInv', DomInv, CodeInv, GenAlloc
  PROVE  CodeInv'
<1>1. node \in Node /\ S \in Stm /\ Arity(S) /\ S.op = "ALLOC"
  BY RunningFacts DEF GenAlloc
<1>2. Len(S.next) = 1 /\ Len(S.res) = 1 /\ S.prim \notin {"TRAP", "VAR", "GET"}
  BY <1>1 DEF Arity
<1>3. /\ phase = "gen" /\ Visit /\ node' = S.next[1]
      /\ UNCHANGED <<prog, mach, todo, bb, ovBB, inc>> /\ DefsOwn
  BY DEF GenAlloc, Running, const, ovVars, CodeInv
<1>4. S.res[1] \in Elems(S.res) /\ S.res[1] \in Var
  BY <1>1, <1>2, OneResult
<1>5. \A x \in Var : vMap'[x] = VarVals(node, S, Now)[x]
  <2>1. vMap' = Bind(vMap, S.res[1], V("ins", node, S.res[1]))
    BY DEF GenAlloc
  <2>2. V("ins", node, S.res[1]) = VarVals(node, S, Now)[S.res[1]]
    BY <1>2, <1>4 DEF VarVals
  <2> QED
    BY <1>1, <1>2, <2>1, <2>2, VarsBound
<1> DEFINE ins == AllocCode(S.res[1])
           x == S.res[1]
           l == Load("ALLOC")
           o == <<Op(x, <<RegVal("ALLOC")>> \o Args), Op("ALLOC", <<RegVal("ALLOC")>>)>>
           t == Store("ALLOC", V("ins", node, "ALLOC"))
<1>6. Emit(ins, Fall)
  BY DEF GenAlloc, AllocRecord, AllocCode
<1>7. DoesAll(mach, node, S, prog.scope[node], Now, ins)
  BY <1>1, <1>3, AllocDoes
<1>8. InsDefs(ins) \subseteq Own(node) \cup {NoVal}
  <2>1. /\ InsDefs(l) \subseteq Own(node) \cup {NoVal} /\ InsDefs(t) \subseteq Own(node) \cup {NoVal}
    BY <1>1, DefinesOwn DEF Reg
  <2>2. InsDefs(o) \subseteq Own(node) \cup {NoVal}
    <3>1. /\ Op(x, <<RegVal("ALLOC")>> \o Args).def = V("ins", node, x)
          /\ Op("ALLOC", <<RegVal("ALLOC")>>).def = V("ins", node, "ALLOC")
      BY DEF Op, Instr
    <3>2. V("ins", node, x) \in Own(node) /\ V("ins", node, "ALLOC") \in Own(node)
      BY <1>1, <1>4, OwnApart DEF Reg
    <3> DEFINE c == Op(x, <<RegVal("ALLOC")>> \o Args)
               d == Op("ALLOC", <<RegVal("ALLOC")>>)
    <3> HIDE DEF c, d
    <3>3. InsDefs(<<c, d>>) = {c.def, d.def}
      BY DEF InsDefs, Elems
    <3> QED
      BY <3>1, <3>2, <3>3 DEF c, d
  <2>3. l \in Seq(InstrType) /\ t \in Seq(InstrType) /\ o \in Seq(InstrType) /\ ins = (l \o o) \o t
    <3>1. regState \in Regs /\ "ALLOC" \in Reg /\ Args \in Seq(NVal) /\ RegVal("ALLOC") \in NVal
      BY <1>1, ArgTypes, RegHelpers DEF TypeOK, Reg
    <3>2. V("ins", node, "ALLOC") \in NVal
      BY <1>1, NameTypes DEF NVal, Reg
    <3>3. l \in Seq(InstrType) /\ t \in Seq(InstrType)
      BY <1>1, <3>1, <3>2, RegHelpers
    <3>4. <<RegVal("ALLOC")>> \in Seq(NVal)
      BY <3>1
    <3>5. <<RegVal("ALLOC")>> \o Args \in Seq(NVal)
      BY <3>1, <3>4, ConcatProperties
    <3>6. Op(x, <<RegVal("ALLOC")>> \o Args) \in InstrType /\ Op("ALLOC", <<RegVal("ALLOC")>>) \in InstrType
      BY <1>1, <1>4, <3>1, <3>4, <3>5, OpType
    <3>7. ins = (l \o o) \o t
      BY DEF AllocCode
    <3> QED
      BY <3>3, <3>6, <3>7
  <2> HIDE DEF l, o, t, ins
  <2>4. l \o o \in Seq(InstrType) /\ InsDefs(l \o o) = InsDefs(l) \cup InsDefs(o)
    BY <2>3, ElemsConcat, ConcatProperties
  <2> DEFINE u == l \o o
  <2>5. u \in Seq(InstrType) /\ InsDefs(u) = InsDefs(l) \cup InsDefs(o) /\ ins = u \o t
    BY <2>3, <2>4
  <2> HIDE DEF u
  <2>6. InsDefs(u \o t) = InsDefs(u) \cup InsDefs(t)
    BY <2>3, <2>5, ElemsConcat
  <2> QED
    BY <2>1, <2>2, <2>5, <2>6
<1> HIDE DEF ins
<1>9. LineTurn(ins)
  BY <1>1, <1>2, <1>3, <1>5, <1>6, <1>7, <1>8 DEF LineTurn
<1> QED
  BY <1>9, LineCode

LEMMA DivCode ==
  ASSUME TypeOK, TypeOK', RegsInv, RegsInv', BlockInv, BlockInv', DomInv, CodeInv, GenArith, S.prim = "DIV"
  PROVE  CodeInv'
<1>1. node \in Node /\ S \in Stm /\ Arity(S) /\ S.op = "ARITH"
  BY RunningFacts DEF GenArith
<1>2. Len(S.next) = 1 /\ Len(S.res) = 1
  BY <1>1 DEF Arity
<1>3. /\ phase = "gen" /\ Visit /\ node' = S.next[1] /\ Emit(<<Op(S.res[1], Args)>>, Fall)
      /\ UNCHANGED <<prog, mach, todo, bb, ovBB, inc>> /\ DefsOwn
  BY DEF GenArith, Running, const, ovVars, CodeInv
<1>4. S.res[1] \in Elems(S.res) /\ S.res[1] \in Var
  BY <1>1, <1>2, OneResult
<1>5. \A x \in Var : vMap'[x] = VarVals(node, S, Now)[x]
  <2>1. vMap' = Bind(vMap, S.res[1], V("ins", node, S.res[1]))
    BY DEF GenArith
  <2>2. V("ins", node, S.res[1]) = VarVals(node, S, Now)[S.res[1]]
    BY <1>2, <1>4 DEF VarVals
  <2> QED
    BY <1>1, <1>2, <2>1, <2>2, VarsBound
<1> DEFINE ins == <<Op(S.res[1], Args)>>
<1>6. DoesAll(mach, node, S, prog.scope[node], Now, ins)
  BY <1>1, <1>3, OpDoes
<1>7. InsDefs(ins) \subseteq Own(node) \cup {NoVal}
  BY <1>1, <1>4, DefinesOwn
<1>8. Emit(ins, Fall)
  BY <1>3
<1> HIDE DEF ins
<1>9. LineTurn(ins)
  BY <1>1, <1>2, <1>3, <1>5, <1>6, <1>7, <1>8 DEF LineTurn
<1> QED
  BY <1>9, LineCode

(* Instructions that define values of the statement *)
OwnCode(a) == a \in Seq(InstrType) /\ InsDefs(a) \subseteq Own(node) \cup {NoVal}

LEMMA OwnThen ==
  ASSUME NEW a, NEW b, OwnCode(a), OwnCode(b)
  PROVE  OwnCode(a \o b)
<1>1. a \in Seq(InstrType) /\ b \in Seq(InstrType)
  BY DEF OwnCode
<1>2. a \o b \in Seq(InstrType) /\ InsDefs(a \o b) = InsDefs(a) \cup InsDefs(b)
  BY <1>1, ElemsConcat, ConcatProperties
<1> QED
  BY <1>2 DEF OwnCode

LEMMA RecordOwn ==
  ASSUME TypeOK, node \in Node
  PROVE  OwnCode(RecordCode)
<1> DEFINE alloc == RegVal("ALLOC")
           store == RegVal("STORE")
           cell == V("ins", node, "STORE")
           new == V("ins", node, "ALLOC")
           two == <<alloc, store>>
           c == Op("STORE", two \o Args)
           d == Op("ALLOC", <<alloc>>)
           l1 == Load("ALLOC")
           l2 == Load("STORE")
           o1 == <<c>>
           s1 == Store("STORE", cell)
           o2 == <<d>>
           s2 == Store("ALLOC", new)
<1>1. RecordCode = ((((l1 \o l2) \o o1) \o s1) \o o2) \o s2
  BY DEF RecordCode
<1>2. "ALLOC" \in Reg /\ "STORE" \in Reg
  BY DEF Reg
<1>3. /\ alloc \in NVal /\ store \in NVal /\ Args \in Seq(NVal)
      /\ l1 \in Seq(InstrType) /\ l2 \in Seq(InstrType)
      /\ s1 \in Seq(InstrType) /\ s2 \in Seq(InstrType)
  BY <1>2, RegHelpers, ArgTypes, NameTypes DEF TypeOK, NVal
<1>4. o1 \in Seq(InstrType) /\ o2 \in Seq(InstrType)
  <2>1. <<alloc>> \in Seq(NVal) /\ two \in Seq(NVal)
    BY <1>3
  <2>2. two \o Args \in Seq(NVal)
    <3> HIDE DEF two
    <3> QED
      BY <1>3, <2>1, ConcatProperties
  <2>3. c \in InstrType /\ d \in InstrType
    <3> HIDE DEF two
    <3> QED
      BY <1>2, <2>1, <2>2, OpType
  <2> HIDE DEF c, d
  <2> QED
    BY <2>3
<1>5. /\ InsDefs(l1) \subseteq Own(node) \cup {NoVal} /\ InsDefs(l2) \subseteq Own(node) \cup {NoVal}
      /\ InsDefs(s1) \subseteq Own(node) \cup {NoVal} /\ InsDefs(s2) \subseteq Own(node) \cup {NoVal}
      /\ InsDefs(o1) \subseteq Own(node) \cup {NoVal} /\ InsDefs(o2) \subseteq Own(node) \cup {NoVal}
  BY <1>2, DefinesOwn
<1> HIDE DEF l1, l2, o1, o2, s1, s2
<1>6. OwnCode(l1) /\ OwnCode(l2) /\ OwnCode(o1) /\ OwnCode(s1) /\ OwnCode(o2) /\ OwnCode(s2)
  BY <1>3, <1>4, <1>5 DEF OwnCode
<1> DEFINE a2 == l1 \o l2
           a3 == a2 \o o1
           a4 == a3 \o s1
           a5 == a4 \o o2
<1>7. RecordCode = a5 \o s2
  BY <1>1
<1>8. OwnCode(a2)
  BY <1>6, OwnThen
<1> HIDE DEF a2
<1>9. OwnCode(a3)
  BY <1>6, <1>8, OwnThen
<1> HIDE DEF a3
<1>10. OwnCode(a4)
  BY <1>6, <1>9, OwnThen
<1> HIDE DEF a4
<1>11. OwnCode(a5)
  BY <1>6, <1>10, OwnThen
<1> HIDE DEF a5
<1>12. OwnCode(a5 \o s2)
  BY <1>6, <1>11, OwnThen
<1> QED
  BY <1>7, <1>12

LEMMA SetterCode ==
  ASSUME TypeOK, TypeOK', RegsInv, RegsInv', BlockInv, BlockInv', DomInv, CodeInv, GenSetter
  PROVE  CodeInv'
<1>1. node \in Node /\ S \in Stm /\ Arity(S) /\ S.op = "SETTER"
  BY RunningFacts DEF GenSetter
<1>2. Len(S.next) = 1 /\ S.res = <<>> /\ S.reg \in Reg /\ S.prim # "TRAP"
  BY <1>1 DEF Arity, Stm
<1>3. /\ phase = "gen" /\ Visit /\ node' = S.next[1]
      /\ UNCHANGED <<prog, mach, todo, bb, ovBB, inc, vMap>> /\ DefsOwn
  BY DEF GenSetter, Running, const, ovVars, CodeInv
<1>4. \A x \in Var : vMap'[x] = VarVals(node, S, Now)[x]
  BY <1>1, <1>2, <1>3, VarsBound
<1>5. ASSUME NEW ins, Emit(ins, Fall), InsDefs(ins) \subseteq Own(node) \cup {NoVal},
             DoesAll(mach, node, S, prog.scope[node], Now, ins)
      PROVE  CodeInv'
  <2>1. LineTurn(ins)
    BY <1>1, <1>2, <1>3, <1>4, <1>5 DEF LineTurn
  <2> QED
    BY <2>1, LineCode
<1>6. CASE S.prim = "SET" /\ SetSpecial(S.reg, Args[1])
  <2> DEFINE ins == Store(S.reg, Args[1])
  <2>1. Emit(ins, Fall)
    BY <1>6 DEF SetSpecial
  <2>2. InsDefs(ins) \subseteq Own(node) \cup {NoVal}
    BY <1>1, <1>2, DefinesOwn
  <2>3. DoesAll(mach, node, S, prog.scope[node], Now, ins)
    BY <1>1, <1>3, <1>6, SetDoes
  <2> HIDE DEF ins
  <2> QED
    BY <1>5, <2>1, <2>2, <2>3
<1>7. CASE S.prim = "RECORD" /\ RecordStore
  <2>1. Emit(RecordCode, Fall)
    BY <1>7 DEF RecordStore, RecordCode
  <2>2. InsDefs(RecordCode) \subseteq Own(node) \cup {NoVal}
    BY <1>1, RecordOwn DEF OwnCode
  <2>3. DoesAll(mach, node, S, prog.scope[node], Now, RecordCode)
    BY <1>1, <1>3, <1>7, RecordDoes
  <2> QED
    BY <1>5, <2>1, <2>2, <2>3
<1>8. CASE S.prim = "POKE" /\ Emit(<<>>, Fall) /\ UNCHANGED regState
  <2> DEFINE ins == <<>>
  <2>1. Emit(ins, Fall) /\ InsDefs(ins) \subseteq Own(node) \cup {NoVal}
    BY <1>8, ElemsShort
  <2>2. DoesAll(mach, node, S, prog.scope[node], Now, ins)
    BY <1>1, <1>3, <1>8, NothingDoes
  <2> HIDE DEF ins
  <2> QED
    BY <1>5, <2>1, <2>2
<1> QED
  BY <1>6, <1>7, <1>8 DEF GenSetter

LEMMA GCCode ==
  ASSUME TypeOK, TypeOK', RegsInv, RegsInv', BlockInv, BlockInv', DomInv, CodeInv, GenCallGC
  PROVE  CodeInv'
<1> DEFINE end == End("gc", <<>>, regState, Args)
           ins == <<>>
           none == <<>>
<1>1. node \in Node /\ S \in Stm /\ Arity(S) /\ S.op = "CALLGC"
  BY RunningFacts DEF GenCallGC
<1>2. Len(S.next) = 1 /\ S.prim \notin {"VAR", "GET"}
  BY <1>1 DEF Arity
<1>3. /\ phase = "gen" /\ Visit /\ node' = S.next[1] /\ UNCHANGED <<prog, mach, todo, bb, ovBB, inc>>
      /\ Emit(ins, end) /\ vMap' = BindAll(vMap, S.res, "ins", node)
  BY DEF GenCallGC, Running, const, ovVars
<1>4. \A x \in Var : vMap'[x] = VarVals(node, S, Now)[x]
  <2>1. \A x \in Elems(S.res) : vMap[x] = NoVal
    BY <1>1, ResFresh
  <2> QED
    BY <1>2, <1>3, <2>1 DEF BindAll, VarVals, Now
<1>5. InsDefs(ins) = {} /\ none \in Seq(Task) /\ todo = none \o todo /\ DOMAIN none = {}
  BY ElemsShort, NoArms
<1>6. node' \in Children(prog, node)
  BY <1>1, <1>2, <1>3, NextFacts
<1>7. end.op = "gc" /\ end.regs = Now.regs /\ end.args = ArgVals(S, Now)
  BY ArgsNow DEF End, Now
<1>8. ins = <<>>
  OBVIOUS
<1> HIDE DEF ins, none, end
<1>9. VarTurn(none)
  BY <1>1, <1>3, <1>4, <1>5, <1>6 DEF VarTurn
<1>10. CodeTurn(none, ins, end)
  BY <1>3, <1>5, <1>6, <1>7, <1>9 DEF CodeTurn
<1>11. PICK n, s, a, g : n = node /\ s = S /\ a = Now /\ g = Group(n, bb, ins, end)
  OBVIOUS
<1>12. EndRight(n, s, a, g)'
  <2>1. g.end = end /\ g.ins = <<>>
    BY <1>8, <1>11 DEF Group
  <2> QED
    BY <1>1, <1>7, <1>11, <2>1 DEF EndRight
<1> QED
  BY <1>5, <1>10, <1>11, <1>12, OneCode

LEMMA CallCode ==
  ASSUME TypeOK, TypeOK', RegsInv, RegsInv', BlockInv, BlockInv', DomInv, CodeInv, GenApply \/ GenThrow
  PROVE  CodeInv'
<1> DEFINE end == End("call", <<>>, regState, Args)
           ins == <<>>
           none == <<>>
<1>1. node \in Node /\ S \in Stm /\ Arity(S) /\ S.op \in {"APPLY", "THROW"}
  BY RunningFacts DEF GenApply, GenThrow
<1>2. S.res = <<>>
  BY <1>1 DEF Arity
<1>3. /\ phase = "gen" /\ Visit /\ node' = NoNode /\ UNCHANGED <<prog, mach, todo, bb, ovBB, inc, vMap>>
      /\ Emit(ins, end)
  BY DEF GenApply, GenThrow, TailCall, Running, const, ovVars
<1>4. \A x \in Var : vMap'[x] = VarVals(node, S, Now)[x]
  BY <1>1, <1>2, <1>3, VarsBound
<1>5. InsDefs(ins) = {} /\ none \in Seq(Task) /\ todo = none \o todo /\ DOMAIN none = {}
  BY ElemsShort, NoArms
<1>6. DoesAll(mach, node, S, prog.scope[node], Now, ins)
  <2>1. DefsOwn
    BY DEF CodeInv
  <2> QED
    BY <1>1, <2>1, NothingDoes
<1>7. end.op = "call" /\ end.regs = Now.regs /\ end.args = ArgVals(S, Now)
  BY ArgsNow DEF End, Now
<1>8. ins = <<>>
  OBVIOUS
<1> HIDE DEF ins, none, end
<1>9. VarTurn(none)
  BY <1>1, <1>3, <1>4, <1>5 DEF VarTurn
<1>10. CodeTurn(none, ins, end)
  BY <1>3, <1>5, <1>6, <1>7, <1>9 DEF CodeTurn
<1>11. PICK n, s, a, g : n = node /\ s = S /\ a = Now /\ g = Group(n, bb, ins, end)
  OBVIOUS
<1>12. EndRight(n, s, a, g)'
  <2>1. g.end = end /\ g.ins = <<>>
    BY <1>8, <1>11 DEF Group
  <2> QED
    BY <1>1, <1>7, <1>11, <2>1 DEF EndRight
<1> QED
  BY <1>5, <1>10, <1>11, <1>12, OneCode

(* A BRANCH or SWITCH tests what CFGSem tests. *)
LEMMA TestHeld ==
  ASSUME TypeOK, RegsInv, DomInv, DefsOwn, node \in Node, S.op \in {"BRANCH", "SWITCH"}
  PROVE  Tests(node, S, prog.scope[node], Now, Test.ins, Test.args)
<1> DEFINE sc == prog.scope[node]
<1>1. Fits(mach, node, S, sc, Now)
  BY ReadyFits
<1> SUFFICES ASSUME NEW e, NEW f, IsFrame(f)
             PROVE  HeldAll(Run(node, Test.ins, [e |-> e, f |-> f]).e, Test.args)
                      = IF S.prim = "LIMIT" THEN <<RegsIn(Now.regs, e, f)["ALLOC"], RegsIn(Now.regs, e, f)["LIMIT"]>>
                        ELSE ArgsOf(S, VarsIn(Now.vars, sc, e))
  BY DEF Tests
<1> DEFINE p == [e |-> e, f |-> f]
           R == RegsIn(Now.regs, e, f)
<1>2. p.f = f /\ p.e = e /\ Kept(node, e, p.e) /\ R = RegsIn(regState, e, f)
  BY DEF Kept, Now
<1> HIDE DEF p, R
<1>3. CASE S.prim = "LIMIT"
  <2> DEFINE a == Load("ALLOC")
             b == Load("LIMIT")
             q == Run(node, a, p)
             u == Run(node, b, q)
  <2>1. "ALLOC" \in Reg /\ "LIMIT" \in Reg
    BY DEF Reg
  <2>2. a \in Seq(InstrType) /\ b \in Seq(InstrType)
    BY <2>1, RegHelpers DEF TypeOK
  <2>3. Run(node, a \o b, p) = u
    <3> HIDE DEF a, b
    <3> QED
      BY <2>2, RunConcat
  <2>4. Fetches("ALLOC", e, f, p, q)
    BY <1>2, <2>1, LoadHeld
  <2>5. q.f = f /\ Kept(node, e, q.e) /\ Held(q.e, RegVal("ALLOC")) = R["ALLOC"]
    BY <1>2, <2>4 DEF Fetches
  <2>6. Fetches("LIMIT", e, f, q, u)
    <3> HIDE DEF q
    <3> QED
      BY <2>1, <2>5, LoadHeld
  <2>7. RegVal("ALLOC") # V("load", node, "LIMIT")
    <3>1. regState["ALLOC"] # NoVal => RegVal("ALLOC") = regState["ALLOC"] /\ regState["ALLOC"] \notin Own(node)
      BY <1>1, <2>1 DEF Fits, Now, RegVal
    <3>2. regState["ALLOC"] = NoVal => RegVal("ALLOC") = V("load", node, "ALLOC")
      BY DEF RegVal
    <3>3. V("load", node, "ALLOC").nm = "ALLOC" /\ V("load", node, "LIMIT").nm = "LIMIT"
      BY DEF V
    <3>4. V("load", node, "LIMIT") \in Own(node)
      BY <2>1, OwnApart
    <3> QED
      BY <3>1, <3>2, <3>3, <3>4
  <2>8. Held(u.e, RegVal("ALLOC")) = R["ALLOC"] /\ Held(u.e, RegVal("LIMIT")) = R["LIMIT"]
    <3> HIDE DEF u, q
    <3> QED
      BY <1>2, <2>5, <2>6, <2>7 DEF Fetches
  <2>9. HeldAll(u.e, <<RegVal("ALLOC"), RegVal("LIMIT")>>) = <<R["ALLOC"], R["LIMIT"]>>
    <3> HIDE DEF u
    <3>1. HeldAll(u.e, <<RegVal("ALLOC"), RegVal("LIMIT")>>)
            = <<Held(u.e, RegVal("ALLOC")), Held(u.e, RegVal("LIMIT"))>>
      BY HeldShort
    <3> QED
      BY <2>8, <3>1
  <2>10. Test.ins = a \o b /\ Test.args = <<RegVal("ALLOC"), RegVal("LIMIT")>>
    BY <1>3 DEF Test
  <2> HIDE DEF u, a, b
  <2> QED
    BY <1>3, <2>3, <2>9, <2>10 DEF p, R
<1>4. CASE S.prim # "LIMIT"
  <2> DEFINE none == <<>>
  <2>1. Test.ins = none /\ Test.args = Args
    BY <1>4 DEF Test
  <2>2. Run(node, none, p) = p
    BY RunNone
  <2>3. HeldAll(p.e, Args) = ArgsOf(S, VarsIn(Now.vars, sc, e))
    BY <1>1, <1>2, ArgsHeld, ArgsNow
  <2> HIDE DEF none
  <2> QED
    BY <1>4, <2>1, <2>2, <2>3 DEF p
<1> QED
  BY <1>3, <1>4

LEMMA BranchCode ==
  ASSUME TypeOK, TypeOK', RegsInv, RegsInv', BlockInv, BlockInv', DomInv, CodeInv, GenBranch
  PROVE  CodeInv'
<1> DEFINE arm == [t |-> "arm", n |-> S.next[2], saved |-> regState]
           to == <<BB(S.next[1]), BB(S.next[2])>>
           end == Jump("br", to, Test.args)
           ins == Test.ins
           new == <<arm>>
<1>1. phase = "gen" /\ node \in Node /\ S.op = "BRANCH" /\ Arity(S) /\ S \in Stm /\ prog \in Programs
  BY RunningFacts DEF GenBranch, Running, TypeOK
<1>2. /\ todo' = new \o todo /\ node' = S.next[1] /\ bb' = BB(node') /\ Visit /\ Emit(ins, end)
      /\ UNCHANGED <<prog, mach, vMap, inc, ovBB>> /\ DefsOwn
  BY DEF GenBranch, const, ovVars, CodeInv
<1>3. Len(S.next) = 2 /\ S.res = <<>>
  BY <1>1 DEF Arity
<1>4. /\ S.next[1] \in Children(prog, node) /\ S.next[2] \in Children(prog, node) /\ S.next[2] \in Node
      /\ Children(prog, node) = {S.next[1], S.next[2]}
  <2>1. /\ DOMAIN S.next = 1..2
        /\ \A i \in DOMAIN S.next : S.next[i] \in Node /\ S.next[i] \in Children(prog, node)
    BY <1>1, <1>3, NextFacts
  <2>2. Children(prog, node) = {S.next[i] : i \in 1..2}
    BY <2>1 DEF Children, Elems, S
  <2> QED
    BY <2>1, <2>2
<1>5. \A x \in Var : vMap'[x] = VarVals(node, S, Now)[x]
  BY <1>1, <1>2, <1>3, VarsBound
<1>6. InsDefs(ins) \subseteq Own(node) \cup {NoVal} /\ DoesAll(mach, node, S, prog.scope[node], Now, ins)
  <2>1. CASE S.prim = "LIMIT"
    <3> DEFINE a == Load("ALLOC")
               b == Load("LIMIT")
    <3>1. "ALLOC" \in Reg /\ "LIMIT" \in Reg
      BY DEF Reg
    <3>2. a \in Seq(InstrType) /\ b \in Seq(InstrType)
      BY <1>1, <3>1, RegHelpers DEF TypeOK
    <3>3. InsDefs(a) \subseteq Own(node) \cup {NoVal} /\ InsDefs(b) \subseteq Own(node) \cup {NoVal}
      BY <1>1, <3>1, DefinesOwn
    <3>4. ins = a \o b
      BY <2>1 DEF Test
    <3>5. DoesAll(mach, node, S, prog.scope[node], Now, a \o b)
      BY <1>1, <1>2, NothingDoes
    <3> HIDE DEF a, b, ins
    <3>6. OwnCode(a \o b)
      BY <3>2, <3>3, OwnThen DEF OwnCode
    <3> QED
      BY <3>4, <3>5, <3>6 DEF OwnCode
  <2>2. CASE S.prim # "LIMIT"
    <3> DEFINE none == <<>>
    <3>1. ins = none
      BY <2>2 DEF Test
    <3>2. InsDefs(none) = {} /\ DoesAll(mach, node, S, prog.scope[node], Now, none)
      BY <1>1, <1>2, ElemsShort, NothingDoes
    <3> HIDE DEF none, ins
    <3> QED
      BY <3>1, <3>2
  <2> QED
    BY <2>1, <2>2
<1>7. Tests(node, S, prog.scope[node], Now, ins, Test.args)
  BY <1>1, <1>2, TestHeld
<1>8. end.op = "br" /\ end.to = to /\ end.args = Test.args
  BY DEF Jump, End
<1>9. Len(to) = 2 /\ {b \in Elems(to) : b.k # "impossible"} = {BB(m) : m \in Children(prog, node)}
  <2>1. BB(S.next[1]).k = "bb" /\ BB(S.next[2]).k = "bb"
    BY DEF BB, Blk
  <2>2. Elems(to) = {BB(S.next[1]), BB(S.next[2])}
    BY DEF Elems
  <2>3. {BB(m) : m \in Children(prog, node)} = {BB(S.next[1]), BB(S.next[2])}
    BY <1>4
  <2>4. Len(to) = 2
    OBVIOUS
  <2> HIDE DEF to
  <2> QED
    BY <2>1, <2>2, <2>3, <2>4
<1>10. arm.n = S.next[2] /\ arm \in Task
  BY <1>4 DEF Task, TypeOK
<1> HIDE DEF arm
<1>11. new \in Seq(Task) /\ DOMAIN new = {1} /\ new[1] = arm
  BY <1>10
<1> HIDE DEF new, end, ins, to
<1>12. VarTurn(new)
  BY <1>1, <1>2, <1>4, <1>5, <1>10, <1>11 DEF VarTurn
<1>13. node' \in Heads
  <2>1. node' \in Children(prog, node) /\ prog.stm[node].op = "BRANCH"
    BY <1>1, <1>2, <1>4 DEF S
  <2> QED
    BY <1>1, <2>1, ArmsOf DEF Heads
<1>14. CodeTurn(new, ins, end)
  BY <1>2, <1>6, <1>8, <1>12, <1>13 DEF CodeTurn
<1>15. PICK n, s, a, g : n = node /\ s = S /\ a = Now /\ g = Group(n, bb, ins, end)
  OBVIOUS
<1>16. EndRight(n, s, a, g)'
  <2>1. g.end = end /\ g.ins = ins
    BY <1>15 DEF Group
  <2>2. BranchRight(n, s, a, g)'
    <3>1. /\ s.op = "BRANCH" /\ Len(g.end.to) > 1 /\ g.end.op = "br"
          /\ {b \in Elems(g.end.to) : b.k # "impossible"} = {BB(m) : m \in Children(prog, n)}
      <4>1. g.end.to = to /\ g.end.op = "br" /\ n = node /\ s.op = "BRANCH"
        BY <1>1, <1>8, <1>15, <2>1
      <4>2. Len(to) > 1
        BY <1>9
      <4>3. {b \in Elems(g.end.to) : b.k # "impossible"} = {BB(m) : m \in Children(prog, n)}
        BY <1>9, <4>1, Zenon
      <4> QED
        BY <4>1, <4>2, <4>3
    <3>2. Tests(n, s, prog.scope[n], a, g.ins, g.end.args)
      BY <1>7, <1>8, <1>15, <2>1
    <3>3. prog' = prog
      BY <1>2
    <3> QED
      BY <3>1, <3>2, <3>3 DEF BranchRight
  <2> QED
    BY <1>8, <2>1, <2>2 DEF EndRight
<1> QED
  BY <1>11, <1>14, <1>15, <1>16, OneCode

LEMMA GotoCode ==
  ASSUME TypeOK, TypeOK', RegsInv, RegsInv', BlockInv, BlockInv', DomInv, CodeInv, GenGoto
  PROVE  CodeInv'
<1> DEFINE f == prog.frag[S.to]
           from(r, v) == [phi |-> V("phi", f.body, r), val |-> v, pred |-> bb]
           news == {from(r, regState[r]) : r \in mach} \cup {from(f.params[i], Args[i]) : i \in DOMAIN f.params}
           end == Jump("br", <<BB(f.body)>>, <<>>)
           ins == <<>>
           none == <<>>
<1>1. phase = "gen" /\ node \in Node /\ S.op = "GOTO" /\ Arity(S) /\ S \in Stm
  BY RunningFacts DEF GenGoto, Running
<1>2. node' = NoNode /\ Visit /\ Emit(ins, end) /\ UNCHANGED <<prog, mach, todo, vMap, ovBB>>
  BY DEF GenGoto, const, ovVars
<1>3. inc' = inc \cup news
  BY DEF GenGoto
<1>4. S.res = <<>>
  BY <1>1 DEF Arity
<1>5. DOMAIN f.params = DOMAIN Args /\ DOMAIN Args = DOMAIN S.args
  BY <1>1, GotoTarget, ArgTypes
<1>6. \A x \in Var : vMap'[x] = VarVals(node, S, Now)[x]
  BY <1>1, <1>2, <1>4, VarsBound
<1>7. InsDefs(ins) = {} /\ none \in Seq(Task) /\ todo = none \o todo /\ DOMAIN none = {}
  BY ElemsShort, NoArms
<1>8. DoesAll(mach, node, S, prog.scope[node], Now, ins)
  <2>1. DefsOwn
    BY DEF CodeInv
  <2> QED
    BY <1>1, <2>1, NothingDoes
<1>9. end.op = "br" /\ end.to = <<BB(f.body)>>
  BY DEF Jump, End
<1>10. /\ \A r \in mach : [phi |-> V("phi", f.body, r), val |-> regState[r], pred |-> bb] \in inc'
       /\ \A i \in DOMAIN S.args :
            [phi |-> V("phi", f.body, f.params[i]), val |-> vMap[S.args[i]], pred |-> bb] \in inc'
  <2>1. \A i \in DOMAIN S.args : Args[i] = vMap[S.args[i]]
    BY DEF Args
  <2> QED
    BY <1>3, <1>5, <2>1
<1> HIDE DEF news, end, ins, none
<1>11. VarTurn(none)
  BY <1>1, <1>2, <1>6, <1>7 DEF VarTurn
<1>12. CodeTurn(none, ins, end)
  BY <1>2, <1>3, <1>7, <1>8, <1>9, <1>11 DEF CodeTurn
<1>13. PICK n, s, a, g : n = node /\ s = S /\ a = Now /\ g = Group(n, bb, ins, end)
  OBVIOUS
<1>14. EndRight(n, s, a, g)'
  <2>1. g.end = end
    BY <1>13 DEF Group
  <2>2. a.regs = regState /\ a.vars = vMap /\ a.blk = bb
    BY <1>13 DEF Now
  <2>3. GotoRight(n, s, a, g)'
    <3>1. prog' = prog /\ mach' = mach
      BY <1>2
    <3>2. s.op = "GOTO" /\ g.end.to = <<BB(prog.frag[s.to].body)>>
      BY <1>1, <1>9, <1>13, <2>1
    <3>3. /\ \A r \in mach : [phi |-> V("phi", prog.frag[s.to].body, r), val |-> a.regs[r], pred |-> a.blk] \in inc'
          /\ \A i \in DOMAIN s.args :
               [phi |-> V("phi", prog.frag[s.to].body, prog.frag[s.to].params[i]), val |-> a.vars[s.args[i]],
                pred |-> a.blk] \in inc'
      BY <1>10, <1>13, <2>2
    <3> QED
      BY <3>1, <3>2, <3>3 DEF GotoRight, Entry
  <2> QED
    BY <1>9, <2>1, <2>3 DEF EndRight
<1> QED
  BY <1>7, <1>12, <1>13, <1>14, OneCode

(* A statement that emits group h of a block aside, then its own group g *)
PairTurn(new, h, g) ==
  /\ VarTurn(new)
  /\ inc \subseteq inc' /\ out' = out \o <<h, g>>
  /\ h.at = node /\ g.at = node
  /\ h.blk \in Asides /\ h.ins = <<>> /\ ~Main(h)
  /\ g.blk = bb /\ Main(g)
  /\ InsDefs(g.ins) \subseteq Own(node) \cup {NoVal}
  /\ DoesAll(mach, node, S, prog.scope[node], Now, g.ins)
  /\ \/ node' = NoNode
     \/ node' \in Children(prog, node) /\ S.prim = "TRAP" /\ bb' = Blk("ok", node)

LEMMA TwoCode ==
  ASSUME TypeOK, TypeOK', RegsInv, RegsInv', BlockInv, BlockInv', DomInv, CodeInv,
         NEW new \in Seq(Task), NEW h, NEW g, PairTurn(new, h, g),
         NEW n, n = node, NEW s, s = S, NEW a, a = Now,
         AsideRight(h)', EndRight(n, s, a, g)', OverflowRaises'
  PROVE  CodeInv'
<1> DEFINE es == <<h, g>>
<1>1. /\ phase = "gen" /\ node \in Node /\ UNCHANGED <<prog, mach>> /\ Visit
      /\ VarTurn(new) /\ inc \subseteq inc' /\ out' = out \o es
      /\ h.at = n /\ g.at = n /\ g.blk = bb /\ Main(g) /\ ~Main(h) /\ h.blk \in Asides
  BY DEF PairTurn, VarTurn
<1>2. es \in Seq(GroupType)
  <2>1. es \in Seq({h, g})
    OBVIOUS
  <2> HIDE DEF es
  <2> QED
    BY <1>1, <2>1, Appended
<1>3. Len(es) = 2 /\ DOMAIN es = {1, 2} /\ es[1] = h /\ es[2] = g
  OBVIOUS
<1> HIDE DEF es
<1>4. DefsOwn
  BY DEF CodeInv
<1>5. MainRight(g)'
  <2>1. DoesAll(mach, node, S, prog.scope[node], Now, g.ins)
    BY DEF PairTurn
  <2> QED
    BY <1>1, <1>4, <2>1, MainNow
<1>6. GroupsRightIn(es)'
  BY <1>1, <1>3, <1>5 DEF GroupsRightIn
<1>7. /\ \A c \in Elems(g.ins) : c.def \in Own(node) \cup {NoVal}
      /\ \A c \in Elems(h.ins) : c.def \in Own(node) \cup {NoVal}
  <2>1. h.ins = <<>>
    BY DEF PairTurn
  <2>2. Elems(h.ins) = {}
    BY <2>1, ElemsShort
  <2> QED
    BY <2>2 DEF PairTurn, InsDefs
<1>8. OutTurn(es)
  <2>1. \/ node' = NoNode
        \/ node' \in Children(prog, node) /\ S.prim = "TRAP" /\ bb' = Blk("ok", node)
    BY DEF PairTurn
  <2>2. \A i \in DOMAIN es :
          /\ es[i].at = node
          /\ \A c \in Elems(es[i].ins) : c.def \in Own(node) \cup {NoVal}
          /\ IF i = Len(es) THEN Main(es[i]) /\ es[i].blk = bb
             ELSE ~Main(es[i]) /\ es[i].blk \in Asides
    <3> TAKE i \in DOMAIN es
    <3>1. CASE i = 1
      BY <1>1, <1>3, <1>7, <3>1
    <3>2. CASE i = 2
      BY <1>1, <1>3, <1>7, <3>2
    <3> QED
      BY <1>3, <3>1, <3>2
  <2> QED
    BY <1>1, <1>3, <1>6, <2>1, <2>2 DEF OutTurn
<1> QED
  BY <1>1, <1>2, <1>8, TurnCode

LEMMA SwitchCode ==
  ASSUME TypeOK, TypeOK', RegsInv, RegsInv', BlockInv, BlockInv', DomInv, CodeInv, GenSwitch
  PROVE  CodeInv'
<1> DEFINE dflt == Blk("impossible", node)
           new == [i \in DOMAIN S.next |-> [t |-> "arm", n |-> S.next[i], saved |-> regState]]
           cases == [i \in DOMAIN S.next |-> BB(S.next[i])]
           to == cases \o <<dflt>>
           g1 == Group(node, dflt, <<>>, Jump("unreachable", <<>>, <<>>))
           g2 == Group(node, bb, <<>>, Jump("br", to, Args))
           none == <<>>
<1>1. phase = "gen" /\ node \in Node /\ S.op = "SWITCH" /\ Arity(S) /\ S \in Stm
  BY RunningFacts DEF GenSwitch, Running
<1>2. /\ todo' = new \o todo /\ node' = NoNode /\ Visit /\ out' = out \o <<g1, g2>>
      /\ UNCHANGED <<prog, mach, vMap, inc, ovBB>> /\ DefsOwn
  BY DEF GenSwitch, const, ovVars, CodeInv
<1>3. S.res = <<>> /\ S.prim # "LIMIT" /\ Len(S.next) >= 1
  BY <1>1 DEF Arity
<1>4. /\ g1.at = node /\ g1.ins = <<>> /\ g1.end.op = "unreachable" /\ g1.blk = dflt
      /\ g2.at = node /\ g2.ins = none /\ g2.end.op = "br" /\ g2.end.args = Args /\ g2.end.to = to
      /\ g2.blk = bb
  BY DEF Group, Jump, End
<1>5. /\ DOMAIN S.next = 1..Len(S.next) /\ Len(S.next) \in Nat
      /\ \A i \in DOMAIN S.next : S.next[i] \in Node /\ S.next[i] \in Children(prog, node)
      /\ Children(prog, node) = {S.next[i] : i \in DOMAIN S.next}
  BY <1>1, NextFacts DEF Children, Elems, S
<1>6. new \in Seq(Task) /\ \A i \in DOMAIN new : new[i].n \in Children(prog, node)
  <2>1. new \in [1..Len(S.next) -> Task]
    BY <1>5 DEF Task, TypeOK
  <2> QED
    BY <1>5, <2>1, SeqDef
<1>7. \A x \in Var : vMap'[x] = VarVals(node, S, Now)[x]
  BY <1>1, <1>2, <1>3, VarsBound
<1>8. InsDefs(none) = {} /\ DoesAll(mach, node, S, prog.scope[node], Now, none)
  BY <1>1, <1>2, ElemsShort, NothingDoes
<1>9. Tests(node, S, prog.scope[node], Now, none, Args)
  <2>1. Test.ins = none /\ Test.args = Args
    BY <1>3 DEF Test
  <2> HIDE DEF none
  <2> QED
    BY <1>1, <1>2, <2>1, TestHeld
<1>10. Len(to) > 1 /\ {b \in Elems(to) : b.k # "impossible"} = {BB(m) : m \in Children(prog, node)}
  <2> DEFINE last == <<dflt>>
             T == {BB(S.next[i]) : i \in DOMAIN S.next} \cup {dflt}
  <2>1. cases \in [1..Len(S.next) -> T]
    BY <1>5
  <2>2. cases \in Seq(T) /\ Len(cases) = Len(S.next)
    <3> HIDE DEF T, cases
    <3>1. cases \in Seq(T)
      BY <1>5, <2>1, SeqDef
    <3>2. DOMAIN cases = 1..Len(cases) /\ Len(cases) \in Nat /\ DOMAIN cases = 1..Len(S.next)
      BY <2>1, <3>1
    <3> QED
      BY <1>5, <3>1, <3>2
  <2>3. last \in Seq(T) /\ Len(last) = 1
    OBVIOUS
  <2>4. Elems(cases) = {BB(m) : m \in Children(prog, node)}
    <3>1. Elems(cases) = {BB(S.next[i]) : i \in DOMAIN S.next}
      BY DEF Elems
    <3> QED
      BY <1>5, <3>1
  <2>5. Elems(last) = {dflt}
    BY ElemsShort
  <2>6. dflt.k = "impossible" /\ \A m : BB(m).k = "bb"
    BY DEF Blk, BB
  <2>7. to = cases \o last
    OBVIOUS
  <2> HIDE DEF to, cases, last, dflt, T
  <2>8. Elems(cases \o last) = Elems(cases) \cup Elems(last) /\ Len(cases \o last) = Len(cases) + Len(last)
    <3>1. Elems(cases \o last) = Elems(cases) \cup Elems(last)
      BY <2>2, <2>3, ElemsConcat
    <3>2. Len(cases \o last) = Len(cases) + Len(last)
      BY <2>2, <2>3, ConcatProperties
    <3> QED
      BY <3>1, <3>2
  <2>9. Len(to) > 1
    BY <1>3, <1>5, <2>2, <2>3, <2>7, <2>8
  <2>10. Elems(to) = {BB(m) : m \in Children(prog, node)} \cup {dflt}
    BY <2>4, <2>5, <2>7, <2>8
  <2> QED
    BY <2>6, <2>9, <2>10
<1> HIDE DEF g1, g2, to, none
<1>11. OverflowRaises'
  <2> DEFINE es == <<g1, g2>>
  <2>1. out' = out \o es /\ es \in Seq({g1, g2})
    BY <1>2
  <2> HIDE DEF es
  <2>2. es \in Seq(GroupType)
    BY <2>1, Appended
  <2> QED
    BY <1>2, <2>1, <2>2, RaisesStay
<1>12. VarTurn(new)
  <2> HIDE DEF new
  <2> QED
    BY <1>1, <1>2, <1>6, <1>7 DEF VarTurn
<1>13. PICK n, s, a, h, g : n = node /\ s = S /\ a = Now /\ h = g1 /\ g = g2
  OBVIOUS
<1> HIDE DEF new
<1>14. PairTurn(new, h, g)
  <2>1. Main(g) /\ ~Main(h)
    BY <1>4, <1>13 DEF Main
  <2>2. h.blk \in Asides
    BY <1>4, <1>13 DEF Asides
  <2>3. InsDefs(g.ins) \subseteq Own(node) \cup {NoVal} /\ DoesAll(mach, node, S, prog.scope[node], Now, g.ins)
    BY <1>4, <1>8, <1>13
  <2> QED
    BY <1>2, <1>4, <1>12, <1>13, <2>1, <2>2, <2>3 DEF PairTurn
<1>15. AsideRight(h)'
  BY <1>4, <1>13 DEF AsideRight
<1>16. EndRight(n, s, a, g)'
  <2>1. BranchRight(n, s, a, g)'
    <3>1. /\ g.end.to = to /\ s.op = "SWITCH" /\ n = node
      BY <1>1, <1>4, <1>13
    <3>2. Len(g.end.to) > 1 /\ {b \in Elems(g.end.to) : b.k # "impossible"} = {BB(m) : m \in Children(prog, n)}
      BY <1>10, <3>1, Zenon
    <3>3. Tests(n, s, prog.scope[n], a, g.ins, g.end.args)
      BY <1>4, <1>9, <1>13
    <3>4. prog' = prog
      BY <1>2
    <3> QED
      BY <3>1, <3>2, <3>3, <3>4 DEF BranchRight
  <2> QED
    BY <1>4, <1>13, <2>1 DEF EndRight
<1> QED
  BY <1>6, <1>11, <1>13, <1>14, <1>15, <1>16, TwoCode

(* What getOverflowBB leaves: the overflow block of the cluster raises
   Overflow, and its PHI nodes get the registers. *)
LEMMA TrapTarget ==
  ASSUME TypeOK, TypeOK', CodeInv, PhiInv', UNCHANGED mach, node \in Node, NEW z, TrapArith(z),
         NEW es \in Seq(GroupType), out' = out \o es,
         ovBB = NoBlock => \E i \in DOMAIN es : es[i].blk = Blk("overflow", node)
  PROVE  /\ OverflowRaises'
         /\ \E m \in Node : /\ ovBB' = Blk("overflow", m) /\ Raises(m)'
                            /\ \A r \in mach : [phi |-> V("ovphi", m, r), val |-> regState[r], pred |-> bb] \in inc'
<1>1. /\ ovBB' = IF ovBB = NoBlock THEN Blk("overflow", node) ELSE ovBB
      /\ inc' = inc \cup Incoming(ovPhis')
  BY DEF TrapArith, GetOverflowBB
<1>2. ovBB' \in Block /\ ovBB' # NoBlock
  <2>1. Blk("overflow", node) \in Block
    BY NameTypes
  <2> QED
    BY <1>1, <2>1, NullAssumption DEF TypeOK
<1>3. ovBB'.k = "overflow" /\ \A r \in mach : ovPhis'[r] = V("ovphi", ovBB'.at, r)
  BY <1>2 DEF PhiInv, OverflowPhis
<1>4. PICK m : m = ovBB'.at
  OBVIOUS
<1>5. m \in Node /\ ovBB' = Blk("overflow", m)
  BY <1>2, <1>3, <1>4 DEF Block, Blk
<1>6. Raises(m)'
  <2>1. CASE ovBB = NoBlock
    <3>1. PICK i \in DOMAIN es : es[i].blk = Blk("overflow", node)
      BY <2>1
    <3>2. Len(out) + i \in DOMAIN out' /\ out'[Len(out) + i].blk = Blk("overflow", m)
      BY <1>1, <1>5, <2>1, <3>1, GrownCode
    <3> QED
      BY <3>2 DEF Raises
  <2>2. CASE ovBB # NoBlock
    <3>1. Raises(m)
      BY <1>1, <1>4, <2>2 DEF CodeInv, OverflowRaises
    <3> QED
      BY <3>1, GrownCode DEF Raises
  <2> QED
    BY <2>1, <2>2
<1>7. \A r \in mach : [phi |-> V("ovphi", m, r), val |-> regState[r], pred |-> bb] \in inc'
  BY <1>1, <1>3, <1>4 DEF Incoming
<1>8. OverflowRaises'
  BY <1>4, <1>6 DEF OverflowRaises, Raises
<1> QED
  BY <1>5, <1>6, <1>7, <1>8

LEMMA TrapCode ==
  ASSUME TypeOK, TypeOK', RegsInv, RegsInv', BlockInv, BlockInv', DomInv, PhiInv', CodeInv,
         GenArith, S.prim # "DIV"
  PROVE  CodeInv'
<1> DEFINE z == S.res[1]
           ok == Blk("ok", node)
           ins == <<Op(z, Args)>>
           end == Jump("ovbr", <<ovBB', ok>>, <<>>)
           raise == Group(node, Blk("overflow", node), <<>>, End("raise", <<>>, MachRegs("ovphi", node), <<>>))
           branch == Group(node, bb, ins, end)
           none == <<>>
<1>1. phase = "gen" /\ node \in Node /\ S.op = "ARITH" /\ Arity(S) /\ S \in Stm /\ S.prim = "TRAP"
  BY RunningFacts DEF GenArith, Running
<1>2. /\ TrapArith(S.res[1]) /\ node' = S.next[1] /\ Visit /\ bb' = ok
      /\ vMap' = Bind(vMap, z, V("ins", node, z))
      /\ UNCHANGED <<prog, mach, todo, regState>> /\ DefsOwn
  BY <1>1 DEF GenArith, const, CodeInv, TrapArith
<1>3. Len(S.next) = 1 /\ Len(S.res) = 1
  BY <1>1 DEF Arity
<1>4. z \in Elems(S.res) /\ z \in Var
  BY <1>1, <1>3, OneResult
<1>5. \A x \in Var : vMap'[x] = VarVals(node, S, Now)[x]
  <2>1. V("ins", node, z) = VarVals(node, S, Now)[S.res[1]]
    BY <1>1, <1>4 DEF VarVals
  <2> QED
    BY <1>1, <1>2, <1>3, <2>1, VarsBound
<1>6. /\ inc \subseteq inc'
      /\ out' = out \o (IF ovBB = NoBlock THEN <<raise>> ELSE <<>>) \o <<branch>>
      /\ ovBB # NoBlock => ovBB' = ovBB
  BY <1>2 DEF TrapArith, GetOverflowBB
<1>7. DoesAll(mach, node, S, prog.scope[node], Now, ins)
  BY <1>1, <1>2, OpDoes
<1>8. InsDefs(ins) \subseteq Own(node) \cup {NoVal}
  BY <1>1, <1>4, DefinesOwn
<1>9. node' \in Children(prog, node)
  BY <1>1, <1>2, <1>3, NextFacts
<1>10. none \in Seq(Task) /\ todo' = none \o todo /\ DOMAIN none = {}
  BY <1>2, NoArms
<1>11. /\ raise.at = node /\ raise.ins = <<>> /\ raise.end.op = "raise" /\ raise.blk = Blk("overflow", node)
       /\ raise.end.regs = MachRegs("ovphi", node)
       /\ branch.at = node /\ branch.blk = bb /\ branch.ins = ins /\ branch.end = end
       /\ end.op = "ovbr" /\ end.to = <<ovBB', ok>>
  BY DEF Group, End, Jump
<1> HIDE DEF ins, none, end, raise
<1>12. VarTurn(none)
  BY <1>1, <1>2, <1>5, <1>9, <1>10 DEF VarTurn
<1>13. PICK n, s, a, h, g : n = node /\ s = S /\ a = Now /\ h = raise /\ g = branch
  OBVIOUS
<1>14. a.regs = regState /\ a.blk = bb
  BY <1>13 DEF Now
<1>15. out \in Seq(GroupType) /\ prog' = prog /\ mach' = mach
  BY <1>2 DEF TypeOK
<1>16. ASSUME NEW m \in Node, ovBB' = Blk("overflow", m), Raises(m)',
              \A r \in mach : [phi |-> V("ovphi", m, r), val |-> regState[r], pred |-> bb] \in inc'
       PROVE  EndRight(n, s, a, g)'
  <2>1. g.end.to = <<Blk("overflow", m), Blk("ok", n)>> /\ g.end.op = "ovbr" /\ s.prim = "TRAP"
    BY <1>1, <1>11, <1>13, <1>16
  <2>2. \A r \in mach' : Entry(V("ovphi", m, r), a.regs[r], a.blk)'
    BY <1>14, <1>15, <1>16 DEF Entry
  <2>3. TrapRight(n, s, a, g)'
    BY <1>16, <2>1, <2>2 DEF TrapRight
  <2> QED
    BY <2>1, <2>3 DEF EndRight
<1>17. CASE ovBB = NoBlock
  <2> DEFINE es == <<h, g>>
  <2>1. out' = out \o es
    <3>1. out' = out \o <<h>> \o <<g>>
      BY <1>6, <1>13, <1>17
    <3> QED
      BY <1>15, <3>1, TwoAppended
  <2>2. es \in Seq({h, g})
    OBVIOUS
  <2>3. 1 \in DOMAIN es /\ es[1] = h
    OBVIOUS
  <2> HIDE DEF es
  <2>4. es \in Seq(GroupType)
    BY <2>1, <2>2, Appended
  <2>5. ovBB = NoBlock => \E i \in DOMAIN es : es[i].blk = Blk("overflow", node)
    BY <1>11, <1>13, <2>3
  <2>6. /\ OverflowRaises'
        /\ \E m \in Node : /\ ovBB' = Blk("overflow", m) /\ Raises(m)'
                           /\ \A r \in mach : [phi |-> V("ovphi", m, r), val |-> regState[r], pred |-> bb] \in inc'
    BY <1>1, <1>2, <2>1, <2>4, <2>5, TrapTarget
  <2>7. EndRight(n, s, a, g)'
    BY <1>16, <2>6
  <2>8. AsideRight(h)'
    BY <1>11, <1>13, <1>15 DEF AsideRight, MachRegs
  <2>9. PairTurn(none, h, g)
    <3>1. Main(g) /\ ~Main(h)
      BY <1>11, <1>13 DEF Main
    <3>2. h.blk \in Asides
      BY <1>11, <1>13 DEF Asides
    <3>3. InsDefs(g.ins) \subseteq Own(node) \cup {NoVal} /\ DoesAll(mach, node, S, prog.scope[node], Now, g.ins)
      BY <1>7, <1>8, <1>11, <1>13
    <3>4. h.at = node /\ g.at = node /\ h.ins = <<>> /\ g.blk = bb
      BY <1>11, <1>13
    <3> QED
      BY <1>1, <1>2, <1>6, <1>9, <1>12, <2>1, <3>1, <3>2, <3>3, <3>4 DEF PairTurn, es
  <2> QED
    BY <1>10, <1>13, <2>6, <2>7, <2>8, <2>9, TwoCode
<1>18. CASE ovBB # NoBlock
  <2> DEFINE es == <<g>>
  <2>1. out' = out \o es
    <3>1. out' = (out \o <<>>) \o <<g>>
      BY <1>6, <1>13, <1>18
    <3>2. out \o <<>> = out
      BY <1>15, ConcatEmptySeq
    <3> QED
      BY <3>1, <3>2
  <2>2. es \in Seq({g})
    OBVIOUS
  <2>3. out' = Append(out, g)
    BY <1>15, <2>1, AppendIsConcat
  <2> HIDE DEF es
  <2>4. es \in Seq(GroupType)
    BY <2>1, <2>2, Appended
  <2>5. ovBB = NoBlock => \E i \in DOMAIN es : es[i].blk = Blk("overflow", node)
    BY <1>18
  <2>6. \E m \in Node : /\ ovBB' = Blk("overflow", m) /\ Raises(m)'
                        /\ \A r \in mach : [phi |-> V("ovphi", m, r), val |-> regState[r], pred |-> bb] \in inc'
    BY <1>1, <1>2, <2>1, <2>4, <2>5, TrapTarget
  <2>7. EndRight(n, s, a, g)'
    BY <1>16, <2>6
  <2>8. Emit(ins, end)
    BY <1>13, <2>3 DEF Emit, Group, branch
  <2>9. CodeTurn(none, ins, end)
    <3>1. end.op \notin {"raise", "unreachable"}
      BY <1>11
    <3> QED
      BY <1>1, <1>2, <1>6, <1>7, <1>8, <1>9, <1>12, <1>18, <2>8, <3>1 DEF CodeTurn
  <2>10. g = Group(n, bb, ins, end)
    BY <1>13 DEF branch
  <2> QED
    BY <1>10, <1>13, <2>7, <2>9, <2>10, OneCode
<1> QED
  BY <1>17, <1>18

-----------------------------------------------------------------------------
(* The steps that set up work emit no code. *)

(* Without new code and new history, the code is as right as before. *)
LEMMA SetupStays ==
  ASSUME CodeInv, UNCHANGED <<prog, mach, at, out, inc>>
  PROVE  /\ Done' = Done /\ Heads' = Heads
         /\ DefsOwn' /\ GroupsRight' /\ OneMain'
         /\ \A j \in DOMAIN out' : Main(out'[j]) => ComesAt(out[j].at, out[j].blk, j)'
         /\ \A m : Raises(m)' <=> Raises(m)
<1>1. Done' = Done /\ Heads' = Heads
  BY DEF Done, Visited, Heads, Bodies, Arms, Children
<1>2. \A m : Raises(m)' <=> Raises(m)
  BY DEF Raises
<1>3. DefsOwn' /\ OneMain'
  BY <1>1 DEF CodeInv, DefsOwn, OneMain
<1>4. \A g : (MainRight(g)' <=> MainRight(g)) /\ (AsideRight(g)' <=> AsideRight(g))
  <2> TAKE g
  <2>1. \A v, w, b : Entry(v, w, b)' <=> Entry(v, w, b)
    BY DEF Entry
  <2>2. \A n, s, a : /\ GotoRight(n, s, a, g)' <=> GotoRight(n, s, a, g)
                     /\ BranchRight(n, s, a, g)' <=> BranchRight(n, s, a, g)
                     /\ TrapRight(n, s, a, g)' <=> TrapRight(n, s, a, g)
    BY <1>2, <2>1 DEF GotoRight, BranchRight, TrapRight
  <2>3. \A n, s, a : EndRight(n, s, a, g)' <=> EndRight(n, s, a, g)
    BY <2>2 DEF EndRight
  <2>4. MainRight(g)' <=> MainRight(g)
    BY <2>3 DEF MainRight
  <2>5. AsideRight(g)' <=> AsideRight(g)
    BY DEF AsideRight, MachRegs
  <2> QED
    BY <2>4, <2>5
<1>5. GroupsRight'
  BY <1>4 DEF CodeInv, GroupsRight, GroupsRightIn
<1>6. \A j \in DOMAIN out' : Main(out'[j]) => ComesAt(out[j].at, out[j].blk, j)'
  <2> TAKE j \in DOMAIN out'
  <2> HAVE Main(out'[j])
  <2>1. ComesAt(out[j].at, out[j].blk, j)
    BY DEF CodeInv, InOrder
  <2> QED
    BY <1>1, <2>1 DEF ComesAt, NoneFrom
<1> QED
  BY <1>1, <1>2, <1>3, <1>5, <1>6

(***************************************************************************)
(* A step that sets up work: arms stay pending with their variables, and   *)
(* generation may resume at a pending arm or at the body of a fragment.    *)
(***************************************************************************)
SetupTurn ==
  /\ UNCHANGED <<prog, mach, at, out, inc>>
  /\ ovBB' \in {ovBB, NoBlock}
  /\ \A i \in DOMAIN todo' : todo'[i].t = "arm" =>
       vMap' = vMap /\ \E j \in DOMAIN todo : todo[j].t = "arm" /\ todo[j].n = todo'[i].n
  /\ node' # NoNode =>
       /\ node' \in Heads /\ bb' = BB(node')
       /\ \/ vMap' = vMap /\ \E j \in DOMAIN todo : todo[j].t = "arm" /\ todo[j].n = node'
          \/ \E l \in Lab : node' = prog.frag[l].body /\ StartsWith(l, regState', vMap')

LEMMA SetupCode ==
  ASSUME TypeOK, TypeOK', RegsInv, RegsInv', BlockInv', CodeInv, SetupTurn
  PROVE  CodeInv'
<1>1. /\ UNCHANGED <<prog, mach, at, out, inc>> /\ prog \in Programs /\ Done \subseteq Node
  BY DEF SetupTurn, TypeOK, Done
<1>2. /\ Done' = Done /\ Heads' = Heads
      /\ DefsOwn' /\ GroupsRight' /\ OneMain'
      /\ \A j \in DOMAIN out' : Main(out'[j]) => ComesAt(out[j].at, out[j].blk, j)'
      /\ \A m : Raises(m)' <=> Raises(m)
  BY <1>1, SetupStays
<1>3. InOrder'
  <2>1. node' # NoNode => ComesAt(node, bb, Len(out) + 1)'
    <3> HAVE node' # NoNode
    <3>1. node' \in Heads' /\ bb' = BB(node')
      BY <1>2 DEF SetupTurn
    <3>2. (node # NoNode)' /\ (node \in Heads)' /\ (bb = BB(node))'
      BY <3>1
    <3> QED
      BY <3>2, FreshHead, PTL
  <2> QED
    BY <1>2, <2>1 DEF InOrder
<1>4. \A n \in Node : \A m \in Children(prog, n) : m \notin Bodies(prog)
  BY <1>1, Forest
<1>5. \A j \in DOMAIN todo : todo[j].t = "arm" => todo[j].n \notin Bodies(prog)
  <2> TAKE j \in DOMAIN todo
  <2> HAVE todo[j].t = "arm"
  <2>1. \E n \in Done : todo[j].n \in Children(prog, n)
    BY DEF RegsInv, ArmsReady, ArmReady
  <2> QED
    BY <1>1, <1>4, <2>1
<1>6. VarsFollow'
  <2> SUFFICES ASSUME NEW n \in Done, NEW m \in Children(prog, n), NEW vs, vs = VarVals(n, prog.stm[n], at[n])
               PROVE  /\ m \in Done => \A x \in prog.scope[m] : at[m].vars[x] = vs[x]
                      /\ m = node' => \A x \in prog.scope[m] : vMap'[x] = vs[x]
                      /\ (\E i \in DOMAIN todo' : todo'[i].t = "arm" /\ todo'[i].n = m) =>
                           \A x \in prog.scope[m] : vMap'[x] = vs[x]
    BY <1>1, <1>2 DEF VarsFollow
  <2>1. /\ m \in Done => \A x \in prog.scope[m] : at[m].vars[x] = vs[x]
        /\ (\E i \in DOMAIN todo : todo[i].t = "arm" /\ todo[i].n = m) =>
             \A x \in prog.scope[m] : vMap[x] = vs[x]
    BY DEF CodeInv, VarsFollow
  <2>2. m \notin Bodies(prog) /\ m # NoNode
    <3>1. m \in Node
      BY <1>1, Forest
    <3> QED
      BY <1>1, <1>4, <3>1, NullAssumption
  <2>3. m = node' => \A x \in prog.scope[m] : vMap'[x] = vs[x]
    <3> HAVE m = node'
    <3>1. vMap' = vMap /\ \E j \in DOMAIN todo : todo[j].t = "arm" /\ todo[j].n = m
      BY <2>2 DEF SetupTurn, Bodies
    <3> QED
      BY <2>1, <3>1
  <2>4. (\E i \in DOMAIN todo' : todo'[i].t = "arm" /\ todo'[i].n = m) =>
           \A x \in prog.scope[m] : vMap'[x] = vs[x]
    BY <2>1 DEF SetupTurn
  <2> QED
    BY <2>1, <2>3, <2>4
<1>7. BodiesStart'
  <2> SUFFICES ASSUME NEW l \in Lab, NEW n, n = prog.frag[l].body
               PROVE  /\ n \in Done => StartsWith(l, at[n].regs, at[n].vars)
                      /\ n = node' => StartsWith(l, regState', vMap')
    BY <1>1, <1>2 DEF BodiesStart, StartsWith
  <2>1. n \in Done => StartsWith(l, at[n].regs, at[n].vars)
    BY DEF CodeInv, BodiesStart
  <2>2. n \in Bodies(prog) /\ n # NoNode
    BY <1>1, UnitFacts, NullAssumption DEF Bodies
  <2>3. n = node' => StartsWith(l, regState', vMap')
    <3> HAVE n = node'
    <3>1. PICK k \in Lab : node' = prog.frag[k].body /\ StartsWith(k, regState', vMap')
      BY <1>5, <2>2 DEF SetupTurn
    <3>2. \A l1, l2 \in Lab : prog.frag[l1].body = prog.frag[l2].body => l1 = l2
      BY <1>1, BodiesDistinct, Zenon
    <3>3. prog.frag[k].body = prog.frag[l].body
      BY <3>1, Zenon
    <3>4. k = l
      BY <3>2, <3>3, Zenon
    <3> QED
      BY <3>1, <3>4, Zenon
  <2> QED
    BY <2>1, <2>3
<1>8. OverflowRaises'
  BY <1>2 DEF SetupTurn, CodeInv, OverflowRaises
<1> QED
  BY <1>2, <1>3, <1>6, <1>7, <1>8 DEF CodeInv

(* The next pending arm *)
LEMMA NextArmCode ==
  ASSUME TypeOK, TypeOK', RegsInv, RegsInv', BlockInv, BlockInv', CodeInv, NextArm
  PROVE  CodeInv'
<1>1. /\ Returned("arm") /\ UNCHANGED <<prog, mach, at, vMap, out, inc, ovBB>> /\ todo' = Tail(todo)
      /\ node' = Head(todo).n /\ bb' = BB(node')
  BY DEF NextArm, const, irVars, ovVars, InsertPoint
<1>2. /\ Head(todo) = todo[1] /\ 1 \in DOMAIN todo
      /\ \A i \in DOMAIN todo' : i + 1 \in DOMAIN todo /\ todo'[i] = todo[i + 1]
  BY <1>1, TailCases DEF Returned
<1>3. todo[1].t = "arm" /\ todo[1].n = node'
  BY <1>1, <1>2 DEF Returned
<1>4. node' \in Heads
  BY <1>2, <1>3 DEF BlockInv, HomeInv, TasksAtHome, TaskAtHome, Heads
<1>5. \A i \in DOMAIN todo' : todo'[i].t = "arm" =>
        vMap' = vMap /\ \E j \in DOMAIN todo : todo[j].t = "arm" /\ todo[j].n = todo'[i].n
  BY <1>1, <1>2
<1>6. vMap' = vMap /\ \E j \in DOMAIN todo : todo[j].t = "arm" /\ todo[j].n = node'
  BY <1>1, <1>2, <1>3
<1>7. SetupTurn
  BY <1>1, <1>4, <1>5, <1>6 DEF SetupTurn
<1> QED
  BY <1>7, SetupCode

(* A fragment starts with the values of its kind. *)
LEMMA BeginFragCode ==
  ASSUME TypeOK, TypeOK', RegsInv, RegsInv', BlockInv, BlockInv', DomInv, CodeInv, BeginFrag
  PROVE  CodeInv'
<1>1. Returned("frag") /\ UNCHANGED <<prog, mach, at, out, inc, ovBB>> /\ todo' = Tail(todo)
  BY DEF BeginFrag, const, irVars, ovVars
<1>2. /\ Head(todo) = todo[1] /\ 1 \in DOMAIN todo /\ Head(todo) \in Task
      /\ \A i \in DOMAIN todo' : i \in Nat /\ i > 0 /\ i + 1 \in DOMAIN todo /\ todo'[i] = todo[i + 1]
  BY <1>1, TailCases DEF Returned
<1> PICK h \in Task : h = Head(todo)
  BY <1>2
<1>3. h.t = "frag" /\ h.lab \in Lab /\ prog \in Programs
  BY <1>1 DEF Returned, Task, TypeOK
<1> PICK f \in Frag : f = prog.frag[h.lab]
  BY <1>3, UnitFacts
<1> PICK n \in Node : n = f.body
  BY <1>3, UnitFacts
<1> PICK k : k = IF h.entry THEN "arg" ELSE "phi"
  OBVIOUS
<1>4. /\ node' = n /\ vMap' = BindAll(ClearedMap, f.params, k, n) /\ bb' = BB(n)
      /\ regState' = IF h.entry THEN StdEntryRegs(n) ELSE FragEntryRegs(n)
  BY DEF BeginFrag
<1>5. k = IF f.kind = "INTERNAL" THEN "phi" ELSE "arg"
  <2>1. h.entry <=> f.kind # "INTERNAL"
    BY <1>2, <1>3, ZenonT(30) DEF DomInv, FragKinds
  <2> QED
    BY <2>1
<1>6. \A r \in mach : regState'[r] = V(k, n, r)
  <2>1. mach \subseteq Reg
    BY TargetsAssumption DEF TypeOK
  <2> QED
    BY <1>4, <2>1 DEF StdEntryRegs, FragEntryRegs, MachRegs
<1>7. \A z \in Elems(f.params) : vMap'[z] = V(k, n, z)
  <2>1. \A z \in Var : vMap'[z] = IF z \in Elems(f.params) THEN V(k, n, z) ELSE NoVal
    BY <1>4 DEF BindAll, ClearedMap, NoVals
  <2>2. f.params \in Seq(Var)
    BY DEF Frag
  <2>3. \A i \in DOMAIN f.params : f.params[i] \in Var
    BY ONLY <2>2, SMTT(60)
  <2>4. Elems(f.params) \subseteq Var
    BY ONLY <2>3, ZenonT(60) DEF Elems
  <2> QED
    BY <2>1, <2>4
<1>8. StartsWith(h.lab, regState', vMap')
  BY <1>5, <1>6, <1>7 DEF StartsWith
<1>9. node' \in Heads /\ bb' = BB(node')
  BY <1>3, <1>4 DEF Heads, Bodies
<1>10. \A i \in DOMAIN todo' : todo'[i].t # "arm"
  BY <1>2, <1>3, SMTT(60) DEF RegsInv, ArmsFirst
<1>11. \E l \in Lab : node' = prog.frag[l].body /\ StartsWith(l, regState', vMap')
  BY <1>3, <1>4, <1>8
<1>12. SetupTurn
  BY <1>1, <1>9, <1>10, <1>11 DEF SetupTurn
<1> QED
  BY <1>12, SetupCode

(* A cluster begins without pending arms, and without an overflow block. *)
LEMMA BeginClusterCode ==
  ASSUME TypeOK, TypeOK', RegsInv, RegsInv', BlockInv, BlockInv', CodeInv, BeginCluster
  PROVE  CodeInv'
<1>1. /\ Returned("cluster") /\ node' = NoNode
      /\ UNCHANGED <<prog, mach, at, out, inc>> /\ ovBB' = NoBlock
  BY Zenon DEF BeginCluster, Returned, const, ClearedOverflow
<1>2. /\ Head(todo) = todo[1] /\ 1 \in DOMAIN todo /\ Head(todo) \in Task /\ Tail(todo) \in Seq(Task)
      /\ \A i \in DOMAIN Tail(todo) :
           i \in Nat /\ i > 0 /\ i + 1 \in DOMAIN todo /\ Tail(todo)[i] = todo[i + 1]
  BY <1>1, TailCases DEF Returned
<1> PICK h \in Task : h = Head(todo)
  BY <1>2
<1>3. h.t = "cluster" /\ h.c \in DOMAIN prog.clusters /\ prog \in Programs
  BY <1>1 DEF Returned, Task, TypeOK
<1> PICK c \in DOMAIN prog.clusters : c = h.c
  BY <1>3
<1> PICK frags \in Seq(Lab) : frags = prog.clusters[c]
  BY <1>3, ClusterStarts, Zenon
<1> DEFINE new == [i \in DOMAIN frags |-> [t |-> "frag", lab |-> frags[i], entry |-> i = 1]]
           rest == Tail(todo)
<1>4. todo' = new \o rest
  BY Zenon DEF BeginCluster
<1>5. new \in Seq(Task)
  <2>1. DOMAIN frags = 1..Len(frags) /\ Len(frags) \in Nat /\ \A i \in DOMAIN frags : frags[i] \in Lab
    OBVIOUS
  <2>2. new \in [1..Len(frags) -> Task]
    BY <2>1 DEF Task
  <2> QED
    BY <2>1, <2>2, SeqDef
<1>6. \A i \in DOMAIN new : new[i].t = "frag"
  OBVIOUS
<1>7. \A i \in DOMAIN rest : rest[i].t # "arm"
  BY <1>2, <1>3 DEF RegsInv, ArmsFirst
<1> HIDE DEF new, rest
<1>8. \A i \in DOMAIN todo' :
        \/ i \in DOMAIN new /\ todo'[i] = new[i]
        \/ i - Len(new) \in DOMAIN rest /\ todo'[i] = rest[i - Len(new)]
  BY <1>2, <1>4, <1>5, ConcatCases DEF rest
<1>9. \A i \in DOMAIN todo' : todo'[i].t # "arm"
  BY <1>6, <1>7, <1>8
<1>10. SetupTurn
  BY <1>1, <1>9 DEF SetupTurn
<1> QED
  BY <1>10, SetupCode, Zenon

(* Beginning and ending the unit, and steps that change nothing *)
LEMMA IdleCode ==
  ASSUME TypeOK, TypeOK', RegsInv, RegsInv', BlockInv, BlockInv', CodeInv,
         BeginUnit \/ EndUnit \/ Finished \/ UNCHANGED vars
  PROVE  CodeInv'
<1>1. CASE BeginUnit \/ EndUnit
  <2>1. /\ UNCHANGED <<prog, mach, at, out, inc, ovBB>> /\ node' = NoNode
        /\ \A i \in DOMAIN todo' : todo'[i].t # "arm"
    BY <1>1 DEF BeginUnit, EndUnit, const, irVars, ovVars, RegsInv, NothingDone
  <2>2. SetupTurn
    BY <2>1 DEF SetupTurn
  <2> QED
    BY <2>2, SetupCode
<1>2. CASE UNCHANGED vars
  <2>1. /\ Done' = Done
        /\ DefsOwn' /\ GroupsRight' /\ OneMain'
        /\ \A j \in DOMAIN out' : Main(out'[j]) => ComesAt(out[j].at, out[j].blk, j)'
        /\ \A m : Raises(m)' <=> Raises(m)
    BY <1>2, SetupStays DEF vars
  <2>2. UNCHANGED <<prog, mach, at, out, node, bb, todo, vMap, regState, ovBB>>
    BY <1>2 DEF vars
  <2>3. InOrder'
    <3>1. \A n, b, j : ComesAt(n, b, j)' <=> ComesAt(n, b, j)
      BY <2>1, <2>2 DEF ComesAt, NoneFrom, Heads, Bodies, Arms, Children
    <3>2. node' # NoNode => ComesAt(node, bb, Len(out) + 1)'
      <4> HAVE node' # NoNode
      <4>1. ComesAt(node, bb, Len(out) + 1)
        BY <2>2 DEF CodeInv, InOrder
      <4> QED
        BY <2>1, <2>2, <4>1 DEF ComesAt, NoneFrom, Heads, Bodies, Arms, Children
    <3> QED
      BY <2>1, <3>2 DEF InOrder
  <2>4. VarsFollow'
    BY <2>1, <2>2 DEF CodeInv, VarsFollow
  <2>5. BodiesStart'
    BY <2>1, <2>2 DEF CodeInv, BodiesStart, StartsWith
  <2>6. OverflowRaises'
    BY <2>1, <2>2 DEF CodeInv, OverflowRaises
  <2> QED
    BY <2>1, <2>3, <2>4, <2>5, <2>6 DEF CodeInv
<1>3. Finished => UNCHANGED vars
  BY DEF Finished
<1> QED
  BY <1>1, <1>2, <1>3

(* Before a unit is begun there is no code. *)
LEMMA InitCode == Init => CodeInv
<1> SUFFICES ASSUME Init PROVE CodeInv
  OBVIOUS
<1>1. node = NoNode /\ DOMAIN todo = {} /\ DOMAIN out = {} /\ ovBB = NoBlock
  BY DEF Init
<1>2. Done = {}
  BY DEF Init, Done, Visited, NotVisited
<1>3. \A l \in Lab : prog.frag[l].body # node
  BY <1>1, UnitFacts, NullAssumption DEF Init
<1> QED
  BY <1>1, <1>2, <1>3 DEF CodeInv, DefsOwn, GroupsRight, GroupsRightIn, OneMain, InOrder, VarsFollow,
     BodiesStart, OverflowRaises

(* Every step keeps the code right. *)
LEMMA StepCode ==
  ASSUME TypeOK, TypeOK', RegsInv, RegsInv', BlockInv, BlockInv', DomInv, PhiInv', CodeInv, [Next]_vars
  PROVE  CodeInv'
<1>1. CASE GenLet
  BY <1>1, LetCode
<1>2. CASE GenAlloc
  BY <1>2, AllocCodeRight
<1>3. CASE GenArith /\ S.prim = "DIV"
  BY <1>3, DivCode
<1>4. CASE GenArith /\ S.prim # "DIV"
  BY <1>4, TrapCode
<1>5. CASE GenSetter
  BY <1>5, SetterCode
<1>6. CASE GenCallGC
  BY <1>6, GCCode
<1>7. CASE GenBranch
  BY <1>7, BranchCode
<1>8. CASE GenSwitch
  BY <1>8, SwitchCode
<1>9. CASE GenGoto
  BY <1>9, GotoCode
<1>10. CASE GenApply \/ GenThrow
  BY <1>10, CallCode
<1>11. CASE NextArm
  BY <1>11, NextArmCode
<1>12. CASE BeginFrag
  BY <1>12, BeginFragCode
<1>13. CASE BeginCluster
  BY <1>13, BeginClusterCode
<1>14. CASE BeginUnit \/ EndUnit \/ Finished \/ UNCHANGED vars
  BY <1>14, IdleCode
<1> QED
  BY <1>1, <1>2, <1>3, <1>4, <1>5, <1>6, <1>7, <1>8, <1>9, <1>10, <1>11, <1>12, <1>13, <1>14
  DEF Next, Step, GenStm

-----------------------------------------------------------------------------
(* The invariants of the code generator, together *)
AllInv == TypeOK /\ RegsInv /\ BlockInv /\ DomInv /\ PhiInv /\ CodeInv

LEMMA InitAll == Init => AllInv
BY InitType, InitRegs, InitBlockInv, InitDom, InitPhis, InitCode DEF AllInv

LEMMA StepAll == AllInv /\ [Next]_vars => AllInv'
<1> SUFFICES ASSUME AllInv, [Next]_vars PROVE AllInv'
  OBVIOUS
<1>1. TypeOK /\ RegsInv /\ BlockInv /\ DomInv /\ PhiInv /\ CodeInv
  BY DEF AllInv
<1>2. TypeOK'
  BY <1>1, StepType
<1>3. RegsInv'
  BY <1>1, <1>2, StepRegs
<1>4. BlockInv'
  BY <1>1, <1>2, StepBlocks
<1>5. DomInv'
  BY <1>1, <1>2, StepDom
<1>6. PhiInv'
  BY <1>1, <1>2, <1>4, StepPhis
<1>7. CodeInv'
  BY <1>1, <1>2, <1>3, <1>4, <1>6, StepCode
<1> QED
  BY <1>2, <1>3, <1>4, <1>5, <1>6, <1>7 DEF AllInv

(***************************************************************************)
(* The code is right, for every well-formed unit and every target: the     *)
(* instructions of each statement do to what its registers and variables   *)
(* stand for what the statement does, its terminator goes where the        *)
(* statement goes, and the code of its continuation comes right after it.  *)
(***************************************************************************)
THEOREM CodeRight == Spec => []CodeInv
<1>1. AllInv => CodeInv
  BY DEF AllInv
<1> QED
  BY <1>1, InitAll, StepAll, PTL DEF Spec

-----------------------------------------------------------------------------
(* Where the code of a finished unit continues *)

(* Place i of out has the code of statement m. *)
CodeAt(i, m) == i \in DOMAIN out /\ out[i].at = m /\ Main(out[i])

Ready == AllInv /\ phase = "done"

(* All statements have been generated, and their code is right. *)
LEMMA ReadyCode ==
  ASSUME Ready
  PROVE  /\ prog \in Programs /\ Node \subseteq Done /\ Done \subseteq Node
         /\ \A m \in Node : \E i : CodeAt(i, m)
         /\ \A m, i, j : CodeAt(i, m) /\ CodeAt(j, m) => i = j
         /\ \A i, m : CodeAt(i, m) => m \in Node /\ MainRight(out[i]) /\ ComesAt(m, out[i].blk, i)
         /\ \A i \in DOMAIN out : out[i].end.op \in {"fall", "gc"} => CodeAt(i, out[i].at)
         /\ DOMAIN out \subseteq Nat
<1>1. TypeOK /\ BlockInv /\ CodeInv /\ phase = "done"
  BY DEF Ready, AllInv
<1>2. Node \subseteq Done /\ Done \subseteq Node /\ prog \in Programs
  BY <1>1, EverythingDone DEF Done, TypeOK
<1>3. \A m \in Node : \E i : CodeAt(i, m)
  BY <1>1, <1>2 DEF CodeInv, OneMain, CodeAt
<1>4. \A m, i, j : CodeAt(i, m) /\ CodeAt(j, m) => i = j
  BY <1>1 DEF CodeInv, OneMain, CodeAt
<1>5. \A i, m : CodeAt(i, m) => m \in Node /\ MainRight(out[i]) /\ ComesAt(m, out[i].blk, i)
  <2> TAKE i, m
  <2> HAVE CodeAt(i, m)
  <2>1. i \in DOMAIN out /\ out[i].at = m /\ Main(out[i])
    BY DEF CodeAt
  <2>2. m \in Node
    BY <1>1, <1>2, <2>1 DEF CodeInv, DefsOwn
  <2>3. MainRight(out[i])
    BY <1>1, <2>1 DEF CodeInv, GroupsRight, GroupsRightIn
  <2>4. ComesAt(m, out[i].blk, i)
    BY <1>1, <2>1 DEF CodeInv, InOrder
  <2> QED
    BY <2>2, <2>3, <2>4
<1>6. \A i \in DOMAIN out : out[i].end.op \in {"fall", "gc"} => CodeAt(i, out[i].at)
  BY DEF CodeAt, Main
<1>7. DOMAIN out \subseteq Nat
  BY <1>1 DEF TypeOK
<1> QED
  BY <1>2, <1>3, <1>4, <1>5, <1>6, <1>7

(* A statement that follows another without a branch has no block of its own. *)
LEMMA FollowsOn ==
  ASSUME prog \in Programs, NEW n \in Node, NEW m \in Children(prog, n),
         prog.stm[n].op \notin {"BRANCH", "SWITCH"}
  PROVE  m \notin Heads
<1>1. m \notin Bodies(prog) /\ \A k \in Node : m \in Children(prog, k) => k = n
  BY Forest
<1>2. m \notin Arms(prog)
  BY <1>1 DEF Arms
<1> QED
  BY <1>1, <1>2 DEF Heads

(* The first group of a block *)
LEMMA FirstPlace ==
  ASSUME Ready, NEW i \in DOMAIN out, NoneFrom(out[i].blk, 1, i)
  PROVE  BlockStart(out[i].blk) = i
<1> DEFINE b == out[i].blk
           First(k) == out[k].blk = b /\ \A j \in 1..(k - 1) : out[j].blk # b
<1>1. First(i)
  BY DEF NoneFrom
<1>2. DOMAIN out = 1..Len(out) /\ Len(out) \in Nat
  BY DEF Ready, AllInv, TypeOK
<1>3. \A k \in DOMAIN out : First(k) => k = i
  <2> TAKE k \in DOMAIN out
  <2> HAVE First(k)
  <2>1. k < i => k \in 1..(i - 1)
    BY <1>2
  <2>2. i < k => i \in 1..(k - 1)
    BY <1>2
  <2>3. ~(k < i) /\ ~(i < k)
    BY <1>1, <2>1, <2>2
  <2> QED
    BY <1>2, <2>3
<1>4. BlockStart(b) = CHOOSE k \in DOMAIN out : First(k)
  BY DEF BlockStart
<1> HIDE DEF First
<1> QED
  BY <1>1, <1>3, <1>4

(* The next group of a block *)
LEMMA NextPlace ==
  ASSUME Ready, NEW i \in DOMAIN out, NEW j \in DOMAIN out, i < j, out[j].blk = out[i].blk,
         NoneFrom(out[i].blk, i + 1, j)
  PROVE  NextInBlock(i) = j
<1> DEFINE b == out[i].blk
           Follows(k) == i < k /\ out[k].blk = b /\ \A l \in (i + 1)..(k - 1) : out[l].blk # b
<1>1. Follows(j)
  BY DEF NoneFrom
<1>2. DOMAIN out = 1..Len(out) /\ Len(out) \in Nat
  BY DEF Ready, AllInv, TypeOK
<1>3. \A k \in DOMAIN out : Follows(k) => k = j
  <2> TAKE k \in DOMAIN out
  <2> HAVE Follows(k)
  <2>1. k < j => k \in (i + 1)..(j - 1)
    BY <1>2
  <2>2. j < k => j \in (i + 1)..(k - 1)
    BY <1>2
  <2>3. ~(k < j) /\ ~(j < k)
    BY <1>1, <2>1, <2>2
  <2> QED
    BY <1>2, <2>3
<1>4. NextInBlock(i) = CHOOSE k \in DOMAIN out : Follows(k)
  BY DEF NextInBlock
<1> HIDE DEF Follows
<1> QED
  BY <1>1, <1>3, <1>4

(* The block of a head starts with its code. *)
LEMMA HeadStart ==
  ASSUME Ready, NEW m \in Heads
  PROVE  CodeAt(BlockStart(BB(m)), m)
<1>1. m \in Node /\ prog \in Programs
  <2>1. prog \in Programs
    BY ReadyCode
  <2>2. Bodies(prog) \subseteq Node
    BY <2>1, UnitFacts DEF Bodies
  <2>3. Arms(prog) \subseteq Node
    BY <2>1, StmFacts DEF Arms
  <2> QED
    BY <2>1, <2>2, <2>3 DEF Heads
<1>2. PICK i : CodeAt(i, m)
  BY <1>1, ReadyCode
<1>3. ComesAt(m, out[i].blk, i) /\ i \in DOMAIN out /\ DOMAIN out \subseteq Nat
  BY <1>2, ReadyCode DEF CodeAt
<1>4. CASE out[i].blk = BB(m) /\ NoneFrom(out[i].blk, 1, i)
  <2>1. BlockStart(BB(m)) = i
    BY <1>3, <1>4, FirstPlace
  <2> QED
    BY <1>2, <2>1
<1>5. CASE \E p \in Done : m \in Children(prog, p) /\ prog.stm[p].prim = "TRAP"
  <2>1. PICK p \in Node : m \in Children(prog, p) /\ prog.stm[p].prim = "TRAP"
    BY <1>5, ReadyCode
  <2>2. prog.stm[p].op \notin {"BRANCH", "SWITCH"}
    BY <1>1, <2>1, StmFacts DEF Arity
  <2> QED
    BY <1>1, <2>1, <2>2, FollowsOn
<1>6. CASE \E j \in DOMAIN out : out[j].end.op \in {"fall", "gc"} /\ m \in Children(prog, out[j].at)
  <2>1. PICK j \in DOMAIN out : out[j].end.op \in {"fall", "gc"} /\ m \in Children(prog, out[j].at)
    BY <1>6
  <2>2. out[j].at \in Node /\ MainRight(out[j])
    BY <2>1, ReadyCode
  <2>3. prog.stm[out[j].at].op \notin {"BRANCH", "SWITCH"}
    BY <2>1, <2>2 DEF MainRight, EndRight
  <2> QED
    BY <1>1, <2>1, <2>2, <2>3, FollowsOn
<1> QED
  BY <1>3, <1>4, <1>5, <1>6 DEF ComesAt

(* What a child of n that is no head comes after *)
LEMMA ChildComes ==
  ASSUME Ready, NEW n \in Node, NEW m \in Children(prog, n),
         prog.stm[n].op \notin {"BRANCH", "SWITCH"}
  PROVE  \E i \in DOMAIN out :
           /\ CodeAt(i, m)
           /\ \/ /\ prog.stm[n].prim = "TRAP" /\ out[i].blk = Blk("ok", n) /\ NoneFrom(Blk("ok", n), 1, i)
              \/ \E j : /\ CodeAt(j, n) /\ j < i /\ out[j].end.op \in {"fall", "gc"}
                       /\ out[i].blk = out[j].blk /\ NoneFrom(out[j].blk, j + 1, i)
<1>1. prog \in Programs /\ m \in Node /\ m \notin Heads /\ \A k \in Node : m \in Children(prog, k) => k = n
  BY ReadyCode, Forest, FollowsOn
<1>2. PICK i : CodeAt(i, m)
  BY <1>1, ReadyCode
<1>3. ComesAt(m, out[i].blk, i) /\ i \in DOMAIN out
  BY <1>2, ReadyCode DEF CodeAt
<1>4. CASE \E p \in Done : /\ m \in Children(prog, p) /\ prog.stm[p].prim = "TRAP"
                           /\ out[i].blk = Blk("ok", p) /\ NoneFrom(out[i].blk, 1, i)
  <2>1. PICK p \in Node : /\ m \in Children(prog, p) /\ prog.stm[p].prim = "TRAP"
                          /\ out[i].blk = Blk("ok", p) /\ NoneFrom(out[i].blk, 1, i)
    BY <1>4, ReadyCode
  <2>2. p = n
    BY <1>1, <2>1
  <2> QED
    BY <1>2, <1>3, <2>1, <2>2
<1>5. CASE \E j \in DOMAIN out :
             /\ j < i /\ out[j].end.op \in {"fall", "gc"} /\ m \in Children(prog, out[j].at)
             /\ out[i].blk = out[j].blk /\ NoneFrom(out[i].blk, j + 1, i)
  <2>1. PICK j \in DOMAIN out :
             /\ j < i /\ out[j].end.op \in {"fall", "gc"} /\ m \in Children(prog, out[j].at)
             /\ out[i].blk = out[j].blk /\ NoneFrom(out[i].blk, j + 1, i)
    BY <1>5
  <2>2. CodeAt(j, out[j].at) /\ out[j].at \in Node
    BY <2>1, ReadyCode
  <2>3. out[j].at = n
    BY <1>1, <2>1, <2>2
  <2> QED
    BY <1>2, <1>3, <2>1, <2>2, <2>3
<1> QED
  BY <1>1, <1>3, <1>4, <1>5 DEF ComesAt

(* The code of the next statement follows in the same block, *)
LEMMA FallNext ==
  ASSUME Ready, NEW i \in DOMAIN out, out[i].end.op \in {"fall", "gc"},
         NEW m \in Children(prog, out[i].at)
  PROVE  CodeAt(NextInBlock(i), m)
<1>1. CodeAt(i, out[i].at) /\ out[i].at \in Node /\ MainRight(out[i])
  BY ReadyCode
<1>2. PICK n \in Node : n = out[i].at
  BY <1>1
<1>3. prog.stm[n].op \notin {"BRANCH", "SWITCH"} /\ prog.stm[n].prim # "TRAP"
  <2>1. Arity(prog.stm[n])
    BY ReadyCode, StmFacts
  <2> QED
    BY <1>1, <1>2, <2>1 DEF MainRight, EndRight, Arity
<1>4. PICK j \in DOMAIN out :
           /\ CodeAt(j, m)
           /\ \E k : /\ CodeAt(k, n) /\ k < j /\ out[k].end.op \in {"fall", "gc"}
                    /\ out[j].blk = out[k].blk /\ NoneFrom(out[k].blk, k + 1, j)
  <2>1. m \in Children(prog, n)
    BY <1>2
  <2> QED
    BY <1>3, <2>1, ChildComes
<1>5. i < j /\ out[j].blk = out[i].blk /\ NoneFrom(out[i].blk, i + 1, j)
  BY <1>1, <1>2, <1>4, ReadyCode
<1>6. NextInBlock(i) = j
  BY <1>5, NextPlace
<1> QED
  BY <1>4, <1>6

(* or starts the block that is reached when there is no overflow. *)
LEMMA OkStart ==
  ASSUME Ready, NEW n \in Node, prog.stm[n].prim = "TRAP", NEW m \in Children(prog, n)
  PROVE  CodeAt(BlockStart(Blk("ok", n)), m)
<1>1. prog.stm[n].op = "ARITH"
  BY ReadyCode, StmFacts DEF Arity
<1>2. \A j : CodeAt(j, n) => out[j].end.op \notin {"fall", "gc"}
  <2> TAKE j
  <2> HAVE CodeAt(j, n)
  <2>1. MainRight(out[j]) /\ out[j].at = n
    BY ReadyCode DEF CodeAt
  <2> QED
    BY <1>1, <2>1 DEF MainRight, EndRight
<1>3. PICK i \in DOMAIN out : CodeAt(i, m) /\ out[i].blk = Blk("ok", n) /\ NoneFrom(Blk("ok", n), 1, i)
  BY <1>1, <1>2, ChildComes
<1>4. BlockStart(out[i].blk) = i
  BY <1>3, FirstPlace
<1> QED
  BY <1>3, <1>4

(* The overflow block raises Overflow, with the values of its PHI nodes. *)
LEMMA RaiseStart ==
  ASSUME Ready, NEW m, Raises(m)
  PROVE  LET i == BlockStart(Blk("overflow", m)) IN
         i \in DOMAIN out /\ out[i].end.regs = MachRegs("ovphi", m)
<1> DEFINE b == Blk("overflow", m)
           In == {i \in DOMAIN out : out[i].blk = b}
<1>1. In # {} /\ In \in SUBSET Nat
  BY ReadyCode DEF Raises
<1>2. DOMAIN out = 1..Len(out) /\ Len(out) \in Nat
  BY DEF Ready, AllInv, TypeOK
<1> HIDE DEF In
<1>3. PICK i \in In : \A j \in In : i <= j
  BY <1>1, LeastNat
<1>4. i \in DOMAIN out /\ out[i].blk = b
  BY DEF In
<1>5. NoneFrom(b, 1, i)
  <2> SUFFICES ASSUME NEW k \in 1..(i - 1), out[k].blk = b PROVE FALSE
    BY DEF NoneFrom
  <2>1. k \in DOMAIN out /\ ~(i <= k)
    BY <1>2, <1>4
  <2> QED
    BY <1>3, <2>1 DEF In
<1>6. BlockStart(b) = i
  BY <1>4, <1>5, FirstPlace
<1>7. b.k = "overflow" /\ b.at = m
  BY DEF Blk
<1>8. out[i].end.regs = MachRegs("ovphi", m)
  <2>1. IF Main(out[i]) THEN MainRight(out[i]) ELSE AsideRight(out[i])
    BY <1>4 DEF Ready, AllInv, CodeInv, GroupsRight, GroupsRightIn
  <2>2. ~MainRight(out[i])
    BY <1>4, <1>7 DEF MainRight
  <2>3. /\ Blk("impossible", out[i].at).k = "impossible"
        /\ Blk("overflow", out[i].at).at = out[i].at
    BY DEF Blk
  <2> QED
    BY <1>4, <1>7, <2>1, <2>2, <2>3 DEF AsideRight
<1> QED
  BY <1>4, <1>6, <1>8

(* The PHI nodes of a block take the values entered for where control comes from. *)
LEMMA TakenEntry ==
  ASSUME Ready, NEW b \in Block, NEW v \in PhisOf(b), NEW val, NEW p, Entry(v, val, p), NEW e
  PROVE  Taken(v, p, e) = Held(e, val)
<1> DEFINE es == {x \in inc : x.phi = v /\ x.pred = p}
           x0 == [phi |-> v, val |-> val, pred |-> p]
<1>1. x0 \in es
  BY DEF Entry
<1>2. \A x \in es : x = x0
  <2>1. PhisComplete(b)
    BY DEF Ready, AllInv, PhiInv
  <2>2. \A x, y \in {z \in inc : z.phi = v} : x.pred = y.pred => x = y
    BY <2>1 DEF PhisComplete
  <2> QED
    BY <1>1, <2>2
<1>3. x0.val = val
  OBVIOUS
<1> HIDE DEF x0
<1>4. (CHOOSE x \in es : TRUE) = x0
  BY <1>1, <1>2
<1> QED
  BY <1>1, <1>3, <1>4 DEF Taken

-----------------------------------------------------------------------------
(* What the abstract steps ask of the state that the code stands for *)

LEMMA SameCFG ==
  /\ Source!Reg = Reg
  /\ \A s : Source!Writes(s) = Writes(s) /\ Source!Elems(s) = Elems(s)
  /\ \A p : Source!EntryLabs(p) = EntryLabs(p)
  /\ \A p, n : Source!Children(p, n) = Children(p, n)
<1>1. Source!Reg = Reg
  BY DEF Source!Reg, Reg
<1>2. \A s : Source!Elems(s) = Elems(s)
  BY DEF Source!Elems, Elems
<1>3. \A s : Source!Writes(s) = Writes(s)
  BY <1>1 DEF Source!Writes, Writes
<1>4. \A p : Source!EntryLabs(p) = EntryLabs(p)
  BY DEF Source!EntryLabs, EntryLabs
<1>5. \A p, n : Source!Children(p, n) = Children(p, n)
  BY <1>2 DEF Source!Children, Children
<1> QED
  BY <1>1, <1>2, <1>3, <1>4, <1>5

LEMMA IsStraight ==
  ASSUME NEW n \in Node, NEW s, NEW R, NEW X, Loc = n, n # Outside, RegsNow = R, VarsNow = X, s = prog.stm[n],
         s.op \in {"LET", "ALLOC", "ARITH", "SETTER", "CALLGC"},
         Loc' = s.next[1], RegsNow' = NextRegs(n, s, R, X), VarsNow' = NextVars(n, s, R, X),
         UNCHANGED <<prog, obs>>
  PROVE  Source!Straight
<1>1. Source!s = s /\ Source!a = ArgsOf(s, X)
  BY DEF Source!s, Source!a, ArgsOf
<1>2. \A x, ts : Source!Fn(n, x, ts) = Fn(n, x, ts)
  BY DEF Source!Fn, Fn
<1>3. Source!RegsAfter = NextRegs(n, s, R, X)
  BY <1>1, <1>2, SameCFG DEF Source!RegsAfter, NextRegs
<1>4. \A i : Source!Result(i) = ResultOf(n, s, R, X, i)
  BY <1>1, <1>2 DEF Source!Result, ResultOf
<1>5. Source!EnvAfter = NextVars(n, s, R, X)
  BY <1>1, <1>4 DEF Source!EnvAfter, NextVars
<1> QED
  BY <1>1, <1>3, <1>5 DEF Source!Straight

LEMMA IsChoose ==
  ASSUME NEW n \in Node, NEW s, NEW R, NEW X, Loc = n, n # Outside, RegsNow = R, VarsNow = X, s = prog.stm[n],
         s.op \in {"BRANCH", "SWITCH"}, Loc' \in Children(prog, n),
         obs' = Event("test", n, UndefRegs,
                      IF s.prim = "LIMIT" THEN <<R["ALLOC"], R["LIMIT"]>> ELSE ArgsOf(s, X)),
         RegsNow' = R, VarsNow' = X, UNCHANGED prog
  PROVE  Source!Choose
BY SameCFG, ZenonT(30) DEF Source!Choose, Source!s, Source!a, Source!Event, Source!NoRegs, Event, UndefRegs, ArgsOf

(* The variables of fragment f that a GOTO s passes arguments to *)
Passed(s, f, X) ==
  [x \in Var |-> IF \E i \in DOMAIN f.params : f.params[i] = x
                 THEN ArgsOf(s, X)[CHOOSE i \in DOMAIN f.params : f.params[i] = x] ELSE Undef]

LEMMA IsGoto ==
  ASSUME NEW n \in Node, NEW s, NEW R, NEW X, Loc = n, n # Outside, RegsNow = R, VarsNow = X, s = prog.stm[n],
         s.op = "GOTO", NEW f, f = prog.frag[s.to], Loc' = f.body, RegsNow' = R,
         VarsNow' = Passed(s, f, X), UNCHANGED <<prog, obs>>
  PROVE  Source!Goto
<1>1. Source!s = s /\ Source!a = ArgsOf(s, X)
  BY DEF Source!s, Source!a, ArgsOf
<1>2. UNCHANGED <<prog, RegsNow, obs>>
  OBVIOUS
<1> QED
  BY <1>1, <1>2 DEF Source!Goto, Passed

LEMMA IsLeave ==
  ASSUME NEW n \in Node, NEW s, NEW R, NEW X, Loc = n, n # Outside, RegsNow = R, VarsNow = X, s = prog.stm[n],
         NEW op, NEW ts, obs' = Event(op, n, R, ts), pos' = Outside, UNCHANGED prog
  PROVE  /\ s.prim = "TRAP" /\ op = "raise" /\ ts = <<>> => Source!Overflow
         /\ s.op \in {"APPLY", "THROW"} /\ op = "call" /\ ts = ArgsOf(s, X) => Source!Call
<1>1. Loc' = Outside /\ RegsNow' = UndefRegs /\ VarsNow' = UndefVars
  BY DEF Loc, RegsNow, VarsNow
<1>2. Source!NoRegs = UndefRegs /\ Source!NoEnv = UndefVars
  BY SameCFG DEF Source!NoRegs, Source!NoEnv, UndefRegs, UndefVars
<1>3. Source!Leave(op, ts)
  BY <1>1, <1>2 DEF Source!Leave, Source!Event, Event
<1>4. Source!s = s /\ Source!a = ArgsOf(s, X)
  BY DEF Source!s, Source!a, ArgsOf
<1> QED
  BY <1>3, <1>4 DEF Source!Overflow, Source!Call

LEMMA IsEnter ==
  ASSUME pos = Outside, obs = Event("none", Outside, UndefRegs, <<>>),
         NEW l \in EntryLabs(prog), NEW f, f = prog.frag[l], Loc' = f.body,
         VarsNow' = [x \in Var |-> IF x \in Elems(f.params) THEN InVal(x) ELSE Undef],
         RegsNow' = [r \in Reg |-> InVal(r)], UNCHANGED <<prog, obs>>
  PROVE  Source!Enter
<1>1. Loc = Outside
  BY DEF Loc
<1>2. obs = Source!Silent
  BY SameCFG DEF Source!Silent, Source!Event, Source!NoRegs, Event, UndefRegs
<1> QED
  BY <1>1, <1>2, SameCFG DEF Source!Enter, Source!In, InVal

-----------------------------------------------------------------------------
(***************************************************************************)
(* The generated code runs as the source does.  Inductively, control is in *)
(* the code of a statement of a finished unit, or outside, and has not     *)
(* been inside before the first group is executed.                         *)
(***************************************************************************)
ExecInv ==
  /\ IsFrame(frame)
  /\ fuel \in Nat
  /\ pos # Outside => phase = "done" /\ pos \in DOMAIN out /\ Main(out[pos])
  /\ fuel = 0 => pos = Outside /\ obs = Event("none", Outside, UndefRegs, <<>>)

(* Where control is, and where it arrives *)
LEMMA Present ==
  ASSUME AllInv, ExecInv, pos # Outside
  PROVE  /\ Ready /\ CodeAt(pos, Loc) /\ Loc \in Node /\ Loc # Outside
         /\ Loc = Here.at /\ pos \in DOMAIN out /\ MainRight(Here)
         /\ RegsNow = RegsIn(at[Loc].regs, env, frame)
         /\ VarsNow = VarsIn(at[Loc].vars, prog.scope[Loc], env)
         /\ prog \in Programs
<1>1. Ready /\ CodeAt(pos, Here.at) /\ Loc = Here.at /\ pos \in DOMAIN out
  BY DEF ExecInv, Ready, CodeAt, Loc, Here
<1>2. Loc \in Node /\ MainRight(Here) /\ prog \in Programs
  BY <1>1, ReadyCode DEF Here
<1>3. Loc # Outside
  BY <1>2, NodeAssumption, OutsideAssumption
<1>4. RegsNow = RegsIn(at[Loc].regs, env, frame) /\ VarsNow = VarsIn(at[Loc].vars, prog.scope[Loc], env)
  BY DEF RegsNow, VarsNow, RegsIn, VarsIn
<1> QED
  BY <1>1, <1>2, <1>3, <1>4

LEMMA Arrival ==
  ASSUME Ready, UNCHANGED vars, NEW m, CodeAt(pos', m)
  PROVE  /\ Loc' = m /\ pos' # Outside /\ phase' = "done" /\ pos' \in DOMAIN out' /\ Main(out'[pos'])
         /\ RegsNow' = RegsIn(at[m].regs, env', frame')
         /\ VarsNow' = VarsIn(at[m].vars, prog.scope[m], env')
<1>1. /\ UNCHANGED <<prog, at, out, phase>> /\ phase = "done"
      /\ pos' \in DOMAIN out /\ out[pos'].at = m /\ Main(out[pos'])
  BY DEF vars, CodeAt, Ready
<1>2. pos' # Outside
  BY <1>1, ReadyCode, OutsideAssumption
<1>3. Loc' = m
  BY <1>1, <1>2 DEF Loc, Here
<1>4. RegsNow' = RegsIn(at[m].regs, env', frame') /\ VarsNow' = VarsIn(at[m].vars, prog.scope[m], env')
  BY <1>1, <1>2, <1>3 DEF RegsNow, VarsNow, RegsIn, VarsIn
<1> QED
  BY <1>1, <1>2, <1>3, <1>4

(* The bindings of a statement are those that the one before it left. *)
LEMMA ChildBindings ==
  ASSUME Ready, NEW n \in Node, NEW m \in Children(prog, n)
  PROVE  /\ at[m].regs = RegVals(mach, n, prog.stm[n], at[n])
         /\ \A e : VarsIn(at[m].vars, prog.scope[m], e)
                     = VarsIn(VarVals(n, prog.stm[n], at[n]), prog.scope[n] \cup Elems(prog.stm[n].res), e)
<1>1. m \in Node /\ prog.scope[m] = prog.scope[n] \cup Elems(prog.stm[n].res)
  BY ReadyCode, Forest
<1>2. n \in Done /\ m \in Done
  BY <1>1, ReadyCode
<1>3. at[m].regs = RegsAfter(n)
  BY <1>2 DEF Ready, AllInv, RegsInv, RegsFollowProgram, Done
<1>4. RegsAfter(n) = RegVals(mach, n, prog.stm[n], at[n])
  BY DEF RegsAfter, RegVals
<1>5. \A x \in prog.scope[m] : at[m].vars[x] = VarVals(n, prog.stm[n], at[n])[x]
  BY <1>2 DEF Ready, AllInv, CodeInv, VarsFollow
<1>6. \A e : VarsIn(at[m].vars, prog.scope[m], e)
               = VarsIn(VarVals(n, prog.stm[n], at[n]), prog.scope[m], e)
  <2> DEFINE vs == VarVals(n, prog.stm[n], at[n])
             ws == at[m].vars
  <2>1. \A x \in prog.scope[m] : ws[x] = vs[x]
    BY <1>5
  <2> HIDE DEF vs, ws
  <2>2. \A e : VarsIn(ws, prog.scope[m], e) = VarsIn(vs, prog.scope[m], e)
    BY <2>1 DEF VarsIn
  <2> QED
    BY <2>2 DEF vs, ws
<1> QED
  BY <1>1, <1>3, <1>4, <1>6

(* After statement s registers and variables are bound as before it. *)
Keeps(hw, n, s, sc, a) ==
  /\ \A d, h : RegsIn(RegVals(hw, n, s, a), d, h) = RegsIn(a.regs, d, h)
  /\ \A d : VarsIn(VarVals(n, s, a), sc \cup Elems(s.res), d) = VarsIn(a.vars, sc, d)

(* Statements that write no register and have no result leave both as they are. *)
LEMMA QuietMeans ==
  ASSUME NEW hw, NEW n, NEW s, NEW sc, NEW a, Fits(hw, n, s, sc, a), Writes(s) = {}, s.res = <<>>,
         NEW e, NEW f, NEW R, R = RegsIn(a.regs, e, f), NEW X, X = VarsIn(a.vars, sc, e)
  PROVE  NextRegs(n, s, R, X) = R /\ NextVars(n, s, R, X) = X /\ Keeps(hw, n, s, sc, a)
<1>1. R = [r \in Reg |-> R[r]] /\ X = [x \in Var |-> X[x]]
  BY DEF RegsIn, VarsIn
<1>2. DOMAIN s.res = {} /\ Elems(s.res) = {}
  BY DEF Elems
<1>3. NextRegs(n, s, R, X) = R
  BY <1>1 DEF NextRegs
<1>4. NextVars(n, s, R, X) = X
  BY <1>1, <1>2 DEF NextVars
<1>5. \A r \in Reg : RegVals(hw, n, s, a)[r] = a.regs[r]
  <2>1. \A r \in Reg : RegVals(hw, n, s, a)[r] = IF r \notin hw THEN NoVal ELSE a.regs[r]
    BY DEF RegVals
  <2>2. \A r \in Reg : r \notin hw => a.regs[r] = NoVal
    BY DEF Fits
  <2> QED
    BY <2>1, <2>2
<1>6. \A x \in Var : VarVals(n, s, a)[x] = a.vars[x]
  BY <1>2 DEF VarVals
<1>7. \A d, h : RegsIn(RegVals(hw, n, s, a), d, h) = RegsIn(a.regs, d, h)
  BY <1>5 DEF RegsIn
<1>8. \A d : VarsIn(VarVals(n, s, a), sc \cup Elems(s.res), d) = VarsIn(a.vars, sc, d)
  BY <1>2, <1>6 DEF VarsIn
<1> QED
  BY <1>3, <1>4, <1>7, <1>8 DEF Keeps

(* A group's instructions do what its statement does. *)
LEMMA GroupMeans ==
  ASSUME AllInv, ExecInv, pos # Outside, Here.end.op # "gc",
         NEW n, n = Loc, NEW s, s = prog.stm[n], NEW p, p = Run(Here.at, Here.ins, [e |-> env, f |-> frame])
  PROVE  Agrees(mach, n, s, prog.scope[n], at[n], RegsNow, VarsNow, p)
<1>1. /\ n = Here.at /\ MainRight(Here)
      /\ RegsNow = RegsIn(at[n].regs, env, frame) /\ VarsNow = VarsIn(at[n].vars, prog.scope[n], env)
  BY Present
<1>2. Means(mach, n, s, prog.scope[n], at[n], Here.ins)
  BY <1>1 DEF MainRight
<1>3. IsFrame(frame) /\ p = Run(n, Here.ins, [e |-> env, f |-> frame])
  BY <1>1 DEF ExecInv
<1> QED
  BY <1>1, <1>2, <1>3 DEF Means, Agrees

(* Control goes on to the code of the statement after n. *)
LEMMA StraightRuns ==
  ASSUME AllInv, ExecInv, pos # Outside, UNCHANGED vars, fuel' = fuel + 1, obs' = obs,
         NEW n, n = Loc, NEW s, s = prog.stm[n], NEW p, env' = p.e, frame' = p.f,
         s.op \in {"LET", "ALLOC", "ARITH", "SETTER", "CALLGC"},
         Agrees(mach, n, s, prog.scope[n], at[n], RegsNow, VarsNow, p),
         \A m \in Children(prog, n) : CodeAt(pos', m)
  PROVE  Source!Straight /\ ExecInv'
<1>p. PICK R, X : R = RegsNow /\ X = VarsNow
  OBVIOUS
<1>1. Ready /\ n # Outside /\ n \in Node /\ prog \in Programs
  BY Present
<1>2. s.next[1] \in Children(prog, n)
  <2>1. Len(s.next) = 1 /\ s.next \in Seq(Node)
    BY <1>1, StmFacts DEF Arity, Stm
  <2> QED
    BY <2>1 DEF Children, Elems
<1>m. PICK m : m = s.next[1]
  OBVIOUS
<1>3. m \in Children(prog, n) /\ CodeAt(pos', m)
  BY <1>2, <1>m
<1>4. /\ Loc' = m /\ pos' # Outside /\ phase' = "done" /\ pos' \in DOMAIN out' /\ Main(out'[pos'])
      /\ RegsNow' = RegsIn(at[m].regs, env', frame')
      /\ VarsNow' = VarsIn(at[m].vars, prog.scope[m], env')
  BY <1>1, <1>3, Arrival
<1>5. /\ IsFrame(p.f)
      /\ RegsIn(RegVals(mach, n, s, at[n]), p.e, p.f) = NextRegs(n, s, R, X)
      /\ VarsIn(VarVals(n, s, at[n]), prog.scope[n] \cup Elems(s.res), p.e) = NextVars(n, s, R, X)
  <2>1. Agrees(mach, n, s, prog.scope[n], at[n], R, X, p)
    BY <1>p, Zenon
  <2> QED
    BY <2>1, Zenon DEF Agrees
<1>6. RegsNow' = NextRegs(n, s, R, X) /\ VarsNow' = NextVars(n, s, R, X)
  BY <1>1, <1>3, <1>4, <1>5, ChildBindings
<1>7. Source!Straight
  <2>1. UNCHANGED <<prog, obs>>
    BY Zenon DEF vars
  <2> QED
    BY <1>p, <1>m, <1>1, <1>4, <1>6, <2>1, IsStraight
<1>8. ExecInv'
  <2>1. fuel' \in Nat /\ fuel' # 0
    BY DEF ExecInv
  <2> QED
    BY <1>4, <1>5, <2>1 DEF ExecInv
<1> QED
  BY <1>7, <1>8

(* A group that falls through: a statement with a continuation *)
LEMMA FallRuns ==
  ASSUME AllInv, ExecInv, pos # Outside, UNCHANGED vars, fuel' = fuel + 1, NEW p,
         p = Run(Here.at, Here.ins, [e |-> env, f |-> frame]), XFall(Here, p)
  PROVE  Source!Straight /\ ExecInv'
<1> PICK n, s : n = Loc /\ s = prog.stm[n]
  OBVIOUS
<1>1. Ready /\ n = Here.at /\ pos \in DOMAIN out /\ MainRight(Here)
  BY Present
<1>2. pos' = NextInBlock(pos) /\ env' = p.e /\ frame' = p.f /\ obs' = obs /\ Here.end.op = "fall"
  BY DEF XFall
<1>3. s.op \in {"LET", "ALLOC", "ARITH", "SETTER"}
  BY <1>1, <1>2 DEF MainRight, EndRight
<1>4. Agrees(mach, n, s, prog.scope[n], at[n], RegsNow, VarsNow, p)
  BY <1>2, GroupMeans
<1>5. \A m \in Children(prog, n) : CodeAt(pos', m)
  <2> TAKE m \in Children(prog, n)
  <2>1. m \in Children(prog, out[pos].at) /\ out[pos].end.op \in {"fall", "gc"}
    BY <1>1, <1>2 DEF Here
  <2> QED
    BY <1>1, <1>2, <2>1, FallNext
<1> QED
  BY <1>2, <1>3, <1>4, <1>5, StraightRuns

(* call-gc gives every machine register and every root back. *)
LEMMA GCRuns ==
  ASSUME AllInv, ExecInv, pos # Outside, UNCHANGED vars, fuel' = fuel + 1, NEW p,
         p = Run(Here.at, Here.ins, [e |-> env, f |-> frame]), XGC(Here, p)
  PROVE  Source!Straight /\ ExecInv'
<1> PICK n \in Node : n = Loc
  BY Present
<1> PICK s : s = prog.stm[n]
  OBVIOUS
<1> PICK a : a = at[n]
  OBVIOUS
<1> PICK R, X : R = RegsNow /\ X = VarsNow
  OBVIOUS
<1> PICK sc : sc = prog.scope[n]
  OBVIOUS
<1> PICK g : g = Here
  OBVIOUS
<1>1. /\ Ready /\ CodeAt(pos, n) /\ n # Outside /\ n = g.at /\ pos \in DOMAIN out /\ MainRight(g)
      /\ R = RegsIn(a.regs, env, frame) /\ X = VarsIn(a.vars, sc, env) /\ prog \in Programs
      /\ g = out[pos]
  BY Present DEF Here
<1>2. /\ pos' = NextInBlock(pos) /\ obs' = obs /\ g.end.op = "gc"
      /\ frame' = [r \in Reg |-> IF r \in mach THEN Undef ELSE Fn(n, r, <<p.f[r]>>)]
  BY <1>1 DEF XGC
<1>3. /\ s.op = "CALLGC" /\ g.ins = <<>> /\ g.end.regs = a.regs /\ g.end.args = ArgVals(s, a)
      /\ Fits(mach, n, s, sc, a)
  BY <1>1, <1>2 DEF MainRight, EndRight
<1>4. p.e = env /\ p.f = frame
  BY <1>1, <1>3, RunNone
<1> DEFINE Place(x) == CHOOSE i \in DOMAIN s.res : s.res[i] = x
           roots == [v \in {V("ins", n, x) : x \in Elems(s.res)} |->
                       Fn(n, v.nm, <<Held(env, ArgVals(s, a)[Place(v.nm)])>>)]
           machs == [v \in {V("ins", n, r) : r \in mach} |-> Fn(n, v.nm, <<Held(env, a.regs[v.nm])>>)]
           q == [e |-> env', f |-> frame']
<1>5. env' = With(With(env, roots), machs)
  <2>1. env' = Collected(g.at, prog.stm[g.at].res, g.end.regs, g.end.args, p.e)
    BY <1>1 DEF XGC
  <2>2. env' = Collected(n, s.res, a.regs, ArgVals(s, a), env)
    BY <1>1, <1>3, <1>4, <2>1
  <2> QED
    BY <2>2 DEF Collected
<1>6. /\ DOMAIN roots = {V("ins", n, x) : x \in Elems(s.res)} /\ DOMAIN machs = {V("ins", n, r) : r \in mach}
      /\ \A v \in DOMAIN machs : machs[v] = Fn(n, v.nm, <<Held(env, a.regs[v.nm])>>)
      /\ \A v \in DOMAIN roots : roots[v] =
           Fn(n, v.nm, <<Held(env, ArgVals(s, a)[Place(v.nm)])>>)
      /\ \A x : V("ins", n, x).nm = x
  BY DEF V
<1> HIDE DEF roots, machs, Place
<1>7. \A v : Held(env', v) = IF v \in DOMAIN machs THEN machs[v] ELSE IF v \in DOMAIN roots THEN roots[v] ELSE Held(env, v)
  BY <1>5, HeldWith
<1>8. /\ s \in Stm /\ Arity(s) /\ mach \subseteq Reg /\ sc \subseteq Var
      /\ Elems(s.res) \subseteq Var /\ DOMAIN s.res \subseteq DOMAIN s.args
      /\ s.prim \notin {"VAR", "GET", "SET", "RECORD"} /\ Writes(s) = Reg
      /\ \A i \in DOMAIN s.args : s.args[i] \in sc
  <2>1. /\ s \in Stm /\ Arity(s) /\ mach \subseteq Reg /\ sc \subseteq Var
        /\ \A i \in DOMAIN s.args : s.args[i] \in sc
        /\ Elems(s.res) \subseteq Var
    BY <1>3 DEF Fits
  <2>2. s.prim \notin {"VAR", "GET", "SET", "RECORD"} /\ Writes(s) = Reg
    BY <1>3, <2>1 DEF Arity, Writes
  <2>3. DOMAIN s.res \subseteq DOMAIN s.args
    <3>1. s.res \in Seq(Var) /\ s.args \in Seq(Var) /\ Len(s.res) <= Len(s.args)
      BY <1>3, <2>1 DEF Stm, Arity
    <3> QED
      BY <3>1
  <2> QED
    BY <2>1, <2>2, <2>3
<1>9. \A x \in Elems(s.res) : V("ins", n, x) \notin DOMAIN machs
  <2> TAKE x \in Elems(s.res)
  <2>1. x \notin mach
    BY <1>8, NamesAssumption
  <2> QED
    BY <1>6, <2>1
<1>10. IsFrame(q.f)
  <2>1. q.f = [r \in Reg |-> IF r \in mach THEN Undef ELSE Fn(n, r, <<p.f[r]>>)]
    BY <1>2
  <2> QED
    BY <2>1 DEF IsFrame
<1>11. Kept(n, env, q.e)
  <2>1. \A v : v \in DOMAIN machs \cup DOMAIN roots => v \in Own(n)
    BY <1>6, <1>8 DEF Own
  <2> QED
    BY <1>7, <2>1 DEF Kept
<1>12. \A r \in Reg : NextRegs(n, s, R, X)[r] = Fn(n, r, <<R[r]>>)
  BY <1>8 DEF NextRegs
<1>13. \A r \in Reg : R[r] = IF a.regs[r] = NoVal THEN frame[r] ELSE Held(env, a.regs[r])
  BY <1>1 DEF RegsIn
<1>14. \A r \in Reg \ mach : q.f[r] = NextRegs(n, s, R, X)[r]
  BY <1>2, <1>3, <1>4, <1>12, <1>13 DEF Fits
<1>15. \A r \in mach : Held(q.e, V("ins", n, r)) = NextRegs(n, s, R, X)[r]
  <2> TAKE r \in mach
  <2>1. r \in Reg /\ a.regs[r] # NoVal
    BY <1>3, <1>8 DEF Fits
  <2>2. V("ins", n, r) \in DOMAIN machs
    BY <1>6
  <2>3. Held(env', V("ins", n, r)) = Fn(n, r, <<Held(env, a.regs[r])>>)
    BY <1>6, <1>7, <2>2
  <2> QED
    BY <1>12, <1>13, <2>1, <2>3
<1>16. \A x \in Elems(s.res) : Held(q.e, VarVals(n, s, a)[x]) = NextVars(n, s, R, X)[x]
  <2> TAKE x \in Elems(s.res)
  <2> PICK i : i = Place(x)
    OBVIOUS
  <2>1. i \in DOMAIN s.res /\ s.res[i] = x /\ i \in DOMAIN s.args
    BY <1>8, ZenonT(30) DEF Elems, Place
  <2>2. VarVals(n, s, a)[x] = V("ins", n, x)
    BY <1>8 DEF VarVals
  <2>3. NextVars(n, s, R, X)[x] = ResultOf(n, s, R, X, i)
    BY <1>8, <2>1 DEF NextVars, Place
  <2>4. ResultOf(n, s, R, X, i) = Fn(n, x, <<ArgsOf(s, X)[i]>>)
    BY <1>3, <1>8, <2>1 DEF ResultOf
  <2>5. ArgsOf(s, X)[i] = Held(env, ArgVals(s, a)[i])
    <3>1. X[s.args[i]] = Held(env, a.vars[s.args[i]])
      BY <1>1, <1>8, <2>1 DEF VarsIn
    <3> QED
      BY <2>1, <3>1, SMTT(60) DEF ArgsOf, ArgVals
  <2>6. Held(env', V("ins", n, x)) = Fn(n, x, <<Held(env, ArgVals(s, a)[i])>>)
    <3>1. V("ins", n, x) \in DOMAIN roots /\ V("ins", n, x) \notin DOMAIN machs
      BY <1>6, <1>9
    <3>2. Held(env', V("ins", n, x)) = roots[V("ins", n, x)]
      BY <1>7, <3>1
    <3> QED
      BY <1>6, <3>1, <3>2
  <2> QED
    BY <2>2, <2>3, <2>4, <2>5, <2>6
<1>17. Does(mach, n, s, a, R, X, env, q)
  BY <1>10, <1>11, <1>14, <1>15, <1>16 DEF Does
<1> HIDE DEF q
<1>18. Agrees(mach, n, s, sc, a, RegsNow, VarsNow, q)
  <2>1. Effect(mach, n, s, sc, a, env, frame, R, X, q)
    BY <1>1, <1>3, <1>17 DEF Effect
  <2>2. Agrees(mach, n, s, sc, a, R, X, q)
    BY <2>1, DoesMeans
  <2> QED
    BY <2>2
<1>19. env' = q.e /\ frame' = q.f
  BY DEF q
<1>20. \A m \in Children(prog, n) : CodeAt(pos', m)
  <2> TAKE m \in Children(prog, n)
  <2>1. m \in Children(prog, out[pos].at) /\ out[pos].end.op \in {"fall", "gc"}
    BY <1>1, <1>2
  <2> QED
    BY <1>1, <1>2, <2>1, FallNext
<1> QED
  BY <1>2, <1>3, <1>18, <1>19, <1>20, StraightRuns

(* The registers that a call passes on are the source's. *)
LEMMA SeenRegs ==
  ASSUME mach \subseteq Reg, NEW rs, NEW e, NEW f, NEW R, R = [r \in Reg |-> R[r]],
         \A r \in mach : Held(e, rs[r]) = R[r], \A r \in Reg \ mach : f[r] = R[r]
  PROVE  Seen(rs, e, f) = R
<1>1. Seen(rs, e, f) = [r \in Reg |-> Seen(rs, e, f)[r]]
  BY DEF Seen
<1>2. \A r \in Reg : Seen(rs, e, f)[r] = IF r \in mach THEN Held(e, rs[r]) ELSE f[r]
  BY DEF Seen
<1>3. \A r \in Reg : Seen(rs, e, f)[r] = R[r]
  BY <1>2
<1> QED
  BY <1>1, <1>3

(* Control leaves the unit. *)
LEMMA LeftExec ==
  ASSUME ExecInv, fuel' = fuel + 1, pos' = Outside, frame' = UndefRegs
  PROVE  ExecInv'
<1>1. fuel' \in Nat /\ fuel' # 0
  BY DEF ExecInv
<1>2. IsFrame(frame')
  BY DEF IsFrame, UndefRegs
<1> QED
  BY <1>1, <1>2 DEF ExecInv

(* A tail call *)
LEMMA CallRuns ==
  ASSUME AllInv, ExecInv, pos # Outside, UNCHANGED vars, fuel' = fuel + 1, NEW p,
         p = Run(Here.at, Here.ins, [e |-> env, f |-> frame]), XCall(Here, p)
  PROVE  Source!Call /\ ExecInv'
<1> PICK n \in Node : n = Loc
  BY Present
<1> PICK s, a, sc : s = prog.stm[n] /\ a = at[n] /\ sc = prog.scope[n]
  OBVIOUS
<1> PICK R, X : R = RegsNow /\ X = VarsNow
  OBVIOUS
<1> PICK g : g = Here
  OBVIOUS
<1>1. /\ Ready /\ n # Outside /\ n = g.at /\ MainRight(g)
      /\ R = RegsIn(a.regs, env, frame) /\ X = VarsIn(a.vars, sc, env)
  BY Present
<1>2. /\ g.end.op = "call" /\ pos' = Outside /\ frame' = UndefRegs
      /\ obs' = Event("call", n, Seen(g.end.regs, p.e, p.f), HeldAll(p.e, g.end.args))
  BY <1>1 DEF XCall, XLeave
<1>3. /\ s.op \in {"APPLY", "THROW"} /\ g.ins = <<>> /\ g.end.regs = a.regs /\ g.end.args = ArgVals(s, a)
      /\ Fits(mach, n, s, sc, a)
  BY <1>1, <1>2 DEF MainRight, EndRight
<1>4. p.e = env /\ p.f = frame
  BY <1>1, <1>3, RunNone
<1>5. Seen(a.regs, env, frame) = R
  <2>1. mach \subseteq Reg /\ R = [r \in Reg |-> R[r]]
    BY <1>1, <1>3 DEF Fits, RegsIn
  <2>2. \A r \in Reg : R[r] = IF r \in mach THEN Held(env, a.regs[r]) ELSE frame[r]
    BY <1>1, <1>3 DEF RegsIn, Fits
  <2>3. /\ \A r \in mach : Held(env, a.regs[r]) = R[r]
        /\ \A r \in Reg \ mach : frame[r] = R[r]
    BY <2>1, <2>2
  <2> QED
    BY <2>1, <2>3, SeenRegs
<1>6. HeldAll(env, ArgVals(s, a)) = ArgsOf(s, X)
  <2>1. \A i \in DOMAIN s.args : s.args[i] \in sc /\ s.args[i] \in Var
    BY <1>3, ZenonT(30) DEF Fits
  <2>2. \A i \in DOMAIN s.args : X[s.args[i]] = Held(env, a.vars[s.args[i]])
    BY <1>1, <2>1 DEF VarsIn
  <2>3. DOMAIN ArgVals(s, a) = DOMAIN s.args /\ \A i \in DOMAIN s.args : ArgVals(s, a)[i] = a.vars[s.args[i]]
    BY DEF ArgVals
  <2>4. HeldAll(env, ArgVals(s, a)) = [i \in DOMAIN s.args |-> Held(env, ArgVals(s, a)[i])]
    BY <2>3 DEF HeldAll
  <2>5. \A i \in DOMAIN s.args : Held(env, ArgVals(s, a)[i]) = X[s.args[i]]
    BY <2>2, <2>3
  <2> QED
    BY <2>4, <2>5 DEF ArgsOf
<1>7. obs' = Event("call", n, R, ArgsOf(s, X)) /\ UNCHANGED prog
  BY <1>2, <1>3, <1>4, <1>5, <1>6 DEF vars
<1>8. Source!Call
  BY <1>1, <1>2, <1>3, <1>7, IsLeave
<1> QED
  BY <1>2, <1>8, LeftExec

(* The values after control has entered block b from block p *)
LEMMA HeldEnter ==
  ASSUME NEW b, NEW p, NEW e, NEW v
  PROVE  Held(Enter(b, p, e), v) = IF v \in PhisOf(b) THEN Taken(v, p, e) ELSE Held(e, v)
<1> DEFINE phis == [x \in PhisOf(b) |-> Taken(x, p, e)]
<1>1. Enter(b, p, e) = With(e, phis) /\ DOMAIN phis = PhisOf(b)
  BY DEF Enter
<1>2. v \in PhisOf(b) => phis[v] = Taken(v, p, e)
  OBVIOUS
<1> HIDE DEF phis
<1> QED
  BY <1>1, <1>2, HeldWith

(* Checked arithmetic: the next statement, or Overflow with the registers as they are *)
LEMMA TrapRuns ==
  ASSUME AllInv, ExecInv, pos # Outside, UNCHANGED vars, fuel' = fuel + 1, NEW p,
         p = Run(Here.at, Here.ins, [e |-> env, f |-> frame]), XOverflow(Here, p)
  PROVE  (Source!Straight \/ Source!Overflow) /\ ExecInv'
<1> PICK n \in Node : n = Loc
  BY Present
<1> PICK s, a, sc : s = prog.stm[n] /\ a = at[n] /\ sc = prog.scope[n]
  OBVIOUS
<1> PICK R, X : R = RegsNow /\ X = VarsNow
  OBVIOUS
<1> PICK g : g = Here
  OBVIOUS
<1>1. /\ Ready /\ n # Outside /\ n = g.at /\ MainRight(g) /\ prog \in Programs
      /\ R = RegsIn(a.regs, env, frame) /\ X = VarsIn(a.vars, sc, env)
  BY Present
<1>2. g.end.op = "ovbr"
  BY DEF XOverflow
<1>3. TrapRight(n, s, a, g) /\ g.blk = a.blk /\ Fits(mach, n, s, sc, a)
  BY <1>1, <1>2 DEF MainRight, EndRight
<1>4. PICK m \in Node : /\ g.end.to = <<Blk("overflow", m), Blk("ok", n)>> /\ Raises(m)
                        /\ \A r \in mach : Entry(V("ovphi", m, r), a.regs[r], a.blk)
  BY <1>3 DEF TrapRight
<1>5. s.prim = "TRAP" /\ s.op = "ARITH"
  BY <1>1, <1>3, StmFacts DEF TrapRight, Arity
<1>6. Agrees(mach, n, s, sc, a, R, X, p)
  BY <1>2, GroupMeans
<1>7. CASE pos' = BlockStart(g.end.to[2]) /\ env' = p.e /\ frame' = p.f /\ UNCHANGED obs
  <2>1. \A k \in Children(prog, n) : CodeAt(pos', k)
    BY <1>1, <1>4, <1>5, <1>7, OkStart
  <2> QED
    BY <1>5, <1>6, <1>7, <2>1, StraightRuns
<1>8. CASE LET b == g.end.to[1] IN
             XLeave("raise", n, out[BlockStart(b)].end.regs, <<>>, Enter(b, g.blk, p.e), p.f)
  <2> PICK b : b = Blk("overflow", m)
    OBVIOUS
  <2> PICK e : e = Enter(b, a.blk, p.e)
    OBVIOUS
  <2>1. g.end.to[1] = b /\ b \in Block /\ PhisOf(b) = {V("ovphi", m, r) : r \in mach}
    <3>1. b \in Block
      BY DEF Block, Blk
    <3>2. b.k = "overflow" /\ b.at = m
      BY DEF Blk
    <3> QED
      BY <1>4, <3>1, <3>2 DEF PhisOf
  <2>2. out[BlockStart(b)].end.regs = MachRegs("ovphi", m)
    BY <1>1, <1>4, RaiseStart
  <2>3. /\ pos' = Outside /\ frame' = UndefRegs
        /\ obs' = Event("raise", n, Seen(MachRegs("ovphi", m), e, p.f), <<>>)
    BY <1>3, <1>8, <2>1, <2>2, SMTT(60) DEF XLeave
  <2>4. mach \subseteq Reg /\ R = [r \in Reg |-> R[r]] /\ Writes(s) = {}
    BY <1>1, <1>3, <1>5 DEF Fits, RegsIn, Writes
  <2>5. \A r \in Reg : R[r] = IF r \in mach THEN Held(p.e, a.regs[r]) ELSE p.f[r]
    <3>1. NextRegs(n, s, R, X) = R
      BY <2>4 DEF NextRegs
    <3>2. RegsIn(RegVals(mach, n, s, a), p.e, p.f) = R
      BY <1>6, <3>1 DEF Agrees
    <3>3. \A r \in Reg : RegVals(mach, n, s, a)[r] = IF r \in mach THEN a.regs[r] ELSE NoVal
      BY <2>4 DEF RegVals
    <3>4. \A r \in mach : a.regs[r] # NoVal
      BY <1>3, <2>4 DEF Fits
    <3> HIDE DEF RegVals
    <3>5. \A r \in Reg : R[r] = IF RegVals(mach, n, s, a)[r] = NoVal THEN p.f[r]
                                ELSE Held(p.e, RegVals(mach, n, s, a)[r])
      BY <3>2 DEF RegsIn
    <3> QED
      BY <3>3, <3>4, <3>5
  <2>6. \A r \in mach : Held(e, MachRegs("ovphi", m)[r]) = R[r]
    <3> TAKE r \in mach
    <3>1. MachRegs("ovphi", m)[r] = V("ovphi", m, r)
      BY <2>4 DEF MachRegs
    <3>2. V("ovphi", m, r) \in PhisOf(b)
      BY <2>1
    <3>3. Held(e, V("ovphi", m, r)) = Taken(V("ovphi", m, r), a.blk, p.e)
      BY <3>2, HeldEnter
    <3>4. Taken(V("ovphi", m, r), a.blk, p.e) = Held(p.e, a.regs[r])
      BY <1>1, <1>4, <2>1, <3>2, TakenEntry
    <3> QED
      BY <2>4, <2>5, <3>1, <3>3, <3>4
  <2>7. Seen(MachRegs("ovphi", m), e, p.f) = R
    <3>1. \A r \in Reg \ mach : p.f[r] = R[r]
      BY <2>5
    <3> QED
      BY <2>4, <2>6, <3>1, SeenRegs
  <2>8. Source!Overflow
    <3>1. obs' = Event("raise", n, R, <<>>) /\ UNCHANGED prog
      BY <2>3, <2>7 DEF vars
    <3> QED
      BY <1>1, <1>5, <2>3, <3>1, IsLeave
  <2> QED
    BY <2>3, <2>8, LeftExec
<1> QED
  BY <1>1, <1>7, <1>8 DEF XOverflow

(* What a test or a GOTO does: nothing to registers and variables. *)
LEMMA QuietGroup ==
  ASSUME AllInv, ExecInv, pos # Outside, Here.end.op = "br",
         NEW n, n = Loc, NEW s, s = prog.stm[n], s.op \in {"BRANCH", "SWITCH", "GOTO"},
         NEW a, a = at[n], NEW sc, sc = prog.scope[n],
         NEW p, p = Run(Here.at, Here.ins, [e |-> env, f |-> frame])
  PROVE  /\ IsFrame(p.f)
         /\ RegsIn(a.regs, p.e, p.f) = RegsNow
         /\ VarsIn(a.vars, sc, p.e) = VarsNow
         /\ Keeps(mach, n, s, sc, a)
<1> PICK R, X : R = RegsNow /\ X = VarsNow
  OBVIOUS
<1>1. Agrees(mach, n, s, sc, a, R, X, p)
  BY GroupMeans
<1>2. R = RegsIn(a.regs, env, frame) /\ X = VarsIn(a.vars, sc, env) /\ Fits(mach, n, s, sc, a)
  <2>1. n = Here.at /\ MainRight(Here)
    BY Present
  <2> QED
    BY <2>1, Present DEF MainRight
<1>3. Writes(s) = {} /\ s.res = <<>>
  BY <1>2 DEF Fits, Arity, Writes
<1>4. NextRegs(n, s, R, X) = R /\ NextVars(n, s, R, X) = X /\ Keeps(mach, n, s, sc, a)
  BY <1>2, <1>3, QuietMeans
<1>5. /\ IsFrame(p.f)
      /\ RegsIn(RegVals(mach, n, s, a), p.e, p.f) = NextRegs(n, s, R, X)
      /\ VarsIn(VarVals(n, s, a), sc \cup Elems(s.res), p.e) = NextVars(n, s, R, X)
  BY <1>1 DEF Agrees
<1>6. /\ RegsIn(RegVals(mach, n, s, a), p.e, p.f) = RegsIn(a.regs, p.e, p.f)
      /\ VarsIn(VarVals(n, s, a), sc \cup Elems(s.res), p.e) = VarsIn(a.vars, sc, p.e)
  BY <1>4 DEF Keeps
<1> QED
  BY <1>4, <1>5, <1>6

(* BRANCH and SWITCH: the code of an arm, which finds everything as it was *)
LEMMA ChooseRuns ==
  ASSUME AllInv, ExecInv, pos # Outside, UNCHANGED vars, fuel' = fuel + 1, NEW p,
         p = Run(Here.at, Here.ins, [e |-> env, f |-> frame]), XBranch(Here, p),
         BranchRight(Loc, prog.stm[Loc], at[Loc], Here)
  PROVE  Source!Choose /\ ExecInv'
<1> PICK n \in Node : n = Loc
  BY Present
<1> PICK s, a, sc : s = prog.stm[n] /\ a = at[n] /\ sc = prog.scope[n]
  OBVIOUS
<1> PICK R, X : R = RegsNow /\ X = VarsNow
  OBVIOUS
<1> PICK g : g = Here
  OBVIOUS
<1>1. /\ Ready /\ n # Outside /\ n = g.at /\ prog \in Programs /\ TypeOK
      /\ R = RegsIn(a.regs, env, frame) /\ X = VarsIn(a.vars, sc, env)
  BY Present DEF AllInv
<1>2. /\ s.op \in {"BRANCH", "SWITCH"} /\ Len(g.end.to) > 1
      /\ {b \in Elems(g.end.to) : b.k # "impossible"} = {BB(m) : m \in Children(prog, n)}
      /\ Tests(n, s, sc, a, g.ins, g.end.args)
  BY DEF BranchRight
<1>3. PICK b \in {t \in Elems(g.end.to) : t.k # "impossible"} :
        pos' = BlockStart(b) /\ env' = Enter(b, g.blk, p.e)
  BY DEF XBranch
<1>4. /\ g.end.op = "br" /\ frame' = p.f
      /\ obs' = Event("test", n, UndefRegs, HeldAll(p.e, g.end.args))
  <2>1. Len(g.end.to) # 1
    <3> SUFFICES ASSUME Len(g.end.to) = 1 PROVE FALSE
      OBVIOUS
    <3>1. 1 > 1
      BY <1>2
    <3> QED
      BY <3>1
  <2> QED
    BY <1>1, <2>1 DEF XBranch
<1>5. PICK m \in Children(prog, n) : b = BB(m)
  BY <1>2, <1>3
<1>6. m \in Heads
  BY <1>2 DEF Heads, Arms
<1>7. CodeAt(pos', m)
  BY <1>1, <1>3, <1>5, <1>6, HeadStart
<1>8. \A v : Held(env', v) = Held(p.e, v)
  BY <1>1, <1>3, <1>5, ChildNoPhis, HeldEnter
<1>9. /\ IsFrame(p.f) /\ Keeps(mach, n, s, sc, a)
      /\ RegsIn(a.regs, p.e, p.f) = R
      /\ VarsIn(a.vars, sc, p.e) = X
  BY <1>2, <1>4, QuietGroup
<1>10. /\ Loc' = m /\ pos' # Outside /\ phase' = "done" /\ pos' \in DOMAIN out' /\ Main(out'[pos'])
       /\ RegsNow' = RegsIn(at[m].regs, env', frame')
       /\ VarsNow' = VarsIn(at[m].vars, prog.scope[m], env')
  BY <1>1, <1>7, Arrival
<1>11. RegsNow' = RegsIn(a.regs, env', p.f) /\ VarsNow' = VarsIn(a.vars, sc, env')
  <2>1. /\ at[m].regs = RegVals(mach, n, s, a)
        /\ VarsIn(at[m].vars, prog.scope[m], env') = VarsIn(VarVals(n, s, a), sc \cup Elems(s.res), env')
    BY <1>1, ChildBindings
  <2>2. /\ RegsIn(RegVals(mach, n, s, a), env', p.f) = RegsIn(a.regs, env', p.f)
        /\ VarsIn(VarVals(n, s, a), sc \cup Elems(s.res), env') = VarsIn(a.vars, sc, env')
    BY <1>9 DEF Keeps
  <2> QED
    BY <1>4, <1>10, <2>1, <2>2
<1>12. RegsNow' = R
  <2>1. RegsIn(a.regs, env', p.f) = RegsIn(a.regs, p.e, p.f)
    BY <1>8 DEF RegsIn
  <2> QED
    BY <1>9, <1>11, <2>1
<1>13. VarsNow' = X
  <2>1. VarsIn(a.vars, sc, env') = VarsIn(a.vars, sc, p.e)
    BY <1>8 DEF VarsIn
  <2> QED
    BY <1>9, <1>11, <2>1
<1>14. HeldAll(p.e, g.end.args) = IF s.prim = "LIMIT" THEN <<R["ALLOC"], R["LIMIT"]>> ELSE ArgsOf(s, X)
  <2>1. IsFrame(frame) /\ p = Run(n, g.ins, [e |-> env, f |-> frame])
    BY <1>1 DEF ExecInv
  <2> QED
    BY <1>1, <1>2, <2>1 DEF Tests
<1>15. Source!Choose
  <2>1. obs' = Event("test", n, UndefRegs, IF s.prim = "LIMIT" THEN <<R["ALLOC"], R["LIMIT"]>> ELSE ArgsOf(s, X))
    BY <1>4, <1>14
  <2>2. UNCHANGED prog
    BY DEF vars
  <2> QED
    BY <1>1, <1>2, <1>10, <1>12, <1>13, <2>1, <2>2, IsChoose
<1>16. ExecInv'
  <2>1. fuel' \in Nat /\ fuel' # 0
    BY DEF ExecInv
  <2> QED
    BY <1>4, <1>9, <1>10, <2>1 DEF ExecInv
<1> QED
  BY <1>15, <1>16

(* Where a GOTO arrives: the block of an internal fragment, with a PHI node for
   each machine register and each parameter *)
LandsOn(s, f, m) ==
  /\ s.to \in Lab /\ m \in Node /\ m \in Heads /\ f.kind = "INTERNAL"
  /\ BB(m) \in Block
  /\ PhisOf(BB(m)) = {V("phi", m, x) : x \in mach \cup Elems(f.params)}
  /\ f.params \in Seq(Var) /\ DOMAIN f.params = DOMAIN s.args
  /\ prog.scope[m] = Elems(f.params)
  /\ \A i, j \in DOMAIN f.params : f.params[i] = f.params[j] => i = j

LEMMA GotoArrives ==
  ASSUME NEW n \in Node, prog \in Programs, NEW s, s = prog.stm[n], s.op = "GOTO",
         NEW f, f = prog.frag[s.to]
  PROVE  LandsOn(s, f, f.body)
<1> PICK c : c = ClusterOf(prog, prog.owner[n])
  OBVIOUS
<1>1. WellTargeted(prog) /\ WellLinked(prog) /\ WellScoped(prog)
  BY ProgramsAssumption DEF WellFormed
<1>2. c \in DOMAIN prog.clusters
  BY HomeFacts
<1>3. s.to \in Elems(prog.clusters[c]) /\ s.to \notin EntryLabs(prog) /\ Len(s.args) = Len(f.params)
  BY <1>1 DEF WellTargeted
<1>4. s.to \in Lab /\ f.body \in Node /\ f.body \in Bodies(prog)
  BY <1>2, <1>3, BodyHome
<1>5. f.kind = "INTERNAL"
  <2>1. PICK i \in DOMAIN prog.clusters[c] : s.to = prog.clusters[c][i]
    BY <1>3 DEF Elems
  <2>2. i # 1
    BY <1>2, <1>3, <2>1 DEF EntryLabs
  <2>3. prog.clusters[c] \in Seq(Lab)
    BY <1>2, UnitFacts
  <2>4. i > 1
    BY <2>2, <2>3
  <2> QED
    BY <1>1, <1>2, <2>1, <2>4, SMTT(60) DEF WellLinked
<1>6. prog.owner[f.body] = s.to /\ prog.scope[f.body] = Elems(f.params)
  BY <1>1, <1>4, Zenon DEF WellScoped
<1>7. PhisOf(BB(f.body)) = {V("phi", f.body, x) : x \in mach \cup Elems(f.params)}
  BY <1>4, <1>5, <1>6, Zenon DEF PhisOf, BB, Blk
<1>8. f.params \in Seq(Var) /\ s.args \in Seq(Var)
  BY <1>4, UnitFacts, StmFacts DEF Frag, Stm
<1>9. DOMAIN f.params = DOMAIN s.args
  BY <1>3, <1>8
<1>10. BB(f.body) \in Block
  BY <1>4 DEF BB, Blk, Block
<1>11. \A i, j \in DOMAIN f.params : f.params[i] = f.params[j] => i = j
  BY <1>4, ParamsDistinct
<1> QED
  BY <1>4, <1>5, <1>6, <1>7, <1>8, <1>9, <1>10, <1>11, Zenon DEF Heads, LandsOn

(* What a fragment finds when its code is entered, in its PHI nodes or arguments *)
FragBinds(f, m, k) ==
  /\ \A r \in Reg : at[m].regs[r] = IF r \in mach THEN V(k, m, r) ELSE NoVal
  /\ \A x \in Elems(f.params) : at[m].vars[x] = V(k, m, x)
  /\ prog.scope[m] = Elems(f.params) /\ Elems(f.params) \subseteq Var
  /\ mach \subseteq Reg /\ m \in Heads /\ m \in Node

LEMMA FragBindings ==
  ASSUME Ready, NEW l \in Lab, NEW f, f = prog.frag[l], NEW k,
         k = IF f.kind = "INTERNAL" THEN "phi" ELSE "arg"
  PROVE  FragBinds(f, f.body, k)
<1> PICK m : m = f.body
  OBVIOUS
<1>1. m \in Node /\ m \in Heads /\ prog \in Programs /\ m \in Done
  <2>1. prog \in Programs /\ Node \subseteq Done
    BY ReadyCode
  <2>2. m \in Bodies(prog) /\ m \in Node
    BY <2>1, UnitFacts DEF Bodies
  <2> QED
    BY <2>1, <2>2 DEF Heads
<1>2. StartsWith(l, at[m].regs, at[m].vars)
  BY <1>1 DEF Ready, AllInv, CodeInv, BodiesStart
<1>3. /\ \A r \in mach : at[m].regs[r] = V(k, m, r)
      /\ \A x \in Elems(f.params) : at[m].vars[x] = V(k, m, x)
  BY <1>2, SMTT(60) DEF StartsWith
<1>4. Fits(mach, m, prog.stm[m], prog.scope[m], at[m])
  <2>1. PICK i : CodeAt(i, m)
    BY <1>1, ReadyCode
  <2>2. MainRight(out[i]) /\ out[i].at = m
    BY <2>1, ReadyCode, ZenonT(30) DEF CodeAt
  <2> QED
    BY <2>2 DEF MainRight
<1>5. mach \subseteq Reg /\ \A r \in Reg : r \notin mach => at[m].regs[r] = NoVal
  BY <1>4 DEF Fits
<1>6. prog.scope[m] = Elems(f.params)
  BY <1>1, BodiesDistinct, ZenonT(30)
<1>7. Elems(f.params) \subseteq Var
  BY <1>4, <1>6 DEF Fits
<1> QED
  BY <1>1, <1>3, <1>5, <1>6, <1>7 DEF FragBinds

(* GOTO: the code of the fragment, whose PHI nodes hold the registers and the arguments *)
LEMMA GotoRuns ==
  ASSUME AllInv, ExecInv, pos # Outside, UNCHANGED vars, fuel' = fuel + 1, NEW p,
         p = Run(Here.at, Here.ins, [e |-> env, f |-> frame]), XBranch(Here, p),
         GotoRight(Loc, prog.stm[Loc], at[Loc], Here)
  PROVE  Source!Goto /\ ExecInv'
<1> PICK n \in Node : n = Loc
  BY Present
<1>0. PICK s, a, sc, R, X, g : /\ s = prog.stm[n] /\ a = at[n] /\ sc = prog.scope[n]
                              /\ R = RegsNow /\ X = VarsNow /\ g = Here
  OBVIOUS
<1>t. PICK f, m : f = prog.frag[s.to] /\ m = f.body
  OBVIOUS
<1>1. /\ Ready /\ n # Outside /\ n = g.at /\ prog \in Programs /\ MainRight(g)
      /\ R = RegsIn(a.regs, env, frame) /\ X = VarsIn(a.vars, sc, env)
  BY <1>0, Present, ZenonT(30)
<1>2. /\ s.op = "GOTO" /\ g.end.to = <<BB(m)>>
      /\ \A r \in mach : Entry(V("phi", m, r), a.regs[r], g.blk)
      /\ \A i \in DOMAIN s.args : Entry(V("phi", m, f.params[i]), a.vars[s.args[i]], g.blk)
  <2>1. g.blk = a.blk
    BY <1>0, <1>1 DEF MainRight
  <2> QED
    BY <1>0, <1>t, <2>1 DEF GotoRight
<1>3. /\ s.to \in Lab /\ m \in Node /\ m \in Heads /\ f.kind = "INTERNAL"
      /\ BB(m) \in Block
      /\ PhisOf(BB(m)) = {V("phi", m, x) : x \in mach \cup Elems(f.params)}
      /\ f.params \in Seq(Var) /\ DOMAIN f.params = DOMAIN s.args
      /\ prog.scope[m] = Elems(f.params)
      /\ \A i, j \in DOMAIN f.params : f.params[i] = f.params[j] => i = j
  <2>1. LandsOn(s, f, f.body)
    BY <1>0, <1>t, <1>1, <1>2, GotoArrives, Zenon
  <2> QED
    BY <1>t, <2>1 DEF LandsOn
<1>4. pos' = BlockStart(BB(m)) /\ env' = Enter(BB(m), g.blk, p.e) /\ frame' = p.f /\ obs' = obs /\ g.end.op = "br"
  <2>1. PICK b \in {t \in Elems(g.end.to) : t.k # "impossible"} :
          pos' = BlockStart(b) /\ env' = Enter(b, g.blk, p.e)
    BY <1>0 DEF XBranch
  <2>2. b = BB(m)
    <3>1. Elems(<<BB(m)>>) = {BB(m)}
      BY DEF Elems
    <3> QED
      BY <1>2, <2>1, <3>1
  <2>3. Len(g.end.to) = 1
    BY <1>2
  <2> QED
    BY <1>0, <2>1, <2>2, <2>3 DEF XBranch
<1>5. CodeAt(pos', m)
  BY <1>1, <1>3, <1>4, HeadStart
<1>6. /\ Loc' = m /\ pos' # Outside /\ phase' = "done" /\ pos' \in DOMAIN out' /\ Main(out'[pos'])
      /\ RegsNow' = RegsIn(at[m].regs, env', frame')
      /\ VarsNow' = VarsIn(at[m].vars, prog.scope[m], env')
  BY <1>1, <1>5, Arrival, ZenonT(30)
<1>7. /\ \A r \in Reg : at[m].regs[r] = IF r \in mach THEN V("phi", m, r) ELSE NoVal
      /\ \A x \in Elems(f.params) : at[m].vars[x] = V("phi", m, x)
      /\ Elems(f.params) \subseteq Var /\ mach \subseteq Reg
  <2>1. FragBinds(f, f.body, "phi")
    BY <1>t, <1>1, <1>3, FragBindings
  <2> QED
    BY <1>t, <2>1 DEF FragBinds
<1>8. /\ IsFrame(p.f)
      /\ RegsIn(a.regs, p.e, p.f) = R /\ VarsIn(a.vars, sc, p.e) = X
  BY <1>0, <1>2, <1>4, QuietGroup
<1>9. Fits(mach, n, s, sc, a)
  BY <1>0, <1>1 DEF MainRight
<1>10. \A x, val : x \in mach \cup Elems(f.params) /\ Entry(V("phi", m, x), val, g.blk)
                     => Held(env', V("phi", m, x)) = Held(p.e, val)
  <2> TAKE x, val
  <2> HAVE x \in mach \cup Elems(f.params) /\ Entry(V("phi", m, x), val, g.blk)
  <2>1. V("phi", m, x) \in PhisOf(BB(m))
    BY <1>3
  <2>2. Held(env', V("phi", m, x)) = Taken(V("phi", m, x), g.blk, p.e)
    BY <1>4, <2>1, HeldEnter
  <2>3. Taken(V("phi", m, x), g.blk, p.e) = Held(p.e, val)
    <3> PICK b, v : b = BB(m) /\ v = V("phi", m, x)
      OBVIOUS
    <3>1. Ready /\ b \in Block /\ v \in PhisOf(b) /\ Entry(v, val, g.blk)
      BY <1>1, <1>3, <2>1
    <3>2. Taken(v, g.blk, p.e) = Held(p.e, val)
      BY ONLY <3>1, TakenEntry
    <3> QED
      BY <3>2
  <2> QED
    BY <2>2, <2>3
<1>11. RegsNow' = R
  <2>1. \A r \in Reg : R[r] = IF r \in mach THEN Held(p.e, a.regs[r]) ELSE p.f[r]
    BY <1>8, <1>9 DEF RegsIn, Fits
  <2>2. ASSUME NEW r \in mach PROVE Held(env', V("phi", m, r)) = R[r]
    <3>1. Held(env', V("phi", m, r)) = Held(p.e, a.regs[r])
      BY <1>2, <1>10
    <3> QED
      BY <1>7, <2>1, <3>1
  <2>3. ASSUME NEW r \in mach PROVE V("phi", m, r) # NoVal
    <3>1. V("phi", m, r) \in Val
      BY <1>3, <1>7, NameTypes
    <3> QED
      BY <3>1, NullAssumption
  <2>4. ASSUME NEW r \in Reg PROVE RegsNow'[r] = R[r]
    <3>1. RegsNow'[r] = IF at[m].regs[r] = NoVal THEN p.f[r] ELSE Held(env', at[m].regs[r])
      BY <1>4, <1>6 DEF RegsIn
    <3>2. at[m].regs[r] = IF r \in mach THEN V("phi", m, r) ELSE NoVal
      BY <1>7
    <3> QED
      BY <2>1, <2>2, <2>3, <3>1, <3>2
  <2>5. RegsNow' = [r \in Reg |-> RegsNow'[r]] /\ R = [r \in Reg |-> R[r]]
    BY <1>1, <1>6 DEF RegsIn
  <2> QED
    BY <2>4, <2>5
<1>12. VarsNow' = Passed(s, f, X)
  <2> DEFINE Place(x) == CHOOSE i \in DOMAIN f.params : f.params[i] = x
             got == [x \in Var |-> IF \E i \in DOMAIN f.params : f.params[i] = x
                                   THEN ArgsOf(s, X)[Place(x)] ELSE Undef]
  <2>0. Passed(s, f, X) = got
    BY DEF Passed
  <2>1. \A x \in Elems(f.params) : Place(x) \in DOMAIN f.params /\ f.params[Place(x)] = x
    BY DEF Elems
  <2>2. \A x \in Var : (\E i \in DOMAIN f.params : f.params[i] = x) <=> x \in Elems(f.params)
    BY DEF Elems
  <2> HIDE DEF Place
  <2>3. \A x \in Var : got[x] = IF x \in Elems(f.params) THEN ArgsOf(s, X)[Place(x)] ELSE Undef
    BY <2>2
  <2>4. got = [x \in Var |-> got[x]]
    OBVIOUS
  <2> HIDE DEF got
  <2>5. ASSUME NEW x \in Elems(f.params)
        PROVE  Held(env', V("phi", m, x)) = ArgsOf(s, X)[Place(x)]
    <3> PICK i : i = Place(x)
      OBVIOUS
    <3>1. i \in DOMAIN s.args /\ f.params[i] = x
      BY <1>3, <2>1
    <3>2. Entry(V("phi", m, x), a.vars[s.args[i]], g.blk)
      BY <1>2, <3>1
    <3>3. Held(env', V("phi", m, x)) = Held(p.e, a.vars[s.args[i]])
      BY <1>10, <3>2
    <3>4. s.args[i] \in sc /\ sc \subseteq Var
      BY <1>9, <3>1 DEF Fits
    <3>5. X[s.args[i]] = Held(p.e, a.vars[s.args[i]])
      BY <1>8, <3>4 DEF VarsIn
    <3>6. ArgsOf(s, X)[i] = X[s.args[i]]
      BY <3>1 DEF ArgsOf
    <3> QED
      BY <3>3, <3>5, <3>6
  <2>6. ASSUME NEW x \in Var PROVE VarsNow'[x] = got[x]
    <3>1. VarsNow'[x] = IF x \in Elems(f.params) THEN Held(env', at[m].vars[x]) ELSE Undef
      BY <1>3, <1>6 DEF VarsIn
    <3> QED
      BY <1>7, <2>3, <2>5, <3>1
  <2>7. VarsNow' = [x \in Var |-> VarsNow'[x]]
    BY <1>6 DEF VarsIn
  <2> QED
    BY <2>0, <2>4, <2>6, <2>7
<1>13. Source!Goto
  <2>1. UNCHANGED <<prog, obs>>
    BY <1>4, ZenonT(30) DEF vars
  <2>2. Loc = n /\ n # Outside /\ s.op = "GOTO" /\ Loc' = f.body
    BY <1>t, <1>1, <1>2, <1>6
  <2> QED
    BY <1>0, <1>t, <1>11, <1>12, <2>1, <2>2, IsGoto
<1>14. ExecInv'
  <2>1. fuel' \in Nat /\ fuel' # 0
    BY DEF ExecInv
  <2> QED
    BY <1>4, <1>6, <1>8, <2>1 DEF ExecInv
<1> QED
  BY <1>13, <1>14

LEMMA BranchRuns ==
  ASSUME AllInv, ExecInv, pos # Outside, UNCHANGED vars, fuel' = fuel + 1, NEW p,
         p = Run(Here.at, Here.ins, [e |-> env, f |-> frame]), XBranch(Here, p)
  PROVE  (Source!Choose \/ Source!Goto) /\ ExecInv'
<1>1. MainRight(Here) /\ Loc = Here.at
  BY Present
<1>2. Here.end.op = "br"
  BY DEF XBranch
<1>3. GotoRight(Loc, prog.stm[Loc], at[Loc], Here) \/ BranchRight(Loc, prog.stm[Loc], at[Loc], Here)
  BY <1>1, <1>2 DEF MainRight, EndRight
<1>4. CASE GotoRight(Loc, prog.stm[Loc], at[Loc], Here)
  BY <1>4, GotoRuns
<1>5. CASE BranchRight(Loc, prog.stm[Loc], at[Loc], Here)
  BY <1>5, ChooseRuns
<1> QED
  BY <1>3, <1>4, <1>5

(* A group of instructions does what one step of the source does. *)
LEMMA GroupRuns ==
  ASSUME AllInv, ExecInv, XGroup
  PROVE  Source!Next /\ ExecInv'
<1> PICK p : p = Run(Here.at, Here.ins, [e |-> env, f |-> frame])
  OBVIOUS
<1>1. pos # Outside /\ UNCHANGED vars /\ fuel' = fuel + 1
  BY DEF XGroup
<1>2. XFall(Here, p) \/ XGC(Here, p) \/ XBranch(Here, p) \/ XOverflow(Here, p) \/ XCall(Here, p)
  BY DEF XGroup
<1>3. CASE XFall(Here, p)
  BY <1>1, <1>3, FallRuns DEF Source!Next
<1>4. CASE XGC(Here, p)
  BY <1>1, <1>4, GCRuns DEF Source!Next
<1>5. CASE XBranch(Here, p)
  BY <1>1, <1>5, BranchRuns DEF Source!Next
<1>6. CASE XOverflow(Here, p)
  BY <1>1, <1>6, TrapRuns DEF Source!Next
<1>7. CASE XCall(Here, p)
  BY <1>1, <1>7, CallRuns DEF Source!Next
<1> QED
  BY <1>2, <1>3, <1>4, <1>5, <1>6, <1>7

(* An entry fragment is no internal one. *)
LEMMA EntryKind ==
  ASSUME prog \in Programs, NEW l \in EntryLabs(prog)
  PROVE  l \in Lab /\ prog.frag[l].kind # "INTERNAL"
<1>1. WellLinked(prog)
  BY ProgramsAssumption DEF WellFormed
<1>2. PICK c \in DOMAIN prog.clusters : l = prog.clusters[c][1]
  BY DEF EntryLabs
<1>3. prog.clusters[c] \in Seq(Lab) /\ prog.clusters[c] # <<>>
  BY <1>1, UnitFacts DEF WellLinked
<1>4. 1 \in DOMAIN prog.clusters[c]
  BY <1>3
<1>5. ~(1 > 1)
  OBVIOUS
<1>6. prog.frag[l].kind # "INTERNAL"
  BY <1>1, <1>2, <1>4, <1>5 DEF WellLinked
<1> QED
  BY <1>6, UnitFacts

(* A call arrives: arguments and frame hold what the source starts with. *)
LEMMA EnterRuns ==
  ASSUME AllInv, ExecInv, XEnter
  PROVE  Source!Enter /\ ExecInv'
<1>1. Ready /\ UNCHANGED vars /\ UNCHANGED obs /\ fuel' = 1 /\ prog \in Programs
  BY DEF XEnter, Ready, AllInv, TypeOK
<1>2. pos = Outside /\ obs = Event("none", Outside, UndefRegs, <<>>)
  BY DEF XEnter, ExecInv
<1>3. PICK l \in EntryLabs(prog) :
        /\ pos' = BlockStart(BB(prog.frag[l].body))
        /\ env' = [v \in {V("arg", prog.frag[l].body, x) : x \in mach \cup Elems(prog.frag[l].params)} |->
                     InVal(v.nm)]
  BY DEF XEnter
<1> PICK f : f = prog.frag[l]
  OBVIOUS
<1> PICK m : m = f.body
  OBVIOUS
<1> PICK args : args = {V("arg", m, x) : x \in mach \cup Elems(f.params)}
  OBVIOUS
<1>4. env' = [v \in args |-> InVal(v.nm)]
  BY <1>3
<1>5. frame' = [r \in Reg |-> IF r \in mach THEN Undef ELSE InVal(r)]
  BY DEF XEnter
<1>6. /\ \A r \in Reg : at[m].regs[r] = IF r \in mach THEN V("arg", m, r) ELSE NoVal
      /\ \A x \in Elems(f.params) : at[m].vars[x] = V("arg", m, x)
      /\ prog.scope[m] = Elems(f.params) /\ Elems(f.params) \subseteq Var
      /\ mach \subseteq Reg /\ m \in Heads /\ m \in Node
  <2>1. l \in Lab /\ f.kind # "INTERNAL"
    BY <1>1, EntryKind
  <2>2. FragBinds(f, m, "arg")
    BY <1>1, <2>1, FragBindings
  <2> QED
    BY <2>2 DEF FragBinds
<1>7. CodeAt(pos', m)
  BY <1>1, <1>3, <1>6, HeadStart
<1>8. /\ Loc' = m /\ pos' # Outside /\ phase' = "done" /\ pos' \in DOMAIN out' /\ Main(out'[pos'])
      /\ RegsNow' = RegsIn(at[m].regs, env', frame')
      /\ VarsNow' = VarsIn(at[m].vars, prog.scope[m], env')
  BY <1>1, <1>7, Arrival
<1>9. ASSUME NEW x \in mach \cup Elems(f.params) PROVE Held(env', V("arg", m, x)) = InVal(x)
  <2>1. V("arg", m, x) \in args /\ V("arg", m, x).nm = x
    BY DEF V
  <2> QED
    BY <1>4, <2>1 DEF Held
<1>10. RegsNow' = [r \in Reg |-> InVal(r)]
  <2>1. ASSUME NEW r \in Reg PROVE RegsNow'[r] = InVal(r)
    <3>1. RegsNow'[r] = IF at[m].regs[r] = NoVal THEN frame'[r] ELSE Held(env', at[m].regs[r])
      BY <1>8 DEF RegsIn
    <3>2. at[m].regs[r] = IF r \in mach THEN V("arg", m, r) ELSE NoVal
      BY <1>6
    <3>3. V("arg", m, r) # NoVal
      BY <1>6, NameTypes, NullAssumption
    <3>4. frame'[r] = IF r \in mach THEN Undef ELSE InVal(r)
      BY <1>5
    <3>5. r \in mach => Held(env', V("arg", m, r)) = InVal(r)
      BY <1>9
    <3> QED
      BY <3>1, <3>2, <3>3, <3>4, <3>5
  <2>2. RegsNow' = [r \in Reg |-> RegsNow'[r]]
    BY <1>8 DEF RegsIn
  <2> QED
    BY <2>1, <2>2
<1>11. VarsNow' = [x \in Var |-> IF x \in Elems(f.params) THEN InVal(x) ELSE Undef]
  <2>1. ASSUME NEW x \in Var PROVE VarsNow'[x] = IF x \in Elems(f.params) THEN InVal(x) ELSE Undef
    <3>1. VarsNow'[x] = IF x \in Elems(f.params) THEN Held(env', at[m].vars[x]) ELSE Undef
      BY <1>6, <1>8 DEF VarsIn
    <3> QED
      BY <1>6, <1>9, <3>1, SMTT(60)
  <2>2. VarsNow' = [x \in Var |-> VarsNow'[x]]
    BY <1>8 DEF VarsIn
  <2> QED
    BY <2>1, <2>2
<1>12. Source!Enter
  <2>1. UNCHANGED <<prog, obs>>
    BY <1>1 DEF vars
  <2> QED
    BY <1>2, <1>8, <1>10, <1>11, <2>1, IsEnter
<1>13. ExecInv'
  <2>1. IsFrame(frame')
    BY <1>5 DEF IsFrame
  <2> QED
    BY <1>1, <1>8, <2>1 DEF ExecInv
<1> QED
  BY <1>12, <1>13

(* Code generation is over before the first call: nothing runs meanwhile. *)
LEMMA GenStutters ==
  ASSUME ExecInv, [Next]_vars, UNCHANGED xvars, Step \/ UNCHANGED vars
  PROVE  UNCHANGED Source!vars /\ ExecInv'
<1>1. UNCHANGED <<pos, env, frame, obs, fuel>>
  BY DEF xvars
<1>2. CASE Step
  <2>1. phase # "done" /\ UNCHANGED prog
    <3>1. CASE BeginUnit \/ BeginCluster \/ BeginFrag \/ NextArm \/ EndUnit
      BY <3>1, Zenon DEF BeginUnit, BeginCluster, BeginFrag, NextArm, EndUnit, Returned, const
    <3>2. CASE GenLet \/ GenAlloc \/ GenArith \/ GenSetter \/ GenCallGC
      BY <3>2 DEF GenLet, GenAlloc, GenArith, GenSetter, GenCallGC, Running, const
    <3>3. CASE GenBranch \/ GenSwitch \/ GenGoto \/ GenApply \/ GenThrow
      BY <3>3 DEF GenBranch, GenSwitch, GenGoto, GenApply, GenThrow, TailCall, Running, const
    <3> QED
      BY <1>2, <3>1, <3>2, <3>3, Zenon DEF Step, GenStm
  <2>2. pos = Outside
    BY <2>1 DEF ExecInv
  <2> QED
    BY <1>1, <2>1, <2>2 DEF ExecInv, Source!vars, Loc, RegsNow, VarsNow
<1>3. CASE UNCHANGED vars
  <2>1. UNCHANGED <<prog, mach, phase, out, at>>
    BY <1>3 DEF vars
  <2> QED
    BY <1>1, <2>1 DEF ExecInv, Source!vars, Loc, RegsNow, VarsNow, Here, IsFrame
<1> QED
  BY <1>2, <1>3

-----------------------------------------------------------------------------
LEMMA InitImplements == LInit => Source!Init /\ AllInv /\ ExecInv
<1> SUFFICES ASSUME LInit PROVE Source!Init /\ AllInv /\ ExecInv
  OBVIOUS
<1>1. Init /\ pos = Outside /\ frame = UndefRegs /\ fuel = 0 /\ obs = Event("none", Outside, UndefRegs, <<>>)
  BY DEF LInit, XInit
<1>2. AllInv
  BY <1>1, InitAll
<1>3. ExecInv
  BY <1>1 DEF ExecInv, IsFrame, UndefRegs
<1>4. prog \in Programs
  BY <1>2 DEF AllInv, TypeOK
<1>5. Loc = Outside /\ RegsNow = UndefRegs /\ VarsNow = UndefVars
  BY <1>1 DEF Loc, RegsNow, VarsNow
<1>6. Source!NoRegs = UndefRegs /\ Source!NoEnv = UndefVars
  BY SameCFG DEF Source!NoRegs, Source!NoEnv, UndefRegs, UndefVars
<1>7. obs = Source!Silent
  BY <1>1, <1>6 DEF Source!Silent, Source!Event, Event
<1> QED
  BY <1>2, <1>3, <1>4, <1>5, <1>6, <1>7 DEF Source!Init

(* Every step of the generated code is a step of the source or none. *)
LEMMA StepImplements ==
  ASSUME AllInv, ExecInv, [LNext]_<<vars, xvars>>
  PROVE  [Source!Next]_Source!vars /\ AllInv' /\ ExecInv'
<1>1. [Next]_vars
  BY DEF LNext, Next, XEnter, XGroup
<1>2. AllInv'
  BY <1>1, StepAll
<1>3. CASE XEnter
  BY <1>2, <1>3, EnterRuns DEF Source!Next
<1>4. CASE XGroup
  BY <1>2, <1>4, GroupRuns
<1>5. CASE (Step \/ UNCHANGED vars) /\ UNCHANGED xvars
  BY <1>1, <1>2, <1>5, GenStutters
<1> QED
  BY <1>3, <1>4, <1>5 DEF LNext

(***************************************************************************)
(* The generated code implements the source, for every well-formed unit,   *)
(* every target and any number of executed groups: it makes the same tests *)
(* in the same order, leaves with the same registers and arguments, and    *)
(* raises Overflow with the registers of the faulting operation.           *)
(***************************************************************************)
THEOREM LoweringImplements == LSpec => Implements
<1>1. LInit => Source!Init /\ AllInv /\ ExecInv
  BY InitImplements
<1>2. AllInv /\ ExecInv /\ [LNext]_<<vars, xvars>> => [Source!Next]_Source!vars /\ AllInv' /\ ExecInv'
  BY StepImplements
<1>3. LSpec => Source!Spec
  BY <1>1, <1>2, PTL DEF LSpec, Source!Spec
<1> QED
  BY <1>3 DEF Implements

=============================================================================
