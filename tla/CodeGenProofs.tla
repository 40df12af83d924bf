--------------------------- MODULE CodeGenProofs ---------------------------
(***************************************************************************)
(* Proofs about CodeGen, for every set of well-formed compilation units    *)
(* and every choice of machine registers: types, registers and lookups     *)
(* first, then the blocks that the code is made of, and the values in it:  *)
(* each is defined on the path to its uses, and the PHI nodes of a block   *)
(* have exactly one entry for each branch to it.                           *)
(***************************************************************************)
EXTENDS CodeGen, SequenceTheorems, FiniteSetTheorems, WellFoundedInduction, TLAPS

-----------------------------------------------------------------------------
(* Facts about numbers. *)

(* The order of the naturals is well-founded. *)
LEMMA LessIsWellFounded == IsWellFoundedOn({ss \in Nat \X Nat : ss[1] < ss[2]}, Nat)
BY NatLessThanWellFounded DEF OpToRel

(* Each nonempty set of naturals has a least element. *)
LEMMA LeastNat ==
  ASSUME NEW T \in SUBSET Nat, T # {}
  PROVE \E x \in T : \A y \in T : x <= y
<1> DEFINE R == {ss \in Nat \X Nat : ss[1] < ss[2]}
<1>1. \E x \in T : \A y \in T : ~ (<<y, x>> \in R)
  <2>1. IsWellFoundedOn(R, Nat) BY LessIsWellFounded
  <2> HIDE DEF R
  <2> QED BY <2>1, WFMin
<1>2. PICK x \in T : \A y \in T : ~ (<<y, x>> \in R) BY <1>1
<1>3. ASSUME NEW y \in T PROVE x <= y
  <2>1. <<y, x>> \in Nat \X Nat OBVIOUS
  <2>2. ~ (<<y, x>> \in R) BY <1>2
  <2> QED BY <2>1, <2>2
<1> QED BY <1>3

-----------------------------------------------------------------------------
NVal == Val \cup {NoVal}
NBlock == Block \cup {NoBlock}

-----------------------------------------------------------------------------
(* Typing facts about units and about the helpers of CodeGen. *)

(* The statement being generated is well typed and has the right arity. *)
LEMMA StmFacts ==
  ASSUME NEW p \in Programs, NEW n \in Node
  PROVE  /\ p.stm[n] \in Stm
         /\ Arity(p.stm[n])
         /\ \A m \in Children(p, n) : m \in Node
BY ProgramsAssumption DEF WellFormed, WellTyped, Stm, Children, Elems

(* Fragments and clusters are well typed, and clusters are not empty. *)
LEMMA UnitFacts ==
  ASSUME NEW p \in Programs
  PROVE  /\ \A l \in Lab : p.frag[l] \in Frag
         /\ p.clusters \in Seq(Seq(Lab))
         /\ EntryLabs(p) \subseteq Lab
         /\ \A l \in Lab : p.frag[l].body \in Node
<1>1. WellTyped(p) /\ WellLinked(p)
  BY ProgramsAssumption DEF WellFormed
<1>2. \A c \in DOMAIN p.clusters : p.clusters[c] \in Seq(Lab) /\ p.clusters[c] # <<>>
  BY <1>1 DEF WellTyped, WellLinked
<1>3. \A c \in DOMAIN p.clusters : p.clusters[c][1] \in Lab
  BY <1>2
<1> QED
  BY <1>1, <1>3 DEF WellTyped, EntryLabs, Frag

(* The names of values and blocks have their types. *)
LEMMA NameTypes ==
  ASSUME NEW n \in Node
  PROVE  /\ \A k \in {"phi", "arg", "ins", "load", "ovphi"}, z \in Reg \cup Var : V(k, n, z) \in Val
         /\ \A k \in {"bb", "ok", "overflow", "impossible"} : Blk(k, n) \in Block
         /\ BB(n) \in Block
BY DEF V, Val, Blk, Block, BB

(* Register states built from names. *)
LEMMA RegTypes ==
  ASSUME mach \in Targets, NEW n \in Node
  PROVE  /\ \A k \in {"phi", "arg", "ins", "load", "ovphi"} : MachRegs(k, n) \in Regs
         /\ NoRegs \in Regs
BY NameTypes DEF MachRegs, Regs, NoRegs

(* setMLReg and mlReg keep register states and values typed. *)
LEMMA RegHelpers ==
  ASSUME regState \in Regs, node \in Node, NEW r \in Reg
  PROVE  /\ \A rs \in Regs, v \in NVal : SetReg(rs, r, v) \in Regs
         /\ RegVal(r) \in NVal
         /\ Load(r) \in Seq(InstrType)
         /\ \A v \in NVal : Store(r, v) \in Seq(InstrType)
<1>1. \A rs \in Regs, v \in NVal : SetReg(rs, r, v) \in Regs
  BY DEF SetReg, Regs, NVal
<1>2. RegVal(r) \in NVal
  BY NameTypes DEF RegVal, Regs, NVal
<1>3. Instr("load", V("load", node, r), r, <<>>) \in InstrType
  BY NameTypes DEF Instr, InstrType
<1>4. Load(r) \in Seq(InstrType)
  BY <1>3 DEF Load
<1>5. \A v \in NVal : Instr("store", NoVal, r, <<v>>) \in InstrType
  BY DEF Instr, InstrType, NVal
<1>6. \A v \in NVal : Store(r, v) \in Seq(InstrType)
  <2> TAKE v \in NVal
  <2>1. <<Instr("store", NoVal, r, <<v>>)>> \in Seq(InstrType)
    BY <1>5
  <2> QED
    BY <2>1 DEF Store
<1> QED
  BY <1>1, <1>2, <1>4, <1>6

(* Binding lvars keeps the variable map typed. *)
LEMMA BindTypes ==
  ASSUME NEW f \in [Var -> NVal], NEW n \in Node
  PROVE  /\ \A z \in Var, v \in NVal : Bind(f, z, v) \in [Var -> NVal]
         /\ \A xs : \A k \in {"phi", "arg", "ins", "load", "ovphi"} :
              BindAll(f, xs, k, n) \in [Var -> NVal]
<1>1. \A z \in Var, v \in NVal : Bind(f, z, v) \in [Var -> NVal]
  BY DEF Bind
<1>2. \A xs : \A k \in {"phi", "arg", "ins", "load", "ovphi"} : BindAll(f, xs, k, n) \in [Var -> NVal]
  BY NameTypes DEF BindAll, NVal
<1> QED
  BY <1>1, <1>2

(* What a statement emits is a well-typed group. *)
LEMMA EmitType ==
  ASSUME TypeOK, node \in Node, NEW ins \in Seq(InstrType), NEW end \in EndType, Emit(ins, end)
  PROVE  out' \in Seq(GroupType)
<1>1. Group(node, bb, ins, end) \in GroupType
  BY DEF Group, GroupType, TypeOK
<1> QED
  BY <1>1 DEF Emit, TypeOK

(* The arguments of the statement being generated. *)
LEMMA ArgTypes ==
  ASSUME TypeOK, node \in Node
  PROVE  /\ Args \in Seq(NVal)
         /\ DOMAIN Args = DOMAIN S.args
         /\ S \in Stm
         /\ Arity(S)
<1>1. S \in Stm /\ Arity(S)
  BY StmFacts DEF TypeOK, S
<1>2. S.args \in Seq(Var)
  BY <1>1 DEF Stm
<1>3. DOMAIN S.args = 1..Len(S.args) /\ Len(S.args) \in Nat
  BY <1>2
<1>4. Args \in [1..Len(S.args) -> NVal]
  BY <1>2, <1>3 DEF Args, TypeOK, NVal
<1>5. Args \in Seq(NVal)
  BY <1>3, <1>4, SeqDef
<1> QED
  BY <1>1, <1>3, <1>5 DEF Args

-----------------------------------------------------------------------------
(* Types are invariant.  One lemma per group of actions. *)

LEMMA InitType == Init => TypeOK
<1> SUFFICES ASSUME Init PROVE TypeOK
  OBVIOUS
<1>1. NoRegs \in Regs
  BY DEF NoRegs, Regs
<1>2. NoVals \in [Var -> Val \cup {NoVal}]
  BY DEF NoVals
<1>3. at \in [Node -> [regs: Regs, vars: [Var -> Val \cup {NoVal}], blk: Block \cup {NoBlock}]]
  BY <1>1, <1>2 DEF Init, NotVisited
<1> QED
  BY <1>1, <1>2, <1>3 DEF Init, TypeOK

(* The history entry of the statement being generated is well typed. *)
LEMMA VisitType ==
  ASSUME TypeOK, Visit
  PROVE  at' \in [Node -> [regs: Regs, vars: [Var -> Val \cup {NoVal}], blk: Block \cup {NoBlock}]]
BY DEF TypeOK, Visit

(* The ends of groups are well typed. *)
LEMMA EndTypes ==
  ASSUME TypeOK
  PROVE  /\ Fall \in EndType
         /\ \A op \in {"br", "ovbr", "unreachable"}, to \in Seq(NBlock), args \in Seq(NVal) :
              Jump(op, to, args) \in EndType
         /\ \A op \in {"gc", "call"}, args \in Seq(NVal) : End(op, <<>>, regState, args) \in EndType
<1>1. NoRegs \in Regs
  BY DEF NoRegs, Regs
<1>2. Fall \in EndType
  BY <1>1 DEF Fall, End, EndType
<1>3. ASSUME NEW op \in {"br", "ovbr", "unreachable"}, NEW to \in Seq(NBlock), NEW args \in Seq(NVal)
      PROVE  Jump(op, to, args) \in EndType
  BY <1>1, <1>3 DEF Jump, End, EndType, NVal, NBlock
<1>4. ASSUME NEW op \in {"gc", "call"}, NEW args \in Seq(NVal)
      PROVE  End(op, <<>>, regState, args) \in EndType
  BY <1>4 DEF End, EndType, NVal, TypeOK
<1> QED
  BY <1>2, <1>3, <1>4

(* The instruction that computes a result of the statement is well typed. *)
LEMMA OpType ==
  ASSUME node \in Node
  PROVE  \A z \in Reg \cup Var, args \in Seq(NVal) : Op(z, args) \in InstrType
<1> SUFFICES ASSUME NEW z \in Reg \cup Var, NEW args \in Seq(NVal)
             PROVE  Op(z, args) \in InstrType
  OBVIOUS
<1>1. V("ins", node, z) \in Val
  BY NameTypes
<1> QED
  BY <1>1 DEF Op, Instr, InstrType, NVal

(* The task at the head of todo is well typed. *)
LEMMA TaskFacts ==
  ASSUME TypeOK, NEW t, Returned(t)
  PROVE  /\ Tail(todo) \in Seq(Task)
         /\ t = "cluster" => Head(todo).c \in DOMAIN prog.clusters
         /\ t = "frag" => Head(todo).lab \in Lab
         /\ t = "arm" => Head(todo).n \in Node /\ Head(todo).saved \in Regs
<1>1. todo \in Seq(Task) /\ todo # <<>> /\ Head(todo).t = t
  BY DEF TypeOK, Returned
<1>2. Head(todo) \in Task /\ Tail(todo) \in Seq(Task)
  BY <1>1, HeadTailProperties
<1> QED
  BY <1>1, <1>2 DEF Task

(* Actions that set up work: units, clusters, fragments, arms. *)
LEMMA SetupType ==
  ASSUME TypeOK, BeginUnit \/ BeginCluster \/ BeginFrag \/ NextArm \/ EndUnit
  PROVE  TypeOK'
<1>1. CASE BeginUnit
  <2>1. clusterMap' \subseteq Lab
    BY <1>1, UnitFacts DEF BeginUnit, InsertedClusters, TypeOK
  <2>2. prog.clusters \in Seq(Seq(Lab))
    BY UnitFacts DEF TypeOK
  <2>3. DOMAIN prog.clusters = 1..Len(prog.clusters) /\ Len(prog.clusters) \in Nat
    BY <2>2
  <2>4. todo' \in [1..Len(prog.clusters) -> Task]
    BY <1>1, <2>3 DEF BeginUnit, Task
  <2>5. todo' \in Seq(Task)
    BY <2>3, <2>4, SeqDef
  <2> QED
    BY <1>1, <2>1, <2>3, <2>5 DEF BeginUnit, TypeOK, const, ovVars, irVars, Task
<1>2. CASE BeginCluster
  <2> DEFINE c == Head(todo).c
             frags == prog.clusters[c]
             new == [i \in DOMAIN frags |-> [t |-> "frag", lab |-> frags[i], entry |-> i = 1]]
  <2>1. Returned("cluster")
    BY <1>2, Zenon DEF BeginCluster
  <2>2. c \in DOMAIN prog.clusters /\ Tail(todo) \in Seq(Task)
    BY <2>1, TaskFacts
  <2>3. prog.clusters \in Seq(Seq(Lab))
    BY UnitFacts DEF TypeOK
  <2>4. c \in Nat /\ frags \in Seq(Lab) /\ frags # <<>>
    BY <2>2, <2>3, ProgramsAssumption, SMTT(60) DEF TypeOK, WellFormed, WellLinked
  <2>5. /\ DOMAIN frags = 1..Len(frags) /\ Len(frags) \in Nat /\ Len(frags) > 0
        /\ \A i \in DOMAIN frags : frags[i] \in Lab
    BY <2>4
  <2>6. new \in [1..Len(frags) -> Task]
    BY <2>5 DEF Task
  <2>7. new \in Seq(Task)
    BY <2>5, <2>6, SeqDef
  <2>8. new \o Tail(todo) \in Seq(Task)
    BY <2>2, <2>7, ConcatProperties, Zenon
  <2>9. todo' \in Seq(Task)
    BY <1>2, <2>8, Zenon DEF BeginCluster
  <2>10. InitBlocks(c) \subseteq [blk: NBlock, fn: Nat]
    BY <2>4, NameTypes DEF InitBlocks, NodesOf, NBlock
  <2>11. made' \subseteq [blk: NBlock, fn: Nat]
    BY <1>2, <2>10, Zenon DEF BeginCluster, TypeOK, NBlock
  <2>12. BB(prog.frag[frags[Len(frags)]].body) \in Block
    <3>1. frags[Len(frags)] \in Lab
      BY <2>5
    <3>2. prog.frag[frags[Len(frags)]].body \in Node
      BY <3>1, UnitFacts, Zenon DEF TypeOK
    <3> QED
      BY <3>2, NameTypes
  <2>13. bb' \in NBlock
    BY <1>2, <2>12, Zenon DEF BeginCluster, TypeOK, NBlock
  <2>14. fragMap' \subseteq Lab /\ curC' \in Nat
    BY <1>2, <2>4, <2>5, Zenon DEF BeginCluster, Elems
  <2>15. NoRegs \in Regs /\ ClearedOverflow \in NBlock
    BY Zenon DEF NoRegs, Regs, ClearedOverflow, NBlock
  <2> QED
    BY <1>2, <2>9, <2>11, <2>13, <2>14, <2>15
   , Zenon DEF BeginCluster, TypeOK, const, modVars, NBlock, Task
<1>3. CASE BeginFrag
  <2> DEFINE f == prog.frag[Head(todo).lab]
             k == IF Head(todo).entry THEN "arg" ELSE "phi"
  <2>1. Returned("frag")
    BY <1>3 DEF BeginFrag
  <2>2. Head(todo).lab \in Lab /\ Tail(todo) \in Seq(Task)
    BY <2>1, TaskFacts
  <2>3. f \in Frag /\ f.body \in Node
    BY <2>2, UnitFacts DEF TypeOK
  <2>4. ClearedMap \in [Var -> NVal]
    BY DEF ClearedMap, NoVals, NVal
  <2>5. k \in {"phi", "arg", "ins", "load", "ovphi"}
    OBVIOUS
  <2>6. BindAll(ClearedMap, f.params, k, f.body) \in [Var -> NVal]
    <3> HIDE DEF f, k
    <3> QED
      BY <2>3, <2>4, <2>5, BindTypes, ZenonT(30)
  <2>7. vMap' \in [Var -> NVal]
    BY <1>3, <2>6 DEF BeginFrag
  <2>8. StdEntryRegs(f.body) \in Regs
    BY <2>3, RegTypes DEF StdEntryRegs, TypeOK
  <2>9. FragEntryRegs(f.body) \in Regs
    BY <2>3, NameTypes DEF FragEntryRegs, TypeOK, Regs
  <2>10. regState' \in Regs
    BY <1>3, <2>8, <2>9 DEF BeginFrag
  <2>11. bb' \in NBlock /\ node' \in Node
    BY <1>3, <2>3, NameTypes DEF BeginFrag, NBlock
  <2>12. todo' \in Seq(Task)
    BY <1>3, <2>2 DEF BeginFrag
  <2> QED
    BY <1>3, <2>7, <2>10, <2>11, <2>12
   , Zenon DEF BeginFrag, TypeOK, const, modVars, fnVars, ovVars, irVars, NBlock, NVal, Task
<1>4. CASE NextArm
  <2>1. Returned("arm")
    BY <1>4 DEF NextArm
  <2>2. Head(todo).n \in Node /\ Head(todo).saved \in Regs /\ Tail(todo) \in Seq(Task)
    BY <2>1, TaskFacts
  <2>3. InsertPoint(Head(todo).n) \in NBlock
    BY <2>2, NameTypes DEF InsertPoint, NBlock
  <2>4. todo' \in Seq(Task)
    BY <1>4, <2>2 DEF NextArm
  <2> QED
    BY <1>4, <2>2, <2>3, <2>4
    DEF NextArm, RestoredRegs, TypeOK, const, modVars, fnVars, ovVars, irVars, NBlock, Task
<1>5. CASE EndUnit
  BY <1>5 DEF EndUnit, TypeOK, const, modVars, fnVars, ovVars, irVars, Task
<1> QED
  BY <1>1, <1>2, <1>3, <1>4, <1>5

(* The successors of a statement are statements. *)
LEMMA NextFacts ==
  ASSUME TypeOK, node \in Node
  PROVE  /\ DOMAIN S.next = 1..Len(S.next)
         /\ Len(S.next) \in Nat
         /\ \A i \in DOMAIN S.next : S.next[i] \in Node /\ S.next[i] \in Children(prog, node)
<1>1. S.next \in Seq(Node)
  BY StmFacts DEF TypeOK, S, Stm
<1> QED
  BY <1>1 DEF Children, Elems, S

LEMMA RunningFacts ==
  ASSUME TypeOK, NEW op, Running(op)
  PROVE  node \in Node /\ S.op = op /\ S \in Stm /\ Arity(S)
BY ArgTypes DEF Running, TypeOK

LEMMA LetType ==
  ASSUME TypeOK, GenLet
  PROVE  TypeOK'
<1>1. node \in Node /\ S \in Stm /\ Arity(S) /\ S.op = "LET"
  BY RunningFacts DEF GenLet
<1>2. S.res[1] \in Var /\ node' \in Node
  BY <1>1, NextFacts DEF GenLet, Stm, Arity
<1> DEFINE z == S.res[1]
<1>3. out' \in Seq(GroupType) /\ vMap' \in [Var -> NVal]
  <2>1. vMap \in [Var -> NVal] /\ regState \in Regs
    BY DEF TypeOK, NVal
  <2>2. CASE S.prim = "VAR" /\ Emit(<<>>, Fall) /\ vMap' = Bind(vMap, z, Args[1])
    <3>1. Args[1] \in NVal
      BY <1>1, <2>2, ArgTypes DEF Arity, Stm
    <3>2. out' \in Seq(GroupType)
      BY <1>1, <2>2, EmitType, EndTypes, EmptySeq
    <3> QED
      BY <1>1, <1>2, <2>1, <2>2, <3>1, <3>2, BindTypes
  <2>3. CASE S.prim = "PURE" /\ Emit(<<Op(z, Args)>>, Fall) /\ vMap' = Bind(vMap, z, V("ins", node, z))
    <3>1. <<Op(z, Args)>> \in Seq(InstrType)
      BY <1>1, <1>2, ArgTypes, OpType
    <3>2. out' \in Seq(GroupType)
      BY <1>1, <2>3, <3>1, EmitType, EndTypes
    <3>3. V("ins", node, z) \in NVal
      BY <1>1, <1>2, NameTypes DEF NVal
    <3> QED
      BY <1>1, <1>2, <2>1, <2>3, <3>2, <3>3, BindTypes
  <2>4. CASE S.prim = "GET" /\ Emit(Load(S.reg), Fall) /\ vMap' = Bind(vMap, z, RegVal(S.reg))
    <3>1. S.reg \in Reg
      BY <1>1 DEF Stm
    <3>2. Load(S.reg) \in Seq(InstrType) /\ RegVal(S.reg) \in NVal
      BY <1>1, <2>1, <3>1, RegHelpers
    <3>3. out' \in Seq(GroupType)
      BY <1>1, <2>4, <3>2, EmitType, EndTypes
    <3> QED
      BY <1>1, <1>2, <2>1, <2>4, <3>2, <3>3, BindTypes
  <2> QED
    BY <2>2, <2>3, <2>4 DEF GenLet
<1>4. at' \in [Node -> [regs: Regs, vars: [Var -> Val \cup {NoVal}], blk: Block \cup {NoBlock}]]
  BY VisitType DEF GenLet
<1> QED
  BY <1>2, <1>3, <1>4 DEF GenLet, TypeOK, const, modVars, fnVars, ovVars, NVal, Task

LEMMA AllocType ==
  ASSUME TypeOK, GenAlloc
  PROVE  TypeOK'
<1> DEFINE z == S.res[1]
           alloc == RegVal("ALLOC")
           new == V("ins", node, "ALLOC")
           ins == Load("ALLOC") \o <<Op(z, <<alloc>> \o Args), Op("ALLOC", <<alloc>>)>> \o Store("ALLOC", new)
<1>1. node \in Node /\ S \in Stm /\ Arity(S) /\ S.op = "ALLOC"
  BY RunningFacts DEF GenAlloc
<1>2. z \in Var /\ node' \in Node
  BY <1>1, NextFacts DEF GenAlloc, Stm, Arity
<1>3. vMap \in [Var -> NVal] /\ regState \in Regs /\ "ALLOC" \in Reg
  BY DEF TypeOK, NVal, Reg
<1>4. alloc \in NVal /\ new \in NVal /\ V("ins", node, z) \in NVal
  BY <1>1, <1>2, <1>3, RegHelpers, NameTypes DEF NVal
<1>5. <<alloc>> \in Seq(NVal) /\ <<alloc>> \o Args \in Seq(NVal)
  BY <1>1, <1>4, ArgTypes, ConcatProperties
<1>6. Op(z, <<alloc>> \o Args) \in InstrType /\ Op("ALLOC", <<alloc>>) \in InstrType
  BY <1>1, <1>2, <1>3, <1>5, OpType
<1>7. Load("ALLOC") \in Seq(InstrType) /\ Store("ALLOC", new) \in Seq(InstrType)
  BY <1>1, <1>3, <1>4, RegHelpers
<1>8. ins \in Seq(InstrType)
  BY <1>6, <1>7, ConcatProperties
<1>9. Emit(ins, Fall) /\ regState' = SetReg(regState, "ALLOC", new)
  BY DEF GenAlloc, AllocRecord
<1>10. out' \in Seq(GroupType)
  BY <1>1, <1>8, <1>9, EmitType, EndTypes
<1>11. regState' \in Regs
  BY <1>1, <1>3, <1>4, <1>9, RegHelpers
<1>12. vMap' \in [Var -> NVal]
  BY <1>1, <1>2, <1>3, <1>4, BindTypes DEF GenAlloc
<1>13. at' \in [Node -> [regs: Regs, vars: [Var -> Val \cup {NoVal}], blk: Block \cup {NoBlock}]]
  BY VisitType DEF GenAlloc
<1> QED
  BY <1>2, <1>10, <1>11, <1>12, <1>13 DEF GenAlloc, TypeOK, const, modVars, fnVars, ovVars, NVal, Task

LEMMA OverflowType ==
  ASSUME TypeOK, node \in Node, GetOverflowBB
  PROVE  /\ ovBB' \in NBlock /\ ovPhis' \in Regs
         /\ inc' \subseteq [phi: NVal, val: NVal, pred: NBlock]
<1>1. MachRegs("ovphi", node) \in Regs
  BY RegTypes DEF TypeOK
<1>2. ovBB' \in NBlock
  BY NameTypes DEF GetOverflowBB, TypeOK, NBlock
<1>3. ovPhis' \in Regs
  BY <1>1 DEF GetOverflowBB, TypeOK, Regs
<1>4. mach \subseteq Reg
  BY TargetsAssumption DEF TypeOK
<1>5. Incoming(ovPhis') \subseteq [phi: NVal, val: NVal, pred: NBlock]
  BY <1>3, <1>4 DEF Incoming, TypeOK, Regs, NVal, NBlock
<1> QED
  BY <1>2, <1>3, <1>5 DEF GetOverflowBB, TypeOK, NVal, NBlock

LEMMA TrapType ==
  ASSUME TypeOK, node \in Node, NEW z \in Var, TrapArith(z)
  PROVE  /\ ovBB' \in NBlock /\ ovPhis' \in Regs /\ bb' \in NBlock
         /\ inc' \subseteq [phi: NVal, val: NVal, pred: NBlock]
         /\ out' \in Seq(GroupType)
         /\ made' \subseteq [blk: NBlock, fn: Nat]
<1> DEFINE ok == Blk("ok", node)
           fresh == ovBB = NoBlock
           raise == Group(node, Blk("overflow", node), <<>>, End("raise", <<>>, MachRegs("ovphi", node), <<>>))
           first == IF fresh THEN <<raise>> ELSE <<>>
           branch == Group(node, bb, <<Op(z, Args)>>, Jump("ovbr", <<ovBB', ok>>, <<>>))
<1>1. /\ ovBB' \in NBlock /\ ovPhis' \in Regs
      /\ inc' \subseteq [phi: NVal, val: NVal, pred: NBlock]
  BY OverflowType DEF TrapArith
<1>2. ok \in Block /\ Blk("overflow", node) \in Block
  BY NameTypes
<1>3. raise \in GroupType
  <2>1. MachRegs("ovphi", node) \in Regs
    BY RegTypes DEF TypeOK
  <2>2. End("raise", <<>>, MachRegs("ovphi", node), <<>>) \in EndType
    BY <2>1 DEF End, EndType
  <2> QED
    BY <1>2, <2>2 DEF Group, GroupType
<1>4. branch \in GroupType
  <2>1. <<Op(z, Args)>> \in Seq(InstrType)
    BY ArgTypes, OpType
  <2>2. <<ovBB', ok>> \in Seq(NBlock)
    BY <1>1, <1>2 DEF NBlock
  <2>3. Jump("ovbr", <<ovBB', ok>>, <<>>) \in EndType
    <3>1. <<>> \in Seq(NVal)
      OBVIOUS
    <3> HIDE DEF ok
    <3> QED
      BY <2>2, <3>1, EndTypes
  <2> QED
    BY <2>1, <2>3 DEF Group, GroupType, TypeOK
<1>5. first \in Seq(GroupType) /\ <<branch>> \in Seq(GroupType)
  BY <1>3, <1>4
<1>6. out' = out \o first \o <<branch>>
  BY DEF TrapArith
<1>7. out' \in Seq(GroupType)
  <2> HIDE DEF first, branch
  <2>1. out \in Seq(GroupType)
    BY DEF TypeOK
  <2> QED
    BY <1>5, <1>6, <2>1, ConcatProperties
<1>8. made' \subseteq [blk: NBlock, fn: Nat] /\ bb' \in NBlock
  BY <1>1, <1>2 DEF TrapArith, TypeOK, NBlock
<1> QED
  BY <1>1, <1>7, <1>8

LEMMA ArithType ==
  ASSUME TypeOK, GenArith
  PROVE  TypeOK'
<1> DEFINE z == S.res[1]
<1>1. node \in Node /\ S \in Stm /\ Arity(S) /\ S.op = "ARITH"
  BY RunningFacts DEF GenArith
<1>2. z \in Var /\ node' \in Node
  BY <1>1, NextFacts DEF GenArith, Stm, Arity
<1>3. /\ ovBB' \in NBlock /\ ovPhis' \in Regs /\ bb' \in NBlock
      /\ inc' \subseteq [phi: NVal, val: NVal, pred: NBlock]
      /\ out' \in Seq(GroupType)
      /\ made' \subseteq [blk: NBlock, fn: Nat]
  <2>1. CASE TrapArith(z)
    BY <1>1, <1>2, <2>1, TrapType
  <2>2. CASE Emit(<<Op(z, Args)>>, Fall) /\ UNCHANGED <<ovVars, inc, made, bb>>
    <3>1. <<Op(z, Args)>> \in Seq(InstrType)
      BY <1>1, <1>2, ArgTypes, OpType
    <3>2. out' \in Seq(GroupType)
      BY <1>1, <2>2, <3>1, EmitType, EndTypes
    <3> QED
      BY <2>2, <3>2 DEF TypeOK, ovVars, NVal, NBlock
  <2> QED
    BY <2>1, <2>2 DEF GenArith
<1>4. V("ins", node, z) \in NVal /\ vMap \in [Var -> NVal]
  BY <1>1, <1>2, NameTypes DEF NVal, TypeOK
<1>5. vMap' \in [Var -> NVal]
  BY <1>1, <1>2, <1>4, BindTypes DEF GenArith
<1>6. at' \in [Node -> [regs: Regs, vars: [Var -> Val \cup {NoVal}], blk: Block \cup {NoBlock}]]
  BY VisitType DEF GenArith
<1> QED
  BY <1>2, <1>3, <1>5, <1>6 DEF GenArith, TypeOK, const, modVars, fnVars, NVal, NBlock, Task

LEMMA SetterType ==
  ASSUME TypeOK, GenSetter
  PROVE  TypeOK'
<1>1. node \in Node /\ S \in Stm /\ Arity(S) /\ S.op = "SETTER"
  BY RunningFacts DEF GenSetter
<1>2. node' \in Node
  BY <1>1, NextFacts DEF GenSetter, Arity
<1>3. regState \in Regs /\ "ALLOC" \in Reg /\ "STORE" \in Reg
  BY DEF TypeOK, Reg
<1>4. out' \in Seq(GroupType) /\ regState' \in Regs
  <2>1. CASE S.prim = "SET" /\ SetSpecial(S.reg, Args[1])
    <3>1. Args[1] \in NVal /\ S.reg \in Reg
      BY <1>1, <2>1, ArgTypes DEF Arity, Stm
    <3>2. Store(S.reg, Args[1]) \in Seq(InstrType)
      BY <1>1, <1>3, <3>1, RegHelpers
    <3>3. Emit(Store(S.reg, Args[1]), Fall) /\ regState' = SetReg(regState, S.reg, Args[1])
      BY <2>1 DEF SetSpecial
    <3>4. out' \in Seq(GroupType)
      BY <1>1, <3>2, <3>3, EmitType, EndTypes
    <3> QED
      BY <1>1, <1>3, <3>1, <3>3, <3>4, RegHelpers
  <2>2. CASE RecordStore
    <3> DEFINE cell == V("ins", node, "STORE")
               new == V("ins", node, "ALLOC")
               cons == Op("STORE", <<RegVal("ALLOC"), RegVal("STORE")>> \o Args)
               bump == Op("ALLOC", <<RegVal("ALLOC")>>)
    <3>1. cell \in NVal /\ new \in NVal /\ RegVal("ALLOC") \in NVal /\ RegVal("STORE") \in NVal
      BY <1>1, <1>3, RegHelpers, NameTypes DEF NVal
    <3>2. <<RegVal("ALLOC"), RegVal("STORE")>> \in Seq(NVal) /\ <<RegVal("ALLOC")>> \in Seq(NVal)
      BY <3>1
    <3>3. <<RegVal("ALLOC"), RegVal("STORE")>> \o Args \in Seq(NVal)
      BY <1>1, <3>2, ArgTypes, ConcatProperties
    <3>4. cons \in InstrType /\ bump \in InstrType
      BY <1>1, <1>3, <3>2, <3>3, OpType
    <3>5. /\ Load("ALLOC") \in Seq(InstrType) /\ Load("STORE") \in Seq(InstrType)
          /\ Store("STORE", cell) \in Seq(InstrType) /\ Store("ALLOC", new) \in Seq(InstrType)
          /\ <<cons>> \in Seq(InstrType) /\ <<bump>> \in Seq(InstrType)
      BY <1>1, <1>3, <3>1, <3>4, RegHelpers
    <3> DEFINE ins == Load("ALLOC") \o Load("STORE") \o <<cons>> \o Store("STORE", cell)
                        \o <<bump>> \o Store("ALLOC", new)
    <3>6. ins \in Seq(InstrType)
      <4> HIDE DEF cell, new, cons, bump
      <4> QED
        BY <3>5, ConcatProperties
    <3>7. Emit(ins, Fall) /\ regState' = SetReg(SetReg(regState, "STORE", cell), "ALLOC", new)
      BY <2>2 DEF RecordStore
    <3>8. out' \in Seq(GroupType)
      BY <1>1, <3>6, <3>7, EmitType, EndTypes
    <3>9. SetReg(regState, "STORE", cell) \in Regs
      BY <1>1, <1>3, <3>1, RegHelpers
    <3>10. SetReg(SetReg(regState, "STORE", cell), "ALLOC", new) \in Regs
      BY <1>1, <1>3, <3>1, <3>9, RegHelpers
    <3> QED
      BY <3>7, <3>8, <3>10
  <2>3. CASE Emit(<<>>, Fall) /\ UNCHANGED regState
    BY <1>1, <1>3, <2>3, EmitType, EndTypes, EmptySeq
  <2> QED
    BY <2>1, <2>2, <2>3 DEF GenSetter
<1>5. at' \in [Node -> [regs: Regs, vars: [Var -> Val \cup {NoVal}], blk: Block \cup {NoBlock}]]
  BY VisitType DEF GenSetter
<1> QED
  BY <1>2, <1>4, <1>5 DEF GenSetter, TypeOK, const, modVars, fnVars, ovVars, Task

LEMMA GCType ==
  ASSUME TypeOK, GenCallGC
  PROVE  TypeOK'
<1>1. node \in Node /\ S \in Stm /\ Arity(S) /\ S.op = "CALLGC"
  BY RunningFacts DEF GenCallGC
<1>2. node' \in Node
  BY <1>1, NextFacts DEF GenCallGC, Arity
<1>3. regState \in Regs /\ vMap \in [Var -> NVal]
  BY DEF TypeOK, NVal
<1>4. regState' \in Regs
  <2>1. \A r \in Reg : SetReg(regState, r, V("ins", node, r))[r] \in NVal
    BY <1>1, <1>3, NameTypes DEF SetReg, Regs, NVal
  <2> QED
    BY <1>3, <2>1 DEF GenCallGC, RegsAfterGC, Regs, NVal
<1>5. vMap' \in [Var -> NVal]
  BY <1>1, <1>3, BindTypes DEF GenCallGC
<1>6. End("gc", <<>>, regState, Args) \in EndType
  BY <1>1, ArgTypes, EndTypes
<1>7. out' \in Seq(GroupType)
  BY <1>1, <1>6, EmitType, EmptySeq DEF GenCallGC
<1>8. at' \in [Node -> [regs: Regs, vars: [Var -> Val \cup {NoVal}], blk: Block \cup {NoBlock}]]
  BY VisitType DEF GenCallGC
<1> QED
  BY <1>2, <1>4, <1>5, <1>7, <1>8 DEF GenCallGC, TypeOK, const, modVars, fnVars, ovVars, NVal, Task

LEMMA BranchType ==
  ASSUME TypeOK, GenBranch
  PROVE  TypeOK'
<1> DEFINE arm == [t |-> "arm", n |-> S.next[2], saved |-> regState]
           to == <<BB(S.next[1]), BB(S.next[2])>>
<1>1. node \in Node /\ S \in Stm /\ Arity(S) /\ S.op = "BRANCH"
  BY RunningFacts DEF GenBranch
<1>2. S.next[1] \in Node /\ S.next[2] \in Node
  BY <1>1, NextFacts DEF Arity
<1>3. regState \in Regs /\ "ALLOC" \in Reg /\ "LIMIT" \in Reg
  BY DEF TypeOK, Reg
<1>4. Test.ins \in Seq(InstrType) /\ Test.args \in Seq(NVal)
  <2>1. Load("ALLOC") \in Seq(InstrType) /\ Load("LIMIT") \in Seq(InstrType)
    BY <1>1, <1>3, RegHelpers
  <2>2. Load("ALLOC") \o Load("LIMIT") \in Seq(InstrType)
    BY <2>1, ConcatProperties
  <2>3. <<RegVal("ALLOC"), RegVal("LIMIT")>> \in Seq(NVal)
    BY <1>1, <1>3, RegHelpers
  <2>4. CASE S.prim = "LIMIT"
    BY <2>2, <2>3, <2>4 DEF Test
  <2>5. CASE S.prim # "LIMIT"
    BY <1>1, <2>5, ArgTypes, EmptySeq DEF Test
  <2> QED
    BY <2>4, <2>5
<1>5. to \in Seq(NBlock) /\ BB(S.next[1]) \in Block
  BY <1>2, NameTypes DEF NBlock
<1>6. Jump("br", to, Test.args) \in EndType
  <2> HIDE DEF to
  <2> QED
    BY <1>4, <1>5, EndTypes
<1>7. out' \in Seq(GroupType)
  BY <1>1, <1>4, <1>6, EmitType DEF GenBranch
<1>8. todo' \in Seq(Task)
  <2>1. arm \in Task
    BY <1>2, <1>3 DEF Task
  <2>2. <<arm>> \in Seq(Task) /\ todo \in Seq(Task)
    BY <2>1 DEF TypeOK
  <2>3. <<arm>> \o todo \in Seq(Task)
    BY <2>2, ConcatProperties
  <2> QED
    BY <2>3 DEF GenBranch
<1>9. at' \in [Node -> [regs: Regs, vars: [Var -> Val \cup {NoVal}], blk: Block \cup {NoBlock}]]
  BY VisitType DEF GenBranch
<1> QED
  BY <1>2, <1>5, <1>7, <1>8, <1>9 DEF GenBranch, TypeOK, const, modVars, fnVars, ovVars, Task

LEMMA SwitchType ==
  ASSUME TypeOK, GenSwitch
  PROVE  TypeOK'
<1> DEFINE dflt == Blk("impossible", node)
           arms == [i \in DOMAIN S.next |-> [t |-> "arm", n |-> S.next[i], saved |-> regState]]
           cases == [i \in DOMAIN S.next |-> BB(S.next[i])]
           g1 == Group(node, dflt, <<>>, Jump("unreachable", <<>>, <<>>))
           g2 == Group(node, bb, <<>>, Jump("br", cases \o <<dflt>>, Args))
<1>1. node \in Node /\ S \in Stm /\ Arity(S) /\ S.op = "SWITCH"
  BY RunningFacts DEF GenSwitch
<1>2. /\ DOMAIN S.next = 1..Len(S.next) /\ Len(S.next) \in Nat
      /\ \A i \in DOMAIN S.next : S.next[i] \in Node
  BY <1>1, NextFacts
<1>3. dflt \in Block
  BY <1>1, NameTypes
<1>4. cases \o <<dflt>> \in Seq(NBlock)
  <2>1. cases \in [1..Len(S.next) -> NBlock]
    BY <1>2, NameTypes DEF NBlock
  <2>2. cases \in Seq(NBlock)
    BY <1>2, <2>1, SeqDef
  <2>3. <<dflt>> \in Seq(NBlock)
    BY <1>3 DEF NBlock
  <2> QED
    BY <2>2, <2>3, ConcatProperties
<1>5. g1 \in GroupType /\ g2 \in GroupType
  <2>1. <<>> \in Seq(NVal) /\ <<>> \in Seq(NBlock)
    OBVIOUS
  <2>2. Jump("unreachable", <<>>, <<>>) \in EndType
    BY <2>1, EndTypes
  <2>3. Jump("br", cases \o <<dflt>>, Args) \in EndType
    <3> HIDE DEF cases, dflt
    <3> QED
      BY <1>1, <1>4, ArgTypes, EndTypes
  <2> HIDE DEF cases, dflt
  <2> QED
    BY <1>1, <1>3, <2>2, <2>3 DEF Group, GroupType, TypeOK
<1>6. out' \in Seq(GroupType)
  <2>1. out' = out \o <<g1, g2>>
    BY DEF GenSwitch
  <2>2. out \in Seq(GroupType) /\ <<g1, g2>> \in Seq(GroupType)
    BY <1>5 DEF TypeOK
  <2> HIDE DEF g1, g2
  <2> QED
    BY <2>1, <2>2, ConcatProperties
<1>7. todo' \in Seq(Task)
  <2>1. arms \in [1..Len(S.next) -> Task]
    BY <1>2 DEF Task, TypeOK
  <2>2. arms \in Seq(Task) /\ todo \in Seq(Task)
    BY <1>2, <2>1, SeqDef DEF TypeOK
  <2>3. todo' = arms \o todo
    BY DEF GenSwitch
  <2> HIDE DEF arms
  <2> QED
    BY <2>2, <2>3, ConcatProperties
<1>8. made' \subseteq [blk: NBlock, fn: Nat]
  BY <1>3 DEF GenSwitch, TypeOK, NBlock
<1>9. at' \in [Node -> [regs: Regs, vars: [Var -> Val \cup {NoVal}], blk: Block \cup {NoBlock}]]
  BY VisitType DEF GenSwitch
<1> QED
  BY <1>6, <1>7, <1>8, <1>9 DEF GenSwitch, TypeOK, const, modVars, fnVars, ovVars, NBlock, Task

LEMMA GotoType ==
  ASSUME TypeOK, GenGoto
  PROVE  TypeOK'
<1> DEFINE f == prog.frag[S.to]
           from(z, v) == [phi |-> V("phi", f.body, z), val |-> v, pred |-> bb]
<1>1. node \in Node /\ S \in Stm /\ Arity(S) /\ S.op = "GOTO"
  BY RunningFacts DEF GenGoto
<1>2. S.to \in Lab
  BY DEF GenGoto, TypeOK
<1>3. f \in Frag /\ f.body \in Node
  BY <1>2, UnitFacts DEF TypeOK
<1>4. Len(S.args) = Len(f.params)
  BY <1>1, ProgramsAssumption DEF TypeOK, WellFormed, WellTargeted, S
<1>5. f.params \in Seq(Var) /\ S.args \in Seq(Var)
  BY <1>1, <1>3 DEF Frag, Stm
<1>6. \A i \in DOMAIN f.params : f.params[i] \in Var /\ Args[i] \in NVal
  BY <1>1, <1>4, <1>5, ArgTypes
<1>7. \A z \in Reg \cup Var, v \in NVal : from(z, v) \in [phi: NVal, val: NVal, pred: NBlock]
  BY <1>3, NameTypes DEF TypeOK, NVal, NBlock
<1>8. mach \subseteq Reg /\ regState \in [Reg -> NVal]
  BY TargetsAssumption DEF TypeOK, Regs, NVal
<1>9. inc' = inc \cup {from(r, regState[r]) : r \in mach}
                  \cup {from(f.params[i], Args[i]) : i \in DOMAIN f.params}
  BY DEF GenGoto
<1>10. inc' \subseteq [phi: NVal, val: NVal, pred: NBlock]
  <2>1. inc \subseteq [phi: NVal, val: NVal, pred: NBlock]
    BY DEF TypeOK, NVal, NBlock
  <2> HIDE DEF from, f
  <2> QED
    BY <1>6, <1>7, <1>8, <1>9, <2>1
<1>11. out' \in Seq(GroupType)
  <2>1. <<BB(f.body)>> \in Seq(NBlock) /\ <<>> \in Seq(NVal)
    BY <1>3, NameTypes DEF NBlock
  <2>2. Jump("br", <<BB(f.body)>>, <<>>) \in EndType
    BY <2>1, EndTypes
  <2>3. Emit(<<>>, Jump("br", <<BB(f.body)>>, <<>>))
    BY DEF GenGoto
  <2> QED
    BY <1>1, <2>2, <2>3, EmitType, EmptySeq
<1>12. at' \in [Node -> [regs: Regs, vars: [Var -> Val \cup {NoVal}], blk: Block \cup {NoBlock}]]
  BY VisitType DEF GenGoto
<1> QED
  BY <1>10, <1>11, <1>12 DEF GenGoto, TypeOK, const, modVars, fnVars, ovVars, NVal, NBlock, Task

LEMMA CallType ==
  ASSUME TypeOK, GenApply \/ GenThrow
  PROVE  TypeOK'
<1>1. node \in Node /\ TailCall
  BY RunningFacts DEF GenApply, GenThrow
<1>2. out' \in Seq(GroupType)
  BY <1>1, ArgTypes, EndTypes, EmitType, EmptySeq DEF TailCall
<1>3. at' \in [Node -> [regs: Regs, vars: [Var -> Val \cup {NoVal}], blk: Block \cup {NoBlock}]]
  BY <1>1, VisitType DEF TailCall
<1> QED
  BY <1>1, <1>2, <1>3 DEF TailCall, TypeOK, const, modVars, fnVars, ovVars, Task

LEMMA StepType == TypeOK /\ [Next]_vars => TypeOK'
<1> SUFFICES ASSUME TypeOK, [Next]_vars PROVE TypeOK'
  OBVIOUS
<1>1. CASE BeginUnit \/ BeginCluster \/ BeginFrag \/ NextArm \/ EndUnit
  BY <1>1, SetupType
<1>2. CASE GenLet
  BY <1>2, LetType
<1>3. CASE GenAlloc
  BY <1>3, AllocType
<1>4. CASE GenArith
  BY <1>4, ArithType
<1>5. CASE GenSetter
  BY <1>5, SetterType
<1>6. CASE GenCallGC
  BY <1>6, GCType
<1>7. CASE GenBranch
  BY <1>7, BranchType
<1>8. CASE GenSwitch
  BY <1>8, SwitchType
<1>9. CASE GenGoto
  BY <1>9, GotoType
<1>10. CASE GenApply \/ GenThrow
  BY <1>10, CallType
<1>11. CASE Finished \/ UNCHANGED vars
  BY <1>11 DEF Finished, vars, TypeOK, Task
<1> QED
  BY <1>1, <1>2, <1>3, <1>4, <1>5, <1>6, <1>7, <1>8, <1>9, <1>10, <1>11 DEF Next, Step, GenStm

(***************************************************************************)
(* Whatever well-formed unit the code generator is given, the state of the *)
(* Context, the pending work and the emitted code stay well typed.         *)
(***************************************************************************)
THEOREM TypeCorrect == Spec => []TypeOK
<1>1. Init => TypeOK
  BY InitType
<1>2. TypeOK /\ [Next]_vars => TypeOK'
  BY StepType
<1> QED
  BY <1>1, <1>2, PTL DEF Spec

-----------------------------------------------------------------------------
(***************************************************************************)
(* The register state agrees with the program.  The property only speaks   *)
(* of statements that are already generated; it is inductive together with *)
(* what holds of the work that is still pending: no statement is generated *)
(* twice, every pending arm has saved the registers its branch ended with, *)
(* and whatever is in scope is bound.                                      *)
(***************************************************************************)

Done == {n \in Node : Visited(n)}

(* The statements at which task t starts generating code. *)
Starts(t) ==
  IF t.t = "arm" THEN {t.n}
  ELSE IF t.t = "frag" THEN {prog.frag[t.lab].body}
  ELSE {prog.frag[l].body : l \in Elems(prog.clusters[t.c])}

(* Exactly the machine registers have a value. *)
RegsMatchTarget(rs) == \A r \in Reg : rs[r] = NoVal <=> r \notin mach

(* lookupVal succeeds for everything in scope at n. *)
ScopeBound(n) == \A z \in prog.scope[n] : vMap[z] # NoVal

NothingDone == phase = "start" => node = NoNode /\ todo = <<>> /\ Done = {}

DoneFromTop ==
  \A m \in Done : m \in Bodies(prog) \/ \E n \in Done : m \in Children(prog, n)

PendingFresh ==
  \A i \in DOMAIN todo : Starts(todo[i]) \cap (Done \cup {node}) = {}

PendingApart ==
  \A i, j \in DOMAIN todo : i # j => Starts(todo[i]) \cap Starts(todo[j]) = {}

ArmsFirst ==
  \A i, j \in DOMAIN todo : i < j /\ todo[j].t = "arm" => todo[i].t = "arm"

ArmReady(t) ==
  /\ RegsMatchTarget(t.saved)
  /\ ScopeBound(t.n)
  /\ \E n \in Done : t.n \in Children(prog, n) /\ t.saved = RegsAfter(n)

ArmsReady == \A i \in DOMAIN todo : todo[i].t = "arm" => ArmReady(todo[i])

NodeReady ==
  node # NoNode =>
    /\ node \notin Done
    /\ bb # NoBlock
    /\ RegsMatchTarget(regState)
    /\ ScopeBound(node)
    /\ node \in Bodies(prog)
       \/ \E n \in Done : node \in Children(prog, n) /\ regState = RegsAfter(n)

FrameRegs == \A r \in Reg \ mach : regState[r] = NoVal

RegsInv ==
  /\ NothingDone /\ DoneFromTop
  /\ PendingFresh /\ PendingApart /\ ArmsFirst
  /\ ArmsReady /\ NodeReady /\ FrameRegs
  /\ RegsFollowProgram

(* Units are forests: a statement has one parent, and bodies have none. *)
LEMMA Forest ==
  ASSUME NEW p \in Programs, NEW n \in Node, NEW m \in Children(p, n)
  PROVE  /\ m \in Node /\ m # n /\ m \notin Bodies(p)
         /\ \A k \in Node : m \in Children(p, k) => k = n
         /\ p.scope[m] = p.scope[n] \cup Elems(p.stm[n].res)
<1>1. IsForest(p) /\ WellScoped(p)
  BY ProgramsAssumption DEF WellFormed
<1>2. m \in Node
  BY StmFacts
<1>3. n < m /\ m \notin Bodies(p)
  BY <1>1 DEF IsForest
<1>4. m # n
  BY <1>2, <1>3, NodeAssumption
<1>5. \A k \in Node : m \in Children(p, k) => k = n
  BY <1>1 DEF IsForest
<1> QED
  BY <1>1, <1>2, <1>3, <1>4, <1>5 DEF WellScoped

(* Distinct labels have distinct bodies. *)
LEMMA BodiesDistinct ==
  ASSUME NEW p \in Programs
  PROVE  /\ \A l1, l2 \in Lab : p.frag[l1].body = p.frag[l2].body => l1 = l2
         /\ \A c, d \in DOMAIN p.clusters :
              \A i \in DOMAIN p.clusters[c], j \in DOMAIN p.clusters[d] :
                p.clusters[c][i] = p.clusters[d][j] => c = d /\ i = j
         /\ \A l \in Lab : p.scope[p.frag[l].body] = Elems(p.frag[l].params)
BY ProgramsAssumption DEF WellFormed, WellLinked, WellScoped

(* A task starts at statements. *)
LEMMA StartsAreStms ==
  ASSUME prog \in Programs, NEW t \in Task
  PROVE  Starts(t) \subseteq Node
<1>1. CASE t.t = "arm"
  BY <1>1 DEF Starts, Task
<1>2. CASE t.t = "frag"
  BY <1>2, UnitFacts DEF Starts, Task
<1>3. CASE t.t = "cluster"
  <2>1. prog.clusters[t.c] \in Seq(Lab)
    BY <1>3, UnitFacts DEF Task
  <2>2. \A l \in Elems(prog.clusters[t.c]) : l \in Lab
    BY <2>1 DEF Elems
  <2> QED
    BY <1>3, <2>2, UnitFacts DEF Starts
<1> QED
  BY <1>1, <1>2, <1>3 DEF Task

(* A child of the statement being generated is neither done nor pending. *)
LEMMA ChildFresh ==
  ASSUME TypeOK, RegsInv, node \in Node, NEW m \in Children(prog, node)
  PROVE  /\ m \notin Done /\ m # node
         /\ \A i \in DOMAIN todo : m \notin Starts(todo[i])
<1>1. prog \in Programs /\ node \notin Done
  BY NullAssumption DEF TypeOK, RegsInv, NodeReady
<1>2. m # node /\ m \notin Bodies(prog) /\ \A k \in Node : m \in Children(prog, k) => k = node
  BY <1>1, Forest
<1>3. m \notin Done
  BY <1>1, <1>2 DEF RegsInv, DoneFromTop, Done
<1>4. ASSUME NEW i \in DOMAIN todo, m \in Starts(todo[i]) PROVE FALSE
  <2>1. todo[i] \in Task
    BY DEF TypeOK
  <2>2. CASE todo[i].t = "arm"
    BY <1>1, <1>2, <1>4, <2>2 DEF Starts, RegsInv, ArmsReady, ArmReady, Done
  <2>3. CASE todo[i].t = "frag"
    BY <1>2, <1>4, <2>1, <2>3 DEF Starts, Bodies, Task
  <2>4. CASE todo[i].t = "cluster"
    <3>1. prog.clusters[todo[i].c] \in Seq(Lab)
      BY <1>1, <2>1, <2>4, UnitFacts DEF Task
    <3>2. \A l \in Elems(prog.clusters[todo[i].c]) : l \in Lab
      BY <3>1 DEF Elems
    <3> QED
      BY <1>2, <1>4, <2>4, <3>2 DEF Starts, Bodies
  <2> QED
    BY <2>1, <2>2, <2>3, <2>4 DEF Task
<1> QED
  BY <1>2, <1>3, <1>4

(* Positions in a concatenation. *)
LEMMA ConcatCases ==
  ASSUME NEW T, NEW a \in Seq(T), NEW b \in Seq(T)
  PROVE  /\ \A i \in DOMAIN (a \o b) :
              \/ i \in DOMAIN a /\ (a \o b)[i] = a[i]
              \/ i - Len(a) \in DOMAIN b /\ i > Len(a) /\ (a \o b)[i] = b[i - Len(a)]
         /\ DOMAIN (a \o b) = 1..Len(a) + Len(b)
         /\ DOMAIN a = 1..Len(a) /\ Len(a) \in Nat
         /\ DOMAIN b = 1..Len(b) /\ Len(b) \in Nat
<1>1. /\ a \o b \in Seq(T) /\ Len(a \o b) = Len(a) + Len(b)
      /\ \A i \in 1 .. Len(a) + Len(b) : (a \o b)[i] = IF i <= Len(a) THEN a[i] ELSE b[i - Len(a)]
  BY ConcatProperties
<1>2. /\ DOMAIN (a \o b) = 1..Len(a \o b)
      /\ DOMAIN a = 1..Len(a) /\ Len(a) \in Nat
      /\ DOMAIN b = 1..Len(b) /\ Len(b) \in Nat
  BY <1>1, LenProperties
<1>3. ASSUME NEW i \in 1..Len(a) + Len(b)
      PROVE  \/ i \in 1..Len(a) /\ (a \o b)[i] = a[i]
             \/ i - Len(a) \in 1..Len(b) /\ i > Len(a) /\ (a \o b)[i] = b[i - Len(a)]
  BY <1>1, <1>2
<1> QED
  BY <1>1, <1>2, <1>3

(* The registers after a statement match the target if those before it do
   and the statement's arguments are bound. *)
LEMMA RegsAfterMatch ==
  ASSUME TypeOK, RegsInv, node \in Node, Visit, UNCHANGED <<prog, mach>>,
         NEW n \in Node, n = node
  PROVE  /\ RegsAfter(n)' = [r \in Reg |->
                IF r \notin mach THEN NoVal
                ELSE IF r \notin Writes(S) THEN regState[r]
                ELSE IF S.prim = "SET" THEN vMap[S.args[1]]
                ELSE V("ins", node, r)]
         /\ \A r \in Reg : RegsAfter(n)'[r] = NoVal <=> r \notin mach
<1>1. at'[n] = [regs |-> regState, vars |-> vMap, blk |-> bb]
  BY DEF Visit, TypeOK
<1>2. RegsAfter(n)' = [r \in Reg |->
                IF r \notin mach THEN NoVal
                ELSE IF r \notin Writes(S) THEN regState[r]
                ELSE IF S.prim = "SET" THEN vMap[S.args[1]]
                ELSE V("ins", node, r)]
  BY <1>1 DEF RegsAfter, S
<1>3. prog \in Programs /\ RegsMatchTarget(regState) /\ ScopeBound(node)
  BY NullAssumption DEF TypeOK, RegsInv, NodeReady
<1>4. \A r \in Reg : V("ins", node, r) # NoVal
  BY NullAssumption, NameTypes
<1>5. S.prim = "SET" => vMap[S.args[1]] # NoVal
  <2>1. S \in Stm /\ Arity(S)
    BY ArgTypes
  <2>2. Elems(S.args) \subseteq prog.scope[node]
    BY <1>3, ProgramsAssumption DEF WellFormed, WellScoped, S
  <2>3. S.prim = "SET" => S.args[1] \in Elems(S.args)
    BY <2>1 DEF Arity, Elems, Stm
  <2> QED
    BY <1>3, <2>2, <2>3 DEF ScopeBound
<1>6. \A r \in Reg : regState[r] = NoVal <=> r \notin mach
  BY <1>3 DEF RegsMatchTarget
<1>7. \A r \in Reg : RegsAfter(n)'[r] = NoVal <=> r \notin mach
  BY <1>2, <1>4, <1>5, <1>6
<1> QED
  BY <1>2, <1>7

(***************************************************************************)
(* Generating the code of one statement keeps RegsInv, if it moves on to a *)
(* child with the registers RegsAfter says, or to no statement, and adds   *)
(* only arms that are other children and have saved those registers.       *)
(***************************************************************************)
LEMMA VisitStep ==
  ASSUME TypeOK, TypeOK', RegsInv, phase = "gen", Visit, UNCHANGED <<prog, mach, phase>>,
         NEW n \in Node, n = node,
         NEW new \in Seq(Task), todo' = new \o todo,
         \A i \in DOMAIN new :
            /\ new[i].t = "arm" /\ new[i].n \in Children(prog, n) /\ new[i].n # node'
            /\ new[i].saved = RegsAfter(n)',
         \A i, j \in DOMAIN new : i # j => new[i].n # new[j].n,
         node' \in Children(prog, n) \cup {NoNode},
         node' # NoNode => regState' = RegsAfter(n)' /\ bb' # NoBlock,
         \A r \in Reg \ mach : regState'[r] = NoVal,
         \A z \in Var : vMap[z] # NoVal => vMap'[z] # NoVal,
         \A z \in Elems(prog.stm[n].res) : vMap'[z] # NoVal
  PROVE  RegsInv'
<1>1. /\ prog \in Programs /\ n # NoNode /\ n \notin Done /\ bb # NoBlock /\ ScopeBound(n)
      /\ n \in Bodies(prog) \/ \E k \in Done : n \in Children(prog, k) /\ regState = RegsAfter(k)
  BY NullAssumption DEF TypeOK, RegsInv, NodeReady
<1>2. /\ at'[n] = [regs |-> regState, vars |-> vMap, blk |-> bb]
      /\ \A k \in Node : k # n => at'[k] = at[k]
  BY DEF Visit, TypeOK
<1>3. Done' = Done \cup {n}
  BY <1>1, <1>2 DEF Done, Visited
<1>4. \A k \in Node : k # n => RegsAfter(k)' = RegsAfter(k)
  BY <1>2 DEF RegsAfter
<1>5. \A k \in Done : RegsAfter(k)' = RegsAfter(k) /\ k \in Node /\ k # n
  BY <1>1, <1>4 DEF Done
<1>6. \A m \in Children(prog, n) :
        /\ m \in Node /\ m # n /\ m \notin Done /\ m \notin Bodies(prog)
        /\ \A k \in Node : m \in Children(prog, k) => k = n
        /\ \A i \in DOMAIN todo : m \notin Starts(todo[i])
        /\ prog.scope[m] = prog.scope[n] \cup Elems(prog.stm[n].res)
  BY <1>1, Forest, ChildFresh
<1>7. \A r \in Reg : RegsAfter(n)'[r] = NoVal <=> r \notin mach
  BY RegsAfterMatch
<1>8. \A k \in Node : prog.scope[k] \subseteq Var
  BY <1>1, ProgramsAssumption DEF WellFormed, WellTyped
<1>9. \A m \in Node : ScopeBound(m) => ScopeBound(m)'
  BY <1>8 DEF ScopeBound
<1>10. \A m \in Children(prog, n) : ScopeBound(m)'
  BY <1>1, <1>6, <1>8 DEF ScopeBound
<1>11. todo \in Seq(Task)
  BY DEF TypeOK
<1>12. /\ \A i \in DOMAIN todo' :
             \/ i \in DOMAIN new /\ todo'[i] = new[i]
             \/ i - Len(new) \in DOMAIN todo /\ i > Len(new) /\ todo'[i] = todo[i - Len(new)]
       /\ DOMAIN todo' = 1..Len(new) + Len(todo)
       /\ DOMAIN new = 1..Len(new) /\ Len(new) \in Nat
       /\ DOMAIN todo = 1..Len(todo) /\ Len(todo) \in Nat
  BY <1>11, ConcatCases
<1>13. \A t : Starts(t)' = Starts(t)
  BY DEF Starts
<1>14. \A i \in DOMAIN new : Starts(new[i]) = {new[i].n}
  BY DEF Starts
<1>15. NothingDone'
  BY DEF NothingDone
<1>16. DoneFromTop'
  BY <1>1, <1>3 DEF DoneFromTop, RegsInv
<1>17. PendingFresh'
  <2> SUFFICES ASSUME NEW i \in DOMAIN todo' PROVE Starts(todo'[i]) \cap (Done \cup {n, node'}) = {}
    BY <1>3, <1>13 DEF PendingFresh
  <2>1. CASE i \in DOMAIN new /\ todo'[i] = new[i]
    BY <1>6, <1>14, <2>1
  <2>2. CASE i - Len(new) \in DOMAIN todo /\ todo'[i] = todo[i - Len(new)]
    <3>1. Starts(todo[i - Len(new)]) \cap (Done \cup {n}) = {}
      BY <2>2 DEF RegsInv, PendingFresh
    <3>2. node' \notin Starts(todo[i - Len(new)])
      <4>1. Starts(todo[i - Len(new)]) \subseteq Node
        <5>1. todo[i - Len(new)] \in Task
          BY <1>11, <2>2
        <5> QED
          BY <1>1, <5>1, StartsAreStms
      <4> QED
        BY <1>6, <2>2, <4>1, NullAssumption
    <3> QED
      BY <2>2, <3>1, <3>2
  <2> QED
    BY <1>12, <2>1, <2>2
<1>18. PendingApart'
  <2> SUFFICES ASSUME NEW i \in DOMAIN todo', NEW j \in DOMAIN todo', i # j
               PROVE  Starts(todo'[i]) \cap Starts(todo'[j]) = {}
    BY <1>13 DEF PendingApart
  <2>1. CASE i \in DOMAIN new /\ todo'[i] = new[i] /\ j \in DOMAIN new /\ todo'[j] = new[j]
    BY <1>14, <2>1
  <2>2. CASE i \in DOMAIN new /\ todo'[i] = new[i]
             /\ j - Len(new) \in DOMAIN todo /\ todo'[j] = todo[j - Len(new)]
    BY <1>6, <1>14, <2>2
  <2>3. CASE j \in DOMAIN new /\ todo'[j] = new[j]
             /\ i - Len(new) \in DOMAIN todo /\ todo'[i] = todo[i - Len(new)]
    BY <1>6, <1>14, <2>3
  <2>4. CASE /\ i - Len(new) \in DOMAIN todo /\ todo'[i] = todo[i - Len(new)]
             /\ j - Len(new) \in DOMAIN todo /\ todo'[j] = todo[j - Len(new)]
    <3>1. i - Len(new) # j - Len(new)
      BY <1>12
    <3> QED
      BY <2>4, <3>1 DEF RegsInv, PendingApart
  <2> QED
    BY <1>12, <2>1, <2>2, <2>3, <2>4
<1>19. ArmsFirst'
  <2> SUFFICES ASSUME NEW i \in DOMAIN todo', NEW j \in DOMAIN todo', i < j, todo'[j].t = "arm"
               PROVE  todo'[i].t = "arm"
    BY DEF ArmsFirst
  <2>1. CASE i \in DOMAIN new /\ todo'[i] = new[i]
    BY <2>1
  <2>2. CASE i - Len(new) \in DOMAIN todo /\ i > Len(new) /\ todo'[i] = todo[i - Len(new)]
    <3>1. j - Len(new) \in DOMAIN todo /\ todo'[j] = todo[j - Len(new)]
      BY <1>12, <2>2
    <3>2. i - Len(new) < j - Len(new)
      BY <1>12
    <3> QED
      BY <2>2, <3>1, <3>2 DEF RegsInv, ArmsFirst
  <2> QED
    BY <1>12, <2>1, <2>2
<1>20. ArmsReady'
  <2> SUFFICES ASSUME NEW i \in DOMAIN todo', NEW t, t = todo'[i], t.t = "arm"
               PROVE  /\ RegsMatchTarget(t.saved)' /\ ScopeBound(t.n)'
                      /\ \E k \in Done' : t.n \in Children(prog', k) /\ t.saved = RegsAfter(k)'
    BY DEF ArmsReady, ArmReady, RegsMatchTarget, ScopeBound
  <2>1. CASE i \in DOMAIN new /\ t = new[i]
    <3>1. RegsMatchTarget(t.saved)'
      BY <1>7, <2>1 DEF RegsMatchTarget
    <3>2. ScopeBound(t.n)'
      BY <1>10, <2>1
    <3>3. n \in Done' /\ t.n \in Children(prog', n) /\ t.saved = RegsAfter(n)'
      BY <1>3, <2>1
    <3> QED
      BY <3>1, <3>2, <3>3
  <2>2. CASE i - Len(new) \in DOMAIN todo /\ t = todo[i - Len(new)]
    <3>1. ArmReady(t)
      BY <2>2 DEF RegsInv, ArmsReady
    <3>2. RegsMatchTarget(t.saved)'
      BY <3>1 DEF ArmReady, RegsMatchTarget
    <3>3. ScopeBound(t.n)'
      <4>1. t.n \in Node
        BY <3>1, StmFacts, <1>1 DEF ArmReady, Done
      <4> QED
        BY <1>9, <3>1, <4>1 DEF ArmReady
    <3>4. \E k \in Done' : t.n \in Children(prog', k) /\ t.saved = RegsAfter(k)'
      BY <1>3, <1>5, <3>1 DEF ArmReady
    <3> QED
      BY <3>2, <3>3, <3>4
  <2> QED
    BY <1>12, <2>1, <2>2
<1>21. NodeReady'
  <2> SUFFICES ASSUME node' # NoNode, NEW m \in Node, m = node'
               PROVE  /\ m \notin Done' /\ bb' # NoBlock /\ RegsMatchTarget(regState)' /\ ScopeBound(m)'
                      /\ \E k \in Done' : m \in Children(prog', k) /\ regState' = RegsAfter(k)'
    BY DEF NodeReady, TypeOK
  <2>1. m \in Children(prog, n)
    OBVIOUS
  <2>2. m \notin Done' /\ bb' # NoBlock /\ ScopeBound(m)'
    BY <1>3, <1>6, <1>10, <2>1
  <2>3. RegsMatchTarget(regState)'
    BY <1>7 DEF RegsMatchTarget
  <2>4. n \in Done' /\ m \in Children(prog', n) /\ regState' = RegsAfter(n)'
    BY <1>3, <2>1
  <2> QED
    BY <2>2, <2>3, <2>4
<1>22. FrameRegs'
  BY DEF FrameRegs
<1>23. RegsFollowProgram'
  <2> SUFFICES ASSUME NEW k \in Done', NEW m \in Children(prog, k), m \in Done'
               PROVE  at'[m].regs = RegsAfter(k)'
    BY StmFacts, <1>1 DEF RegsFollowProgram, Done
  <2>1. CASE k \in Done /\ m \in Done
    <3>1. at[m].regs = RegsAfter(k)
      BY <2>1 DEF RegsInv, RegsFollowProgram, Done
    <3> QED
      BY <1>2, <1>5, <2>1, <3>1
  <2>2. CASE k \in Done /\ m = n
    <3>1. n \notin Bodies(prog) /\ \A j \in Node : n \in Children(prog, j) => j = k
      BY <1>1, <1>5, <2>2, Forest
    <3>2. regState = RegsAfter(k)
      BY <1>1, <1>5, <3>1
    <3> QED
      BY <1>2, <1>5, <2>2, <3>2
  <2>3. CASE k = n
    BY <1>3, <1>6, <2>3
  <2> QED
    BY <1>3, <2>1, <2>2, <2>3
<1> QED
  BY <1>15, <1>16, <1>17, <1>18, <1>19, <1>20, <1>21, <1>22, <1>23 DEF RegsInv

(* The same for a statement with one continuation. *)
LEMMA StraightStep ==
  ASSUME TypeOK, TypeOK', RegsInv, phase = "gen", Visit, UNCHANGED <<prog, mach, phase, todo>>,
         node \in Node, Len(S.next) = 1, node' = S.next[1], bb' # NoBlock,
         \A r \in Reg : regState'[r] =
            IF r \notin mach THEN NoVal
            ELSE IF r \notin Writes(S) THEN regState[r]
            ELSE IF S.prim = "SET" THEN vMap[S.args[1]]
            ELSE V("ins", node, r),
         \A z \in Var : vMap[z] # NoVal => vMap'[z] # NoVal,
         \A z \in Elems(S.res) : vMap'[z] # NoVal
  PROVE  RegsInv'
<1> PICK n \in Node : n = node
  OBVIOUS
<1>1. node' \in Children(prog, n)
  BY NextFacts
<1>2. RegsAfter(n)' = [r \in Reg |->
                IF r \notin mach THEN NoVal
                ELSE IF r \notin Writes(S) THEN regState[r]
                ELSE IF S.prim = "SET" THEN vMap[S.args[1]]
                ELSE V("ins", node, r)]
  BY RegsAfterMatch
<1>3. regState' \in [Reg -> NVal]
  BY DEF TypeOK, Regs, NVal
<1>4. regState' = RegsAfter(n)'
  BY <1>2, <1>3
<1>5. <<>> \in Seq(Task) /\ todo' = <<>> \o todo /\ DOMAIN <<>> = {}
  BY ConcatEmptySeq, EmptySeq DEF TypeOK
<1>6. \A z \in Elems(prog.stm[n].res) : vMap'[z] # NoVal
  BY DEF S
<1>7. \A r \in Reg \ mach : regState'[r] = NoVal
  OBVIOUS
<1> DEFINE new == <<>>
<1>8. new \in Seq(Task) /\ todo' = new \o todo /\ DOMAIN new = {}
  BY <1>5
<1> HIDE DEF new
<1> QED
  BY <1>1, <1>4, <1>6, <1>7, <1>8, VisitStep

(* setMLReg changes one machine register and no frame register. *)
LEMMA SetRegAt ==
  ASSUME NEW rs \in Regs, NEW r \in Reg, NEW v
  PROVE  \A q \in Reg : SetReg(rs, r, v)[q] = IF q = r /\ rs[r] # NoVal THEN v ELSE rs[q]
BY DEF SetReg, Regs

(* The values a statement binds are values, and bindings are never lost. *)
LEMMA BindBinds ==
  ASSUME NEW f \in [Var -> NVal], NEW n \in Node
  PROVE  /\ \A z \in Var, v \in NVal, y \in Var :
              /\ f[y] # NoVal => Bind(f, z, v)[y] # NoVal
              /\ v # NoVal => Bind(f, z, v)[z] # NoVal
         /\ \A xs : \A k \in {"phi", "arg", "ins", "load", "ovphi"}, y \in Var :
              /\ f[y] # NoVal => BindAll(f, xs, k, n)[y] # NoVal
              /\ y \in Elems(xs) => BindAll(f, xs, k, n)[y] # NoVal
<1>1. \A z \in Var, v \in NVal, y \in Var :
              /\ f[y] # NoVal => Bind(f, z, v)[y] # NoVal
              /\ v # NoVal => Bind(f, z, v)[z] # NoVal
  BY DEF Bind
<1>2. \A k \in {"phi", "arg", "ins", "load", "ovphi"}, y \in Var : V(k, n, y) # NoVal
  BY NameTypes, NullAssumption
<1>3. \A xs : \A k \in {"phi", "arg", "ins", "load", "ovphi"}, y \in Var :
              /\ f[y] # NoVal => BindAll(f, xs, k, n)[y] # NoVal
              /\ y \in Elems(xs) => BindAll(f, xs, k, n)[y] # NoVal
  BY <1>2 DEF BindAll
<1> QED
  BY <1>1, <1>3

(* What the generator knows when it generates a statement. *)
LEMMA ReadyFacts ==
  ASSUME TypeOK, RegsInv, node \in Node
  PROVE  /\ bb # NoBlock /\ ScopeBound(node)
         /\ \A r \in Reg : regState[r] = NoVal <=> r \notin mach
         /\ \A i \in DOMAIN S.args : Args[i] # NoVal
<1>1. prog \in Programs /\ bb # NoBlock /\ ScopeBound(node) /\ RegsMatchTarget(regState)
  BY NullAssumption DEF TypeOK, RegsInv, NodeReady
<1>2. Elems(S.args) \subseteq prog.scope[node]
  BY <1>1, ProgramsAssumption DEF WellFormed, WellScoped, S
<1>3. \A i \in DOMAIN S.args : Args[i] # NoVal
  BY <1>1, <1>2 DEF ScopeBound, Args, Elems
<1> QED
  BY <1>1, <1>3 DEF RegsMatchTarget

LEMMA LetRegs ==
  ASSUME TypeOK, TypeOK', RegsInv, GenLet
  PROVE  RegsInv'
<1> DEFINE z == S.res[1]
<1>1. node \in Node /\ S \in Stm /\ Arity(S) /\ S.op = "LET"
  BY RunningFacts DEF GenLet
<1>2. Len(S.next) = 1 /\ Len(S.res) = 1 /\ S.res \in Seq(Var)
  BY <1>1 DEF Arity, Stm
<1>3. Elems(S.res) = {z} /\ z \in Var
  BY <1>2 DEF Elems
<1>4. \E v \in NVal : v # NoVal /\ vMap' = Bind(vMap, z, v)
  <2>1. CASE S.prim = "VAR" /\ vMap' = Bind(vMap, z, Args[1])
    BY <1>1, <2>1, ArgTypes, ReadyFacts DEF Arity, Stm
  <2>2. CASE vMap' = Bind(vMap, z, V("ins", node, z))
    BY <1>1, <1>3, <2>2, NameTypes, NullAssumption DEF NVal
  <2>3. CASE S.prim = "GET" /\ vMap' = Bind(vMap, z, RegVal(S.reg))
    <3>1. S.reg \in Reg /\ regState \in Regs
      BY <1>1 DEF Stm, TypeOK
    <3>2. RegVal(S.reg) \in NVal
      BY <1>1, <3>1, RegHelpers
    <3>3. V("load", node, S.reg) # NoVal
      BY <1>1, <3>1, NameTypes, NullAssumption
    <3>4. RegVal(S.reg) # NoVal
      BY <3>3 DEF RegVal
    <3> QED
      BY <2>3, <3>2, <3>4
  <2> QED
    BY <2>1, <2>2, <2>3 DEF GenLet
<1>5. PICK v \in NVal : v # NoVal /\ vMap' = Bind(vMap, z, v)
  BY <1>4
<1>6. vMap \in [Var -> NVal]
  BY DEF TypeOK, NVal
<1>7. /\ \A y \in Var : vMap[y] # NoVal => vMap'[y] # NoVal
      /\ \A y \in Elems(S.res) : vMap'[y] # NoVal
  BY <1>1, <1>3, <1>5, <1>6, BindBinds
<1>8. Writes(S) = {}
  BY <1>1 DEF Writes
<1>9. \A r \in Reg : regState'[r] = IF r \notin mach THEN NoVal ELSE regState[r]
  BY <1>1, ReadyFacts DEF GenLet
<1>10. phase = "gen" /\ Visit /\ UNCHANGED <<prog, mach, phase, todo>> /\ node' = S.next[1] /\ bb' # NoBlock
  BY <1>1, ReadyFacts DEF GenLet, Running, const
<1> QED
  BY <1>1, <1>2, <1>7, <1>8, <1>9, <1>10, StraightStep

LEMMA AllocRegs ==
  ASSUME TypeOK, TypeOK', RegsInv, GenAlloc
  PROVE  RegsInv'
<1> DEFINE z == S.res[1]
           new == V("ins", node, "ALLOC")
<1>1. node \in Node /\ S \in Stm /\ Arity(S) /\ S.op = "ALLOC"
  BY RunningFacts DEF GenAlloc
<1>2. Len(S.next) = 1 /\ Len(S.res) = 1 /\ S.res \in Seq(Var) /\ S.prim # "SET"
  BY <1>1 DEF Arity, Stm
<1>3. Elems(S.res) = {z} /\ z \in Var
  BY <1>2 DEF Elems
<1>4. V("ins", node, z) \in NVal /\ V("ins", node, z) # NoVal
  BY <1>1, <1>3, NameTypes, NullAssumption DEF NVal
<1>5. vMap \in [Var -> NVal] /\ regState \in Regs /\ "ALLOC" \in Reg
  BY DEF TypeOK, NVal, Reg
<1>6. /\ \A y \in Var : vMap[y] # NoVal => vMap'[y] # NoVal
      /\ \A y \in Elems(S.res) : vMap'[y] # NoVal
  BY <1>1, <1>3, <1>4, <1>5, BindBinds DEF GenAlloc
<1>7. regState' = SetReg(regState, "ALLOC", new)
  BY DEF GenAlloc, AllocRecord
<1>8. Writes(S) = {"ALLOC"}
  BY <1>1 DEF Writes
<1>9. \A r \in Reg : regState'[r] =
        IF r \notin mach THEN NoVal
        ELSE IF r \notin Writes(S) THEN regState[r]
        ELSE IF S.prim = "SET" THEN vMap[S.args[1]]
        ELSE V("ins", node, r)
  BY <1>1, <1>2, <1>5, <1>7, <1>8, ReadyFacts, SetRegAt
<1>10. phase = "gen" /\ Visit /\ UNCHANGED <<prog, mach, phase, todo>> /\ node' = S.next[1] /\ bb' # NoBlock
  BY <1>1, ReadyFacts DEF GenAlloc, Running, const
<1> QED
  BY <1>1, <1>2, <1>6, <1>9, <1>10, StraightStep

LEMMA ArithRegs ==
  ASSUME TypeOK, TypeOK', RegsInv, GenArith
  PROVE  RegsInv'
<1> DEFINE z == S.res[1]
<1>1. node \in Node /\ S \in Stm /\ Arity(S) /\ S.op = "ARITH"
  BY RunningFacts DEF GenArith
<1>2. Len(S.next) = 1 /\ Len(S.res) = 1 /\ S.res \in Seq(Var)
  BY <1>1 DEF Arity, Stm
<1>3. Elems(S.res) = {z} /\ z \in Var
  BY <1>2 DEF Elems
<1>4. V("ins", node, z) \in NVal /\ V("ins", node, z) # NoVal /\ vMap \in [Var -> NVal]
  BY <1>1, <1>3, NameTypes, NullAssumption DEF NVal, TypeOK
<1>5. /\ \A y \in Var : vMap[y] # NoVal => vMap'[y] # NoVal
      /\ \A y \in Elems(S.res) : vMap'[y] # NoVal
  BY <1>1, <1>3, <1>4, BindBinds DEF GenArith
<1>6. Writes(S) = {}
  BY <1>1 DEF Writes
<1>7. \A r \in Reg : regState'[r] = IF r \notin mach THEN NoVal ELSE regState[r]
  BY <1>1, ReadyFacts DEF GenArith
<1>8. bb' # NoBlock
  <2>1. Blk("ok", node) # NoBlock
    BY <1>1, NameTypes, NullAssumption
  <2>2. bb' = Blk("ok", node) \/ bb' = bb
    BY DEF GenArith, TrapArith
  <2> QED
    BY <1>1, <2>1, <2>2, ReadyFacts
<1>9. phase = "gen" /\ Visit /\ UNCHANGED <<prog, mach, phase, todo>> /\ node' = S.next[1]
  BY DEF GenArith, Running, const
<1> QED
  BY <1>1, <1>2, <1>5, <1>6, <1>7, <1>8, <1>9, StraightStep

LEMMA SetterRegs ==
  ASSUME TypeOK, TypeOK', RegsInv, GenSetter
  PROVE  RegsInv'
<1>1. node \in Node /\ S \in Stm /\ Arity(S) /\ S.op = "SETTER"
  BY RunningFacts DEF GenSetter
<1>2. Len(S.next) = 1 /\ regState \in Regs /\ S.reg \in Reg /\ {"ALLOC", "STORE"} \subseteq Reg
  BY <1>1 DEF Arity, Stm, TypeOK, Reg
<1>3. \A r \in Reg : regState[r] = NoVal <=> r \notin mach
  BY <1>1, ReadyFacts
<1>4. \A r \in Reg : regState'[r] =
        IF r \notin mach THEN NoVal
        ELSE IF r \notin Writes(S) THEN regState[r]
        ELSE IF S.prim = "SET" THEN vMap[S.args[1]]
        ELSE V("ins", node, r)
  <2>1. CASE S.prim = "SET" /\ SetSpecial(S.reg, Args[1])
    <3>1. regState' = SetReg(regState, S.reg, Args[1])
      BY <2>1 DEF SetSpecial
    <3>2. Writes(S) = {S.reg}
      BY <1>1, <2>1 DEF Writes
    <3>3. Args[1] = vMap[S.args[1]]
      BY <1>1, <2>1 DEF Args, Arity, Stm
    <3> QED
      BY <1>2, <1>3, <2>1, <3>1, <3>2, <3>3, SetRegAt
  <2>2. CASE S.prim = "RECORD" /\ RecordStore
    <3> DEFINE cell == V("ins", node, "STORE")
               new == V("ins", node, "ALLOC")
               mid == SetReg(regState, "STORE", cell)
    <3>1. regState' = SetReg(mid, "ALLOC", new)
      BY <2>2 DEF RecordStore
    <3>2. Writes(S) = {"ALLOC", "STORE"}
      BY <1>1, <2>2 DEF Writes
    <3>3. cell \in NVal /\ cell # NoVal /\ new # NoVal
      BY <1>1, <1>2, NameTypes, NullAssumption DEF NVal
    <3>4. mid \in Regs
      BY <1>1, <1>2, <3>3, RegHelpers
    <3>5. \A q \in Reg : mid[q] = IF q = "STORE" /\ regState["STORE"] # NoVal THEN cell ELSE regState[q]
      BY <1>2, SetRegAt
    <3>6. \A q \in Reg : regState'[q] = IF q = "ALLOC" /\ mid["ALLOC"] # NoVal THEN new ELSE mid[q]
      <4> HIDE DEF mid
      <4> QED
        BY <1>2, <3>1, <3>4, SetRegAt
    <3> HIDE DEF mid
    <3> QED
      BY <1>2, <1>3, <2>2, <3>2, <3>3, <3>5, <3>6
  <2>3. CASE S.prim = "POKE" /\ UNCHANGED regState
    <3>1. Writes(S) = {}
      BY <1>1, <2>3 DEF Writes
    <3> QED
      BY <1>3, <2>3, <3>1
  <2> QED
    BY <2>1, <2>2, <2>3 DEF GenSetter
<1>5. S.res = <<>>
  BY <1>1 DEF Arity
<1>6. /\ \A y \in Var : vMap[y] # NoVal => vMap'[y] # NoVal
      /\ \A y \in Elems(S.res) : vMap'[y] # NoVal
  BY <1>5 DEF GenSetter, Elems
<1>7. phase = "gen" /\ Visit /\ UNCHANGED <<prog, mach, phase, todo>> /\ node' = S.next[1] /\ bb' # NoBlock
  BY <1>1, ReadyFacts DEF GenSetter, Running, const
<1> QED
  BY <1>1, <1>2, <1>4, <1>6, <1>7, StraightStep

LEMMA GCRegs ==
  ASSUME TypeOK, TypeOK', RegsInv, GenCallGC
  PROVE  RegsInv'
<1>1. node \in Node /\ S \in Stm /\ Arity(S) /\ S.op = "CALLGC"
  BY RunningFacts DEF GenCallGC
<1>2. Len(S.next) = 1 /\ S.res \in Seq(Var) /\ S.prim # "SET" /\ regState \in Regs /\ vMap \in [Var -> NVal]
  BY <1>1 DEF Arity, Stm, TypeOK, NVal
<1>3. Elems(S.res) \subseteq Var
  BY <1>2 DEF Elems
<1>4. Writes(S) = Reg
  BY <1>1 DEF Writes
<1>5. \A r \in Reg : regState'[r] =
        IF r \notin mach THEN NoVal
        ELSE IF r \notin Writes(S) THEN regState[r]
        ELSE IF S.prim = "SET" THEN vMap[S.args[1]]
        ELSE V("ins", node, r)
  BY <1>1, <1>2, <1>4, ReadyFacts, SetRegAt DEF GenCallGC, RegsAfterGC
<1>6. /\ \A y \in Var : vMap[y] # NoVal => vMap'[y] # NoVal
      /\ \A y \in Elems(S.res) : vMap'[y] # NoVal
  BY <1>1, <1>2, <1>3, BindBinds DEF GenCallGC
<1>7. phase = "gen" /\ Visit /\ UNCHANGED <<prog, mach, phase, todo>> /\ node' = S.next[1] /\ bb' # NoBlock
  BY <1>1, ReadyFacts DEF GenCallGC, Running, const
<1> QED
  BY <1>1, <1>2, <1>5, <1>6, <1>7, StraightStep

(* Statements that write no register leave RegsAfter at the current state. *)
LEMMA NoWriteRegs ==
  ASSUME TypeOK, RegsInv, node \in Node, Visit, UNCHANGED <<prog, mach>>, Writes(S) = {},
         NEW n \in Node, n = node
  PROVE  RegsAfter(n)' = regState
<1>1. RegsAfter(n)' = [r \in Reg |-> IF r \notin mach THEN NoVal ELSE regState[r]]
  BY RegsAfterMatch
<1>2. \A r \in Reg : regState[r] = NoVal <=> r \notin mach
  BY ReadyFacts
<1>3. regState \in [Reg -> NVal]
  BY DEF TypeOK, Regs, NVal
<1> QED
  BY <1>1, <1>2, <1>3

LEMMA BranchRegs ==
  ASSUME TypeOK, TypeOK', RegsInv, GenBranch
  PROVE  RegsInv'
<1> DEFINE arm == [t |-> "arm", n |-> S.next[2], saved |-> regState]
           new == <<arm>>
<1>1. node \in Node /\ S \in Stm /\ Arity(S) /\ S.op = "BRANCH"
  BY RunningFacts DEF GenBranch
<1> PICK n \in Node : n = node
  BY <1>1
<1>2. /\ S.next[1] \in Children(prog, n) /\ S.next[2] \in Children(prog, n)
      /\ S.next[1] \in Node /\ S.next[2] \in Node /\ S.next[1] # S.next[2]
  <2>1. Len(S.next) = 2 /\ 1 \in DOMAIN S.next /\ 2 \in DOMAIN S.next
    BY <1>1, NextFacts DEF Arity
  <2>2. S.next[1] # S.next[2]
    BY <2>1, ProgramsAssumption DEF TypeOK, WellFormed, IsForest, S
  <2> QED
    BY <2>1, <2>2, NextFacts
<1>3. Writes(S) = {} /\ S.res = <<>>
  BY <1>1 DEF Writes, Arity
<1>4. phase = "gen" /\ Visit /\ UNCHANGED <<prog, mach, phase, regState, vMap>> /\ node' = S.next[1]
  BY DEF GenBranch, Running, const
<1>5. RegsAfter(n)' = regState
  BY <1>3, <1>4, NoWriteRegs
<1>6. bb' # NoBlock
  BY <1>2, NameTypes, NullAssumption DEF GenBranch
<1>7. new \in Seq(Task) /\ todo' = new \o todo
  <2>1. arm \in Task
    BY <1>2 DEF Task, TypeOK
  <2> QED
    BY <2>1 DEF GenBranch
<1>8. \A i \in DOMAIN new :
        /\ new[i].t = "arm" /\ new[i].n \in Children(prog, n) /\ new[i].n # node'
        /\ new[i].saved = RegsAfter(n)'
  BY <1>2, <1>4, <1>5
<1>9. \A i, j \in DOMAIN new : i # j => new[i].n # new[j].n
  OBVIOUS
<1>10. \A r \in Reg \ mach : regState'[r] = NoVal
  BY <1>1, <1>4, ReadyFacts
<1>11. \A z \in Elems(prog.stm[n].res) : vMap'[z] # NoVal
  BY <1>3 DEF Elems, S
<1>12. node' \in Children(prog, n) \cup {NoNode}
  BY <1>2, <1>4
<1> HIDE DEF new
<1> QED
  BY <1>4, <1>5, <1>6, <1>7, <1>8, <1>9, <1>10, <1>11, <1>12, VisitStep

LEMMA SwitchRegs ==
  ASSUME TypeOK, TypeOK', RegsInv, GenSwitch
  PROVE  RegsInv'
<1> DEFINE new == [i \in DOMAIN S.next |-> [t |-> "arm", n |-> S.next[i], saved |-> regState]]
<1>1. node \in Node /\ S \in Stm /\ Arity(S) /\ S.op = "SWITCH"
  BY RunningFacts DEF GenSwitch
<1> PICK n \in Node : n = node
  BY <1>1
<1>2. /\ DOMAIN S.next = 1..Len(S.next) /\ Len(S.next) \in Nat
      /\ \A i \in DOMAIN S.next : S.next[i] \in Node /\ S.next[i] \in Children(prog, n)
  BY <1>1, NextFacts
<1>3. \A i, j \in DOMAIN S.next : i # j => S.next[i] # S.next[j]
  BY <1>1, ProgramsAssumption DEF TypeOK, WellFormed, IsForest, S
<1>4. Writes(S) = {} /\ S.res = <<>>
  BY <1>1 DEF Writes, Arity
<1>5. /\ phase = "gen" /\ Visit /\ UNCHANGED <<prog, mach, phase, regState, vMap>>
      /\ node' = NoNode /\ todo' = new \o todo
  BY DEF GenSwitch, Running, const
<1>6. RegsAfter(n)' = regState
  BY <1>4, <1>5, NoWriteRegs
<1>7. new \in Seq(Task)
  <2>1. new \in [1..Len(S.next) -> Task]
    BY <1>2 DEF Task, TypeOK
  <2> QED
    BY <1>2, <2>1, SeqDef
<1>8. \A i \in DOMAIN new :
        /\ new[i].t = "arm" /\ new[i].n \in Children(prog, n) /\ new[i].n # node'
        /\ new[i].saved = RegsAfter(n)'
  BY <1>2, <1>5, <1>6, NullAssumption
<1>9. \A i, j \in DOMAIN new : i # j => new[i].n # new[j].n
  BY <1>3
<1>10. \A r \in Reg \ mach : regState'[r] = NoVal
  BY <1>1, <1>5, ReadyFacts
<1>11. \A z \in Elems(prog.stm[n].res) : vMap'[z] # NoVal
  BY <1>4 DEF Elems, S
<1> HIDE DEF new
<1> QED
  BY <1>5, <1>6, <1>7, <1>8, <1>9, <1>10, <1>11, VisitStep

(* GOTO, APPLY and THROW end their path. *)
LEMMA LeafRegs ==
  ASSUME TypeOK, TypeOK', RegsInv, GenGoto \/ GenApply \/ GenThrow
  PROVE  RegsInv'
<1> DEFINE new == <<>>
<1>1. node \in Node /\ Arity(S) /\ S.op \in {"GOTO", "APPLY", "THROW"}
  BY RunningFacts DEF GenGoto, GenApply, GenThrow
<1> PICK n \in Node : n = node
  BY <1>1
<1>2. /\ phase = "gen" /\ Visit /\ UNCHANGED <<prog, mach, phase, todo, regState, vMap>>
      /\ node' = NoNode
  BY DEF GenGoto, GenApply, GenThrow, TailCall, Running, const
<1>3. new \in Seq(Task) /\ todo' = new \o todo /\ DOMAIN new = {}
  BY <1>2, ConcatEmptySeq, EmptySeq DEF TypeOK
<1>4. \A r \in Reg \ mach : regState'[r] = NoVal
  BY <1>1, <1>2, ReadyFacts
<1>5. \A z \in Elems(prog.stm[n].res) : vMap'[z] # NoVal
  BY <1>1 DEF Elems, S, Arity
<1> HIDE DEF new
<1> QED
  BY <1>2, <1>3, <1>4, <1>5, VisitStep

(* Setting up work generates no statement. *)
LEMMA SameHistory ==
  ASSUME TypeOK, RegsInv, UNCHANGED <<prog, mach, at>>
  PROVE  /\ Done' = Done
         /\ \A k \in Node : RegsAfter(k)' = RegsAfter(k)
         /\ DoneFromTop' /\ RegsFollowProgram'
<1>1. Done' = Done /\ \A k \in Node : RegsAfter(k)' = RegsAfter(k)
  BY DEF Done, Visited, RegsAfter
<1>2. DoneFromTop'
  BY <1>1 DEF RegsInv, DoneFromTop
<1>3. RegsFollowProgram'
  <2> SUFFICES ASSUME NEW n \in Node, Visited(n)', NEW m \in Children(prog, n), Visited(m)'
               PROVE  at'[m].regs = RegsAfter(n)'
    BY DEF RegsFollowProgram
  <2>1. Visited(n) /\ Visited(m)
    BY DEF Visited
  <2>2. at[m].regs = RegsAfter(n)
    BY <2>1 DEF RegsInv, RegsFollowProgram
  <2> QED
    BY <1>1, <2>2
<1> QED
  BY <1>1, <1>2, <1>3

(* The tasks behind the first one. *)
LEMMA TailCases ==
  ASSUME TypeOK, todo # <<>>
  PROVE  /\ Head(todo) = todo[1] /\ 1 \in DOMAIN todo
         /\ Head(todo) \in Task /\ Tail(todo) \in Seq(Task)
         /\ \A i \in DOMAIN Tail(todo) :
              i \in Nat /\ i > 0 /\ i + 1 \in DOMAIN todo /\ Tail(todo)[i] = todo[i + 1]
<1>1. todo \in Seq(Task)
  BY DEF TypeOK
<1>2. /\ Head(todo) \in Task /\ Tail(todo) \in Seq(Task) /\ Len(Tail(todo)) = Len(todo) - 1
      /\ \A i \in 1 .. Len(Tail(todo)) : Tail(todo)[i] = todo[i + 1]
  BY <1>1, HeadTailProperties
<1>3. /\ DOMAIN todo = 1..Len(todo) /\ Len(todo) \in Nat /\ Len(todo) > 0
      /\ DOMAIN Tail(todo) = 1..Len(Tail(todo))
  BY <1>1, <1>2, EmptySeq, LenProperties
<1>4. Head(todo) = todo[1]
  BY <1>1
<1> QED
  BY <1>2, <1>3, <1>4

(* Arms that stay pending stay ready while nothing is generated or unbound. *)
LEMMA ArmStaysReady ==
  ASSUME TypeOK, RegsInv, UNCHANGED <<prog, mach, at, vMap>>, NEW t, ArmReady(t)
  PROVE  /\ RegsMatchTarget(t.saved)' /\ ScopeBound(t.n)'
         /\ \E k \in Done' : t.n \in Children(prog', k) /\ t.saved = RegsAfter(k)'
<1>1. Done' = Done /\ \A k \in Done : k \in Node /\ RegsAfter(k)' = RegsAfter(k)
  BY SameHistory DEF Done
<1>2. RegsMatchTarget(t.saved)' /\ ScopeBound(t.n)'
  BY DEF ArmReady, RegsMatchTarget, ScopeBound
<1>3. \E k \in Done' : t.n \in Children(prog', k) /\ t.saved = RegsAfter(k)'
  BY <1>1 DEF ArmReady
<1> QED
  BY <1>2, <1>3

LEMMA NextArmRegs ==
  ASSUME TypeOK, TypeOK', RegsInv, NextArm
  PROVE  RegsInv'
<1>1. /\ phase = "gen" /\ UNCHANGED <<prog, mach, at, vMap, phase>> /\ node = NoNode
      /\ todo # <<>> /\ todo' = Tail(todo) /\ Head(todo).t = "arm"
      /\ node' = Head(todo).n /\ regState' = Head(todo).saved /\ bb' = BB(Head(todo).n)
  BY DEF NextArm, Returned, const, RestoredRegs, InsertPoint
<1>2. /\ Done' = Done /\ \A k \in Node : RegsAfter(k)' = RegsAfter(k)
      /\ DoneFromTop' /\ RegsFollowProgram'
  BY <1>1, SameHistory
<1>3. /\ Head(todo) = todo[1] /\ 1 \in DOMAIN todo /\ Head(todo) \in Task
      /\ \A i \in DOMAIN todo' : i \in Nat /\ i > 0 /\ i + 1 \in DOMAIN todo /\ todo'[i] = todo[i + 1]
  BY <1>1, TailCases
<1> PICK h \in Task : h = Head(todo)
  BY <1>3
<1>4. ArmReady(h) /\ h.n \in Node /\ h.saved \in Regs
  BY <1>1, <1>3 DEF RegsInv, ArmsReady, Task
<1>5. \A t : Starts(t)' = Starts(t)
  BY <1>1 DEF Starts
<1>6. Starts(h) = {h.n}
  BY <1>1 DEF Starts
<1>7. NothingDone' /\ ArmsFirst'
  BY <1>1, <1>3 DEF NothingDone, RegsInv, ArmsFirst
<1>8. PendingFresh'
  <2> SUFFICES ASSUME NEW i \in DOMAIN todo' PROVE Starts(todo[i + 1]) \cap (Done \cup {h.n}) = {}
    BY <1>1, <1>2, <1>3, <1>5 DEF PendingFresh
  <2>1. Starts(todo[i + 1]) \cap Done = {}
    BY <1>3 DEF RegsInv, PendingFresh
  <2>2. Starts(todo[i + 1]) \cap Starts(todo[1]) = {}
    BY <1>3 DEF RegsInv, PendingApart
  <2> QED
    BY <1>3, <1>6, <2>1, <2>2
<1>9. PendingApart'
  BY <1>3, <1>5 DEF RegsInv, PendingApart
<1>10. ArmsReady'
  <2> SUFFICES ASSUME NEW i \in DOMAIN todo', NEW t, t = todo'[i], t.t = "arm"
               PROVE  /\ RegsMatchTarget(t.saved)' /\ ScopeBound(t.n)'
                      /\ \E k \in Done' : t.n \in Children(prog', k) /\ t.saved = RegsAfter(k)'
    BY DEF ArmsReady, ArmReady, RegsMatchTarget, ScopeBound
  <2>1. ArmReady(t)
    BY <1>3 DEF RegsInv, ArmsReady
  <2> QED
    BY <1>1, <2>1, ArmStaysReady
<1>11. NodeReady'
  <2>1. /\ RegsMatchTarget(h.saved)' /\ ScopeBound(h.n)'
        /\ \E k \in Done' : h.n \in Children(prog', k) /\ h.saved = RegsAfter(k)'
    BY <1>1, <1>4, ArmStaysReady
  <2>2. h.n \notin Done'
    BY <1>2, <1>3, <1>6 DEF RegsInv, PendingFresh
  <2>3. bb' # NoBlock
    BY <1>1, <1>4, NameTypes, NullAssumption
  <2> QED
    BY <1>1, <2>1, <2>2, <2>3 DEF NodeReady, RegsMatchTarget, ScopeBound
<1>12. FrameRegs'
  BY <1>1, <1>4 DEF ArmReady, RegsMatchTarget, FrameRegs
<1> QED
  BY <1>2, <1>7, <1>8, <1>9, <1>10, <1>11, <1>12 DEF RegsInv
(* A fragment starts with a value for every machine register, and its
   parameters are what is in scope. *)
LEMMA BeginFragRegs ==
  ASSUME TypeOK, TypeOK', RegsInv, BeginFrag
  PROVE  RegsInv'
<1>1. Returned("frag") /\ UNCHANGED <<prog, mach, at, phase>> /\ todo' = Tail(todo)
  BY DEF BeginFrag, const
<1>2. /\ Done' = Done /\ \A k \in Node : RegsAfter(k)' = RegsAfter(k)
      /\ DoneFromTop' /\ RegsFollowProgram'
  BY <1>1, SameHistory
<1>3. /\ Head(todo) = todo[1] /\ 1 \in DOMAIN todo /\ Head(todo) \in Task
      /\ \A i \in DOMAIN todo' : i \in Nat /\ i > 0 /\ i + 1 \in DOMAIN todo /\ todo'[i] = todo[i + 1]
  BY <1>1, TailCases DEF Returned
<1> PICK h \in Task : h = Head(todo)
  BY <1>3
<1>4. h.t = "frag" /\ h.lab \in Lab /\ phase = "gen" /\ node = NoNode
  BY <1>1 DEF Returned, Task
<1> PICK f \in Frag : f = prog.frag[h.lab]
  BY <1>4, UnitFacts DEF TypeOK
<1> PICK n \in Node : n = f.body
  BY <1>4, UnitFacts DEF TypeOK
<1>5. Starts(h) = {n} /\ \A t : Starts(t)' = Starts(t)
  BY <1>1, <1>4 DEF Starts
<1>6. node' = n /\ bb' = BB(n)
  BY DEF BeginFrag
<1>7. \A i \in DOMAIN todo' : todo'[i].t # "arm"
  BY <1>3, <1>4 DEF RegsInv, ArmsFirst
<1>8. NothingDone' /\ ArmsFirst' /\ ArmsReady'
  BY <1>1, <1>4, <1>7 DEF NothingDone, ArmsFirst, ArmsReady
<1>9. PendingFresh'
  <2> SUFFICES ASSUME NEW i \in DOMAIN todo' PROVE Starts(todo[i + 1]) \cap (Done \cup {n}) = {}
    BY <1>2, <1>3, <1>5, <1>6 DEF PendingFresh
  <2>1. Starts(todo[i + 1]) \cap Done = {}
    BY <1>3 DEF RegsInv, PendingFresh
  <2>2. Starts(todo[i + 1]) \cap Starts(todo[1]) = {}
    BY <1>3 DEF RegsInv, PendingApart
  <2> QED
    BY <1>3, <1>5, <2>1, <2>2
<1>10. PendingApart'
  BY <1>3, <1>5 DEF RegsInv, PendingApart
<1>11. RegsMatchTarget(regState)' /\ FrameRegs'
  <2>1. regState' = IF h.entry THEN StdEntryRegs(n) ELSE FragEntryRegs(n)
    BY DEF BeginFrag
  <2>2. \A k \in {"arg", "phi"}, r \in Reg : V(k, n, r) # NoVal
    BY NameTypes, NullAssumption
  <2>3. \A r \in Reg \ mach : regState[r] = NoVal
    BY DEF RegsInv, FrameRegs
  <2>4. \A r \in Reg : regState'[r] = NoVal <=> r \notin mach
    BY <2>1, <2>2, <2>3 DEF StdEntryRegs, FragEntryRegs, MachRegs
  <2> QED
    BY <1>1, <2>4 DEF RegsMatchTarget, FrameRegs
<1>12. ScopeBound(n)'
  <2> DEFINE k == IF h.entry THEN "arg" ELSE "phi"
  <2>1. vMap' = BindAll(ClearedMap, f.params, k, n)
    BY DEF BeginFrag
  <2>2. prog.scope[n] = Elems(f.params)
    BY <1>4, BodiesDistinct DEF TypeOK
  <2>3. f.params \in Seq(Var)
    BY DEF Frag
  <2>4. \A z \in Elems(f.params) : z \in Var /\ V(k, n, z) # NoVal
    BY <2>3, NameTypes, NullAssumption DEF Elems
  <2>5. \A z \in Elems(f.params) : vMap'[z] # NoVal
    BY <2>1, <2>4, ZenonT(30) DEF BindAll
  <2> QED
    BY <1>1, <2>2, <2>5 DEF ScopeBound
<1>13. NodeReady'
  <2>1. n \notin Done
    BY <1>3, <1>5 DEF RegsInv, PendingFresh
  <2>2. n \in Bodies(prog) /\ bb' # NoBlock
    BY <1>4, <1>6, NameTypes, NullAssumption DEF Bodies
  <2> QED
    BY <1>1, <1>2, <1>6, <1>11, <1>12, <2>1, <2>2 DEF NodeReady, RegsMatchTarget, ScopeBound
<1> QED
  BY <1>2, <1>8, <1>9, <1>10, <1>11, <1>13 DEF RegsInv

(* The statements at which the fragments of a cluster start. *)
LEMMA ClusterStarts ==
  ASSUME TypeOK, NEW c \in DOMAIN prog.clusters
  PROVE  /\ prog.clusters[c] \in Seq(Lab)
         /\ \A i \in DOMAIN prog.clusters[c] : prog.clusters[c][i] \in Lab
         /\ \A t : t.t = "cluster" /\ t.c = c =>
              /\ Starts(t) \subseteq Bodies(prog)
              /\ \A i \in DOMAIN prog.clusters[c] : prog.frag[prog.clusters[c][i]].body \in Starts(t)
<1>1. prog.clusters[c] \in Seq(Lab)
  BY UnitFacts DEF TypeOK
<1>2. \A i \in DOMAIN prog.clusters[c] : prog.clusters[c][i] \in Lab
  BY <1>1
<1> QED
  BY <1>1, <1>2 DEF Starts, Elems, Bodies

LEMMA BeginUnitRegs ==
  ASSUME TypeOK, TypeOK', RegsInv, BeginUnit
  PROVE  RegsInv'
<1>1. /\ phase = "start" /\ phase' = "gen"
      /\ UNCHANGED <<prog, mach, at, node, regState>>
      /\ todo' = [c \in DOMAIN prog.clusters |-> [t |-> "cluster", c |-> c]]
  BY DEF BeginUnit, const
<1>2. /\ Done' = Done /\ \A k \in Node : RegsAfter(k)' = RegsAfter(k)
      /\ DoneFromTop' /\ RegsFollowProgram'
  BY <1>1, SameHistory
<1>3. node = NoNode /\ node' = NoNode /\ Done = {}
  BY <1>1 DEF RegsInv, NothingDone
<1>4. \A t : Starts(t)' = Starts(t)
  BY <1>1 DEF Starts
<1>5. DOMAIN todo' = DOMAIN prog.clusters /\ \A i \in DOMAIN todo' : todo'[i].t = "cluster" /\ todo'[i].c = i
  BY <1>1
<1>6. NothingDone' /\ ArmsFirst' /\ ArmsReady' /\ NodeReady' /\ FrameRegs'
  BY <1>1, <1>3, <1>5 DEF NothingDone, ArmsFirst, ArmsReady, NodeReady, FrameRegs, RegsInv
<1>7. PendingFresh'
  <2> SUFFICES ASSUME NEW i \in DOMAIN prog.clusters, NEW t, t.t = "cluster", t.c = i
               PROVE  NoNode \notin Starts(t)
    BY <1>2, <1>3, <1>4, <1>5 DEF PendingFresh
  <2>1. Starts(t) \subseteq Bodies(prog)
    BY ClusterStarts
  <2>2. Bodies(prog) \subseteq Node
    BY UnitFacts DEF Bodies, TypeOK
  <2> QED
    BY <2>1, <2>2, NullAssumption
<1>8. PendingApart'
  <2> SUFFICES ASSUME NEW i \in DOMAIN prog.clusters, NEW j \in DOMAIN prog.clusters, i # j,
                      NEW t, NEW u, t.t = "cluster", t.c = i, u.t = "cluster", u.c = j,
                      NEW k \in Starts(t), k \in Starts(u)
               PROVE  FALSE
    BY <1>4, <1>5 DEF PendingApart
  <2>1. PICK a \in DOMAIN prog.clusters[i] : k = prog.frag[prog.clusters[i][a]].body
    BY DEF Starts, Elems
  <2>2. PICK b \in DOMAIN prog.clusters[j] : k = prog.frag[prog.clusters[j][b]].body
    BY DEF Starts, Elems
  <2>3. prog.clusters[i][a] \in Lab /\ prog.clusters[j][b] \in Lab
    BY ClusterStarts
  <2>4. prog.clusters[i][a] = prog.clusters[j][b]
    <3> PICK l1 \in Lab : l1 = prog.clusters[i][a]
      BY <2>3
    <3> PICK l2 \in Lab : l2 = prog.clusters[j][b]
      BY <2>3
    <3>1. prog.frag[l1].body = prog.frag[l2].body
      BY <2>1, <2>2
    <3>2. prog \in Programs
      BY DEF TypeOK
    <3>3. l1 = l2
      BY <3>1, <3>2, BodiesDistinct
    <3> QED
      BY <3>3
  <2> QED
    BY <2>4, BodiesDistinct DEF TypeOK
<1> QED
  BY <1>2, <1>6, <1>7, <1>8 DEF RegsInv
(* The fragments of a cluster take the place of the cluster. *)
LEMMA BeginClusterRegs ==
  ASSUME TypeOK, TypeOK', RegsInv, BeginCluster
  PROVE  RegsInv'
<1>1. Returned("cluster") /\ UNCHANGED <<prog, mach, at, phase, node, regState>>
  BY Zenon DEF BeginCluster, const
<1>2. /\ Done' = Done /\ \A k \in Node : RegsAfter(k)' = RegsAfter(k)
      /\ DoneFromTop' /\ RegsFollowProgram'
  BY <1>1, SameHistory
<1>3. /\ Head(todo) = todo[1] /\ 1 \in DOMAIN todo /\ Head(todo) \in Task
      /\ Tail(todo) \in Seq(Task)
      /\ \A i \in DOMAIN Tail(todo) :
           i \in Nat /\ i > 0 /\ i + 1 \in DOMAIN todo /\ Tail(todo)[i] = todo[i + 1]
  BY <1>1, TailCases DEF Returned
<1> PICK h \in Task : h = Head(todo)
  BY <1>3
<1>4. h.t = "cluster" /\ h.c \in DOMAIN prog.clusters /\ phase = "gen" /\ node = NoNode
  BY <1>1 DEF Returned, Task
<1> PICK frags \in Seq(Lab) : frags = prog.clusters[h.c]
  BY <1>4, ClusterStarts, Zenon
<1> DEFINE new == [i \in DOMAIN frags |-> [t |-> "frag", lab |-> frags[i], entry |-> i = 1]]
           rest == Tail(todo)
<1>5. todo' = new \o rest
  BY Zenon DEF BeginCluster
<1>6. DOMAIN frags = 1..Len(frags) /\ Len(frags) \in Nat /\ \A i \in DOMAIN frags : frags[i] \in Lab
  OBVIOUS
<1>7. new \in Seq(Task) /\ rest \in Seq(Task)
  <2>1. new \in [1..Len(frags) -> Task]
    BY <1>6, ZenonT(30) DEF Task
  <2> QED
    BY <1>3, <1>6, <2>1, SeqDef
<1>8. \A i \in DOMAIN new :
        /\ new[i].t = "frag" /\ Starts(new[i]) = {prog.frag[frags[i]].body}
        /\ i \in DOMAIN frags /\ Starts(new[i]) \subseteq Starts(h)
  <2>1. \A i \in DOMAIN frags : prog.frag[frags[i]].body \in Starts(h)
    BY <1>4, ClusterStarts, Zenon
  <2> SUFFICES ASSUME NEW i \in DOMAIN new
               PROVE  /\ new[i].t = "frag" /\ Starts(new[i]) = {prog.frag[frags[i]].body}
                      /\ i \in DOMAIN frags /\ Starts(new[i]) \subseteq Starts(h)
    BY Zenon
  <2>2. i \in DOMAIN frags /\ new[i].t = "frag" /\ new[i].lab = frags[i]
    OBVIOUS
  <2> HIDE DEF new
  <2>3. Starts(new[i]) = {prog.frag[frags[i]].body}
    BY <2>2 DEF Starts
  <2> QED
    BY <2>1, <2>2, <2>3
<1>9. \A i, j \in DOMAIN frags : prog.frag[frags[i]].body = prog.frag[frags[j]].body => i = j
  <2> SUFFICES ASSUME NEW i \in DOMAIN frags, NEW j \in DOMAIN frags,
                      prog.frag[frags[i]].body = prog.frag[frags[j]].body
               PROVE  i = j
    BY Zenon
  <2>1. prog \in Programs
    BY ZenonT(30) DEF TypeOK
  <2> DEFINE l1 == frags[i]
             l2 == frags[j]
  <2>4. l1 \in Lab /\ l2 \in Lab /\ prog.frag[l1].body = prog.frag[l2].body
    BY <1>6
  <2> HIDE DEF l1, l2
  <2>5. l1 = l2
    BY ONLY <2>1, <2>4, BodiesDistinct, SMTT(60)
  <2>2. frags[i] = frags[j]
    BY <2>5 DEF l1, l2
  <2>3. /\ i \in DOMAIN prog.clusters[h.c] /\ j \in DOMAIN prog.clusters[h.c]
        /\ prog.clusters[h.c][i] = prog.clusters[h.c][j]
    BY <2>2
  <2> QED
    BY <1>4, <2>1, <2>3, BodiesDistinct
<1>10. \A t : Starts(t)' = Starts(t)
  BY <1>1 DEF Starts
<1>11. \A i \in DOMAIN rest : rest[i].t # "arm" /\ Starts(rest[i]) \cap Starts(h) = {}
  <2> TAKE i \in DOMAIN rest
  <2>1. rest[i] = todo[i + 1] /\ i + 1 \in DOMAIN todo /\ i + 1 # 1 /\ i + 1 > 1
    BY <1>3
  <2>2. rest[i].t # "arm"
    BY <1>3, <1>4, <2>1 DEF RegsInv, ArmsFirst
  <2>3. Starts(todo[i + 1]) \cap Starts(todo[1]) = {}
    BY <1>3, <2>1 DEF RegsInv, PendingApart
  <2> QED
    BY <1>3, <2>1, <2>2, <2>3
<1>12. /\ \A i \in DOMAIN todo' :
            \/ i \in DOMAIN new /\ todo'[i] = new[i]
            \/ i - Len(new) \in DOMAIN rest /\ i > Len(new) /\ todo'[i] = rest[i - Len(new)]
       /\ DOMAIN todo' = 1..Len(new) + Len(rest)
       /\ DOMAIN new = 1..Len(new) /\ Len(new) \in Nat
       /\ DOMAIN rest = 1..Len(rest) /\ Len(rest) \in Nat
  <2> HIDE DEF new, rest
  <2> QED
    BY <1>5, <1>7, ConcatCases
<1> HIDE DEF new, rest
<1>13. \A i \in DOMAIN todo' : todo'[i].t # "arm"
  BY <1>8, <1>11, <1>12
<1>14. NothingDone' /\ ArmsFirst' /\ ArmsReady' /\ NodeReady' /\ FrameRegs'
  BY <1>1, <1>4, <1>13 DEF NothingDone, ArmsFirst, ArmsReady, NodeReady, FrameRegs, RegsInv
<1>15. PendingFresh'
  <2> SUFFICES ASSUME NEW i \in DOMAIN todo', NEW t, t = todo'[i]
               PROVE  Starts(t) \cap (Done \cup {node}) = {}
    BY <1>1, <1>2, <1>10 DEF PendingFresh
  <2>1. Starts(h) \cap (Done \cup {node}) = {}
    BY <1>3 DEF RegsInv, PendingFresh
  <2>2. CASE i \in DOMAIN new /\ t = new[i]
    BY <1>8, <2>1, <2>2
  <2>3. CASE i - Len(new) \in DOMAIN rest /\ t = rest[i - Len(new)]
    <3> PICK k \in DOMAIN rest : k = i - Len(new)
      BY <2>3
    <3>1. k + 1 \in DOMAIN todo /\ t = todo[k + 1]
      BY <1>3, <2>3 DEF rest
    <3> QED
      BY <3>1 DEF RegsInv, PendingFresh
  <2> QED
    BY <1>12, <2>2, <2>3
<1>16. PendingApart'
  <2> SUFFICES ASSUME NEW i \in DOMAIN todo', NEW j \in DOMAIN todo', i # j,
                      NEW t, t = todo'[i], NEW u, u = todo'[j]
               PROVE  Starts(t) \cap Starts(u) = {}
    BY <1>10 DEF PendingApart
  <2>1. CASE i \in DOMAIN new /\ t = new[i] /\ j \in DOMAIN new /\ u = new[j]
    <3> HIDE DEF new
    <3>1. /\ Starts(t) = {prog.frag[frags[i]].body} /\ i \in DOMAIN frags
          /\ Starts(u) = {prog.frag[frags[j]].body} /\ j \in DOMAIN frags
      BY <1>8, <2>1, ZenonT(30)
    <3>2. prog.frag[frags[i]].body # prog.frag[frags[j]].body
      BY <1>9, <3>1
    <3> QED
      BY <3>1, <3>2, Zenon
  <2>2. CASE i \in DOMAIN new /\ t = new[i] /\ j - Len(new) \in DOMAIN rest /\ u = rest[j - Len(new)]
    BY <1>8, <1>11, <2>2
  <2>3. CASE j \in DOMAIN new /\ u = new[j] /\ i - Len(new) \in DOMAIN rest /\ t = rest[i - Len(new)]
    BY <1>8, <1>11, <2>3
  <2>4. CASE /\ i - Len(new) \in DOMAIN rest /\ t = rest[i - Len(new)]
             /\ j - Len(new) \in DOMAIN rest /\ u = rest[j - Len(new)]
    <3> PICK k \in DOMAIN rest : k = i - Len(new)
      BY <2>4
    <3> PICK l \in DOMAIN rest : l = j - Len(new)
      BY <2>4
    <3>1. k # l /\ k \in Nat /\ l \in Nat
      BY <1>12
    <3>2. k + 1 \in DOMAIN todo /\ t = todo[k + 1] /\ l + 1 \in DOMAIN todo /\ u = todo[l + 1]
      BY <1>3, <2>4 DEF rest
    <3> QED
      BY <3>1, <3>2 DEF RegsInv, PendingApart
  <2> QED
    BY <1>12, <2>1, <2>2, <2>3, <2>4, Zenon
<1> QED
  BY <1>2, <1>14, <1>15, <1>16, Zenon DEF RegsInv

LEMMA InitRegs == Init => RegsInv
<1> SUFFICES ASSUME Init PROVE RegsInv
  OBVIOUS
<1>1. todo = <<>> /\ node = NoNode /\ regState = NoRegs /\ at = NotVisited
  BY DEF Init
<1>2. DOMAIN todo = {}
  BY <1>1
<1>3. Done = {} /\ \A n \in Node : ~Visited(n)
  BY <1>1 DEF Done, Visited, NotVisited
<1>4. NothingDone /\ DoneFromTop /\ RegsFollowProgram
  BY <1>1, <1>3 DEF NothingDone, DoneFromTop, RegsFollowProgram
<1>5. PendingFresh /\ PendingApart /\ ArmsFirst /\ ArmsReady
  BY <1>2 DEF PendingFresh, PendingApart, ArmsFirst, ArmsReady
<1>6. NodeReady /\ FrameRegs
  BY <1>1 DEF NodeReady, FrameRegs, NoRegs
<1> QED
  BY <1>4, <1>5, <1>6 DEF RegsInv

(* Steps that leave the pending work and the registers alone. *)
LEMMA IdleRegs ==
  ASSUME TypeOK, RegsInv, phase' = phase \/ phase' = "done",
         UNCHANGED <<prog, mach, todo, node, bb, regState, vMap, at>>
  PROVE  RegsInv'
<1>1. /\ Done' = Done /\ \A k \in Node : RegsAfter(k)' = RegsAfter(k)
      /\ DoneFromTop' /\ RegsFollowProgram'
  BY SameHistory
<1>2. NothingDone' /\ ArmsFirst' /\ FrameRegs'
  BY <1>1 DEF RegsInv, NothingDone, ArmsFirst, FrameRegs
<1>3. PendingFresh' /\ PendingApart'
  <2>1. \A t : Starts(t)' = Starts(t)
    BY DEF Starts
  <2> QED
    BY <1>1, <2>1 DEF RegsInv, PendingFresh, PendingApart
<1>4. ArmsReady'
  <2> SUFFICES ASSUME NEW i \in DOMAIN todo', NEW t, t = todo'[i], t.t = "arm"
               PROVE  /\ RegsMatchTarget(t.saved)' /\ ScopeBound(t.n)'
                      /\ \E k \in Done' : t.n \in Children(prog', k) /\ t.saved = RegsAfter(k)'
    BY DEF ArmsReady, ArmReady, RegsMatchTarget, ScopeBound
  <2>1. ArmReady(t)
    BY DEF RegsInv, ArmsReady
  <2> QED
    BY <2>1, ArmStaysReady
<1>5. NodeReady'
  BY <1>1 DEF RegsInv, NodeReady, RegsMatchTarget, ScopeBound, Done
<1> QED
  BY <1>1, <1>2, <1>3, <1>4, <1>5 DEF RegsInv

LEMMA StepRegs == TypeOK /\ TypeOK' /\ RegsInv /\ [Next]_vars => RegsInv'
<1> SUFFICES ASSUME TypeOK, TypeOK', RegsInv, [Next]_vars PROVE RegsInv'
  OBVIOUS
<1>1. CASE BeginUnit
  BY <1>1, BeginUnitRegs
<1>2. CASE BeginCluster
  BY <1>2, BeginClusterRegs
<1>3. CASE BeginFrag
  BY <1>3, BeginFragRegs
<1>4. CASE GenLet
  BY <1>4, LetRegs
<1>5. CASE GenAlloc
  BY <1>5, AllocRegs
<1>6. CASE GenArith
  BY <1>6, ArithRegs
<1>7. CASE GenSetter
  BY <1>7, SetterRegs
<1>8. CASE GenCallGC
  BY <1>8, GCRegs
<1>9. CASE GenBranch
  BY <1>9, BranchRegs
<1>10. CASE GenSwitch
  BY <1>10, SwitchRegs
<1>11. CASE GenGoto \/ GenApply \/ GenThrow
  BY <1>11, LeafRegs
<1>12. CASE NextArm
  BY <1>12, NextArmRegs
<1>13. CASE EndUnit \/ Finished \/ UNCHANGED vars
  BY <1>13, IdleRegs DEF EndUnit, Finished, vars, const
<1> QED
  BY <1>1, <1>2, <1>3, <1>4, <1>5, <1>6, <1>7, <1>8, <1>9, <1>10, <1>11, <1>12, <1>13
  DEF Next, Step, GenStm

(***************************************************************************)
(* For every well-formed unit and every target, each statement is          *)
(* generated with the registers its predecessor on the path left: saving   *)
(* the register state at a BRANCH or SWITCH and restoring it for each arm  *)
(* is enough, however the arms nest and whatever they update.              *)
(***************************************************************************)
THEOREM RegsCorrect == Spec => []RegsFollowProgram
<1>1. Init => RegsInv
  BY InitRegs
<1>2. TypeOK /\ TypeOK' /\ RegsInv /\ [Next]_vars => RegsInv'
  BY StepRegs
<1>3. RegsInv => RegsFollowProgram
  BY DEF RegsInv
<1> QED
  BY <1>1, <1>2, <1>3, TypeCorrect, PTL DEF Spec
(***************************************************************************)
(* For every well-formed unit, lookupVal and mlReg succeed wherever a      *)
(* statement asks for them.                                                *)
(***************************************************************************)
THEOREM LookupsCorrect == Spec => []LookupsSucceed
<1>1. Init => RegsInv
  BY InitRegs
<1>2. TypeOK /\ TypeOK' /\ RegsInv /\ [Next]_vars => RegsInv'
  BY StepRegs
<1>3. TypeOK /\ RegsInv => LookupsSucceed
  <2> SUFFICES ASSUME TypeOK, RegsInv, node # NoNode PROVE
        /\ \A i \in DOMAIN Args : Args[i] # NoVal
        /\ \A r \in Reg : regState[r] # NoVal <=> r \in mach
    BY DEF LookupsSucceed
  <2>1. node \in Node /\ prog \in Programs
    BY DEF TypeOK
  <2>2. RegsMatchTarget(regState) /\ ScopeBound(node)
    BY DEF RegsInv, NodeReady
  <2>3. Elems(S.args) \subseteq prog.scope[node]
    BY <2>1, ProgramsAssumption DEF WellFormed, WellScoped, S
  <2>4. \A i \in DOMAIN S.args : vMap[S.args[i]] # NoVal
    BY <2>2, <2>3 DEF ScopeBound, Elems
  <2> QED
    BY <2>2, <2>4 DEF RegsMatchTarget, Args
<1> QED
  BY <1>1, <1>2, <1>3, TypeCorrect, PTL DEF Spec

-----------------------------------------------------------------------------
(***************************************************************************)
(* A branch stays in its function.  Inductively, all work of an open       *)
(* cluster comes before the clusters that are still closed, so curC is the *)
(* home of the statement being generated and of every pending arm, and     *)
(* the blocks of curC, the overflow block among them, are made in curC.    *)
(***************************************************************************)

(* The cluster that a statement belongs to. *)
Home(n) == ClusterOf(prog, prog.owner[n])

(* Block b was made in the function of cluster c. *)
MadeIn(b, c) == [blk |-> b, fn |-> c] \in made

Open == node # NoNode \/ \E i \in DOMAIN todo : todo[i].t # "cluster"

MadeAtHome == \A m \in made : m.blk \in Block /\ m.fn = Home(m.blk.at)

ClusterOpen ==
  Open => /\ curC \in DOMAIN prog.clusters
          /\ fragMap = Elems(prog.clusters[curC])
          /\ InitBlocks(curC) \subseteq made

ClustersLast ==
  \A i, j \in DOMAIN todo : i < j /\ todo[j].t # "cluster" => todo[i].t # "cluster"

TaskAtHome(t) ==
  /\ t.t = "frag" => t.lab \in Elems(prog.clusters[curC])
  /\ t.t = "arm" => t.n \in Arms(prog) /\ Home(t.n) = curC

TasksAtHome == \A i \in DOMAIN todo : TaskAtHome(todo[i])

NodeAtHome == node # NoNode => Home(node) = curC /\ MadeIn(bb, curC)

OverflowAtHome == ovBB # NoBlock => phase # "start" /\ MadeIn(ovBB, curC)

GroupAtHome(g) == \A b \in {g.blk} \cup Elems(g.end.to) : MadeIn(b, Home(g.at))

GroupsAtHome == \A i \in DOMAIN out : GroupAtHome(out[i])

HomeInv ==
  /\ MadeAtHome /\ ClusterOpen /\ ClustersLast /\ TasksAtHome
  /\ NodeAtHome /\ OverflowAtHome /\ GroupsAtHome

-----------------------------------------------------------------------------
(***************************************************************************)
(* A block has one terminator.  Inductively, code goes only to blocks of   *)
(* statements that are done and to the insert block, which is not          *)
(* terminated; any other block that was made is terminated, or starts a    *)
(* statement that is still to come.                                        *)
(***************************************************************************)

Closed(b) == \E i \in DOMAIN out : out[i].blk = b /\ Terminates(out[i])

(* The statements that have a block of their own. *)
Heads == Bodies(prog) \cup Arms(prog)

Pending(m) == m \in Done \cup {node} \/ \E i \in DOMAIN todo : m \in Starts(todo[i])

OnceClosed ==
  \A i, j \in DOMAIN out : i < j /\ out[i].blk = out[j].blk => ~Terminates(out[i])

CodeIsDone == \A i \in DOMAIN out : out[i].blk \in Block /\ out[i].blk.at \in Done

InsertPointOpen ==
  node # NoNode => /\ ~Closed(bb)
                   /\ bb \in Block
                   /\ (bb.k \in {"bb", "ok"} /\ bb.at \in Done) \/ bb = BB(node)

MadeClosed ==
  \A m \in made : \/ Closed(m.blk)
                  \/ node # NoNode /\ m.blk = bb
                  \/ /\ m.blk \in Block /\ m.blk.k = "bb"
                     /\ m.blk.at \in Heads /\ m.blk.at \notin Done \cup {node}

HeadsClosed ==
  \A n \in (Done \cup {node}) \cap Heads : Closed(BB(n)) \/ (node # NoNode /\ bb = BB(n))

Covered ==
  phase # "start" => /\ \A m \in Bodies(prog) : Pending(m)
                     /\ \A n \in Done : \A m \in Children(prog, n) : Pending(m)

AllDone == phase = "done" => node = NoNode /\ todo = <<>>

TermInv ==
  /\ OnceClosed /\ CodeIsDone /\ InsertPointOpen
  /\ MadeClosed /\ HeadsClosed /\ Covered /\ AllDone

-----------------------------------------------------------------------------
(* Where statements live. *)

(* A fragment is in one cluster. *)
LEMMA ClusterHome ==
  ASSUME NEW p \in Programs, NEW c \in DOMAIN p.clusters, NEW l \in Elems(p.clusters[c])
  PROVE  ClusterOf(p, l) = c
<1>1. l \in Elems(p.clusters[ClusterOf(p, l)]) /\ ClusterOf(p, l) \in DOMAIN p.clusters
  BY DEF ClusterOf
<1>2. PICK i \in DOMAIN p.clusters[c] : l = p.clusters[c][i]
  BY DEF Elems
<1>3. PICK j \in DOMAIN p.clusters[ClusterOf(p, l)] : l = p.clusters[ClusterOf(p, l)][j]
  BY <1>1 DEF Elems
<1> QED
  BY <1>1, <1>2, <1>3, BodiesDistinct

(* A statement is in the cluster of its fragment, and so are its children. *)
LEMMA HomeFacts ==
  ASSUME NEW p \in Programs, NEW n \in Node
  PROVE  /\ ClusterOf(p, p.owner[n]) \in DOMAIN p.clusters
         /\ n \in NodesOf(p, ClusterOf(p, p.owner[n]))
         /\ \A m \in Children(p, n) : p.owner[m] = p.owner[n]
<1>1. WellTyped(p) /\ WellLinked(p) /\ WellScoped(p)
  BY ProgramsAssumption DEF WellFormed
<1>2. p.owner[n] \in Lab
  BY <1>1 DEF WellTyped
<1>3. PICK c \in DOMAIN p.clusters : p.owner[n] \in Elems(p.clusters[c])
  BY <1>1, <1>2 DEF WellLinked
<1>4. ClusterOf(p, p.owner[n]) = c
  BY <1>3, ClusterHome
<1>5. n \in NodesOf(p, c)
  BY <1>3 DEF NodesOf
<1> QED
  BY <1>1, <1>4, <1>5 DEF WellScoped

(* The body of a fragment is in the cluster of the fragment. *)
LEMMA BodyHome ==
  ASSUME NEW p \in Programs, NEW c \in DOMAIN p.clusters, NEW l \in Elems(p.clusters[c])
  PROVE  /\ l \in Lab /\ p.frag[l].body \in Node
         /\ ClusterOf(p, p.owner[p.frag[l].body]) = c
         /\ p.frag[l].body \in NodesOf(p, c) \cap Bodies(p)
<1>1. p.clusters \in Seq(Seq(Lab)) /\ \A k \in Lab : p.frag[k].body \in Node
  BY UnitFacts
<1>2. p.clusters[c] \in Seq(Lab)
  BY <1>1
<1>3. l \in Lab
  BY <1>2 DEF Elems
<1>4. p.owner[p.frag[l].body] = l
  BY <1>3, ProgramsAssumption DEF WellFormed, WellScoped
<1> QED
  BY <1>1, <1>3, <1>4, ClusterHome DEF NodesOf, Bodies

(* Only a BRANCH or SWITCH has arms. *)
LEMMA ArmsOf ==
  ASSUME NEW p \in Programs, NEW n \in Node, NEW m \in Children(p, n)
  PROVE  m \in Arms(p) <=> p.stm[n].op \in {"SWITCH", "BRANCH"}
<1>1. \A k \in Node : m \in Children(p, k) => k = n
  BY Forest
<1> QED
  BY <1>1 DEF Arms

(* Both parts of a concatenation are in it. *)
LEMMA LaterPlace ==
  ASSUME NEW T, NEW a \in Seq(T), NEW b \in Seq(T)
  PROVE  /\ \A i \in DOMAIN a : i \in DOMAIN (a \o b) /\ (a \o b)[i] = a[i]
         /\ \A i \in DOMAIN b : Len(a) + i \in DOMAIN (a \o b) /\ (a \o b)[Len(a) + i] = b[i]
<1>1. /\ a \o b \in Seq(T) /\ Len(a \o b) = Len(a) + Len(b)
      /\ \A i \in 1 .. Len(a) + Len(b) : (a \o b)[i] = IF i <= Len(a) THEN a[i] ELSE b[i - Len(a)]
  BY ConcatProperties
<1>2. /\ DOMAIN (a \o b) = 1..Len(a \o b)
      /\ DOMAIN a = 1..Len(a) /\ Len(a) \in Nat
      /\ DOMAIN b = 1..Len(b) /\ Len(b) \in Nat
  BY <1>1, LenProperties
<1>3. ASSUME NEW i \in 1..Len(a)
      PROVE  i \in 1..Len(a) + Len(b) /\ (a \o b)[i] = a[i]
  BY <1>1, <1>2
<1>4. ASSUME NEW i \in 1..Len(b)
      PROVE  Len(a) + i \in 1..Len(a) + Len(b) /\ (a \o b)[Len(a) + i] = b[i]
  <2>1. Len(a) + i \in 1..Len(a) + Len(b) /\ ~(Len(a) + i <= Len(a)) /\ (Len(a) + i) - Len(a) = i
    BY <1>2
  <2> QED
    BY <1>1, <2>1
<1> QED
  BY <1>1, <1>2, <1>3, <1>4

(* Behind the first task, every task moves up by one place. *)
LEMMA TailPlace ==
  ASSUME TypeOK, todo # <<>>, NEW i \in DOMAIN todo, i # 1
  PROVE  i - 1 \in DOMAIN Tail(todo) /\ Tail(todo)[i - 1] = todo[i]
<1>1. todo \in Seq(Task)
  BY DEF TypeOK
<1>2. /\ Tail(todo) \in Seq(Task) /\ Len(Tail(todo)) = Len(todo) - 1
      /\ \A j \in 1 .. Len(Tail(todo)) : Tail(todo)[j] = todo[j + 1]
  BY <1>1, HeadTailProperties
<1>3. /\ DOMAIN todo = 1..Len(todo) /\ Len(todo) \in Nat
      /\ DOMAIN Tail(todo) = 1..Len(Tail(todo))
  BY <1>1, <1>2, LenProperties
<1>4. i \in 1..Len(todo) /\ i - 1 \in 1..Len(Tail(todo)) /\ (i - 1) + 1 = i
  BY <1>2, <1>3
<1> QED
  BY <1>2, <1>3, <1>4

(* Two groups appended one after the other. *)
LEMMA TwoAppended ==
  ASSUME NEW T, NEW s \in Seq(T), NEW a, NEW b
  PROVE  s \o <<a>> \o <<b>> = s \o <<a, b>>
<1> DEFINE U == T \cup {a, b}
<1>1. s \in Seq(U) /\ <<a>> \in Seq(U) /\ <<b>> \in Seq(U)
  OBVIOUS
<1>2. <<a>> \o <<b>> = <<a, b>>
  <2>1. <<a, b>> \in Seq(U) /\ Len(<<a, b>>) = 2 /\ <<a, b>>[1] = a /\ <<a, b>>[2] = b
    OBVIOUS
  <2>2. Len(<<a>>) = 1 /\ Len(<<b>>) = 1 /\ <<a>>[1] = a /\ <<b>>[1] = b
    OBVIOUS
  <2>3. /\ <<a>> \o <<b>> \in Seq(U) /\ Len(<<a>> \o <<b>>) = 2
        /\ (<<a>> \o <<b>>)[1] = a /\ (<<a>> \o <<b>>)[2] = b
    <3> HIDE DEF U
    <3>1. /\ <<a>> \o <<b>> \in Seq(U) /\ Len(<<a>> \o <<b>>) = 1 + 1
          /\ \A i \in 1 .. 1 + 1 : (<<a>> \o <<b>>)[i] = IF i <= 1 THEN <<a>>[i] ELSE <<b>>[i - 1]
      BY <1>1, <2>2, ConcatProperties
    <3> QED
      BY <2>2, <3>1
  <2> DEFINE x == <<a>> \o <<b>>
             y == <<a, b>>
  <2>4. /\ x \in Seq(U) /\ y \in Seq(U) /\ Len(x) = 2 /\ Len(y) = 2
        /\ x[1] = y[1] /\ x[2] = y[2]
    BY <2>1, <2>3
  <2> HIDE DEF U, x, y
  <2>5. Len(x) = Len(y) /\ \A i \in 1..Len(x) : x[i] = y[i]
    BY <2>4
  <2>6. x = y
    BY <2>4, <2>5, SeqEqual
  <2> QED
    BY <2>6 DEF x, y
<1> HIDE DEF U
<1>3. (s \o <<a>>) \o <<b>> = s \o (<<a>> \o <<b>>)
  BY <1>1, ConcatAssociative
<1> QED
  BY <1>2, <1>3

(* The init methods make a block for every head of the cluster. *)
LEMMA HeadMade ==
  ASSUME TypeOK, HomeInv, Open, NEW n \in Heads, n \in NodesOf(prog, curC)
  PROVE  MadeIn(BB(n), curC)
BY DEF HomeInv, ClusterOpen, InitBlocks, MadeIn, Heads

-----------------------------------------------------------------------------
(***************************************************************************)
(* What the codegen method of a statement does to blocks: it appends the   *)
(* groups es, the last of them to the insert block and any other to a      *)
(* block of its own, and leaves the tasks `new` for the arms it does not   *)
(* generate itself.  Either the block continues with the child, or it is   *)
(* terminated and generation moves to another block or returns.            *)
(***************************************************************************)
Asides == {Blk("overflow", node), Blk("impossible", node)}

Moves(last) ==
  \/ ~Terminates(last) /\ bb' = bb /\ node' \in Children(prog, node) \ Arms(prog)
  \/ Terminates(last) /\ node' \in Children(prog, node) \ Arms(prog) /\ bb' = Blk("ok", node)
  \/ Terminates(last) /\ node' \in Children(prog, node) \cap Arms(prog) /\ bb' = BB(node')
  \/ Terminates(last) /\ node' = NoNode

Turn(new, es) ==
  /\ phase = "gen" /\ node \in Node
  /\ UNCHANGED <<prog, phase, curC, fragMap>>
  /\ Visit
  /\ todo' = new \o todo
  /\ \A i \in DOMAIN new : new[i].t = "arm" /\ new[i].n \in Children(prog, node) \cap Arms(prog)
  /\ \A m \in Children(prog, node) : m = node' \/ \E i \in DOMAIN new : new[i].n = m
  /\ out' = out \o es
  /\ Len(es) \in {1, 2} /\ es[Len(es)].blk = bb
  /\ \A i \in DOMAIN es :
       /\ es[i].at = node
       /\ i # Len(es) => es[i].blk \in Asides /\ Terminates(es[i])
       /\ \A b \in {es[i].blk} \cup Elems(es[i].end.to) : [blk |-> b, fn |-> curC] \in made'
  /\ made \subseteq made'
  /\ \A m \in made' \ made :
       /\ m.blk \in Block /\ m.blk.at = node /\ m.fn = curC
       /\ (m.blk = bb' /\ node' # NoNode) \/ \E i \in DOMAIN es : i # Len(es) /\ m.blk = es[i].blk
  /\ ovBB' = ovBB \/ [blk |-> ovBB', fn |-> curC] \in made'
  /\ node' # NoNode => [blk |-> bb', fn |-> curC] \in made'
  /\ Moves(es[Len(es)])

(* A statement's code stays in its function. *)
LEMMA TurnHome ==
  ASSUME TypeOK, TypeOK', HomeInv, NEW new \in Seq(Task), NEW es \in Seq(GroupType), Turn(new, es)
  PROVE  HomeInv'
<1>1. /\ prog \in Programs /\ node \in Node /\ node # NoNode /\ Open /\ Home(node) = curC
      /\ todo \in Seq(Task) /\ out \in Seq(GroupType)
  BY NullAssumption DEF TypeOK, Turn, HomeInv, NodeAtHome, Open
<1>2. /\ UNCHANGED <<prog, phase, curC, fragMap>> /\ phase = "gen"
      /\ made \subseteq made' /\ todo' = new \o todo /\ out' = out \o es
  BY DEF Turn
<1>3. \A m \in Children(prog, node) : m \in Node /\ Home(m) = curC
  BY <1>1, StmFacts, HomeFacts DEF Home
<1>4. \A b, c : MadeIn(b, c) => MadeIn(b, c)'
  BY <1>2 DEF MadeIn
<1>5. \A n : Home(n)' = Home(n)
  BY <1>2 DEF Home
<1>6. /\ \A i \in DOMAIN todo' :
            \/ i \in DOMAIN new /\ todo'[i] = new[i]
            \/ i - Len(new) \in DOMAIN todo /\ i > Len(new) /\ todo'[i] = todo[i - Len(new)]
      /\ DOMAIN todo' = 1..Len(new) + Len(todo)
      /\ DOMAIN new = 1..Len(new) /\ Len(new) \in Nat
      /\ DOMAIN todo = 1..Len(todo) /\ Len(todo) \in Nat
  BY <1>1, <1>2, ConcatCases
<1>7. MadeAtHome'
  <2> SUFFICES ASSUME NEW m \in made' PROVE m.blk \in Block /\ m.fn = Home(m.blk.at)
    BY <1>5 DEF MadeAtHome
  <2>1. CASE m \in made
    BY <2>1 DEF HomeInv, MadeAtHome
  <2>2. CASE m \notin made
    BY <1>1, <2>2 DEF Turn
  <2> QED
    BY <2>1, <2>2
<1>8. ClusterOpen'
  BY <1>1, <1>2 DEF HomeInv, ClusterOpen, InitBlocks, Open
<1>9. ClustersLast'
  <2> SUFFICES ASSUME NEW i \in DOMAIN todo', NEW j \in DOMAIN todo', i < j, todo'[j].t # "cluster"
               PROVE  todo'[i].t # "cluster"
    BY DEF ClustersLast
  <2>1. CASE i \in DOMAIN new /\ todo'[i] = new[i]
    BY <2>1 DEF Turn
  <2>2. CASE i - Len(new) \in DOMAIN todo /\ i > Len(new) /\ todo'[i] = todo[i - Len(new)]
    <3>1. j - Len(new) \in DOMAIN todo /\ todo'[j] = todo[j - Len(new)] /\ i - Len(new) < j - Len(new)
      BY <1>6, <2>2
    <3> QED
      BY <2>2, <3>1 DEF HomeInv, ClustersLast
  <2> QED
    BY <1>6, <2>1, <2>2
<1>10. TasksAtHome'
  <2> SUFFICES ASSUME NEW i \in DOMAIN todo', NEW t, t = todo'[i] PROVE TaskAtHome(t)
    BY <1>2, <1>5 DEF TasksAtHome, TaskAtHome
  <2>1. CASE i \in DOMAIN new /\ t = new[i]
    BY <1>3, <2>1 DEF Turn, TaskAtHome
  <2>2. CASE i - Len(new) \in DOMAIN todo /\ t = todo[i - Len(new)]
    BY <2>2 DEF HomeInv, TasksAtHome
  <2> QED
    BY <1>6, <2>1, <2>2
<1>11. NodeAtHome'
  BY <1>2, <1>3, <1>5 DEF Turn, Moves, NodeAtHome, MadeIn
<1>12. OverflowAtHome'
  BY <1>2, <1>4 DEF Turn, HomeInv, OverflowAtHome, MadeIn
<1>13. GroupsAtHome'
  <2> SUFFICES ASSUME NEW i \in DOMAIN out', NEW g, g = out'[i] PROVE GroupAtHome(g)'
    BY DEF GroupsAtHome, GroupAtHome
  <2>1. \/ i \in DOMAIN out /\ g = out[i]
        \/ i - Len(out) \in DOMAIN es /\ g = es[i - Len(out)]
    BY <1>1, <1>2, ConcatCases
  <2>2. CASE i \in DOMAIN out /\ g = out[i]
    <3>1. GroupAtHome(g)
      BY <2>2 DEF HomeInv, GroupsAtHome
    <3> QED
      BY <1>4, <1>5, <3>1 DEF GroupAtHome
  <2>3. CASE i - Len(out) \in DOMAIN es /\ g = es[i - Len(out)]
    <3>1. g.at = node /\ \A b \in {g.blk} \cup Elems(g.end.to) : [blk |-> b, fn |-> curC] \in made'
      BY <2>3 DEF Turn
    <3> QED
      BY <1>1, <1>5, <3>1 DEF GroupAtHome, MadeIn
  <2> QED
    BY <2>1, <2>2, <2>3
<1> QED
  BY <1>7, <1>8, <1>9, <1>10, <1>11, <1>12, <1>13 DEF HomeInv

(* Each block of a statement is terminated once. *)
LEMMA TurnTerm ==
  ASSUME TypeOK, TypeOK', RegsInv, TermInv, NEW new \in Seq(Task), NEW es \in Seq(GroupType), Turn(new, es)
  PROVE  TermInv'
<1> PICK n \in Node : n = node
  BY DEF Turn
<1> PICK here \in Block : here = bb
  BY NullAssumption DEF TermInv, InsertPointOpen
<1> DEFINE last == es[Len(es)]
<1>1. /\ prog \in Programs /\ n # NoNode /\ n \notin Done /\ todo \in Seq(Task) /\ out \in Seq(GroupType)
      /\ ~Closed(here)
      /\ (here.k \in {"bb", "ok"} /\ here.at \in Done) \/ here = BB(n)
  BY NullAssumption DEF TypeOK, RegsInv, NodeReady, TermInv, InsertPointOpen
<1>2. /\ UNCHANGED <<prog, phase>> /\ phase = "gen" /\ todo' = new \o todo /\ out' = out \o es
      /\ Len(es) \in {1, 2} /\ last.blk = here
  BY DEF Turn
<1>3. Done' = Done \cup {n}
  <2>1. /\ at'[n] = [regs |-> regState, vars |-> vMap, blk |-> here]
        /\ \A k \in Node : k # n => at'[k] = at[k]
    BY DEF Turn, Visit, TypeOK
  <2> QED
    BY <2>1, NullAssumption DEF Done, Visited
<1>4. /\ \A i \in DOMAIN out' :
            \/ i \in DOMAIN out /\ out'[i] = out[i]
            \/ i - Len(out) \in DOMAIN es /\ i > Len(out) /\ out'[i] = es[i - Len(out)]
      /\ DOMAIN out' = 1..Len(out) + Len(es)
      /\ DOMAIN out = 1..Len(out) /\ Len(out) \in Nat
      /\ DOMAIN es = 1..Len(es) /\ Len(es) \in Nat
  BY <1>1, <1>2, ConcatCases
<1>5. \A i \in DOMAIN es : \/ i = Len(es) /\ es[i].blk = here
                           \/ i # Len(es) /\ Terminates(es[i])
                              /\ es[i].blk \in {Blk("overflow", n), Blk("impossible", n)}
  BY <1>2 DEF Turn, Asides
<1>6. \A i \in DOMAIN out : out[i].blk \in Block /\ out[i].blk.at \in Done
  BY DEF TermInv, CodeIsDone
<1>7. here # Blk("overflow", n) /\ here # Blk("impossible", n)
  BY <1>1 DEF BB, Blk
<1>8. Blk("overflow", n).at = n /\ Blk("impossible", n).at = n /\ BB(n).at = n
  BY DEF Blk, BB
<1>9. Blk("overflow", n) \in Block /\ Blk("impossible", n) \in Block
  BY NameTypes
<1>10. \A b : Closed(b) => Closed(b)'
  <2> SUFFICES ASSUME NEW b, NEW i \in DOMAIN out, out[i].blk = b /\ Terminates(out[i])
               PROVE  \E j \in DOMAIN out' : out'[j].blk = b /\ Terminates(out'[j])
    BY DEF Closed, Terminates
  <2>1. i \in DOMAIN out' /\ out'[i] = out[i]
    BY <1>4
  <2> QED
    BY <2>1
<1>11. \A b : Closed(b)' => Closed(b) \/ \E i \in DOMAIN es : es[i].blk = b /\ Terminates(es[i])
  BY <1>4 DEF Closed, Terminates
<1>12. \A b : (\E i \in DOMAIN es : es[i].blk = b /\ Terminates(es[i])) => Closed(b)'
  <2> SUFFICES ASSUME NEW b, NEW i \in DOMAIN es, es[i].blk = b, Terminates(es[i])
               PROVE  \E j \in DOMAIN out' : out'[j].blk = b /\ Terminates(out'[j])
    BY DEF Closed, Terminates
  <2>1. Len(out) + i \in DOMAIN out' /\ out'[Len(out) + i] = es[i]
    BY <1>4
  <2> QED
    BY <2>1
<1>13. Terminates(last) => Closed(here)'
  BY <1>2, <1>4, <1>12
<1>14. \A m \in Children(prog, n) : m \in Node /\ m \notin Done /\ m # n /\ m \notin Bodies(prog)
  BY <1>1, Forest, ChildFresh
<1>15. \/ ~Terminates(last) /\ bb' = here /\ node' \in Children(prog, n) \ Heads
       \/ Terminates(last) /\ node' \in Children(prog, n) \ Heads /\ bb' = Blk("ok", n)
       \/ Terminates(last) /\ node' \in Children(prog, n) /\ bb' = BB(node')
       \/ Terminates(last) /\ node' = NoNode
  BY <1>14 DEF Turn, Moves, Heads
<1>16. Heads \subseteq Node /\ Heads' = Heads
  <2>1. Bodies(prog) \subseteq Node
    BY <1>1, UnitFacts DEF Bodies
  <2>2. Arms(prog) \subseteq Node
    BY <1>1, StmFacts DEF Arms
  <2> QED
    BY <1>2, <2>1, <2>2 DEF Heads
<1>17. OnceClosed'
  <2> SUFFICES ASSUME NEW i \in DOMAIN out', NEW j \in DOMAIN out', i < j, NEW g, g = out'[i],
                      NEW h, h = out'[j], g.blk = h.blk
               PROVE  ~Terminates(g)
    BY DEF OnceClosed, Terminates
  <2>1. CASE i \in DOMAIN out /\ g = out[i] /\ j \in DOMAIN out /\ h = out[j]
    BY <2>1 DEF TermInv, OnceClosed
  <2>2. CASE i \in DOMAIN out /\ g = out[i] /\ j - Len(out) \in DOMAIN es /\ h = es[j - Len(out)]
    <3>1. g.blk.at # n
      BY <1>1, <1>6, <2>2
    <3>2. h.blk = here
      BY <1>5, <1>8, <2>2, <3>1
    <3> QED
      BY <1>1, <2>2, <3>2 DEF Closed
  <2>3. CASE i - Len(out) \in DOMAIN es /\ g = es[i - Len(out)] /\ j - Len(out) \in DOMAIN es /\ h = es[j - Len(out)]
    <3>1. i - Len(out) = 1 /\ j - Len(out) = 2 /\ Len(es) = 2
      BY <1>2, <1>4, <2>3, SMTT(60)
    <3>2. h.blk = here /\ g.blk \in {Blk("overflow", n), Blk("impossible", n)}
      BY <1>5, <2>3, <3>1
    <3> QED
      BY <1>7, <3>2
  <2> QED
    BY <1>4, <2>1, <2>2, <2>3
<1>18. CodeIsDone'
  <2>1. \A i \in DOMAIN es : es[i].blk \in Block /\ es[i].blk.at \in Done \cup {n}
    BY <1>1, <1>5, <1>8, <1>9
  <2>2. \A i \in DOMAIN out' : out'[i].blk \in Block /\ out'[i].blk.at \in Done \cup {n}
    BY <1>4, <1>6, <2>1
  <2> QED
    BY <1>3, <2>2 DEF CodeIsDone
<1>19. InsertPointOpen'
  <2> SUFFICES ASSUME node' # NoNode, NEW b, b = bb'
               PROVE  /\ ~Closed(b)' /\ b \in Block
                      /\ (b.k \in {"bb", "ok"} /\ b.at \in Done') \/ b = BB(node')
    BY DEF InsertPointOpen, Closed, BB, Blk
  <2>1. CASE ~Terminates(last) /\ b = here
    <3>1. ~Closed(b)'
      BY <1>1, <1>5, <1>7, <1>11, <2>1
    <3> QED
      BY <1>1, <1>3, <2>1, <3>1 DEF BB, Blk
  <2>2. CASE b = Blk("ok", n)
    <3>1. b \in Block /\ b.k = "ok" /\ b.at = n
      <4>1. b \in Block
        BY <2>2, NameTypes
      <4> QED
        BY <2>2, <4>1 DEF Blk
    <3>2. b # here /\ b # Blk("overflow", n) /\ b # Blk("impossible", n)
      BY <1>1, <3>1 DEF BB, Blk
    <3>3. ~Closed(b)
      BY <1>1, <1>6, <3>1 DEF Closed
    <3> QED
      BY <1>3, <1>5, <1>11, <3>1, <3>2, <3>3
  <2>3. CASE node' \in Children(prog, n) /\ b = BB(node')
    <3>1. b \in Block /\ b.at = node'
      <4>1. node' \in Node
        BY <1>14, <2>3
      <4>2. b \in Block
        BY <2>3, <4>1, NameTypes
      <4> QED
        BY <2>3, <4>2 DEF BB, Blk
    <3>2. ~Closed(b)
      BY <1>6, <1>14, <2>3, <3>1 DEF Closed
    <3>3. \A i \in DOMAIN es : es[i].blk.at \in Done \cup {n}
      BY <1>1, <1>5, <1>8
    <3> QED
      BY <1>11, <1>14, <2>3, <3>1, <3>2, <3>3
  <2> QED
    BY <1>15, <2>1, <2>2, <2>3
<1>20. MadeClosed'
  <2> SUFFICES ASSUME NEW m \in made'
               PROVE  \/ Closed(m.blk)'
                      \/ node' # NoNode /\ m.blk = bb'
                      \/ /\ m.blk \in Block /\ m.blk.k = "bb"
                         /\ m.blk.at \in Heads /\ m.blk.at \notin Done' \cup {node'}
    BY <1>16 DEF MadeClosed, Closed
  <2> DEFINE b == m.blk
  <2>1. CASE m \in made /\ Closed(b)
    BY <1>10, <2>1
  <2>2. CASE b = here
    BY <1>13, <1>14, <1>15, <2>2, NullAssumption
  <2>3. CASE m \in made /\ b \in Block /\ b.k = "bb" /\ b.at \in Heads /\ b.at \notin Done \cup {n}
    <3>1. CASE b.at = node'
      <4>1. bb' = BB(node')
        BY <1>15, <1>16, <2>3, <3>1, NullAssumption
      <4>2. b = BB(node')
        BY <2>3, <3>1 DEF Block, BB, Blk
      <4> QED
        BY <1>16, <2>3, <3>1, <4>1, <4>2, NullAssumption
    <3>2. CASE b.at # node'
      BY <1>3, <2>3, <3>2
    <3> QED
      BY <3>1, <3>2
  <2>4. CASE m \notin made
    <3>1. (b = bb' /\ node' # NoNode) \/ \E i \in DOMAIN es : i # Len(es) /\ b = es[i].blk
      BY <2>4 DEF Turn
    <3> QED
      BY <1>5, <1>12, <3>1
  <2>6. m \in made /\ ~Closed(b) /\ b # here => b \in Block /\ b.k = "bb" /\ b.at \in Heads /\ b.at \notin Done \cup {n}
    BY DEF TermInv, MadeClosed
  <2> QED
    BY <2>1, <2>2, <2>3, <2>4, <2>6
<1>21. HeadsClosed'
  <2> SUFFICES ASSUME NEW m \in (Done \cup {n, node'}) \cap Heads
               PROVE  Closed(BB(m))' \/ (node' # NoNode /\ bb' = BB(m))
    BY <1>3, <1>16 DEF HeadsClosed
  <2>1. CASE m \in Done \cup {n}
    <3>1. Closed(BB(m)) \/ here = BB(m)
      BY <2>1 DEF TermInv, HeadsClosed
    <3> DEFINE b == BB(m)
    <3>2. Closed(b)' \/ (node' # NoNode /\ bb' = b)
      <4> HIDE DEF b
      <4>1. Closed(b) \/ here = b
        BY <3>1 DEF b
      <4> QED
        BY <1>10, <1>13, <1>14, <1>15, <4>1, NullAssumption
    <3> QED
      BY <3>2
  <2>2. CASE m = node'
    BY <1>15, <1>16, <2>2, NullAssumption
  <2> QED
    BY <2>1, <2>2
<1>22. Covered'
  <2>1. \A t : Starts(t)' = Starts(t)
    BY <1>2 DEF Starts
  <2>2. ASSUME NEW m, Pending(m) PROVE Pending(m)'
    <3>1. CASE m \in Done \cup {n}
      BY <1>3, <3>1 DEF Pending
    <3>2. CASE \E i \in DOMAIN todo : m \in Starts(todo[i])
      <4> PICK i \in DOMAIN todo : m \in Starts(todo[i])
        BY <3>2
      <4>1. Len(new) + i \in DOMAIN todo' /\ todo'[Len(new) + i] = todo[i]
        BY <1>1, <1>2, LaterPlace
      <4> QED
        BY <2>1, <4>1 DEF Pending
    <3> QED
      BY <2>2, <3>1, <3>2 DEF Pending
  <2>3. ASSUME NEW m \in Children(prog, n) PROVE Pending(m)'
    <3>1. CASE m = node'
      BY <3>1 DEF Pending
    <3>2. CASE \E i \in DOMAIN new : new[i].n = m
      <4> PICK i \in DOMAIN new : new[i].n = m
        BY <3>2
      <4>1. i \in DOMAIN todo' /\ todo'[i] = new[i]
        BY <1>1, <1>2, LaterPlace
      <4>2. m \in Starts(new[i])
        BY DEF Turn, Starts
      <4> QED
        BY <2>1, <4>1, <4>2 DEF Pending
    <3> QED
      BY <3>1, <3>2 DEF Turn
  <2> QED
    BY <1>2, <1>3, <2>2, <2>3 DEF TermInv, Covered
<1>23. AllDone'
  BY <1>2 DEF AllDone
<1> QED
  BY <1>17, <1>18, <1>19, <1>20, <1>21, <1>22, <1>23 DEF TermInv

-----------------------------------------------------------------------------
(* Both invariants, and that the codegen methods of statements keep them. *)

(* What is proved inductive: where blocks are, and what terminates them. *)
BlockInv == HomeInv /\ TermInv

(* A codegen method that takes a turn preserves both invariants. *)
LEMMA TurnStep ==
  ASSUME TypeOK, TypeOK', RegsInv, BlockInv, NEW new \in Seq(Task), NEW U, NEW es \in Seq(U), Turn(new, es)
  PROVE  BlockInv'
<1>1. /\ out \in Seq(GroupType \cup U) /\ es \in Seq(GroupType \cup U)
      /\ out \o es \in Seq(GroupType) /\ out \in Seq(GroupType)
  BY DEF TypeOK, Turn
<1>2. \A i \in DOMAIN es : es[i] \in GroupType
  <2> TAKE i \in DOMAIN es
  <2>1. Len(out) + i \in DOMAIN (out \o es) /\ (out \o es)[Len(out) + i] = es[i]
    <3> DEFINE T == GroupType \cup U
    <3>1. out \in Seq(T) /\ es \in Seq(T)
      BY <1>1
    <3> HIDE DEF T
    <3> QED
      BY <3>1, LaterPlace
  <2> QED
    BY <1>1, <2>1
<1>3. es \in Seq(GroupType)
  BY <1>2
<1> QED
  BY <1>3, TurnHome, TurnTerm DEF BlockInv

(* The children of a statement that is no branch are not arms. *)
LEMMA NextTurn ==
  ASSUME TypeOK, BlockInv, node \in Node
  PROVE  /\ node # NoNode /\ prog \in Programs /\ MadeIn(bb, curC)
         /\ Children(prog, node) = {S.next[i] : i \in DOMAIN S.next}
         /\ \A m \in Children(prog, node) : m \in Arms(prog) <=> S.op \in {"SWITCH", "BRANCH"}
         /\ \A m \in Children(prog, node) : m \in Arms(prog) => MadeIn(BB(m), curC)
<1>1. node # NoNode /\ prog \in Programs /\ Open
  BY NullAssumption DEF TypeOK, Open
<1>2. MadeIn(bb, curC) /\ Home(node) = curC
  BY <1>1 DEF BlockInv, HomeInv, NodeAtHome
<1>3. \A m \in Children(prog, node) : m \in Arms(prog) <=> S.op \in {"SWITCH", "BRANCH"}
  BY <1>1, ArmsOf DEF S
<1>4. ASSUME NEW m \in Children(prog, node), m \in Arms(prog) PROVE MadeIn(BB(m), curC)
  <2>1. m \in Node /\ prog.owner[m] = prog.owner[node]
    BY <1>1, StmFacts, HomeFacts
  <2>2. m \in NodesOf(prog, curC)
    BY <1>1, <1>2, <2>1, HomeFacts DEF Home
  <2> QED
    BY <1>1, <1>4, <2>2, HeadMade DEF BlockInv, Heads
<1> QED
  BY <1>1, <1>2, <1>3, <1>4 DEF Children, Elems, S

(* A statement that ends no block. *)
LEMMA StraightTurn ==
  ASSUME TypeOK, TypeOK', RegsInv, BlockInv, phase = "gen", Visit, node \in Node,
         S.op \notin {"SWITCH", "BRANCH"}, Len(S.next) = 1, node' = S.next[1],
         UNCHANGED <<prog, phase, curC, fragMap, todo, bb, made, ovBB>>,
         NEW ins, NEW end, Emit(ins, end), end.op \in {"fall", "gc"}, end.to = <<>>
  PROVE  BlockInv'
<1> DEFINE g == Group(node, bb, ins, end)
           es == <<g>>
           none == <<>>
<1>1. g.at = node /\ g.blk = bb /\ g.end = end /\ ~Terminates(g)
  BY DEF Group, Terminates
<1>2. out' = out \o es
  <2>1. out \in Seq(GroupType)
    BY DEF TypeOK
  <2> HIDE DEF g
  <2> QED
    BY <2>1 DEF Emit, g
<1>3. /\ Len(es) = 1 /\ DOMAIN es = {1} /\ es[1] = g /\ es \in Seq({g})
      /\ none \in Seq(Task) /\ DOMAIN none = {} /\ todo' = none \o todo
  <2>1. todo \in Seq(Task)
    BY DEF TypeOK
  <2> HIDE DEF g
  <2> QED
    BY <2>1
<1>4. /\ node' \in Children(prog, node) \ Arms(prog) /\ \A m \in Children(prog, node) : m = node'
      /\ MadeIn(bb, curC)
  BY NextTurn, NextFacts
<1>5. Elems(g.end.to) = {}
  BY <1>1 DEF Elems
<1> HIDE DEF g
<1>6. Moves(es[Len(es)])
  BY <1>1, <1>3, <1>4 DEF Moves
<1>7. Turn(none, es)
  <2> HIDE DEF es, none
  <2> QED
    BY <1>1, <1>2, <1>3, <1>4, <1>5, <1>6 DEF Turn, MadeIn
<1> HIDE DEF es, none
<1> QED
  BY <1>3, <1>7, TurnStep

(* A statement that leaves the fragment. *)
LEMMA LeafTurn ==
  ASSUME TypeOK, TypeOK', RegsInv, BlockInv, phase = "gen", Visit, node \in Node,
         S.next = <<>>, node' = NoNode,
         UNCHANGED <<prog, phase, curC, fragMap, todo, bb, made, ovBB>>,
         NEW ins, NEW end, Emit(ins, end), end.op \notin {"fall", "gc"},
         \A b \in Elems(end.to) : MadeIn(b, curC)
  PROVE  BlockInv'
<1> DEFINE g == Group(node, bb, ins, end)
           es == <<g>>
           none == <<>>
<1>1. g.at = node /\ g.blk = bb /\ g.end = end /\ Terminates(g)
  BY DEF Group, Terminates
<1>2. out' = out \o es
  <2>1. out \in Seq(GroupType)
    BY DEF TypeOK
  <2> HIDE DEF g
  <2> QED
    BY <2>1 DEF Emit, g
<1>3. /\ Len(es) = 1 /\ DOMAIN es = {1} /\ es[1] = g /\ es \in Seq({g})
      /\ none \in Seq(Task) /\ DOMAIN none = {} /\ todo' = none \o todo
  <2>1. todo \in Seq(Task)
    BY DEF TypeOK
  <2> HIDE DEF g
  <2> QED
    BY <2>1
<1>4. Children(prog, node) = {} /\ MadeIn(bb, curC)
  BY NextTurn
<1>5. \A b \in {g.blk} \cup Elems(g.end.to) : MadeIn(b, curC)
  BY <1>1, <1>4
<1> HIDE DEF g
<1>6. Moves(es[Len(es)])
  BY <1>1, <1>3 DEF Moves
<1>7. Turn(none, es)
  <2> HIDE DEF es, none
  <2> QED
    BY <1>1, <1>2, <1>3, <1>4, <1>5, <1>6 DEF Turn, MadeIn
<1> HIDE DEF es, none
<1> QED
  BY <1>3, <1>7, TurnStep

(* The straight-line statements. *)
LEMMA LineBlocks ==
  ASSUME TypeOK, TypeOK', RegsInv, BlockInv,
         GenLet \/ GenAlloc \/ GenSetter \/ GenCallGC \/ (GenArith /\ S.prim = "DIV")
  PROVE  BlockInv'
<1>1. /\ phase = "gen" /\ node \in Node /\ S.op \in {"LET", "ALLOC", "SETTER", "CALLGC", "ARITH"}
      /\ Arity(S)
  BY RunningFacts DEF GenLet, GenAlloc, GenSetter, GenCallGC, GenArith, Running
<1>2. Len(S.next) = 1
  BY <1>1 DEF Arity
<1>3. /\ node' = S.next[1] /\ Visit
      /\ UNCHANGED <<prog, phase, curC, fragMap, todo, bb, made, ovBB>>
  BY DEF GenLet, GenAlloc, GenSetter, GenCallGC, GenArith, const, fnVars, ovVars, irVars
<1>4. \E ins, end : Emit(ins, end) /\ end.op \in {"fall", "gc"} /\ end.to = <<>>
  <2>1. Fall.op = "fall" /\ Fall.to = <<>>
    BY DEF Fall, End
  <2>2. CASE GenCallGC
    BY <2>2 DEF GenCallGC, End
  <2>3. CASE GenLet \/ GenAlloc \/ GenSetter \/ (GenArith /\ S.prim = "DIV")
    <3>1. \E ins : Emit(ins, Fall)
      BY <2>3 DEF GenLet, GenAlloc, AllocRecord, GenSetter, SetSpecial, RecordStore, GenArith
    <3> QED
      BY <2>1, <3>1
  <2> QED
    BY <2>2, <2>3
<1>5. PICK ins, end : Emit(ins, end) /\ end.op \in {"fall", "gc"} /\ end.to = <<>>
  BY <1>4
<1> QED
  BY <1>1, <1>2, <1>3, <1>5, StraightTurn

(* GOTO, APPLY and THROW: the destination of a GOTO is in the cluster. *)
LEMMA LeafBlocks ==
  ASSUME TypeOK, TypeOK', RegsInv, BlockInv, GenGoto \/ GenApply \/ GenThrow
  PROVE  BlockInv'
<1>1. phase = "gen" /\ node \in Node /\ S.op \in {"GOTO", "APPLY", "THROW"} /\ Arity(S)
  BY RunningFacts DEF GenGoto, GenApply, GenThrow, Running
<1>2. S.next = <<>>
  BY <1>1 DEF Arity
<1>3. /\ node' = NoNode /\ Visit
      /\ UNCHANGED <<prog, phase, curC, fragMap, todo, bb, made, ovBB>>
  BY DEF GenGoto, GenApply, GenThrow, TailCall, const, fnVars, ovVars, irVars
<1>4. \E end : /\ Emit(<<>>, end) /\ end.op \notin {"fall", "gc"}
               /\ \A b \in Elems(end.to) : MadeIn(b, curC)
  <2>1. CASE GenGoto
    <3> DEFINE target == BB(prog.frag[S.to].body)
    <3>1. S.to \in fragMap /\ Emit(<<>>, Jump("br", <<target>>, <<>>))
      BY <2>1 DEF GenGoto
    <3>2. Open /\ curC \in DOMAIN prog.clusters /\ S.to \in Elems(prog.clusters[curC])
      BY <1>1, <3>1, NextTurn DEF Open, BlockInv, HomeInv, ClusterOpen
    <3>3. prog.frag[S.to].body \in NodesOf(prog, curC) \cap Bodies(prog)
      BY <1>1, <3>2, BodyHome, NextTurn
    <3>4. MadeIn(target, curC)
      BY <3>2, <3>3, HeadMade DEF BlockInv, Heads
    <3> HIDE DEF target
    <3>5. Elems(<<target>>) = {target}
      BY DEF Elems
    <3> QED
      BY <3>1, <3>4, <3>5 DEF Jump, End
  <2>2. CASE TailCall
    <3>1. Emit(<<>>, End("call", <<>>, regState, Args))
      BY <2>2 DEF TailCall
    <3> QED
      BY <3>1 DEF End, Elems
  <2> QED
    BY <2>1, <2>2 DEF GenApply, GenThrow
<1>5. PICK end : /\ Emit(<<>>, end) /\ end.op \notin {"fall", "gc"}
                 /\ \A b \in Elems(end.to) : MadeIn(b, curC)
  BY <1>4
<1> QED
  BY <1>1, <1>2, <1>3, <1>5, LeafTurn

(* An arithmetic that can overflow: the overflow block is made once in a
   cluster, and the code goes on in a new block. *)
LEMMA TrapBlocks ==
  ASSUME TypeOK, TypeOK', RegsInv, BlockInv, GenArith, S.prim # "DIV"
  PROVE  BlockInv'
<1> DEFINE ok == Blk("ok", node)
           aside == Blk("overflow", node)
           raise == Group(node, aside, <<>>, End("raise", <<>>, MachRegs("ovphi", node), <<>>))
           branch == Group(node, bb, <<Op(S.res[1], Args)>>, Jump("ovbr", <<ovBB', ok>>, <<>>))
           none == <<>>
<1>1. phase = "gen" /\ node \in Node /\ S.op = "ARITH" /\ Arity(S)
  BY RunningFacts DEF GenArith, Running
<1>2. /\ TrapArith(S.res[1]) /\ node' = S.next[1] /\ Visit
      /\ UNCHANGED <<prog, phase, curC, fragMap, todo>>
  BY DEF GenArith, const, fnVars
<1>3. Len(S.next) = 1
  BY <1>1 DEF Arity
<1>4. /\ node' \in Children(prog, node) \ Arms(prog) /\ \A m \in Children(prog, node) : m = node'
      /\ MadeIn(bb, curC)
  BY <1>1, <1>2, <1>3, NextTurn, NextFacts
<1>5. /\ bb' = ok /\ ovBB' = IF ovBB = NoBlock THEN aside ELSE ovBB
      /\ out' = out \o (IF ovBB = NoBlock THEN <<raise>> ELSE <<>>) \o <<branch>>
      /\ made' = made \cup {[blk |-> b, fn |-> curC] : b \in {ok} \cup IF ovBB = NoBlock THEN {ovBB'} ELSE {}}
  BY <1>2 DEF TrapArith, GetOverflowBB
<1>6. /\ raise.at = node /\ raise.blk = aside /\ raise.end.to = <<>> /\ Terminates(raise)
      /\ branch.at = node /\ branch.blk = bb /\ branch.end.to = <<ovBB', ok>> /\ Terminates(branch)
  BY DEF Group, End, Jump, Terminates
<1>7. ok \in Block /\ aside \in Block /\ ok.at = node /\ aside.at = node
  <2>1. ok \in Block /\ aside \in Block
    BY <1>1, NameTypes
  <2> QED
    BY <2>1 DEF Blk
<1>8. none \in Seq(Task) /\ DOMAIN none = {} /\ todo' = none \o todo /\ out \in Seq(GroupType)
  <2>1. todo \in Seq(Task)
    BY DEF TypeOK
  <2> QED
    BY <1>2, <2>1 DEF TypeOK
<1>9. /\ made \subseteq made' /\ [blk |-> ok, fn |-> curC] \in made' /\ [blk |-> ovBB', fn |-> curC] \in made'
      /\ \A m \in made' \ made : m = [blk |-> ok, fn |-> curC]
                                 \/ (ovBB = NoBlock /\ m = [blk |-> aside, fn |-> curC])
  <2> HIDE DEF ok, aside
  <2>1. ovBB # NoBlock => MadeIn(ovBB, curC)
    BY DEF BlockInv, HomeInv, OverflowAtHome
  <2> QED
    BY <1>5, <2>1 DEF MadeIn
<1>10. Elems(raise.end.to) = {} /\ Elems(branch.end.to) = {ovBB', ok}
  <2> HIDE DEF raise, branch, ok
  <2> QED
    BY <1>6 DEF Elems
<1>11. ok = Blk("ok", node) /\ aside \in Asides
  BY DEF Asides
<1> HIDE DEF raise, branch, ok, aside, none
<1>12. CASE ovBB = NoBlock
  <2> DEFINE es == <<raise, branch>>
  <2>1. Len(es) = 2 /\ DOMAIN es = {1, 2} /\ es[1] = raise /\ es[2] = branch /\ es \in Seq({raise, branch})
    OBVIOUS
  <2>2. out' = out \o es
    BY <1>5, <1>8, <1>12, TwoAppended
  <2>3. [blk |-> aside, fn |-> curC] \in made'
    BY <1>5, <1>9, <1>12
  <2> HIDE DEF es
  <2>4. Turn(none, es)
    <3>1. Moves(es[Len(es)])
      BY <1>4, <1>5, <1>6, <1>11, <2>1 DEF Moves
    <3>2. \A i \in DOMAIN es :
            /\ es[i].at = node
            /\ i # Len(es) => es[i].blk \in Asides /\ Terminates(es[i])
            /\ \A b \in {es[i].blk} \cup Elems(es[i].end.to) : [blk |-> b, fn |-> curC] \in made'
      BY <1>4, <1>6, <1>9, <1>10, <1>11, <2>1, <2>3 DEF MadeIn
    <3>3. \A m \in made' \ made :
            /\ m.blk \in Block /\ m.blk.at = node /\ m.fn = curC
            /\ (m.blk = bb' /\ node' # NoNode) \/ \E i \in DOMAIN es : i # Len(es) /\ m.blk = es[i].blk
      <4>1. node' # NoNode
        BY <1>1, <1>4, StmFacts, NextTurn, NullAssumption
      <4>2. 1 \in DOMAIN es /\ 1 # Len(es) /\ es[1].blk = aside
        BY <1>6, <2>1
      <4> SUFFICES ASSUME NEW m \in made' \ made
                   PROVE  /\ m.blk \in Block /\ m.blk.at = node /\ m.fn = curC
                          /\ (m.blk = ok /\ node' # NoNode)
                             \/ \E i \in DOMAIN es : i # Len(es) /\ m.blk = es[i].blk
        BY <1>5
      <4>3. CASE m = [blk |-> ok, fn |-> curC]
        BY <1>7, <4>1, <4>3
      <4>4. CASE m = [blk |-> aside, fn |-> curC]
        BY <1>7, <4>2, <4>4
      <4> QED
        BY <1>9, <4>3, <4>4
    <3> QED
      BY <1>1, <1>2, <1>4, <1>5, <1>6, <1>8, <1>9, <2>1, <2>2, <3>1, <3>2, <3>3 DEF Turn
  <2> QED
    BY <1>8, <2>1, <2>4, TurnStep
<1>13. CASE ovBB # NoBlock
  <2> DEFINE es == <<branch>>
  <2>1. Len(es) = 1 /\ DOMAIN es = {1} /\ es[1] = branch /\ es \in Seq({branch})
    OBVIOUS
  <2>2. out' = out \o es
    BY <1>5, <1>8, <1>13
  <2> HIDE DEF es
  <2>3. Turn(none, es)
    <3>1. Moves(es[Len(es)])
      BY <1>4, <1>5, <1>6, <1>11, <2>1 DEF Moves
    <3>2. \A i \in DOMAIN es :
            /\ es[i].at = node
            /\ i # Len(es) => es[i].blk \in Asides /\ Terminates(es[i])
            /\ \A b \in {es[i].blk} \cup Elems(es[i].end.to) : [blk |-> b, fn |-> curC] \in made'
      BY <1>4, <1>6, <1>9, <1>10, <2>1 DEF MadeIn
    <3>3. \A m \in made' \ made :
            m.blk \in Block /\ m.blk.at = node /\ m.fn = curC /\ m.blk = bb' /\ node' # NoNode
      <4>1. node' # NoNode
        BY <1>1, <1>4, StmFacts, NextTurn, NullAssumption
      <4> QED
        BY <1>5, <1>7, <1>9, <1>13, <4>1
    <3> QED
      BY <1>1, <1>2, <1>4, <1>5, <1>6, <1>8, <1>9, <2>1, <2>2, <3>1, <3>2, <3>3 DEF Turn
  <2> QED
    BY <1>8, <2>1, <2>3, TurnStep
<1> QED
  BY <1>12, <1>13

(* BRANCH: both arms have a block in the function, the second is pending. *)
LEMMA BranchBlocks ==
  ASSUME TypeOK, TypeOK', RegsInv, BlockInv, GenBranch
  PROVE  BlockInv'
<1> DEFINE arm == [t |-> "arm", n |-> S.next[2], saved |-> regState]
           to == <<BB(S.next[1]), BB(S.next[2])>>
           g == Group(node, bb, Test.ins, Jump("br", to, Test.args))
           new == <<arm>>
           es == <<g>>
<1>1. phase = "gen" /\ node \in Node /\ S.op = "BRANCH" /\ Arity(S)
  BY RunningFacts DEF GenBranch, Running
<1>2. /\ todo' = new \o todo /\ bb' = BB(S.next[1]) /\ node' = S.next[1] /\ Visit /\ out' = Append(out, g)
      /\ UNCHANGED <<prog, phase, curC, fragMap, ovBB, made>>
  BY DEF GenBranch, Emit, const, fnVars, ovVars
<1>3. Len(S.next) = 2
  BY <1>1 DEF Arity
<1>4. DOMAIN S.next = {1, 2} /\ S.next[1] \in Node /\ S.next[2] \in Node
  BY <1>1, <1>3, NextFacts
<1>5. /\ Children(prog, node) = {S.next[1], S.next[2]}
      /\ S.next[1] \in Arms(prog) /\ S.next[2] \in Arms(prog)
      /\ MadeIn(bb, curC) /\ MadeIn(BB(S.next[1]), curC) /\ MadeIn(BB(S.next[2]), curC)
  BY <1>1, <1>4, NextTurn
<1>6. g.at = node /\ g.blk = bb /\ g.end.to = to /\ Terminates(g)
  BY DEF Group, Jump, End, Terminates
<1>7. Elems(g.end.to) = {BB(S.next[1]), BB(S.next[2])}
  <2> HIDE DEF g
  <2> QED
    BY <1>6 DEF Elems
<1> HIDE DEF g, to
<1>8. out' = out \o es
  <2>1. out \in Seq(GroupType)
    BY DEF TypeOK
  <2> QED
    BY <1>2, <2>1
<1>9. /\ Len(es) = 1 /\ DOMAIN es = {1} /\ es[1] = g /\ es \in Seq({g})
      /\ DOMAIN new = {1} /\ new[1] = arm
  OBVIOUS
<1>10. new \in Seq(Task)
  <2>1. arm \in Task
    BY <1>4 DEF Task, TypeOK
  <2> QED
    BY <2>1
<1>11. arm.t = "arm" /\ arm.n = S.next[2]
  OBVIOUS
<1> HIDE DEF es, new, arm
<1>12. Moves(es[Len(es)])
  BY <1>2, <1>5, <1>6, <1>9 DEF Moves
<1>13. Turn(new, es)
  BY <1>1, <1>2, <1>5, <1>6, <1>7, <1>8, <1>9, <1>11, <1>12 DEF Turn, MadeIn
<1> QED
  BY <1>9, <1>10, <1>13, TurnStep

(* SWITCH: all arms are pending; the default block is terminated at once. *)
LEMMA SwitchBlocks ==
  ASSUME TypeOK, TypeOK', RegsInv, BlockInv, GenSwitch
  PROVE  BlockInv'
<1> DEFINE dflt == Blk("impossible", node)
           new == [i \in DOMAIN S.next |-> [t |-> "arm", n |-> S.next[i], saved |-> regState]]
           cases == [i \in DOMAIN S.next |-> BB(S.next[i])]
           g1 == Group(node, dflt, <<>>, Jump("unreachable", <<>>, <<>>))
           g2 == Group(node, bb, <<>>, Jump("br", cases \o <<dflt>>, Args))
           es == <<g1, g2>>
<1>1. phase = "gen" /\ node \in Node /\ S.op = "SWITCH"
  BY RunningFacts DEF GenSwitch, Running
<1>2. /\ todo' = new \o todo /\ node' = NoNode /\ Visit /\ out' = out \o es
      /\ made' = made \cup {[blk |-> dflt, fn |-> curC]}
      /\ UNCHANGED <<prog, phase, curC, fragMap, ovBB>>
  BY DEF GenSwitch, const, fnVars, ovVars
<1>3. /\ DOMAIN S.next = 1..Len(S.next) /\ Len(S.next) \in Nat
      /\ \A i \in DOMAIN S.next : S.next[i] \in Node
  BY <1>1, NextFacts
<1>4. /\ Children(prog, node) = {S.next[i] : i \in DOMAIN S.next}
      /\ \A i \in DOMAIN S.next : S.next[i] \in Arms(prog) /\ MadeIn(BB(S.next[i]), curC)
      /\ MadeIn(bb, curC)
  BY <1>1, NextTurn
<1>5. /\ g1.at = node /\ g1.blk = dflt /\ g1.end.to = <<>> /\ Terminates(g1)
      /\ g2.at = node /\ g2.blk = bb /\ g2.end.to = cases \o <<dflt>> /\ Terminates(g2)
  BY DEF Group, Jump, End, Terminates
<1>6. dflt \in Block /\ dflt.at = node /\ dflt \in Asides
  <2>1. dflt \in Block
    BY <1>1, NameTypes
  <2> QED
    BY <2>1 DEF Blk, Asides
<1>7. /\ new \in Seq(Task)
      /\ \A i \in DOMAIN new : new[i].t = "arm" /\ new[i].n = S.next[i] /\ i \in DOMAIN S.next
      /\ \A i \in DOMAIN S.next : i \in DOMAIN new
  <2>1. new \in [1..Len(S.next) -> Task]
    BY <1>3 DEF Task, TypeOK
  <2> QED
    BY <1>3, <2>1, SeqDef
<1>8. \A b \in Elems(cases \o <<dflt>>) : b = dflt \/ \E i \in DOMAIN S.next : b = BB(S.next[i])
  <2> DEFINE last == <<dflt>>
  <2>1. cases \in [1..Len(S.next) -> Block]
    BY <1>3, NameTypes
  <2>2. cases \in Seq(Block) /\ last \in Seq(Block) /\ DOMAIN last = {1} /\ last[1] = dflt
    BY <1>3, <1>6, <2>1, SeqDef
  <2>3. \A i \in DOMAIN cases : i \in DOMAIN S.next /\ cases[i] = BB(S.next[i])
    OBVIOUS
  <2> HIDE DEF cases, dflt, last
  <2>4. \A i \in DOMAIN (cases \o last) :
          \/ i \in DOMAIN cases /\ (cases \o last)[i] = cases[i]
          \/ (cases \o last)[i] = dflt
    BY <2>2, ConcatCases
  <2>5. \A b \in Elems(cases \o last) : b = dflt \/ \E i \in DOMAIN S.next : b = BB(S.next[i])
    BY <2>3, <2>4 DEF Elems
  <2> QED
    BY <2>5 DEF last
<1>9. \A b \in {g2.blk} \cup Elems(g2.end.to) : [blk |-> b, fn |-> curC] \in made'
  <2> HIDE DEF g2, cases, dflt
  <2> QED
    BY <1>2, <1>4, <1>5, <1>8 DEF MadeIn
<1>10. Elems(g1.end.to) = {}
  <2> HIDE DEF g1
  <2> QED
    BY <1>5 DEF Elems
<1> HIDE DEF g1, g2, dflt, cases, new
<1>11. Len(es) = 2 /\ DOMAIN es = {1, 2} /\ es[1] = g1 /\ es[2] = g2 /\ es \in Seq({g1, g2})
  OBVIOUS
<1> HIDE DEF es
<1>12. Moves(es[Len(es)])
  BY <1>2, <1>5, <1>11 DEF Moves
<1>13. \A i \in DOMAIN es :
         /\ es[i].at = node
         /\ i # Len(es) => es[i].blk \in Asides /\ Terminates(es[i])
         /\ \A b \in {es[i].blk} \cup Elems(es[i].end.to) : [blk |-> b, fn |-> curC] \in made'
  BY <1>2, <1>5, <1>6, <1>9, <1>10, <1>11
<1>14. \A m \in made' \ made :
         /\ m.blk \in Block /\ m.blk.at = node /\ m.fn = curC
         /\ (m.blk = bb' /\ node' # NoNode) \/ \E i \in DOMAIN es : i # Len(es) /\ m.blk = es[i].blk
  <2>1. 1 \in DOMAIN es /\ 1 # Len(es) /\ es[1].blk = dflt
    BY <1>5, <1>11
  <2> SUFFICES ASSUME NEW m \in made' \ made
               PROVE  /\ m.blk \in Block /\ m.blk.at = node /\ m.fn = curC
                      /\ \E i \in DOMAIN es : i # Len(es) /\ m.blk = es[i].blk
    OBVIOUS
  <2>2. m = [blk |-> dflt, fn |-> curC]
    BY <1>2
  <2> QED
    BY <1>6, <2>1, <2>2
<1>15. /\ \A i \in DOMAIN new : new[i].t = "arm" /\ new[i].n \in Children(prog, node) \cap Arms(prog)
       /\ \A m \in Children(prog, node) : \E i \in DOMAIN new : new[i].n = m
  BY <1>4, <1>7
<1>16. made \subseteq made' /\ es[Len(es)].blk = bb /\ Len(es) \in {1, 2} /\ ovBB' = ovBB
  BY <1>2, <1>5, <1>11
<1>17. Turn(new, es)
  BY <1>1, <1>2, <1>12, <1>13, <1>14, <1>15, <1>16 DEF Turn
<1> QED
  BY <1>7, <1>11, <1>17, TurnStep

-----------------------------------------------------------------------------
(* The steps that set up work emit no code. *)

(* Without new code, the same statements are done, and tasks start at the same ones. *)
LEMMA SameCode ==
  ASSUME TypeOK, BlockInv, UNCHANGED <<prog, at, out>>
  PROVE  /\ Done' = Done /\ Heads' = Heads
         /\ \A t : Starts(t)' = Starts(t)
         /\ \A n : Home(n)' = Home(n)
         /\ \A b : Closed(b)' <=> Closed(b)
         /\ Heads \subseteq Node /\ NoNode \notin Heads
         /\ OnceClosed' /\ CodeIsDone'
<1>1. Done' = Done /\ Heads' = Heads
  BY DEF Done, Visited, Heads
<1>2. \A t : Starts(t)' = Starts(t)
  BY DEF Starts
<1>3. /\ \A n : Home(n)' = Home(n)
      /\ \A b : Closed(b)' <=> Closed(b)
  BY DEF Home, Closed, Terminates
<1>4. OnceClosed' /\ CodeIsDone'
  BY <1>1 DEF BlockInv, TermInv, OnceClosed, CodeIsDone, Terminates
<1>5. Heads \subseteq Node
  <2>1. Bodies(prog) \subseteq Node
    BY UnitFacts DEF Bodies, TypeOK
  <2>2. Arms(prog) \subseteq Node
    BY StmFacts DEF Arms, TypeOK
  <2> QED
    BY <2>1, <2>2 DEF Heads
<1> QED
  BY <1>1, <1>2, <1>3, <1>4, <1>5, NullAssumption

(* The next pending fragment or arm: generation resumes at its block. *)
LEMMA ResumeBlocks ==
  ASSUME TypeOK, TypeOK', RegsInv, BlockInv, phase = "gen", node = NoNode, todo # <<>>,
         UNCHANGED <<prog, phase, at, curC, fragMap, ovBB, out, made>>, todo' = Tail(todo),
         NEW n \in Heads, Starts(Head(todo)) = {n}, node' = n, bb' = BB(n),
         Head(todo).t # "cluster", Home(n) = curC, MadeIn(BB(n), curC)
  PROVE  BlockInv'
<1>1. /\ Done' = Done /\ Heads' = Heads
      /\ \A t : Starts(t)' = Starts(t)
      /\ \A k : Home(k)' = Home(k)
      /\ \A b : Closed(b)' <=> Closed(b)
      /\ n \in Node /\ NoNode \notin Heads
      /\ OnceClosed' /\ CodeIsDone'
  BY SameCode
<1>2. /\ Head(todo) = todo[1] /\ 1 \in DOMAIN todo
      /\ \A i \in DOMAIN todo' : i \in Nat /\ i > 0 /\ i + 1 \in DOMAIN todo /\ todo'[i] = todo[i + 1]
  BY TailCases
<1>3. Open
  BY <1>2 DEF Open
<1>4. \A b, c : MadeIn(b, c)' <=> MadeIn(b, c)
  BY DEF MadeIn
<1>5. HomeInv'
  <2>1. MadeAtHome' /\ OverflowAtHome' /\ GroupsAtHome'
    BY <1>1, <1>4 DEF BlockInv, HomeInv, MadeAtHome, OverflowAtHome, GroupsAtHome, GroupAtHome
  <2>2. ClusterOpen'
    BY <1>3 DEF BlockInv, HomeInv, ClusterOpen, InitBlocks
  <2>3. ClustersLast'
    BY <1>2 DEF BlockInv, HomeInv, ClustersLast
  <2>4. TasksAtHome'
    <3> SUFFICES ASSUME NEW i \in DOMAIN todo', NEW t, t = todo'[i] PROVE TaskAtHome(t)
      BY <1>1 DEF TasksAtHome, TaskAtHome
    <3> QED
      BY <1>2 DEF BlockInv, HomeInv, TasksAtHome
  <2>5. NodeAtHome'
    BY <1>1, <1>4 DEF NodeAtHome
  <2> QED
    BY <2>1, <2>2, <2>3, <2>4, <2>5 DEF HomeInv
<1>6. n \notin Done
  BY <1>2 DEF RegsInv, PendingFresh
<1>7. BB(n) \in Block /\ BB(n).at = n
  <2>1. BB(n) \in Block
    BY <1>1, NameTypes
  <2> QED
    BY <2>1 DEF BB, Blk
<1>8. InsertPointOpen'
  <2> DEFINE b == BB(n)
  <2>1. ~Closed(b)
    BY <1>6, <1>7 DEF BlockInv, TermInv, CodeIsDone, Closed
  <2> HIDE DEF b
  <2>2. ~Closed(b)'
    BY <1>1, <2>1
  <2> QED
    BY <1>7, <2>2 DEF InsertPointOpen, Closed, b, BB, Blk
<1>9. MadeClosed'
  <2> SUFFICES ASSUME NEW m \in made
               PROVE  \/ Closed(m.blk)
                      \/ m.blk = BB(n)
                      \/ /\ m.blk \in Block /\ m.blk.k = "bb"
                         /\ m.blk.at \in Heads /\ m.blk.at \notin Done \cup {n}
    BY <1>1 DEF MadeClosed
  <2>1. CASE m.blk \in Block /\ m.blk.k = "bb" /\ m.blk.at = n
    BY <2>1 DEF Block, BB, Blk
  <2> QED
    BY <2>1 DEF BlockInv, TermInv, MadeClosed
<1>10. HeadsClosed'
  <2> SUFFICES ASSUME NEW m \in (Done \cup {n}) \cap Heads PROVE Closed(BB(m)) \/ m = n
    <3> SUFFICES ASSUME NEW m \in (Done \cup {n}) \cap Heads, NEW b, b = BB(m)
                 PROVE  Closed(b)' \/ m = n
      BY <1>1 DEF HeadsClosed
    <3> QED
      BY <1>1
  <2> QED
    BY DEF BlockInv, TermInv, HeadsClosed
<1>11. Covered'
  <2>1. ASSUME NEW m, Pending(m) PROVE Pending(m)' \/ m = NoNode
    <3>1. CASE m \in Done \cup {NoNode}
      BY <1>1, <3>1 DEF Pending
    <3>2. CASE \E i \in DOMAIN todo : m \in Starts(todo[i])
      <4> PICK i \in DOMAIN todo : m \in Starts(todo[i])
        BY <3>2
      <4>1. CASE i = 1
        BY <1>2, <4>1 DEF Pending
      <4>2. CASE i # 1
        <5>1. i - 1 \in DOMAIN todo' /\ todo'[i - 1] = todo[i]
          BY <4>2, TailPlace
        <5> QED
          BY <1>1, <5>1 DEF Pending
      <4> QED
        BY <4>1, <4>2
    <3> QED
      BY <2>1, <3>1, <3>2 DEF Pending
  <2>2. \A m \in Bodies(prog) : m # NoNode
    BY <1>1 DEF Heads
  <2>3. \A k \in Done : \A m \in Children(prog, k) : m # NoNode
    BY StmFacts, NullAssumption DEF TypeOK, Done
  <2> QED
    BY <1>1, <2>1, <2>2, <2>3 DEF BlockInv, TermInv, Covered
<1>12. AllDone'
  BY DEF AllDone
<1> QED
  BY <1>1, <1>5, <1>8, <1>9, <1>10, <1>11, <1>12 DEF BlockInv, TermInv

(* A pending arm or fragment belongs to the open cluster. *)
LEMMA ResumeSteps ==
  ASSUME TypeOK, TypeOK', RegsInv, BlockInv, NextArm \/ BeginFrag
  PROVE  BlockInv'
<1>1. /\ phase = "gen" /\ node = NoNode /\ todo # <<>> /\ todo' = Tail(todo)
      /\ UNCHANGED <<prog, phase, at, curC, fragMap, ovBB, out, made>>
      /\ Head(todo).t \in {"arm", "frag"}
  BY DEF NextArm, BeginFrag, Returned, const, fnVars, ovVars, irVars
<1>2. /\ Head(todo) = todo[1] /\ 1 \in DOMAIN todo /\ Head(todo) \in Task
  BY <1>1, TailCases
<1> PICK h \in Task : h = Head(todo)
  BY <1>2
<1>3. Open /\ TaskAtHome(h) /\ prog \in Programs /\ curC \in DOMAIN prog.clusters
  BY <1>1, <1>2 DEF Open, BlockInv, HomeInv, TasksAtHome, ClusterOpen, TypeOK
<1>4. CASE NextArm
  <2>1. h.t = "arm" /\ node' = h.n /\ bb' = BB(h.n) /\ h.n \in Node
    BY <1>4 DEF NextArm, Returned, InsertPoint, Task
  <2>2. h.n \in Arms(prog) /\ Home(h.n) = curC /\ Starts(h) = {h.n}
    BY <1>3, <2>1 DEF TaskAtHome, Starts
  <2>3. h.n \in NodesOf(prog, curC)
    BY <1>3, <2>1, <2>2, HomeFacts DEF Home
  <2>4. h.n \in Heads /\ MadeIn(BB(h.n), curC)
    BY <1>3, <2>2, <2>3, HeadMade DEF Heads, BlockInv
  <2> QED
    BY <1>1, <2>1, <2>2, <2>4, ResumeBlocks
<1>5. CASE BeginFrag
  <2> DEFINE n == prog.frag[h.lab].body
  <2>1. h.t = "frag" /\ node' = n /\ bb' = BB(n)
    BY <1>5 DEF BeginFrag, Returned
  <2>2. h.lab \in Elems(prog.clusters[curC]) /\ Starts(h) = {n}
    BY <1>3, <2>1 DEF TaskAtHome, Starts
  <2>3. Home(n) = curC /\ n \in NodesOf(prog, curC) \cap Bodies(prog)
    BY <1>3, <2>2, BodyHome DEF Home
  <2>4. n \in Heads /\ MadeIn(BB(n), curC)
    BY <1>3, <2>3, HeadMade DEF Heads, BlockInv
  <2> HIDE DEF n
  <2> QED
    BY <1>1, <2>1, <2>2, <2>3, <2>4, ResumeBlocks
<1> QED
  BY <1>4, <1>5

(* Every fragment is in one of the clusters that comp_unit::codegen visits. *)
LEMMA BeginUnitBlocks ==
  ASSUME TypeOK, TypeOK', RegsInv, BlockInv, BeginUnit
  PROVE  BlockInv'
<1>1. /\ phase = "start" /\ phase' = "gen" /\ UNCHANGED <<prog, at, node, bb, ovBB, out, made>>
      /\ todo' = [c \in DOMAIN prog.clusters |-> [t |-> "cluster", c |-> c]]
  BY DEF BeginUnit, const, ovVars, irVars
<1>2. /\ Done' = Done /\ Heads' = Heads
      /\ \A t : Starts(t)' = Starts(t)
      /\ \A k : Home(k)' = Home(k)
      /\ \A b : Closed(b)' <=> Closed(b)
      /\ OnceClosed' /\ CodeIsDone'
  BY <1>1, SameCode
<1>3. node = NoNode /\ node' = NoNode /\ Done = {} /\ ovBB = NoBlock
  BY <1>1 DEF RegsInv, NothingDone, BlockInv, HomeInv, OverflowAtHome
<1>4. \A i \in DOMAIN todo' : todo'[i].t = "cluster" /\ todo'[i].c = i
  BY <1>1
<1>5. HomeInv'
  <2>1. MadeAtHome' /\ GroupsAtHome'
    BY <1>1, <1>2 DEF BlockInv, HomeInv, MadeAtHome, GroupsAtHome, GroupAtHome, MadeIn
  <2>2. ClusterOpen' /\ ClustersLast' /\ TasksAtHome' /\ NodeAtHome'
    BY <1>3, <1>4 DEF ClusterOpen, Open, ClustersLast, TasksAtHome, TaskAtHome, NodeAtHome
  <2>3. OverflowAtHome'
    BY <1>1, <1>3 DEF OverflowAtHome
  <2> QED
    BY <2>1, <2>2, <2>3 DEF HomeInv
<1>6. InsertPointOpen' /\ AllDone'
  BY <1>1, <1>3 DEF InsertPointOpen, AllDone
<1>7. MadeClosed' /\ HeadsClosed'
  <2>1. MadeClosed'
    BY <1>1, <1>2 DEF BlockInv, TermInv, MadeClosed
  <2>2. HeadsClosed'
    <3> SUFFICES ASSUME NEW m \in {NoNode} \cap Heads PROVE FALSE
      BY <1>2, <1>3 DEF HeadsClosed
    <3> QED
      BY <1>1, SameCode
  <2> QED
    BY <2>1, <2>2
<1>8. Covered'
  <2>1. ASSUME NEW m \in Bodies(prog) PROVE Pending(m)'
    <3>1. PICK l \in Lab : m = prog.frag[l].body
      BY DEF Bodies
    <3>2. PICK c \in DOMAIN prog.clusters : l \in Elems(prog.clusters[c])
      BY ProgramsAssumption, SMTT(60) DEF TypeOK, WellFormed, WellLinked
    <3>3. c \in DOMAIN todo' /\ todo'[c].t = "cluster" /\ todo'[c].c = c
      BY <1>1
    <3>4. m \in Starts(todo'[c])
      BY <3>1, <3>2, <3>3 DEF Starts
    <3> QED
      BY <1>2, <3>3, <3>4 DEF Pending
  <2>2. prog' = prog /\ Done' = {}
    BY <1>1, <1>2, <1>3
  <2> QED
    BY <2>1, <2>2 DEF Covered
<1> QED
  BY <1>2, <1>5, <1>6, <1>7, <1>8 DEF BlockInv, TermInv

(* The init methods make the blocks of a cluster in the cluster's function,
   for statements that are all still to come. *)
LEMMA BeginClusterBlocks ==
  ASSUME TypeOK, TypeOK', RegsInv, BlockInv, BeginCluster
  PROVE  BlockInv'
<1>1. /\ phase = "gen" /\ node = NoNode /\ UNCHANGED <<prog, phase, at, node, out>>
      /\ todo # <<>> /\ Head(todo).t = "cluster"
  BY Zenon DEF BeginCluster, Returned, const
<1>2. /\ Head(todo) = todo[1] /\ 1 \in DOMAIN todo /\ Head(todo) \in Task /\ Tail(todo) \in Seq(Task)
      /\ \A i \in DOMAIN Tail(todo) :
           i \in Nat /\ i > 0 /\ i + 1 \in DOMAIN todo /\ Tail(todo)[i] = todo[i + 1]
  BY <1>1, TailCases
<1> PICK h \in Task : h = Head(todo)
  BY <1>2
<1>3. h.c \in DOMAIN prog.clusters /\ prog \in Programs
  BY <1>1 DEF Task, TypeOK
<1> PICK c \in DOMAIN prog.clusters : c = h.c
  BY <1>3
<1> PICK frags \in Seq(Lab) : frags = prog.clusters[c]
  BY <1>3, ClusterStarts, Zenon
<1> DEFINE new == [i \in DOMAIN frags |-> [t |-> "frag", lab |-> frags[i], entry |-> i = 1]]
           rest == Tail(todo)
<1>4. /\ curC' = c /\ ovBB' = NoBlock /\ fragMap' = Elems(frags) /\ made' = made \cup InitBlocks(c)
      /\ todo' = new \o rest
  BY Zenon DEF BeginCluster, ClearedOverflow
<1>5. /\ Done' = Done /\ Heads' = Heads
      /\ \A t : Starts(t)' = Starts(t)
      /\ \A k : Home(k)' = Home(k)
      /\ \A b : Closed(b)' <=> Closed(b)
      /\ Heads \subseteq Node /\ NoNode \notin Heads
      /\ OnceClosed' /\ CodeIsDone'
  BY <1>1, SameCode
<1>6. DOMAIN frags = 1..Len(frags) /\ Len(frags) \in Nat /\ \A i \in DOMAIN frags : frags[i] \in Lab
  OBVIOUS
<1>7. new \in Seq(Task) /\ rest \in Seq(Task)
  <2>1. new \in [1..Len(frags) -> Task]
    BY <1>6, Zenon DEF Task
  <2> QED
    BY <1>2, <1>6, <2>1, SeqDef
<1>8. /\ \A i \in DOMAIN new : new[i].t = "frag" /\ new[i].lab \in Elems(prog.clusters[c])
      /\ \A i \in DOMAIN frags : i \in DOMAIN new /\ new[i].t = "frag" /\ new[i].lab = frags[i]
  BY DEF Elems
<1>9. \A i \in DOMAIN rest : rest[i].t = "cluster"
  BY <1>1, <1>2 DEF BlockInv, HomeInv, ClustersLast
<1>10. /\ \A i \in DOMAIN todo' :
            \/ i \in DOMAIN new /\ todo'[i] = new[i]
            \/ i - Len(new) \in DOMAIN rest /\ i > Len(new) /\ todo'[i] = rest[i - Len(new)]
       /\ DOMAIN todo' = 1..Len(new) + Len(rest)
       /\ DOMAIN new = 1..Len(new) /\ Len(new) \in Nat
       /\ DOMAIN rest = 1..Len(rest) /\ Len(rest) \in Nat
       /\ \A i \in DOMAIN new : i \in DOMAIN todo' /\ todo'[i] = new[i]
       /\ \A i \in DOMAIN rest : Len(new) + i \in DOMAIN todo' /\ todo'[Len(new) + i] = rest[i]
  <2> HIDE DEF new, rest
  <2> QED
    BY <1>4, <1>7, ConcatCases, LaterPlace
<1>11. \A m \in InitBlocks(c) :
         /\ m.blk \in Block /\ m.blk.k = "bb" /\ m.blk.at \in Heads /\ m.blk = BB(m.blk.at)
         /\ m.fn = c /\ Home(m.blk.at) = c
  <2> SUFFICES ASSUME NEW n \in NodesOf(prog, c), n \in Heads,
                      NEW m, m = [blk |-> BB(n), fn |-> c]
               PROVE  /\ m.blk \in Block /\ m.blk.k = "bb" /\ m.blk.at = n /\ m.blk = BB(n)
                      /\ m.fn = c /\ Home(n) = c
    BY DEF InitBlocks, Heads
  <2>1. n \in Node /\ prog.owner[n] \in Elems(prog.clusters[c])
    BY DEF NodesOf
  <2>2. Home(n) = c
    BY <1>3, <2>1, ClusterHome DEF Home
  <2>3. BB(n) \in Block
    BY <2>1, NameTypes
  <2>4. m.blk = BB(n) /\ m.fn = c
    OBVIOUS
  <2>5. m.blk.k = "bb" /\ m.blk.at = n
    BY <2>4 DEF BB, Blk
  <2> QED
    BY <2>2, <2>3, <2>4, <2>5
<1>12. Elems(frags) = Elems(prog.clusters[c])
  OBVIOUS
<1> HIDE DEF new, rest
<1>13. HomeInv'
  <2>1. MadeAtHome'
    <3> SUFFICES ASSUME NEW m \in made' PROVE m.blk \in Block /\ m.fn = Home(m.blk.at)
      BY <1>5 DEF MadeAtHome
    <3> QED
      BY <1>4, <1>11 DEF BlockInv, HomeInv, MadeAtHome
  <2>2. ClusterOpen'
    BY <1>1, <1>4, <1>12 DEF ClusterOpen, InitBlocks
  <2>3. ClustersLast'
    <3> SUFFICES ASSUME NEW i \in DOMAIN todo', NEW j \in DOMAIN todo', i < j, todo'[j].t # "cluster"
                 PROVE  todo'[i].t # "cluster"
      BY DEF ClustersLast
    <3>1. j \in DOMAIN new
      BY <1>9, <1>10
    <3>2. i \in DOMAIN new
      BY <1>10, <3>1
    <3> QED
      BY <1>8, <1>10, <3>2
  <2>4. TasksAtHome'
    <3> SUFFICES ASSUME NEW i \in DOMAIN todo', NEW t, t = todo'[i]
                 PROVE  /\ t.t = "frag" => t.lab \in Elems(prog.clusters[c])
                        /\ t.t # "arm"
      BY <1>1, <1>4 DEF TasksAtHome, TaskAtHome
    <3>1. CASE i \in DOMAIN new /\ t = new[i]
      BY <1>8, <3>1
    <3>2. CASE i - Len(new) \in DOMAIN rest /\ t = rest[i - Len(new)]
      BY <1>9, <3>2
    <3> QED
      BY <1>10, <3>1, <3>2
  <2>5. NodeAtHome' /\ OverflowAtHome'
    BY <1>1, <1>4 DEF NodeAtHome, OverflowAtHome
  <2>6. GroupsAtHome'
    BY <1>1, <1>4, <1>5 DEF BlockInv, HomeInv, GroupsAtHome, GroupAtHome, MadeIn
  <2> QED
    BY <2>1, <2>2, <2>3, <2>4, <2>5, <2>6 DEF HomeInv
<1>14. InsertPointOpen' /\ AllDone'
  BY <1>1 DEF InsertPointOpen, AllDone
<1>15. \A m \in Done \cap Heads : Closed(BB(m))
  BY <1>1 DEF BlockInv, TermInv, HeadsClosed
<1>16. HeadsClosed'
  <2> SUFFICES ASSUME NEW m \in Done \cap Heads, NEW b, b = BB(m) PROVE Closed(b)'
    BY <1>1, <1>5 DEF HeadsClosed
  <2> QED
    BY <1>5, <1>15
<1>17. MadeClosed'
  <2> SUFFICES ASSUME NEW m \in made'
               PROVE  \/ Closed(m.blk)
                      \/ /\ m.blk \in Block /\ m.blk.k = "bb"
                         /\ m.blk.at \in Heads /\ m.blk.at \notin Done \cup {node}
    BY <1>1, <1>5 DEF MadeClosed
  <2>1. CASE m \in made
    BY <1>1, <2>1 DEF BlockInv, TermInv, MadeClosed
  <2>2. CASE m \in InitBlocks(c)
    BY <1>1, <1>5, <1>11, <1>15, <2>2
  <2> QED
    BY <1>4, <2>1, <2>2
<1>18. Covered'
  <2>1. ASSUME NEW m, Pending(m) PROVE Pending(m)'
    <3>1. CASE m \in Done \cup {node}
      BY <1>1, <1>5, <3>1 DEF Pending
    <3>2. CASE \E i \in DOMAIN todo : m \in Starts(todo[i])
      <4> PICK i \in DOMAIN todo : m \in Starts(todo[i])
        BY <3>2
      <4>1. CASE i = 1
        <5>1. PICK l \in Elems(frags) : m = prog.frag[l].body
          BY <1>1, <1>2, <1>12, <4>1 DEF Starts
        <5>2. PICK k \in DOMAIN frags : l = frags[k]
          BY DEF Elems
        <5>3. k \in DOMAIN todo' /\ todo'[k] = new[k]
          BY <1>8, <1>10, ZenonT(30)
        <5>4. m \in Starts(new[k])
          BY <1>8, <5>1, <5>2 DEF Starts
        <5> QED
          BY <1>5, <5>3, <5>4 DEF Pending
      <4>2. CASE i # 1
        <5>1. i - 1 \in DOMAIN rest /\ rest[i - 1] = todo[i]
          BY <1>1, <4>2, TailPlace DEF rest
        <5>2. Len(new) + (i - 1) \in DOMAIN todo' /\ todo'[Len(new) + (i - 1)] = todo[i]
          BY <1>10, <5>1
        <5> QED
          BY <1>5, <5>2 DEF Pending
      <4> QED
        BY <4>1, <4>2
    <3> QED
      BY <2>1, <3>1, <3>2 DEF Pending
  <2>2. /\ \A m \in Bodies(prog) : Pending(m)
        /\ \A n \in Done : \A m \in Children(prog, n) : Pending(m)
    BY <1>1 DEF BlockInv, TermInv, Covered
  <2>3. prog' = prog /\ Done' = Done
    BY <1>1, <1>5
  <2> QED
    BY <2>1, <2>2, <2>3 DEF Covered
<1> QED
  BY <1>5, <1>13, <1>14, <1>16, <1>17, <1>18 DEF BlockInv, TermInv

(* Before a unit is begun there are no blocks. *)
LEMMA InitBlockInv == Init => BlockInv
<1> SUFFICES ASSUME Init PROVE BlockInv
  OBVIOUS
<1>1. /\ phase = "start" /\ todo = <<>> /\ node = NoNode /\ ovBB = NoBlock
      /\ out = <<>> /\ made = {} /\ at = NotVisited /\ prog \in Programs
  BY DEF Init
<1>2. DOMAIN todo = {} /\ DOMAIN out = {}
  BY <1>1
<1>3. HomeInv
  BY <1>1, <1>2 DEF HomeInv, MadeAtHome, ClusterOpen, Open, ClustersLast, TasksAtHome, NodeAtHome,
                    OverflowAtHome, GroupsAtHome
<1>4. OnceClosed /\ CodeIsDone /\ InsertPointOpen /\ MadeClosed /\ Covered /\ AllDone
  BY <1>1, <1>2 DEF OnceClosed, CodeIsDone, InsertPointOpen, MadeClosed, Covered, AllDone
<1>5. Done = {}
  BY <1>1 DEF Done, Visited, NotVisited
<1>6. NoNode \notin Heads
  <2>1. Bodies(prog) \subseteq Node
    BY <1>1, UnitFacts DEF Bodies
  <2>2. Arms(prog) \subseteq Node
    BY <1>1, StmFacts DEF Arms
  <2> QED
    BY <2>1, <2>2, NullAssumption DEF Heads
<1>7. HeadsClosed
  BY <1>1, <1>5, <1>6 DEF HeadsClosed
<1> QED
  BY <1>3, <1>4, <1>7 DEF BlockInv, TermInv

(* Steps that leave code and pending work alone. *)
LEMMA IdleBlocks ==
  ASSUME TypeOK, BlockInv, EndUnit \/ Finished \/ UNCHANGED vars
  PROVE  BlockInv'
<1>1. /\ phase' = phase \/ (phase' = "done" /\ phase = "gen" /\ node = NoNode /\ todo = <<>>)
      /\ UNCHANGED <<prog, todo, node, bb, curC, fragMap, ovBB, out, made, at>>
  BY DEF EndUnit, Finished, vars, const, fnVars, ovVars, irVars
<1>2. HomeInv'
  BY <1>1 DEF BlockInv, HomeInv, MadeAtHome, ClusterOpen, Open, ClustersLast, TasksAtHome, TaskAtHome,
              NodeAtHome, OverflowAtHome, GroupsAtHome, GroupAtHome, MadeIn, InitBlocks, Home
<1>3. /\ Done' = Done /\ Heads' = Heads
      /\ \A t : Starts(t)' = Starts(t)
      /\ \A b : Closed(b)' <=> Closed(b)
      /\ OnceClosed' /\ CodeIsDone'
  BY <1>1, SameCode
<1>4. InsertPointOpen' /\ HeadsClosed' /\ MadeClosed'
  BY <1>1, <1>3 DEF BlockInv, TermInv, InsertPointOpen, HeadsClosed, MadeClosed, BB, Blk
<1>5. Covered'
  BY <1>1, <1>3 DEF BlockInv, TermInv, Covered, Pending
<1>6. AllDone'
  BY <1>1 DEF BlockInv, TermInv, AllDone
<1> QED
  BY <1>2, <1>3, <1>4, <1>5, <1>6 DEF BlockInv, TermInv

(* Every step preserves both invariants: one lemma per method, or group of methods. *)
LEMMA StepBlocks == TypeOK /\ TypeOK' /\ RegsInv /\ BlockInv /\ [Next]_vars => BlockInv'
<1> SUFFICES ASSUME TypeOK, TypeOK', RegsInv, BlockInv, [Next]_vars PROVE BlockInv'
  OBVIOUS
<1>1. CASE BeginUnit
  BY <1>1, BeginUnitBlocks
<1>2. CASE BeginCluster
  BY <1>2, BeginClusterBlocks
<1>3. CASE NextArm \/ BeginFrag
  BY <1>3, ResumeSteps
<1>4. CASE GenLet \/ GenAlloc \/ GenSetter \/ GenCallGC \/ (GenArith /\ S.prim = "DIV")
  BY <1>4, LineBlocks
<1>5. CASE GenArith /\ S.prim # "DIV"
  BY <1>5, TrapBlocks
<1>6. CASE GenBranch
  BY <1>6, BranchBlocks
<1>7. CASE GenSwitch
  BY <1>7, SwitchBlocks
<1>8. CASE GenGoto \/ GenApply \/ GenThrow
  BY <1>8, LeafBlocks
<1>9. CASE EndUnit \/ Finished \/ UNCHANGED vars
  BY <1>9, IdleBlocks
<1> QED
  BY <1>1, <1>2, <1>3, <1>4, <1>5, <1>6, <1>7, <1>8, <1>9 DEF Next, Step, GenStm

(***************************************************************************)
(* Both invariants hold in every reachable state.                          *)
(***************************************************************************)
THEOREM BlocksInvariant == Spec => []BlockInv
<1>1. Init => RegsInv /\ BlockInv
  BY InitRegs, InitBlockInv
<1>2. TypeOK /\ TypeOK' /\ RegsInv /\ BlockInv /\ [Next]_vars => RegsInv' /\ BlockInv'
  BY StepRegs, StepBlocks
<1> QED
  BY <1>1, <1>2, TypeCorrect, PTL DEF Spec

(***************************************************************************)
(* A branch stays in its function, for every well-formed unit: the insert  *)
(* point, the overflow block that a cluster shares and the targets of a    *)
(* GOTO are blocks of the function of the cluster being generated, also    *)
(* where fragments and arms of other clusters are still pending.           *)
(***************************************************************************)
THEOREM BranchesStay == Spec => []StaysInFunction
<1>1. TypeOK /\ BlockInv => StaysInFunction
  <2> SUFFICES ASSUME TypeOK, BlockInv, NEW i \in DOMAIN out, NEW g, g = out[i],
                      NEW b \in {g.blk} \cup Elems(g.end.to)
               PROVE  {m.fn : m \in {k \in made : k.blk = b}} = {Home(g.at)}
    BY DEF StaysInFunction, Groups, Elems, Home
  <2>1. [blk |-> b, fn |-> Home(g.at)] \in made
    BY DEF BlockInv, HomeInv, GroupsAtHome, GroupAtHome, MadeIn
  <2>2. \A m \in made : m.fn = Home(m.blk.at)
    BY DEF BlockInv, HomeInv, MadeAtHome
  <2> DEFINE c == Home(g.at)
             w == [blk |-> b, fn |-> c]
  <2>3. w \in made /\ w.blk = b /\ w.fn = c
    BY <2>1
  <2> HIDE DEF w, c
  <2>4. c = Home(b.at)
    BY <2>2, <2>3
  <2>5. {m.fn : m \in {k \in made : k.blk = b}} = {c}
    BY <2>2, <2>3, <2>4
  <2> QED
    BY <2>5 DEF c
<1> QED
  BY <1>1, TypeCorrect, BlocksInvariant, PTL

(* When nothing is pending, every statement has been generated: a statement
   that was not would have a least one, which is a body or whose parent,
   being less, was generated. *)
LEMMA EverythingDone ==
  ASSUME TypeOK, BlockInv, phase = "done"
  PROVE  Node \subseteq Done
<1> DEFINE Missing == Node \ Done
<1> SUFFICES ASSUME Missing # {} PROVE FALSE
  OBVIOUS
<1>1. /\ node = NoNode /\ todo = <<>> /\ prog \in Programs
      /\ \A m \in Bodies(prog) : Pending(m)
      /\ \A n \in Done : \A m \in Children(prog, n) : Pending(m)
  BY DEF BlockInv, TermInv, AllDone, Covered, TypeOK
<1>2. \A m \in Node : Pending(m) => m \in Done
  BY <1>1, NullAssumption DEF Pending
<1>3. Missing \in SUBSET Nat
  BY NodeAssumption
<1> HIDE DEF Missing
<1>4. PICK m \in Missing : \A k \in Missing : m <= k
  BY <1>3, LeastNat
<1> USE DEF Missing
<1>5. m \in Node /\ m \notin Bodies(prog)
  BY <1>1, <1>2
<1>6. PICK n \in Node : m \in Children(prog, n)
  BY <1>1, <1>5, ProgramsAssumption DEF WellFormed, Rooted
<1>7. n < m
  BY <1>1, <1>6, ProgramsAssumption DEF WellFormed, IsForest
<1>8. n \in Done
  BY <1>4, <1>5, <1>6, <1>7, NodeAssumption
<1> QED
  BY <1>1, <1>2, <1>5, <1>6, <1>8

(***************************************************************************)
(* One terminator a block, for every well-formed unit: no codegen method   *)
(* appends to a block that an earlier one has terminated, and none of the  *)
(* blocks that the init methods, ARITH and SWITCH create is left open when *)
(* the module is complete.                                                 *)
(***************************************************************************)
THEOREM BlocksTerminated == Spec => []OneTerminator
<1>1. TypeOK /\ BlockInv => OneTerminator
  <2> SUFFICES ASSUME TypeOK, BlockInv PROVE OneTerminator
    OBVIOUS
  <2>1. \A i, j \in DOMAIN out : i < j /\ out[i].blk = out[j].blk => ~Terminates(out[i])
    BY DEF BlockInv, TermInv, OnceClosed
  <2>2. ASSUME phase = "done", NEW m \in made
        PROVE  \E g \in Groups : g.blk = m.blk /\ Terminates(g)
    <3>1. node = NoNode
      BY <2>2 DEF BlockInv, TermInv, AllDone
    <3>2. Heads \subseteq Node
      <4>1. Bodies(prog) \subseteq Node
        BY UnitFacts DEF Bodies, TypeOK
      <4>2. Arms(prog) \subseteq Node
        BY StmFacts DEF Arms, TypeOK
      <4> QED
        BY <4>1, <4>2 DEF Heads
    <3>3. Closed(m.blk)
      BY <2>2, <3>1, <3>2, EverythingDone DEF BlockInv, TermInv, MadeClosed
    <3> QED
      BY <3>3 DEF Closed, Groups, Elems
  <2> QED
    BY <2>1, <2>2 DEF OneTerminator
<1> QED
  BY <1>1, TypeCorrect, BlocksInvariant, PTL

-----------------------------------------------------------------------------
(***************************************************************************)
(* Definitions dominate uses.  What a statement may use it takes from the  *)
(* register state and the variable map; both are shared by all arms of a   *)
(* fragment.  Inductively, whatever the current statement or a pending arm *)
(* can look up in them is computed on the path to it, and all of these are *)
(* of one fragment, so that none of them can rebind what another looks up. *)
(***************************************************************************)

(* The registers rs and the variables in scope at n reach it. *)
Supplied(n, rs) ==
  /\ \A r \in mach : rs[r] \in Reaches(n)
  /\ \A z \in prog.scope[n] : vMap[z] \in Reaches(n)

(* What is bound was bound in the fragment of n, by statements that are done. *)
BoundHere(n) ==
  \A z \in Var : vMap[z] # NoVal =>
    \/ z \in Elems(prog.frag[prog.owner[n]].params)
    \/ \E k \in Done : prog.owner[k] = prog.owner[n] /\ z \in Elems(prog.stm[k].res)

NodeSupplied == node # NoNode => Supplied(node, regState) /\ BoundHere(node)

ArmsSupplied ==
  \A i \in DOMAIN todo : todo[i].t = "arm" =>
    /\ Supplied(todo[i].n, todo[i].saved) /\ BoundHere(todo[i].n)
    /\ node # NoNode => prog.owner[todo[i].n] = prog.owner[node]
    /\ \A j \in DOMAIN todo : todo[j].t = "arm" => prog.owner[todo[j].n] = prog.owner[todo[i].n]

FragKinds ==
  \A i \in DOMAIN todo : todo[i].t = "frag" =>
    (todo[i].entry <=> prog.frag[todo[i].lab].kind # "INTERNAL")

DomInv == NodeSupplied /\ ArmsSupplied /\ FragKinds /\ DefsDominateUses

-----------------------------------------------------------------------------
(***************************************************************************)
(* PHI nodes match predecessors.  Inductively, this holds of all blocks,   *)
(* made or not, and the PHI nodes of the overflow block are those that the *)
(* first trapping operation of the cluster made.                           *)
(***************************************************************************)

(* The PHI nodes of block b have one entry for each branch to b. *)
PhisComplete(b) ==
  \A v \in PhisOf(b) :
    LET mine == {e \in inc : e.phi = v} IN
    /\ {e.pred : e \in mine} = Preds(b)
    /\ \A e, f \in mine : e.pred = f.pred => e = f

OverflowPhis ==
  IF ovBB = NoBlock THEN \A r \in Reg : ovPhis[r] = NoVal
  ELSE /\ ovBB \in Block /\ ovBB.k = "overflow"
       /\ \A r \in mach : ovPhis[r] = V("ovphi", ovBB.at, r)

PhiInv ==
  /\ \A b \in Block : PhisComplete(b)
  /\ \A e \in inc : \E m \in made : e.phi \in PhisOf(m.blk)
  /\ OverflowPhis

-----------------------------------------------------------------------------
(* Paths and what reaches a statement. *)

(* The recursive function in Path exists: it maps a statement to the least
   set that has it and is closed under parents. *)
LEMMA PathEquation ==
  ASSUME NEW p, NEW n \in Node
  PROVE  Path(p, n) =
           {n} \cup UNION {Path(p, k) : k \in {j \in Node : j < n /\ n \in Children(p, j)}}
<1> DEFINE Above(m) == {j \in Node : j < m /\ m \in Children(p, j)}
           Closed1(T) == \A k \in T : Above(k) \subseteq T
           F == [m \in Node |->
                   {k \in Node : \A T \in SUBSET Node : m \in T /\ Closed1(T) => k \in T}]
           IsPath(f) == f = [m \in Node |-> {m} \cup UNION {f[k] : k \in Above(m)}]
<1>1. ASSUME NEW m \in Node PROVE F[m] = {m} \cup UNION {F[k] : k \in Above(m)}
  <2> DEFINE G == {m} \cup UNION {F[k] : k \in Above(m)}
  <2>1. G \subseteq F[m]
    <3>1. m \in F[m]
      OBVIOUS
    <3>2. ASSUME NEW k \in Above(m), NEW z \in F[k] PROVE z \in F[m]
      <4> SUFFICES ASSUME NEW T \in SUBSET Node, m \in T, Closed1(T) PROVE z \in T
        OBVIOUS
      <4>1. k \in T
        OBVIOUS
      <4> QED
        BY <4>1
    <3> QED
      BY <3>1, <3>2
  <2>2. F[m] \subseteq G
    <3>1. G \in SUBSET Node
      OBVIOUS
    <3>2. ASSUME NEW k \in G, NEW j \in Above(k) PROVE j \in G
      <4>1. CASE k = m
        <5>1. j \in F[j]
          OBVIOUS
        <5> QED
          BY <4>1, <5>1
      <4>2. CASE k # m
        <5>1. PICK i \in Above(m) : k \in F[i]
          BY <4>2
        <5>2. j \in F[i]
          BY <5>1
        <5> QED
          BY <5>1, <5>2
      <4> QED
        BY <4>1, <4>2
    <3>3. m \in G
      OBVIOUS
    <3> QED
      BY <3>1, <3>2, <3>3
  <2> QED
    BY <2>1, <2>2
<1>2. IsPath(F)
  <2> DEFINE H == [m \in Node |-> {m} \cup UNION {F[k] : k \in Above(m)}]
  <2> HIDE DEF Above
  <2>1. DOMAIN F = Node /\ F = [m \in Node |-> F[m]]
    OBVIOUS
  <2> HIDE DEF F
  <2>2. F = H
    BY <1>1, <2>1
  <2> QED
    BY <2>2
<1> DEFINE path == CHOOSE f : IsPath(f)
<1>3. IsPath(path)
  <2> HIDE DEF IsPath
  <2> QED
    BY <1>2
<1>4. \A m \in Node : Path(p, m) = path[m]
  BY DEF Path
<1>5. path[n] = {n} \cup UNION {path[k] : k \in Above(n)}
  <2> HIDE DEF path, Above
  <2> QED
    BY <1>3
<1>6. {Path(p, k) : k \in Above(n)} = {path[k] : k \in Above(n)}
  <2> HIDE DEF path
  <2> QED
    BY <1>4
<1> QED
  BY <1>4, <1>5, <1>6

(* A path ends in its statement, and goes on to the children. *)
LEMMA PathFacts ==
  ASSUME NEW p \in Programs, NEW n \in Node
  PROVE  /\ n \in Path(p, n)
         /\ \A m \in Children(p, n) : m \in Node /\ Path(p, n) \subseteq Path(p, m)
<1>1. n \in Path(p, n)
  BY PathEquation
<1>2. ASSUME NEW m \in Children(p, n) PROVE m \in Node /\ Path(p, n) \subseteq Path(p, m)
  <2>1. m \in Node
    BY StmFacts
  <2>2. n < m
    BY ProgramsAssumption DEF WellFormed, IsForest
  <2> QED
    BY <2>1, <2>2, PathEquation
<1> QED
  BY <1>1, <1>2

(* The parameters of a fragment are in scope in all of it. *)
LEMMA ParamsScoped ==
  ASSUME NEW p \in Programs, NEW n \in Node
  PROVE  Elems(p.frag[p.owner[n]].params) \subseteq p.scope[n]
<1> DEFINE Bad == {m \in Node : ~(Elems(p.frag[p.owner[m]].params) \subseteq p.scope[m])}
<1> SUFFICES ASSUME Bad # {} PROVE FALSE
  OBVIOUS
<1>1. Bad \in SUBSET Nat
  BY NodeAssumption
<1> HIDE DEF Bad
<1>2. PICK m \in Bad : \A k \in Bad : m <= k
  BY <1>1, LeastNat
<1> USE DEF Bad
<1>3. WellScoped(p) /\ IsForest(p) /\ Rooted(p)
  BY ProgramsAssumption DEF WellFormed
<1>4. m \in Node /\ ~(Elems(p.frag[p.owner[m]].params) \subseteq p.scope[m])
  BY <1>2
<1>5. CASE m \in Bodies(p)
  <2>1. PICK l \in Lab : m = p.frag[l].body
    BY <1>5 DEF Bodies
  <2> QED
    <3>1. p.owner[p.frag[l].body] = l /\ p.scope[p.frag[l].body] = Elems(p.frag[l].params)
      BY <1>3, <2>1 DEF WellScoped
    <3>2. p.owner[m] = l /\ p.scope[m] = Elems(p.frag[l].params)
      BY <2>1, <3>1
    <3> QED
      BY <1>4, <3>2
<1>6. CASE \E k \in Node : m \in Children(p, k)
  <2>1. PICK k \in Node : m \in Children(p, k)
    BY <1>6
  <2>2. p.owner[m] = p.owner[k] /\ p.scope[k] \subseteq p.scope[m]
    BY <1>3, <2>1 DEF WellScoped
  <2>3. k < m
    BY <1>3, <2>1 DEF IsForest
  <2>4. k \in Bad
    BY <1>4, <2>2
  <2> QED
    BY <1>2, <1>4, <2>3, <2>4, NodeAssumption
<1> QED
  BY <1>3, <1>4, <1>5, <1>6 DEF Rooted

(* A statement and its children are in one fragment, so what reaches the
   statement reaches them.  What reaches a statement stays when code is
   added, and what the code of a statement defines reaches it. *)
LEMMA ReachesGrows ==
  ASSUME TypeOK, TypeOK', UNCHANGED <<prog, mach>>,
         NEW es \in Seq(GroupType), out' = out \o es
  PROVE  /\ \A k \in Node : Reaches(k) \subseteq Reaches(k)'
         /\ \A g \in Elems(es) : Defs(g) \subseteq Reaches(g.at)'
         /\ \A k \in Node : \A m \in Children(prog, k) : Reaches(k)' \subseteq Reaches(m)'
         /\ Groups' = Groups \cup Elems(es)
<1>1. prog \in Programs /\ out \in Seq(GroupType)
  BY DEF TypeOK
<1>2. Elems(out') = Elems(out) \cup Elems(es)
  <2>1. \A g \in Elems(out') : g \in Elems(out) \cup Elems(es)
    BY <1>1, ConcatCases DEF Elems
  <2>2. /\ \A i \in DOMAIN out : i \in DOMAIN out' /\ out'[i] = out[i]
        /\ \A i \in DOMAIN es : Len(out) + i \in DOMAIN out' /\ out'[Len(out) + i] = es[i]
    BY <1>1, LaterPlace
  <2>3. \A g \in Elems(out) \cup Elems(es) : g \in Elems(out')
    BY <2>2 DEF Elems
  <2> QED
    BY <2>1, <2>3
<1>3. \A g : Defs(g)' = Defs(g)
  BY DEF Defs
<1>4. ASSUME NEW k \in Node PROVE Reaches(k) \subseteq Reaches(k)'
  BY <1>2, <1>3 DEF Reaches, Groups
<1>5. ASSUME NEW g \in Elems(es) PROVE Defs(g) \subseteq Reaches(g.at)'
  <2>1. g \in GroupType
    BY DEF Elems
  <2>2. g.at \in Node
    BY <2>1 DEF GroupType
  <2>3. g.at \in Path(prog, g.at)
    BY <1>1, <2>2, PathFacts
  <2>4. g \in Groups' /\ Defs(g)' = Defs(g) /\ g.at \in Path(prog', g.at)
    BY <1>2, <1>3, <2>3 DEF Groups
  <2> QED
    BY <2>4 DEF Reaches
<1>6. ASSUME NEW k \in Node, NEW m \in Children(prog, k) PROVE Reaches(k)' \subseteq Reaches(m)'
  <2>1. Path(prog, k) \subseteq Path(prog, m) /\ prog.owner[m] = prog.owner[k]
    BY <1>1, PathFacts, HomeFacts
  <2>2. Path(prog', k) \subseteq Path(prog', m) /\ prog'.owner[m] = prog'.owner[k]
    BY <2>1
  <2> QED
    BY <2>2 DEF Reaches
<1> QED
  BY <1>2, <1>4, <1>5, <1>6 DEF Groups

(* The results of a statement are not bound before it is generated. *)
LEMMA ResFresh ==
  ASSUME TypeOK, RegsInv, DomInv, node \in Node
  PROVE  \A z \in Elems(S.res) : z \in Var /\ vMap[z] = NoVal
<1>1. /\ prog \in Programs /\ node \notin Done /\ BoundHere(node)
      /\ S \in Stm
  BY StmFacts, NullAssumption DEF TypeOK, RegsInv, NodeReady, DomInv, NodeSupplied, S
<1>2. WellScoped(prog)
  BY <1>1, ProgramsAssumption DEF WellFormed
<1> SUFFICES ASSUME NEW z \in Elems(S.res) PROVE z \in Var /\ vMap[z] = NoVal
  OBVIOUS
<1>3. z \in Var
  BY <1>1 DEF Stm, Elems
<1>4. CASE z \in Elems(prog.frag[prog.owner[node]].params)
  <2>1. z \in prog.scope[node]
    BY <1>1, <1>4, ParamsScoped
  <2> QED
    BY <1>2, <2>1 DEF WellScoped, S
<1>5. CASE \E k \in Done : prog.owner[k] = prog.owner[node] /\ z \in Elems(prog.stm[k].res)
  <2>1. PICK k \in Done : prog.owner[k] = prog.owner[node] /\ z \in Elems(prog.stm[k].res)
    BY <1>5
  <2>2. k \in Node \ {node}
    BY <1>1 DEF Done
  <2> QED
    BY <1>2, <2>1, <2>2 DEF WellScoped, S
<1> QED
  BY <1>1, <1>3, <1>4, <1>5 DEF BoundHere

-----------------------------------------------------------------------------
(***************************************************************************)
(* What the codegen method of statement n does with values: the groups es  *)
(* that it appends, the arms `new` that it leaves pending and the entries  *)
(* `news` that it adds to PHI nodes mention only values that reach n, or   *)
(* that n itself defines; so do the registers it leaves, and the variable  *)
(* map, which it changes at the results of n only.                         *)
(***************************************************************************)
ValueTurn(n, new, es, news) ==
  /\ phase = "gen" /\ n = node
  /\ UNCHANGED <<prog, mach>>
  /\ Visit
  /\ todo' = new \o todo
  /\ \A i \in DOMAIN new :
       /\ new[i].t = "arm" /\ new[i].n \in Children(prog, n)
       /\ \A r \in mach : new[i].saved[r] \in Reaches(n)'
  /\ out' = out \o es
  /\ \A g \in Elems(es) :
       /\ g.at = n
       /\ Uses(g) \subseteq IF g.end.op = "raise" THEN {V("ovphi", n, r) : r \in mach} ELSE Reaches(n)'
  /\ inc' = inc \cup news
  /\ \A e \in news :
       e.val \in Reaches(n)' /\ \E g \in Elems(es) : g.blk = e.pred /\ Terminates(g)
  /\ node' \in Children(prog, n) \cup {NoNode}
  /\ node' # NoNode => \A r \in mach : regState'[r] \in Reaches(n)'
  /\ \A z \in Var : vMap'[z] = vMap[z] \/ z \in Elems(S.res)
  /\ \A z \in Elems(S.res) : vMap'[z] \in Reaches(n)'

(* Such a turn keeps every definition before its uses. *)
LEMMA ValueStep ==
  ASSUME TypeOK, TypeOK', RegsInv, DomInv, NEW n \in Node,
         NEW new \in Seq(Task), NEW es \in Seq(GroupType), NEW news, ValueTurn(n, new, es, news)
  PROVE  DomInv'
<1>1. /\ prog \in Programs /\ n # NoNode /\ n = node
      /\ UNCHANGED <<prog, mach>> /\ todo' = new \o todo /\ out' = out \o es
      /\ todo \in Seq(Task) /\ prog.stm[n] = S
      /\ Supplied(n, regState) /\ BoundHere(n)
  BY NullAssumption DEF TypeOK, ValueTurn, DomInv, NodeSupplied, S
<1>2. /\ \A k \in Node : Reaches(k) \subseteq Reaches(k)'
      /\ \A g \in Elems(es) : Defs(g) \subseteq Reaches(g.at)'
      /\ \A k \in Node : \A m \in Children(prog, k) : Reaches(k)' \subseteq Reaches(m)'
      /\ Groups' = Groups \cup Elems(es)
  BY <1>1, ReachesGrows
<1>3. Done' = Done \cup {n} /\ n \notin Done
  <2>1. /\ at'[n] = [regs |-> regState, vars |-> vMap, blk |-> bb]
        /\ \A k \in Node : k # n => at'[k] = at[k]
    BY <1>1 DEF ValueTurn, Visit, TypeOK
  <2>2. bb # NoBlock /\ n \notin Done
    BY <1>1 DEF RegsInv, NodeReady
  <2> QED
    BY <2>1, <2>2 DEF Done, Visited
<1>4. \A z \in Elems(S.res) : z \in Var /\ vMap[z] = NoVal
  BY <1>1, ResFresh
<1>5. /\ \A z \in Var : vMap'[z] = vMap[z] \/ z \in Elems(S.res)
      /\ \A z \in Elems(S.res) : vMap'[z] \in Reaches(n)'
  BY DEF ValueTurn
<1>6. \A m \in Node : prog.scope[m] \subseteq Var
  BY <1>1, ProgramsAssumption DEF WellFormed, WellTyped
<1>7. ASSUME NEW m \in Children(prog, n), NEW rs, \A r \in mach : rs[r] \in Reaches(n)'
      PROVE  /\ \A r \in mach : rs[r] \in Reaches(m)'
             /\ \A z \in prog.scope[m] : vMap'[z] \in Reaches(m)'
  <2>1. m \in Node /\ prog.scope[m] = prog.scope[n] \cup Elems(S.res) /\ Reaches(n)' \subseteq Reaches(m)'
    BY <1>1, <1>2, Forest
  <2>2. \A z \in prog.scope[n] : vMap[z] \in Reaches(n)'
    BY <1>1, <1>2 DEF Supplied
  <2>3. \A z \in prog.scope[m] : vMap'[z] \in Reaches(n)'
    BY <1>5, <1>6, <2>1, <2>2
  <2> QED
    BY <1>7, <2>1, <2>3
<1>8. ASSUME NEW m \in Node, prog.owner[m] = prog.owner[n], BoundHere(m)
      PROVE  BoundHere(m)'
  <2> SUFFICES ASSUME NEW z \in Var, vMap'[z] # NoVal
               PROVE  \/ z \in Elems(prog.frag[prog.owner[m]].params)
                      \/ \E k \in Done' : prog.owner[k] = prog.owner[m] /\ z \in Elems(prog.stm[k].res)
    BY <1>1 DEF BoundHere
  <2> QED
    BY <1>1, <1>3, <1>5, <1>8 DEF BoundHere
<1>9. ASSUME NEW m \in Children(prog, n) PROVE m \in Node /\ prog.owner[m] = prog.owner[n] /\ BoundHere(m)'
  <2>1. m \in Node /\ prog.owner[m] = prog.owner[n]
    BY <1>1, HomeFacts, StmFacts
  <2> QED
    BY <1>1, <1>8, <2>1, SMTT(60) DEF BoundHere
<1>10. NodeSupplied'
  <2> SUFFICES ASSUME NEW m \in Children(prog, n), m = node', \A r \in mach : regState'[r] \in Reaches(n)'
               PROVE  Supplied(node, regState)' /\ BoundHere(node)'
    BY DEF NodeSupplied, ValueTurn
  <2>1. BoundHere(m)'
    BY <1>9
  <2>2. /\ \A r \in mach : regState'[r] \in Reaches(m)'
        /\ \A z \in prog.scope[m] : vMap'[z] \in Reaches(m)'
    BY <1>7
  <2>3. Reaches(node)' = Reaches(m)' /\ (BoundHere(node)' <=> BoundHere(m)')
    BY DEF Reaches, BoundHere
  <2> QED
    BY <1>1, <2>1, <2>2, <2>3 DEF Supplied
<1>11. ArmsSupplied'
  <2> SUFFICES ASSUME NEW i \in DOMAIN todo', NEW t, t = todo'[i], t.t = "arm"
               PROVE  /\ \A r \in mach : t.saved[r] \in Reaches(t.n)'
                      /\ \A z \in prog.scope[t.n] : vMap'[z] \in Reaches(t.n)'
                      /\ BoundHere(t.n)'
                      /\ prog.owner[t.n] = prog.owner[n]
    <3>1. node' # NoNode => prog.owner[node'] = prog.owner[n]
      BY <1>9 DEF ValueTurn
    <3>2. ASSUME NEW i \in DOMAIN todo', todo'[i].t = "arm"
          PROVE  /\ Supplied(todo[i].n, todo[i].saved)' /\ BoundHere(todo[i].n)'
                 /\ prog.owner[todo'[i].n] = prog.owner[n]
      <4> PICK t : t = todo'[i]
        OBVIOUS
      <4>1. /\ \A r \in mach : t.saved[r] \in Reaches(t.n)'
            /\ \A z \in prog.scope[t.n] : vMap'[z] \in Reaches(t.n)'
            /\ BoundHere(t.n)'
            /\ prog.owner[t.n] = prog.owner[n]
        BY <3>2, ZenonT(30)
      <4>2. Reaches(todo[i].n)' = Reaches(t.n)' /\ (BoundHere(todo[i].n)' <=> BoundHere(t.n)')
        BY DEF Reaches, BoundHere
      <4> QED
        BY <1>1, <4>1, <4>2 DEF Supplied
    <3> QED
      BY <1>1, <3>1, <3>2, SMTT(60) DEF ArmsSupplied
  <2>1. \/ i \in DOMAIN new /\ t = new[i]
        \/ i - Len(new) \in DOMAIN todo /\ t = todo[i - Len(new)]
    BY <1>1, ConcatCases
  <2>2. CASE i \in DOMAIN new /\ t = new[i]
    <3>1. t.n \in Children(prog, n) /\ \A r \in mach : t.saved[r] \in Reaches(n)'
      BY <2>2 DEF ValueTurn
    <3> QED
      BY <1>7, <1>9, <3>1
  <2>3. CASE i - Len(new) \in DOMAIN todo /\ t = todo[i - Len(new)]
    <3>1. t \in Task /\ t.n \in Node
      BY <1>1, <2>3 DEF Task
    <3>2. Supplied(t.n, t.saved) /\ BoundHere(t.n) /\ prog.owner[t.n] = prog.owner[n]
      BY <1>1, <2>3 DEF DomInv, ArmsSupplied
    <3>3. ScopeBound(t.n)
      BY <2>3 DEF RegsInv, ArmsReady, ArmReady
    <3>4. \A z \in prog.scope[t.n] : vMap'[z] = vMap[z]
      BY <1>4, <1>5, <1>6, <3>1, <3>3 DEF ScopeBound
    <3> QED
      BY <1>2, <1>8, <3>1, <3>2, <3>4 DEF Supplied
  <2> QED
    BY <2>1, <2>2, <2>3
<1>12. FragKinds'
  <2> SUFFICES ASSUME NEW i \in DOMAIN todo', NEW t, t = todo'[i], t.t = "frag"
               PROVE  t.entry <=> prog.frag[t.lab].kind # "INTERNAL"
    BY <1>1 DEF FragKinds
  <2>1. \/ i \in DOMAIN new /\ t = new[i]
        \/ i - Len(new) \in DOMAIN todo /\ t = todo[i - Len(new)]
    BY <1>1, ConcatCases
  <2> QED
    BY <2>1 DEF ValueTurn, DomInv, FragKinds
<1>13. DefsDominateUses'
  <2>1. ASSUME NEW g \in Groups'
        PROVE  Uses(g)' \subseteq
                 IF g.end.op = "raise" THEN {V("ovphi", g.at, r) : r \in mach'} ELSE Reaches(g.at)'
    <3>1. Uses(g)' = Uses(g)
      BY <1>1 DEF Uses
    <3>2. CASE g \in Groups
      <4>1. g \in GroupType
        BY <3>2 DEF Groups, Elems, TypeOK
      <4>2. g.at \in Node
        BY <4>1 DEF GroupType
      <4> QED
        BY <1>1, <1>2, <3>1, <3>2, <4>2 DEF DomInv, DefsDominateUses
    <3>3. CASE g \in Elems(es)
      BY <1>1, <3>1, <3>3 DEF ValueTurn
    <3> QED
      BY <1>2, <3>2, <3>3
  <2>2. ASSUME NEW e \in inc'
        PROVE  \E g \in Groups' : g.blk = e.pred /\ Terminates(g) /\ e.val \in Reaches(g.at)'
    <3>1. CASE e \in inc
      <4>1. PICK g \in Groups : g.blk = e.pred /\ Terminates(g) /\ e.val \in Reaches(g.at)
        BY <3>1 DEF DomInv, DefsDominateUses
      <4>2. g \in GroupType
        BY DEF Groups, Elems, TypeOK
      <4>3. g.at \in Node
        BY <4>2 DEF GroupType
      <4> QED
        BY <1>2, <4>1, <4>3
    <3>2. CASE e \in news
      <4>1. e.val \in Reaches(n)'
        BY <3>2 DEF ValueTurn
      <4>2. PICK g \in Elems(es) : g.blk = e.pred /\ Terminates(g)
        BY <3>2 DEF ValueTurn
      <4>3. g.at = n /\ g \in Groups'
        BY <1>2 DEF ValueTurn
      <4> QED
        BY <4>1, <4>2, <4>3
    <3> QED
      BY <3>1, <3>2 DEF ValueTurn
  <2> QED
    BY <2>1, <2>2 DEF DefsDominateUses, Terminates
<1> QED
  BY <1>10, <1>11, <1>12, <1>13 DEF DomInv

-----------------------------------------------------------------------------
(* What a sequence of instructions uses and defines. *)

InsUses(ins) == UNION {Elems(i.args) : i \in Elems(ins)}
InsDefs(ins) == {i.def : i \in Elems(ins)}

(* A concatenation has the elements of both parts. *)
LEMMA ElemsConcat ==
  ASSUME NEW T, NEW a \in Seq(T), NEW b \in Seq(T)
  PROVE  /\ Elems(a \o b) = Elems(a) \cup Elems(b)
         /\ InsUses(a \o b) = InsUses(a) \cup InsUses(b)
         /\ InsDefs(a \o b) = InsDefs(a) \cup InsDefs(b)
<1>1. \A g \in Elems(a \o b) : g \in Elems(a) \cup Elems(b)
  BY ConcatCases DEF Elems
<1>2. /\ \A i \in DOMAIN a : i \in DOMAIN (a \o b) /\ (a \o b)[i] = a[i]
      /\ \A i \in DOMAIN b : Len(a) + i \in DOMAIN (a \o b) /\ (a \o b)[Len(a) + i] = b[i]
  BY LaterPlace
<1>3. \A g \in Elems(a) \cup Elems(b) : g \in Elems(a \o b)
  BY <1>2 DEF Elems
<1>4. Elems(a \o b) = Elems(a) \cup Elems(b)
  BY <1>1, <1>3
<1> QED
  BY <1>4 DEF InsUses, InsDefs

(* A sequence of no instruction, or of one. *)
LEMMA ElemsShort ==
  ASSUME NEW i
  PROVE  /\ Elems(<<i>>) = {i} /\ InsUses(<<i>>) = Elems(i.args) /\ InsDefs(<<i>>) = {i.def}
         /\ Elems(<<>>) = {} /\ InsUses(<<>>) = {} /\ InsDefs(<<>>) = {}
<1>1. Elems(<<i>>) = {i} /\ Elems(<<>>) = {}
  BY DEF Elems
<1> QED
  BY <1>1 DEF InsUses, InsDefs

(* The arguments and the machine registers of a statement reach it; a frame
   register is loaded first. *)
LEMMA ValuesKnown ==
  ASSUME TypeOK, RegsInv, DomInv, node \in Node
  PROVE  /\ Elems(Args) \subseteq Reaches(node)
         /\ \A r \in mach : r \in Reg /\ regState[r] \in Reaches(node)
         /\ \A r \in Reg : RegVal(r) \in Reaches(node) \cup InsDefs(Load(r))
<1>1. prog \in Programs /\ Supplied(node, regState)
  BY NullAssumption DEF TypeOK, DomInv, NodeSupplied
<1>2. Elems(S.args) \subseteq prog.scope[node]
  BY <1>1, ProgramsAssumption DEF WellFormed, WellScoped, S
<1>3. Elems(Args) \subseteq Reaches(node)
  BY <1>1, <1>2 DEF Supplied, Args, Elems
<1>4. \A r \in mach : r \in Reg /\ regState[r] \in Reaches(node)
  BY <1>1, TargetsAssumption DEF Supplied, TypeOK
<1>5. ASSUME NEW r \in Reg PROVE RegVal(r) \in Reaches(node) \cup InsDefs(Load(r))
  <2>1. CASE regState[r] = NoVal
    <3> DEFINE i == Instr("load", V("load", node, r), r, <<>>)
    <3>1. Load(r) = <<i>> /\ RegVal(r) = V("load", node, r) /\ i.def = V("load", node, r)
      BY <2>1 DEF Load, RegVal, Instr
    <3> HIDE DEF i
    <3>2. InsDefs(Load(r)) = {i.def}
      BY <3>1, ElemsShort
    <3> QED
      BY <3>1, <3>2
  <2>2. CASE regState[r] # NoVal
    BY <1>1, <2>2, ReadyFacts DEF RegVal, Supplied
  <2> QED
    BY <2>1, <2>2
<1> QED
  BY <1>3, <1>4, <1>5

(* Loads use nothing, and a store uses what it stores. *)
LEMMA FrameAccess ==
  ASSUME TypeOK, node \in Node, NEW r \in Reg, NEW v \in NVal
  PROVE  /\ Load(r) \in Seq(InstrType) /\ InsUses(Load(r)) = {}
         /\ Store(r, v) \in Seq(InstrType) /\ InsUses(Store(r, v)) \subseteq {v}
<1>1. Load(r) \in Seq(InstrType) /\ Store(r, v) \in Seq(InstrType)
  BY RegHelpers DEF TypeOK
<1>2. InsUses(Load(r)) = {}
  <2> DEFINE i == Instr("load", V("load", node, r), r, <<>>)
  <2>1. Elems(i.args) = {}
    BY DEF Instr, Elems
  <2>2. Load(r) = <<i>> \/ Load(r) = <<>>
    BY DEF Load
  <2> HIDE DEF i
  <2> QED
    BY <2>1, <2>2, ElemsShort
<1>3. InsUses(Store(r, v)) \subseteq {v}
  <2> DEFINE i == Instr("store", NoVal, r, <<v>>)
  <2>1. Elems(i.args) = {v}
    BY DEF Instr, Elems
  <2>2. Store(r, v) = <<i>> \/ Store(r, v) = <<>>
    BY DEF Store
  <2> HIDE DEF i
  <2> QED
    BY <2>1, <2>2, ElemsShort
<1> QED
  BY <1>1, <1>2, <1>3

(* Appended groups are well typed, since the code is. *)
LEMMA Appended ==
  ASSUME TypeOK, TypeOK', NEW U, NEW es \in Seq(U), out' = out \o es
  PROVE  es \in Seq(GroupType)
<1> DEFINE T == GroupType \cup U
<1>1. out \in Seq(T) /\ es \in Seq(T) /\ out \o es \in Seq(GroupType)
  BY DEF TypeOK
<1>2. \A i \in DOMAIN es : es[i] \in GroupType
  <2> TAKE i \in DOMAIN es
  <2> HIDE DEF T
  <2>1. Len(out) + i \in DOMAIN (out \o es) /\ (out \o es)[Len(out) + i] = es[i]
    BY <1>1, LaterPlace
  <2> QED
    BY <1>1, <2>1
<1> QED
  BY <1>2

(***************************************************************************)
(* The same with the set `known` of the values that reached the statement  *)
(* or that its groups define, in place of those that reach it afterwards.  *)
(***************************************************************************)
KnownTurn(new, es, news, known) ==
  /\ phase = "gen" /\ node \in Node
  /\ UNCHANGED <<prog, mach>>
  /\ Visit
  /\ new \in Seq(Task) /\ todo' = new \o todo
  /\ \A i \in DOMAIN new :
       /\ new[i].t = "arm" /\ new[i].n \in Children(prog, node)
       /\ \A r \in mach : new[i].saved[r] \in known
  /\ out' = out \o es
  /\ known = Reaches(node) \cup UNION {Defs(g) : g \in Elems(es)}
  /\ \A g \in Elems(es) :
       /\ g.at = node
       /\ Uses(g) \subseteq IF g.end.op = "raise" THEN {V("ovphi", node, r) : r \in mach} ELSE known
  /\ inc' = inc \cup news
  /\ \A e \in news : e.val \in known /\ \E g \in Elems(es) : g.blk = e.pred /\ Terminates(g)
  /\ node' \in Children(prog, node) \cup {NoNode}
  /\ node' # NoNode => \A r \in mach : regState'[r] \in known
  /\ \A z \in Var : vMap'[z] = vMap[z] \/ z \in Elems(S.res)
  /\ \A z \in Elems(S.res) : vMap'[z] \in known

(* Such a turn keeps DomInv, whatever groups it appends. *)
LEMMA SomeGroups ==
  ASSUME TypeOK, TypeOK', RegsInv, DomInv,
         NEW new, NEW U, NEW es \in Seq(U), NEW news, NEW known, KnownTurn(new, es, news, known)
  PROVE  DomInv'
<1> PICK n \in Node : n = node
  BY DEF KnownTurn
<1>1. es \in Seq(GroupType) /\ out' = out \o es /\ UNCHANGED <<prog, mach>> /\ new \in Seq(Task)
  BY Appended DEF KnownTurn
<1>2. known \subseteq Reaches(n)'
  <2>1. Reaches(n) \subseteq Reaches(n)' /\ \A g \in Elems(es) : Defs(g) \subseteq Reaches(g.at)'
    BY <1>1, ReachesGrows
  <2>2. \A g \in Elems(es) : g.at = n
    BY DEF KnownTurn
  <2>3. \A g \in Elems(es) : Reaches(g.at)' = Reaches(n)'
    BY <2>2
  <2>4. known = Reaches(n) \cup UNION {Defs(g) : g \in Elems(es)}
    BY DEF KnownTurn
  <2> QED
    BY <2>1, <2>3, <2>4
<1>3. ValueTurn(n, new, es, news)
  BY <1>2 DEF ValueTurn, KnownTurn
<1> QED
  BY <1>1, <1>3, ValueStep

(* The turn of a statement that appends one group, which is no call of the
   handler: PHI nodes get entries only if the group ends the block. *)
GroupTurn(new, ins, end, news, known) ==
  /\ phase = "gen" /\ node \in Node
  /\ UNCHANGED <<prog, mach>>
  /\ Visit
  /\ new \in Seq(Task) /\ todo' = new \o todo
  /\ \A i \in DOMAIN new :
       /\ new[i].t = "arm" /\ new[i].n \in Children(prog, node)
       /\ \A r \in mach : new[i].saved[r] \in known
  /\ Emit(ins, end)
  /\ known = Reaches(node) \cup Defs(Group(node, bb, ins, end))
  /\ InsUses(ins) \cup Elems(end.args) \subseteq known
  /\ end.op # "raise"
  /\ end.op \in {"gc", "call"} => \A r \in mach : end.regs[r] \in known
  /\ inc' = inc \cup news
  /\ news # {} => end.op \notin {"fall", "gc"}
  /\ \A e \in news : e.val \in known /\ e.pred = bb
  /\ node' \in Children(prog, node) \cup {NoNode}
  /\ node' # NoNode => \A r \in mach : regState'[r] \in known
  /\ \A z \in Var : vMap'[z] = vMap[z] \/ z \in Elems(S.res)
  /\ \A z \in Elems(S.res) : vMap'[z] \in known

(* Such a turn keeps DomInv. *)
LEMMA OneGroup ==
  ASSUME TypeOK, TypeOK', RegsInv, DomInv,
         NEW new, NEW ins, NEW end, NEW news, NEW known, GroupTurn(new, ins, end, news, known)
  PROVE  DomInv'
<1> DEFINE g == Group(node, bb, ins, end)
           es == <<g>>
<1>1. g.at = node /\ g.blk = bb /\ g.end = end /\ g.ins = ins
  BY DEF Group
<1>2. out' = Append(out, g) /\ out \in Seq(GroupType)
  BY DEF Emit, TypeOK, GroupTurn
<1>3. known = Reaches(node) \cup Defs(g)
  BY DEF g, GroupTurn
<1> HIDE DEF g
<1>4. Uses(g) \subseteq known
  <2> DEFINE regs == {g.end.regs[r] : r \in IF g.end.op \in {"gc", "call", "raise"} THEN mach ELSE {}}
  <2>1. regs \subseteq known
    BY <1>1 DEF GroupTurn
  <2>2. InsUses(g.ins) \subseteq known /\ Elems(g.end.args) \subseteq known
    BY <1>1 DEF GroupTurn
  <2>3. Uses(g) = InsUses(g.ins) \cup Elems(g.end.args) \cup regs
    BY DEF Uses, InsUses
  <2> HIDE DEF regs
  <2> QED
    BY <2>1, <2>2, <2>3
<1>5. Elems(es) = {g} /\ out' = out \o es /\ es \in Seq({g})
  BY <1>2 DEF Elems
<1> HIDE DEF es
<1>6. Terminates(g) <=> end.op \notin {"fall", "gc"}
  BY <1>1 DEF Terminates
<1>7. known = Reaches(node) \cup UNION {Defs(h) : h \in Elems(es)}
  BY <1>3, <1>5
<1>8. KnownTurn(new, es, news, known)
  BY <1>1, <1>4, <1>5, <1>6, <1>7 DEF GroupTurn, KnownTurn
<1> QED
  BY <1>5, <1>8, SomeGroups

(* The arms that straight-line code leaves: none. *)
LEMMA NoArms ==
  ASSUME TypeOK
  PROVE  <<>> \in Seq(Task) /\ todo = <<>> \o todo /\ DOMAIN <<>> = {}
<1>1. todo \in Seq(Task)
  BY DEF TypeOK
<1> QED
  BY <1>1, ConcatEmptySeq, EmptySeq

(* A statement that appends instructions to its block and goes on. *)
LEMMA FallValues ==
  ASSUME TypeOK, TypeOK', RegsInv, DomInv, phase = "gen", Visit, node \in Node,
         UNCHANGED <<prog, mach, todo, inc>>, Len(S.next) = 1, node' = S.next[1],
         NEW ins, Emit(ins, Fall),
         NEW known, known = Reaches(node) \cup InsDefs(ins), InsUses(ins) \subseteq known,
         \A r \in mach : regState'[r] \in known,
         \A z \in Var : vMap'[z] = vMap[z] \/ z \in Elems(S.res),
         \A z \in Elems(S.res) : vMap'[z] \in known
  PROVE  DomInv'
<1> DEFINE g == Group(node, bb, ins, Fall)
           none == <<>>
           nobody == {}
<1>1. Fall.op = "fall" /\ Elems(Fall.args) = {} /\ g.ins = ins /\ g.end.op = "fall"
  BY DEF Fall, End, Elems, Group
<1>2. known = Reaches(node) \cup Defs(g)
  <2> HIDE DEF g
  <2> QED
    BY <1>1 DEF Defs, InsDefs
<1>3. none \in Seq(Task) /\ todo' = none \o todo /\ DOMAIN none = {}
  BY NoArms
<1>4. node' \in Children(prog, node)
  BY NextFacts
<1>5. inc' = inc \cup nobody
  OBVIOUS
<1> HIDE DEF none, nobody
<1>6. GroupTurn(none, ins, Fall, nobody, known)
  BY <1>1, <1>2, <1>3, <1>4, <1>5 DEF GroupTurn, nobody
<1> QED
  BY <1>6, OneGroup

(* insertVal of a result that was not bound. *)
LEMMA BindFresh ==
  ASSUME TypeOK, RegsInv, DomInv, node \in Node, Len(S.res) = 1, NEW v, vMap' = Bind(vMap, S.res[1], v)
  PROVE  /\ \A z \in Var : vMap'[z] = vMap[z] \/ z \in Elems(S.res)
         /\ \A z \in Elems(S.res) : vMap'[z] = v
<1>1. Elems(S.res) = {S.res[1]}
  BY ArgTypes DEF Stm, Elems
<1>2. S.res[1] \in Var /\ vMap[S.res[1]] = NoVal /\ vMap \in [Var -> NVal]
  BY <1>1, ResFresh DEF TypeOK, NVal
<1> QED
  BY <1>1, <1>2 DEF Bind

(* The registers after setMLReg reach what follows, if the new value does. *)
LEMMA SetRegKnown ==
  ASSUME mach \subseteq Reg, NEW rs \in Regs, NEW r \in Reg, NEW v, NEW known, v \in known,
         \A q \in mach : rs[q] \in known
  PROVE  \A q \in mach : SetReg(rs, r, v)[q] \in known
BY SetRegAt

(* LET: renaming, pure operations, and reading a register. *)
LEMMA LetValues ==
  ASSUME TypeOK, TypeOK', RegsInv, DomInv, GenLet
  PROVE  DomInv'
<1>1. node \in Node /\ S \in Stm /\ Arity(S) /\ S.op = "LET"
  BY RunningFacts DEF GenLet
<1>2. Len(S.next) = 1 /\ Len(S.res) = 1
  BY <1>1 DEF Arity
<1>3. /\ phase = "gen" /\ Visit /\ node' = S.next[1] /\ UNCHANGED <<prog, mach, todo, inc, regState>>
  BY DEF GenLet, Running, const
<1>4. /\ Elems(Args) \subseteq Reaches(node) /\ \A r \in mach : regState[r] \in Reaches(node)
      /\ \A r \in Reg : RegVal(r) \in Reaches(node) \cup InsDefs(Load(r))
  BY <1>1, ValuesKnown
<1>5. ASSUME NEW ins, NEW v, Emit(ins, Fall), vMap' = Bind(vMap, S.res[1], v),
             InsUses(ins) \subseteq Reaches(node), v \in Reaches(node) \cup InsDefs(ins)
      PROVE  DomInv'
  <2> DEFINE known == Reaches(node) \cup InsDefs(ins)
  <2>1. /\ InsUses(ins) \subseteq known /\ v \in known
        /\ \A r \in mach : regState'[r] \in known
    BY <1>3, <1>4, <1>5
  <2>2. /\ \A z \in Var : vMap'[z] = vMap[z] \/ z \in Elems(S.res)
        /\ \A z \in Elems(S.res) : vMap'[z] = v
    BY <1>1, <1>2, <1>5, BindFresh
  <2>3. known = Reaches(node) \cup InsDefs(ins)
    OBVIOUS
  <2> HIDE DEF known
  <2> QED
    BY <1>1, <1>2, <1>3, <1>5, <2>1, <2>2, <2>3, FallValues
<1>6. CASE S.prim = "VAR" /\ Emit(<<>>, Fall) /\ vMap' = Bind(vMap, S.res[1], Args[1])
  <2> DEFINE ins == <<>>
  <2>1. Args[1] \in Elems(Args)
    BY <1>1, <1>6, ArgTypes DEF Arity, Stm, Elems
  <2>2. InsUses(ins) = {} /\ Emit(ins, Fall)
    BY <1>6, ElemsShort
  <2> HIDE DEF ins
  <2> QED
    BY <1>4, <1>5, <1>6, <2>1, <2>2
<1>7. CASE LET z == S.res[1] IN
           S.prim = "PURE" /\ Emit(<<Op(z, Args)>>, Fall) /\ vMap' = Bind(vMap, z, V("ins", node, z))
  <2> DEFINE i == Op(S.res[1], Args)
             ins == <<i>>
  <2>1. i.args = Args /\ i.def = V("ins", node, S.res[1])
    BY DEF Op, Instr
  <2>2. Emit(ins, Fall)
    BY <1>7
  <2> HIDE DEF i
  <2>3. InsUses(ins) = Elems(Args) /\ InsDefs(ins) = {V("ins", node, S.res[1])}
    BY <2>1, ElemsShort
  <2> HIDE DEF ins
  <2> QED
    BY <1>4, <1>5, <1>7, <2>2, <2>3
<1>8. CASE S.prim = "GET" /\ Emit(Load(S.reg), Fall) /\ vMap' = Bind(vMap, S.res[1], RegVal(S.reg))
  <2>1. S.reg \in Reg
    BY <1>1 DEF Stm
  <2>2. InsUses(Load(S.reg)) = {}
    <3>1. NoVal \in NVal
      BY DEF NVal
    <3> QED
      BY <1>1, <2>1, <3>1, FrameAccess
  <2> QED
    BY <1>4, <1>5, <1>8, <2>1, <2>2
<1> QED
  BY <1>6, <1>7, <1>8 DEF GenLet

(* ALLOC: the record, and the allocation pointer after it. *)
LEMMA AllocValues ==
  ASSUME TypeOK, TypeOK', RegsInv, DomInv, GenAlloc
  PROVE  DomInv'
<1> DEFINE z == S.res[1]
           alloc == RegVal("ALLOC")
           new == V("ins", node, "ALLOC")
           obj == Op(z, <<alloc>> \o Args)
           bump == Op("ALLOC", <<alloc>>)
           l == Load("ALLOC")
           two == <<obj, bump>>
           st == Store("ALLOC", new)
           head == l \o two
           ins == head \o st
           known == Reaches(node) \cup InsDefs(ins)
<1>1. node \in Node /\ S \in Stm /\ Arity(S) /\ S.op = "ALLOC"
  BY RunningFacts DEF GenAlloc
<1>2. Len(S.next) = 1 /\ Len(S.res) = 1 /\ z \in Var /\ "ALLOC" \in Reg
  BY <1>1 DEF Arity, Stm, Reg
<1>3. /\ phase = "gen" /\ Visit /\ node' = S.next[1] /\ UNCHANGED <<prog, mach, todo, inc>>
      /\ Emit(ins, Fall) /\ regState' = SetReg(regState, "ALLOC", new)
      /\ vMap' = Bind(vMap, z, V("ins", node, z))
  BY DEF GenAlloc, AllocRecord, Running, const
<1>4. /\ Elems(Args) \subseteq Reaches(node) /\ \A r \in mach : r \in Reg /\ regState[r] \in Reaches(node)
      /\ alloc \in Reaches(node) \cup InsDefs(l)
  BY <1>1, <1>2, ValuesKnown
<1>5. alloc \in NVal /\ new \in NVal /\ Args \in Seq(NVal)
  BY <1>1, <1>2, RegHelpers, NameTypes, ArgTypes DEF TypeOK, NVal
<1>6. /\ l \in Seq(InstrType) /\ st \in Seq(InstrType)
      /\ InsUses(l) = {} /\ InsUses(st) \subseteq {new}
  BY <1>1, <1>2, <1>5, FrameAccess
<1>7. /\ Elems(obj.args) = {alloc} \cup Elems(Args) /\ bump.args = <<alloc>>
      /\ obj.def = V("ins", node, z) /\ bump.def = new
      /\ obj \in InstrType /\ bump \in InstrType
  <2> DEFINE one == <<alloc>>
  <2>1. one \in Seq(NVal) /\ Elems(one) = {alloc}
    BY <1>5, ElemsShort
  <2>2. obj.args = one \o Args /\ bump.args = one /\ obj.def = V("ins", node, z) /\ bump.def = new
    BY DEF Op, Instr
  <2> HIDE DEF one, alloc
  <2>3. Elems(one \o Args) = Elems(one) \cup Elems(Args) /\ one \o Args \in Seq(NVal)
    BY <1>5, <2>1, ElemsConcat, ConcatProperties
  <2>4. obj \in InstrType /\ bump \in InstrType
    BY <1>1, <1>2, <2>1, <2>3, OpType DEF one
  <2> HIDE DEF obj, bump
  <2> QED
    BY <2>1, <2>2, <2>3, <2>4 DEF one
<1> HIDE DEF obj, bump, l, st
<1>8. /\ two \in Seq(InstrType) /\ InsDefs(two) = {V("ins", node, z), new}
      /\ InsUses(two) = {alloc} \cup Elems(Args)
  <2> HIDE DEF alloc, new
  <2>1. two \in Seq(InstrType) /\ Elems(two) = {obj, bump}
    BY <1>7 DEF Elems
  <2>2. Elems(bump.args) = {alloc}
    BY <1>7, ElemsShort
  <2> HIDE DEF two
  <2> QED
    BY <1>7, <2>1, <2>2 DEF InsDefs, InsUses
<1> HIDE DEF two, alloc, new
<1>9. /\ head \in Seq(InstrType)
      /\ InsUses(head) = InsUses(l) \cup InsUses(two) /\ InsDefs(head) = InsDefs(l) \cup InsDefs(two)
  BY <1>6, <1>8, ConcatProperties, ElemsConcat
<1> HIDE DEF head
<1>10. /\ InsUses(ins) = InsUses(l) \cup InsUses(two) \cup InsUses(st)
       /\ InsDefs(ins) = InsDefs(l) \cup InsDefs(two) \cup InsDefs(st)
  BY <1>6, <1>9, ElemsConcat
<1> HIDE DEF ins
<1>11. alloc \in known /\ new \in known /\ V("ins", node, z) \in known /\ Elems(Args) \subseteq known
  BY <1>4, <1>8, <1>10
<1>12. InsUses(ins) \subseteq known
  BY <1>6, <1>8, <1>10, <1>11
<1>13. \A r \in mach : regState'[r] \in known
  <2>1. \A r \in mach : regState[r] \in known
    BY <1>4
  <2>2. mach \subseteq Reg /\ regState \in Regs
    BY <1>4 DEF TypeOK
  <2> HIDE DEF known
  <2> QED
    BY <1>2, <1>3, <1>11, <2>1, <2>2, SetRegKnown
<1>14. /\ \A y \in Var : vMap'[y] = vMap[y] \/ y \in Elems(S.res)
       /\ \A y \in Elems(S.res) : vMap'[y] \in known
  BY <1>1, <1>2, <1>3, <1>11, BindFresh
<1>15. known = Reaches(node) \cup InsDefs(ins)
  OBVIOUS
<1> HIDE DEF known
<1> QED
  BY <1>1, <1>2, <1>3, <1>12, <1>13, <1>14, <1>15, FallValues

(* The arithmetic that cannot overflow. *)
LEMMA DivValues ==
  ASSUME TypeOK, TypeOK', RegsInv, DomInv, GenArith, S.prim = "DIV"
  PROVE  DomInv'
<1> DEFINE z == S.res[1]
           i == Op(z, Args)
           ins == <<i>>
           known == Reaches(node) \cup InsDefs(ins)
<1>1. node \in Node /\ S \in Stm /\ Arity(S) /\ S.op = "ARITH"
  BY RunningFacts DEF GenArith
<1>2. Len(S.next) = 1 /\ Len(S.res) = 1
  BY <1>1 DEF Arity
<1>3. /\ phase = "gen" /\ Visit /\ node' = S.next[1] /\ UNCHANGED <<prog, mach, todo, inc, regState>>
      /\ Emit(ins, Fall) /\ vMap' = Bind(vMap, z, V("ins", node, z))
  BY DEF GenArith, Running, const
<1>4. Elems(Args) \subseteq Reaches(node) /\ \A r \in mach : regState[r] \in Reaches(node)
  BY <1>1, ValuesKnown
<1>5. i.args = Args /\ i.def = V("ins", node, z)
  BY DEF Op, Instr
<1> HIDE DEF i
<1>6. InsUses(ins) = Elems(Args) /\ InsDefs(ins) = {V("ins", node, z)}
  BY <1>5, ElemsShort
<1> HIDE DEF ins
<1>7. /\ InsUses(ins) \subseteq known /\ V("ins", node, z) \in known
      /\ \A r \in mach : regState'[r] \in known
  BY <1>3, <1>4, <1>6
<1>8. /\ \A y \in Var : vMap'[y] = vMap[y] \/ y \in Elems(S.res)
      /\ \A y \in Elems(S.res) : vMap'[y] \in known
  BY <1>1, <1>2, <1>3, <1>7, BindFresh
<1>9. known = Reaches(node) \cup InsDefs(ins)
  OBVIOUS
<1> HIDE DEF known
<1> QED
  BY <1>1, <1>2, <1>3, <1>7, <1>8, <1>9, FallValues

(* recordStore: the cell on the store list, and the allocation pointer. *)
LEMMA RecordValues ==
  ASSUME TypeOK, RegsInv, DomInv, node \in Node, RecordStore
  PROVE  \E ins : /\ Emit(ins, Fall)
                  /\ InsUses(ins) \subseteq Reaches(node) \cup InsDefs(ins)
                  /\ \A r \in mach : regState'[r] \in Reaches(node) \cup InsDefs(ins)
<1> DEFINE alloc == RegVal("ALLOC")
           store == RegVal("STORE")
           cell == V("ins", node, "STORE")
           new == V("ins", node, "ALLOC")
           cons == Op("STORE", <<alloc, store>> \o Args)
           bump == Op("ALLOC", <<alloc>>)
           l1 == Load("ALLOC")
           l2 == Load("STORE")
           one == <<cons>>
           st1 == Store("STORE", cell)
           two == <<bump>>
           st2 == Store("ALLOC", new)
           a == l1 \o l2
           b == a \o one
           c == b \o st1
           d == c \o two
           ins == d \o st2
           known == Reaches(node) \cup InsDefs(ins)
<1>1. "ALLOC" \in Reg /\ "STORE" \in Reg
  BY DEF Reg
<1>2. Emit(ins, Fall) /\ regState' = SetReg(SetReg(regState, "STORE", cell), "ALLOC", new)
  BY DEF RecordStore
<1>3. /\ Elems(Args) \subseteq Reaches(node) /\ \A r \in mach : r \in Reg /\ regState[r] \in Reaches(node)
      /\ alloc \in Reaches(node) \cup InsDefs(l1) /\ store \in Reaches(node) \cup InsDefs(l2)
  BY <1>1, ValuesKnown
<1>4. /\ alloc \in NVal /\ store \in NVal /\ cell \in NVal /\ new \in NVal /\ Args \in Seq(NVal)
      /\ regState \in Regs
  BY <1>1, RegHelpers, NameTypes, ArgTypes DEF TypeOK, NVal
<1>5. /\ l1 \in Seq(InstrType) /\ l2 \in Seq(InstrType) /\ InsUses(l1) = {} /\ InsUses(l2) = {}
      /\ st1 \in Seq(InstrType) /\ InsUses(st1) \subseteq {cell}
      /\ st2 \in Seq(InstrType) /\ InsUses(st2) \subseteq {new}
  BY <1>1, <1>4, FrameAccess
<1>6. /\ Elems(cons.args) = {alloc, store} \cup Elems(Args) /\ bump.args = <<alloc>>
      /\ cons.def = cell /\ bump.def = new
      /\ cons \in InstrType /\ bump \in InstrType
  <2> DEFINE pair == <<alloc, store>>
             single == <<alloc>>
  <2>1. /\ pair \in Seq(NVal) /\ Elems(pair) = {alloc, store} /\ single \in Seq(NVal)
    <3> HIDE DEF alloc, store
    <3> QED
      BY <1>4 DEF Elems
  <2>2. cons.args = pair \o Args /\ bump.args = single /\ cons.def = cell /\ bump.def = new
    BY DEF Op, Instr
  <2> HIDE DEF pair, single, alloc, store
  <2>3. Elems(pair \o Args) = Elems(pair) \cup Elems(Args) /\ pair \o Args \in Seq(NVal)
    BY <1>4, <2>1, ElemsConcat, ConcatProperties
  <2>4. cons \in InstrType /\ bump \in InstrType
    BY <1>1, <2>1, <2>3, OpType DEF pair, single
  <2> HIDE DEF cons, bump
  <2> QED
    BY <2>1, <2>2, <2>3, <2>4 DEF single
<1> HIDE DEF cons, bump, l1, l2, st1, st2
<1>7. /\ one \in Seq(InstrType) /\ InsDefs(one) = {cell} /\ InsUses(one) = {alloc, store} \cup Elems(Args)
      /\ two \in Seq(InstrType) /\ InsDefs(two) = {new} /\ InsUses(two) = {alloc}
  <2> HIDE DEF cell, new, alloc, store
  <2>1. one \in Seq(InstrType) /\ two \in Seq(InstrType)
    BY <1>6
  <2>2. Elems(bump.args) = {alloc}
    BY <1>6, ElemsShort
  <2> QED
    BY <1>6, <2>1, <2>2, ElemsShort
<1> HIDE DEF one, two, cell, new, alloc, store
<1>8. /\ a \in Seq(InstrType) /\ InsUses(a) = {} /\ InsDefs(a) = InsDefs(l1) \cup InsDefs(l2)
  BY <1>5, ElemsConcat, ConcatProperties
<1> HIDE DEF a
<1>9. /\ b \in Seq(InstrType) /\ InsUses(b) = {alloc, store} \cup Elems(Args)
      /\ InsDefs(b) = InsDefs(l1) \cup InsDefs(l2) \cup {cell}
  BY <1>7, <1>8, ElemsConcat, ConcatProperties
<1> HIDE DEF b
<1>10. /\ c \in Seq(InstrType) /\ InsUses(c) \subseteq {alloc, store, cell} \cup Elems(Args)
       /\ InsDefs(l1) \cup InsDefs(l2) \cup {cell} \subseteq InsDefs(c)
  <2>1. c \in Seq(InstrType) /\ InsUses(c) = InsUses(b) \cup InsUses(st1) /\ InsDefs(c) = InsDefs(b) \cup InsDefs(st1)
    BY <1>5, <1>9, ElemsConcat, ConcatProperties
  <2> HIDE DEF c
  <2> QED
    BY <1>5, <1>9, <2>1
<1> HIDE DEF c
<1>11. /\ d \in Seq(InstrType) /\ InsUses(d) \subseteq {alloc, store, cell} \cup Elems(Args)
       /\ InsDefs(l1) \cup InsDefs(l2) \cup {cell, new} \subseteq InsDefs(d)
  <2>1. d \in Seq(InstrType) /\ InsUses(d) = InsUses(c) \cup InsUses(two) /\ InsDefs(d) = InsDefs(c) \cup InsDefs(two)
    BY <1>7, <1>10, ElemsConcat, ConcatProperties
  <2> HIDE DEF d
  <2> QED
    BY <1>7, <1>10, <2>1
<1> HIDE DEF d
<1>12. /\ InsUses(ins) \subseteq {alloc, store, cell, new} \cup Elems(Args)
       /\ InsDefs(l1) \cup InsDefs(l2) \cup {cell, new} \subseteq InsDefs(ins)
  <2>1. InsUses(ins) = InsUses(d) \cup InsUses(st2) /\ InsDefs(ins) = InsDefs(d) \cup InsDefs(st2)
    BY <1>5, <1>11, ElemsConcat
  <2> HIDE DEF ins
  <2> QED
    BY <1>5, <1>11, <2>1
<1> HIDE DEF ins
<1>13. /\ alloc \in known /\ store \in known /\ cell \in known /\ new \in known /\ Elems(Args) \subseteq known
       /\ \A r \in mach : regState[r] \in known
  BY <1>3, <1>12
<1> HIDE DEF known
<1>14. InsUses(ins) \subseteq known
  BY <1>12, <1>13
<1>15. \A r \in mach : regState'[r] \in known
  <2>1. mach \subseteq Reg
    BY <1>3
  <2>2. SetReg(regState, "STORE", cell) \in Regs
    BY <1>1, <1>4, RegHelpers
  <2>3. \A q \in mach : SetReg(regState, "STORE", cell)[q] \in known
    BY <1>1, <1>4, <1>13, <2>1, SetRegKnown
  <2> QED
    BY <1>1, <1>2, <1>13, <2>1, <2>2, <2>3, SetRegKnown
<1> QED
  BY <1>2, <1>14, <1>15 DEF known

(* SETTER: setting a register, and consing onto the store list. *)
LEMMA SetterValues ==
  ASSUME TypeOK, TypeOK', RegsInv, DomInv, GenSetter
  PROVE  DomInv'
<1>1. node \in Node /\ S \in Stm /\ Arity(S) /\ S.op = "SETTER"
  BY RunningFacts DEF GenSetter
<1>2. Len(S.next) = 1 /\ S.res = <<>>
  BY <1>1 DEF Arity
<1>3. phase = "gen" /\ Visit /\ node' = S.next[1] /\ UNCHANGED <<prog, mach, todo, inc, vMap>>
  BY DEF GenSetter, Running, const
<1>4. Elems(Args) \subseteq Reaches(node) /\ \A r \in mach : r \in Reg /\ regState[r] \in Reaches(node)
  BY <1>1, ValuesKnown
<1>5. \E ins : /\ Emit(ins, Fall)
               /\ InsUses(ins) \subseteq Reaches(node) \cup InsDefs(ins)
               /\ \A r \in mach : regState'[r] \in Reaches(node) \cup InsDefs(ins)
  <2>1. CASE S.prim = "SET" /\ SetSpecial(S.reg, Args[1])
    <3> DEFINE v == Args[1]
               ins == Store(S.reg, v)
    <3>1. S.reg \in Reg /\ v \in Elems(Args) /\ v \in NVal
      BY <1>1, <2>1, ArgTypes DEF Arity, Stm, Elems
    <3>2. Emit(ins, Fall) /\ regState' = SetReg(regState, S.reg, v)
      BY <2>1 DEF SetSpecial
    <3> HIDE DEF v
    <3>3. InsUses(ins) \subseteq {v}
      BY <1>1, <3>1, FrameAccess
    <3>4. mach \subseteq Reg /\ regState \in Regs /\ v \in Reaches(node)
      BY <1>4, <3>1 DEF TypeOK
    <3>5. \A r \in mach : regState'[r] \in Reaches(node)
      BY <1>4, <3>1, <3>2, <3>4, SetRegKnown
    <3> HIDE DEF ins
    <3> QED
      BY <3>2, <3>3, <3>4, <3>5
  <2>2. CASE RecordStore
    BY <1>1, <2>2, RecordValues
  <2>3. CASE S.prim = "POKE" /\ Emit(<<>>, Fall) /\ UNCHANGED regState
    <3> DEFINE ins == <<>>
    <3>1. InsUses(ins) = {} /\ Emit(ins, Fall)
      BY <2>3, ElemsShort
    <3> HIDE DEF ins
    <3> QED
      BY <1>4, <2>3, <3>1
  <2> QED
    BY <2>1, <2>2, <2>3 DEF GenSetter
<1>6. PICK ins : /\ Emit(ins, Fall)
                 /\ InsUses(ins) \subseteq Reaches(node) \cup InsDefs(ins)
                 /\ \A r \in mach : regState'[r] \in Reaches(node) \cup InsDefs(ins)
  BY <1>5
<1>7. Elems(S.res) = {}
  BY <1>2, ElemsShort
<1> DEFINE known == Reaches(node) \cup InsDefs(ins)
<1>8. known = Reaches(node) \cup InsDefs(ins)
  OBVIOUS
<1> HIDE DEF known
<1> QED
  BY <1>1, <1>2, <1>3, <1>6, <1>7, <1>8, FallValues

(* CALLGC: registers and roots come back as results of the call. *)
LEMMA GCValues ==
  ASSUME TypeOK, TypeOK', RegsInv, DomInv, GenCallGC
  PROVE  DomInv'
<1> DEFINE end == End("gc", <<>>, regState, Args)
           ins == <<>>
           none == <<>>
           nobody == {}
           g == Group(node, bb, ins, end)
           known == Reaches(node) \cup Defs(g)
<1>1. node \in Node /\ S \in Stm /\ Arity(S) /\ S.op = "CALLGC" /\ prog \in Programs
  BY RunningFacts DEF GenCallGC, TypeOK
<1>2. Len(S.next) = 1
  BY <1>1 DEF Arity
<1>3. /\ phase = "gen" /\ Visit /\ node' = S.next[1] /\ UNCHANGED <<prog, mach, todo, inc>>
      /\ Emit(ins, end) /\ regState' = RegsAfterGC /\ vMap' = BindAll(vMap, S.res, "ins", node)
  BY DEF GenCallGC, Running, const
<1>4. Elems(Args) \subseteq Reaches(node) /\ \A r \in mach : r \in Reg /\ regState[r] \in Reaches(node)
  BY <1>1, ValuesKnown
<1>5. g.at = node /\ g.end = end /\ end.op = "gc" /\ end.args = Args /\ end.regs = regState
  BY DEF Group, End
<1>6. InsUses(ins) = {} /\ none \in Seq(Task) /\ todo' = none \o todo /\ DOMAIN none = {}
      /\ inc' = inc \cup nobody
  BY <1>3, ElemsShort, NoArms
<1>7. \A x \in mach \cup Elems(S.res) : V("ins", node, x) \in known
  <2> HIDE DEF g, end
  <2> QED
    BY <1>5 DEF Defs, S
<1>8. \A r \in mach : regState'[r] \in known
  <2> SUFFICES ASSUME NEW r \in mach PROVE regState'[r] \in known
    OBVIOUS
  <2>1. r \in Reg /\ regState \in Regs /\ V("ins", node, r) \in known
    BY <1>4, <1>7 DEF TypeOK
  <2>2. SetReg(regState, r, V("ins", node, r))[r] \in {regState[r], V("ins", node, r)}
    BY <2>1, SetRegAt
  <2>3. regState'[r] = SetReg(regState, r, V("ins", node, r))[r]
    BY <1>3, <2>1 DEF RegsAfterGC
  <2> HIDE DEF g
  <2> QED
    BY <1>4, <2>1, <2>2, <2>3
<1>9. /\ \A z \in Var : vMap'[z] = vMap[z] \/ z \in Elems(S.res)
      /\ \A z \in Elems(S.res) : vMap'[z] \in known
  <2>1. \A z \in Elems(S.res) : z \in Var /\ vMap[z] = NoVal
    BY <1>1, ResFresh
  <2> HIDE DEF known
  <2> QED
    BY <1>3, <1>7, <2>1 DEF BindAll
<1>10. node' \in Children(prog, node)
  BY <1>1, <1>2, <1>3, NextFacts
<1>11. /\ known = Reaches(node) \cup Defs(Group(node, bb, ins, end)) /\ end.op # "raise"
       /\ InsUses(ins) \cup Elems(end.args) \subseteq known
       /\ \A r \in mach : end.regs[r] \in known
  <2>1. Reaches(node) \subseteq known
    OBVIOUS
  <2>2. known = Reaches(node) \cup Defs(Group(node, bb, ins, end))
    OBVIOUS
  <2> HIDE DEF known, ins, end
  <2> QED
    BY <1>4, <1>5, <1>6, <2>1, <2>2
<1> HIDE DEF known, ins, end, none, nobody, g
<1>12. GroupTurn(none, ins, end, nobody, known)
  BY <1>1, <1>3, <1>6, <1>8, <1>9, <1>10, <1>11 DEF GroupTurn, nobody
<1> QED
  BY <1>12, OneGroup

(* BRANCH: the test, and the registers saved for the second arm. *)
LEMMA BranchValues ==
  ASSUME TypeOK, TypeOK', RegsInv, DomInv, GenBranch
  PROVE  DomInv'
<1> DEFINE arm == [t |-> "arm", n |-> S.next[2], saved |-> regState]
           end == Jump("br", <<BB(S.next[1]), BB(S.next[2])>>, Test.args)
           ins == Test.ins
           new == <<arm>>
           nobody == {}
           g == Group(node, bb, ins, end)
           known == Reaches(node) \cup Defs(g)
<1>1. phase = "gen" /\ node \in Node /\ S.op = "BRANCH" /\ Arity(S)
  BY RunningFacts DEF GenBranch, Running
<1>2. /\ todo' = new \o todo /\ node' = S.next[1] /\ Visit /\ Emit(ins, end)
      /\ UNCHANGED <<prog, mach, regState, vMap, inc>>
  BY DEF GenBranch, const
<1>3. Len(S.next) = 2 /\ S.res = <<>>
  BY <1>1 DEF Arity
<1>4. /\ S.next[1] \in Children(prog, node) /\ S.next[2] \in Children(prog, node) /\ S.next[2] \in Node
  BY <1>1, <1>3, NextFacts
<1>5. /\ Elems(Args) \subseteq Reaches(node) /\ \A r \in mach : regState[r] \in Reaches(node)
      /\ \A r \in Reg : RegVal(r) \in Reaches(node) \cup InsDefs(Load(r))
  BY <1>1, ValuesKnown
<1>6. InsUses(Test.ins) = {} /\ Elems(Test.args) \subseteq Reaches(node) \cup InsDefs(Test.ins)
  <2>1. CASE S.prim = "LIMIT"
    <3> DEFINE a == Load("ALLOC")
               b == Load("LIMIT")
               args == <<RegVal("ALLOC"), RegVal("LIMIT")>>
    <3>1. "ALLOC" \in Reg /\ "LIMIT" \in Reg /\ NoVal \in NVal
      BY DEF Reg, NVal
    <3>2. a \in Seq(InstrType) /\ b \in Seq(InstrType) /\ InsUses(a) = {} /\ InsUses(b) = {}
      BY <1>1, <3>1, FrameAccess
    <3>3. RegVal("ALLOC") \in Reaches(node) \cup InsDefs(a) /\ RegVal("LIMIT") \in Reaches(node) \cup InsDefs(b)
      BY <1>5, <3>1
    <3>4. Test.ins = a \o b /\ Test.args = args
      BY <2>1 DEF Test
    <3> HIDE DEF a, b
    <3>5. InsUses(a \o b) = {} /\ InsDefs(a \o b) = InsDefs(a) \cup InsDefs(b)
      BY <3>2, ElemsConcat
    <3>6. Elems(args) = {RegVal("ALLOC"), RegVal("LIMIT")}
      BY DEF Elems
    <3> HIDE DEF args
    <3> QED
      BY <3>3, <3>4, <3>5, <3>6
  <2>2. CASE S.prim # "LIMIT"
    <3> DEFINE nothing == <<>>
    <3>1. Test.ins = nothing /\ Test.args = Args
      BY <2>2 DEF Test
    <3>2. InsUses(nothing) = {}
      BY ElemsShort
    <3> HIDE DEF nothing
    <3> QED
      BY <1>5, <3>1, <3>2
  <2> QED
    BY <2>1, <2>2
<1>7. end.op = "br" /\ end.args = Test.args /\ g.ins = ins /\ g.end = end
  BY DEF Jump, End, Group
<1> HIDE DEF end, g, ins
<1>8. Defs(g) = InsDefs(ins)
  BY <1>7 DEF Defs, InsDefs
<1>9. arm.t = "arm" /\ arm.n = S.next[2] /\ arm.saved = regState /\ arm \in Task
  BY <1>4 DEF Task, TypeOK
<1> HIDE DEF arm
<1>10. new \in Seq(Task) /\ DOMAIN new = {1} /\ new[1] = arm
  BY <1>9
<1>11. known = Reaches(node) \cup Defs(Group(node, bb, ins, end)) /\ Reaches(node) \subseteq known
  BY DEF g
<1>12. InsUses(ins) \cup Elems(end.args) \subseteq known
  BY <1>6, <1>7, <1>8 DEF ins
<1>13. Elems(S.res) = {} /\ inc' = inc \cup nobody
  BY <1>2, <1>3, ElemsShort
<1> HIDE DEF known, new, nobody
<1>14. \A k \in DOMAIN new :
         /\ new[k].t = "arm" /\ new[k].n \in Children(prog, node)
         /\ \A r \in mach : new[k].saved[r] \in known
  BY <1>4, <1>5, <1>9, <1>10, <1>11
<1>15. \A r \in mach : regState'[r] \in known
  BY <1>2, <1>5, <1>11
<1>16. /\ phase = "gen" /\ Visit /\ node \in Node /\ UNCHANGED <<prog, mach>>
       /\ todo' = new \o todo /\ node' \in Children(prog, node) \cup {NoNode} /\ Emit(ins, end)
       /\ end.op = "br" /\ nobody = {} /\ inc' = inc \cup nobody
       /\ \A z \in Var : vMap'[z] = vMap[z] \/ z \in Elems(S.res)
       /\ \A z \in Elems(S.res) : vMap'[z] \in known
  BY <1>1, <1>2, <1>4, <1>7, <1>13 DEF new, nobody
<1>17. GroupTurn(new, ins, end, nobody, known)
  BY <1>10, <1>11, <1>12, <1>14, <1>15, <1>16 DEF GroupTurn
<1> QED
  BY <1>17, OneGroup

(* APPLY and THROW: a tail call with the registers and the arguments. *)
LEMMA CallValues ==
  ASSUME TypeOK, TypeOK', RegsInv, DomInv, GenApply \/ GenThrow
  PROVE  DomInv'
<1> DEFINE end == End("call", <<>>, regState, Args)
           ins == <<>>
           none == <<>>
           nobody == {}
           known == Reaches(node) \cup Defs(Group(node, bb, ins, end))
<1>1. phase = "gen" /\ node \in Node /\ S.op \in {"APPLY", "THROW"} /\ Arity(S)
  BY RunningFacts DEF GenApply, GenThrow, Running
<1>2. node' = NoNode /\ Visit /\ Emit(ins, end) /\ UNCHANGED <<prog, mach, todo, vMap, inc>>
  BY DEF GenApply, GenThrow, TailCall, const
<1>3. S.res = <<>>
  BY <1>1 DEF Arity
<1>4. Elems(Args) \subseteq Reaches(node) /\ \A r \in mach : regState[r] \in Reaches(node)
  BY <1>1, ValuesKnown
<1>5. end.op = "call" /\ end.args = Args /\ end.regs = regState
  BY DEF End
<1>6. InsUses(ins) = {} /\ Elems(S.res) = {} /\ inc' = inc \cup nobody
  BY <1>2, <1>3, ElemsShort
<1>7. none \in Seq(Task) /\ todo' = none \o todo /\ DOMAIN none = {}
  BY <1>2, NoArms
<1>8. known = Reaches(node) \cup Defs(Group(node, bb, ins, end)) /\ Reaches(node) \subseteq known
  OBVIOUS
<1> HIDE DEF known, end, ins, none, nobody
<1>9. GroupTurn(none, ins, end, nobody, known)
  BY <1>1, <1>2, <1>4, <1>5, <1>6, <1>7, <1>8 DEF GroupTurn, nobody
<1> QED
  BY <1>9, OneGroup

(* GOTO: the registers and the arguments for the PHI nodes of its target. *)
LEMMA GotoValues ==
  ASSUME TypeOK, TypeOK', RegsInv, DomInv, GenGoto
  PROVE  DomInv'
<1> DEFINE f == prog.frag[S.to]
           from(r, v) == [phi |-> V("phi", f.body, r), val |-> v, pred |-> bb]
           news == {from(r, regState[r]) : r \in mach} \cup {from(f.params[i], Args[i]) : i \in DOMAIN f.params}
           end == Jump("br", <<BB(f.body)>>, <<>>)
           ins == <<>>
           none == <<>>
           known == Reaches(node) \cup Defs(Group(node, bb, ins, end))
<1>1. phase = "gen" /\ node \in Node /\ S.op = "GOTO" /\ Arity(S) /\ prog \in Programs /\ S \in Stm
  BY RunningFacts DEF GenGoto, Running, TypeOK
<1>2. node' = NoNode /\ Visit /\ Emit(ins, end) /\ UNCHANGED <<prog, mach, todo, vMap>>
  BY DEF GenGoto, const
<1>3. inc' = inc \cup news
  BY DEF GenGoto
<1>4. S.res = <<>>
  BY <1>1 DEF Arity
<1>5. Elems(Args) \subseteq Reaches(node) /\ \A r \in mach : regState[r] \in Reaches(node)
  BY <1>1, ValuesKnown
<1>6. DOMAIN f.params = DOMAIN Args
  <2>1. Len(S.args) = Len(f.params) /\ S.to \in Lab
    <3>1. /\ S.to \in Elems(prog.clusters[ClusterOf(prog, prog.owner[node])])
          /\ Len(S.args) = Len(f.params)
      BY <1>1, ProgramsAssumption DEF WellFormed, WellTargeted, S
    <3> QED
      BY <1>1, <3>1, HomeFacts, BodyHome
  <2>2. f.params \in Seq(Var) /\ S.args \in Seq(Var)
    BY <1>1, <2>1, UnitFacts DEF Frag, Stm
  <2>3. DOMAIN f.params = 1..Len(f.params) /\ DOMAIN S.args = 1..Len(S.args)
    BY <2>2
  <2> QED
    BY <2>1, <2>3 DEF Args
<1>7. \A e \in news : e.val \in Reaches(node) /\ e.pred = bb
  BY <1>5, <1>6 DEF Elems
<1> HIDE DEF news
<1>8. end.op = "br" /\ Elems(end.args) = {}
  BY DEF Jump, End, Elems
<1>9. InsUses(ins) = {} /\ Elems(S.res) = {}
  BY <1>4, ElemsShort
<1>10. none \in Seq(Task) /\ todo' = none \o todo /\ DOMAIN none = {}
  BY <1>2, NoArms
<1>11. known = Reaches(node) \cup Defs(Group(node, bb, ins, end)) /\ Reaches(node) \subseteq known
  OBVIOUS
<1> HIDE DEF known, end, ins, none
<1>12. GroupTurn(none, ins, end, news, known)
  BY <1>1, <1>2, <1>3, <1>5, <1>7, <1>8, <1>9, <1>10, <1>11 DEF GroupTurn
<1> QED
  BY <1>12, OneGroup

(* SWITCH: the test, and the registers saved for the arms. *)
LEMMA SwitchValues ==
  ASSUME TypeOK, TypeOK', RegsInv, DomInv, GenSwitch
  PROVE  DomInv'
<1> DEFINE dflt == Blk("impossible", node)
           new == [i \in DOMAIN S.next |-> [t |-> "arm", n |-> S.next[i], saved |-> regState]]
           cases == [i \in DOMAIN S.next |-> BB(S.next[i])]
           g1 == Group(node, dflt, <<>>, Jump("unreachable", <<>>, <<>>))
           g2 == Group(node, bb, <<>>, Jump("br", cases \o <<dflt>>, Args))
           es == <<g1, g2>>
           nobody == {}
<1>1. phase = "gen" /\ node \in Node /\ S.op = "SWITCH" /\ Arity(S)
  BY RunningFacts DEF GenSwitch, Running
<1>2. /\ todo' = new \o todo /\ node' = NoNode /\ Visit /\ out' = out \o es
      /\ UNCHANGED <<prog, mach, vMap, inc>>
  BY DEF GenSwitch, const
<1>3. S.res = <<>>
  BY <1>1 DEF Arity
<1>4. Elems(Args) \subseteq Reaches(node) /\ \A r \in mach : regState[r] \in Reaches(node)
  BY <1>1, ValuesKnown
<1>5. /\ g1.at = node /\ g1.ins = <<>> /\ g1.end.op = "unreachable" /\ g1.end.args = <<>>
      /\ g2.at = node /\ g2.ins = <<>> /\ g2.end.op = "br" /\ g2.end.args = Args
  BY DEF Group, Jump, End
<1>6. /\ new \in Seq(Task)
      /\ \A i \in DOMAIN new : /\ new[i].t = "arm" /\ new[i].saved = regState
                               /\ new[i].n \in Children(prog, node)
  <2>1. /\ DOMAIN S.next = 1..Len(S.next) /\ Len(S.next) \in Nat
        /\ \A i \in DOMAIN S.next : S.next[i] \in Node /\ S.next[i] \in Children(prog, node)
    BY <1>1, NextFacts
  <2>2. new \in [1..Len(S.next) -> Task]
    BY <2>1 DEF Task, TypeOK
  <2> QED
    BY <2>1, <2>2, SeqDef
<1> HIDE DEF g1, g2, new
<1>7. es \in Seq({g1, g2}) /\ Elems(es) = {g1, g2}
  BY DEF Elems
<1> HIDE DEF es
<1>8. es \in Seq(GroupType)
  BY <1>2, <1>7, Appended
<1>9. Uses(g1) = {} /\ Uses(g2) = Elems(Args)
  <2>1. Elems(<<>>) = {}
    BY ElemsShort
  <2> QED
    BY <1>5, <2>1 DEF Uses
<1>10. Elems(S.res) = {} /\ inc' = inc \cup nobody
  BY <1>2, <1>3, ElemsShort
<1> DEFINE known == Reaches(node) \cup UNION {Defs(g) : g \in Elems(es)}
<1>11. known = Reaches(node) \cup UNION {Defs(g) : g \in Elems(es)} /\ Reaches(node) \subseteq known
  OBVIOUS
<1> HIDE DEF known, nobody
<1>12. \A g \in Elems(es) : g.at = node /\ g.end.op # "raise" /\ Uses(g) \subseteq known
  BY <1>4, <1>5, <1>7, <1>9, <1>11
<1>13. \A i \in DOMAIN new :
         /\ new[i].t = "arm" /\ new[i].n \in Children(prog, node)
         /\ \A r \in mach : new[i].saved[r] \in known
  BY <1>4, <1>6, <1>11
<1>14. /\ phase = "gen" /\ Visit /\ node \in Node /\ UNCHANGED <<prog, mach>>
       /\ todo' = new \o todo /\ node' = NoNode /\ out' = out \o es /\ es \in Seq({g1, g2})
       /\ nobody = {} /\ inc' = inc \cup nobody /\ new \in Seq(Task)
       /\ \A z \in Var : vMap'[z] = vMap[z] \/ z \in Elems(S.res)
       /\ \A z \in Elems(S.res) : vMap'[z] \in known
  BY <1>1, <1>2, <1>6, <1>7, <1>10 DEF nobody
<1>15. KnownTurn(new, es, nobody, known)
  BY <1>11, <1>12, <1>13, <1>14 DEF KnownTurn
<1> QED
  BY <1>15, <1>7, SomeGroups

(* The arithmetic that can overflow: what the overflow block passes to the
   handler are its own PHI nodes, and they get the registers. *)
LEMMA TrapValues ==
  ASSUME TypeOK, TypeOK', RegsInv, DomInv, GenArith, S.prim # "DIV"
  PROVE  DomInv'
<1> DEFINE z == S.res[1]
           ok == Blk("ok", node)
           i == Op(z, Args)
           ins == <<i>>
           raise == Group(node, Blk("overflow", node), <<>>, End("raise", <<>>, MachRegs("ovphi", node), <<>>))
           branch == Group(node, bb, ins, Jump("ovbr", <<ovBB', ok>>, <<>>))
           none == <<>>
           es == (IF ovBB = NoBlock THEN <<raise>> ELSE <<>>) \o <<branch>>
           news == Incoming(ovPhis')
<1>1. phase = "gen" /\ node \in Node /\ S.op = "ARITH" /\ Arity(S)
  BY RunningFacts DEF GenArith, Running
<1>2. /\ TrapArith(S.res[1]) /\ node' = S.next[1] /\ Visit
      /\ vMap' = Bind(vMap, z, V("ins", node, z))
      /\ UNCHANGED <<prog, mach, todo, regState>>
  BY DEF GenArith, const
<1>3. Len(S.next) = 1 /\ Len(S.res) = 1
  BY <1>1 DEF Arity
<1>4. /\ inc' = inc \cup news
      /\ out' = out \o (IF ovBB = NoBlock THEN <<raise>> ELSE <<>>) \o <<branch>>
  BY <1>2 DEF TrapArith, GetOverflowBB
<1>5. Elems(Args) \subseteq Reaches(node) /\ \A r \in mach : r \in Reg /\ regState[r] \in Reaches(node)
  BY <1>1, ValuesKnown
<1>6. i.args = Args /\ i.def = V("ins", node, z)
  BY DEF Op, Instr
<1> HIDE DEF i
<1>7. InsUses(ins) = Elems(Args) /\ InsDefs(ins) = {V("ins", node, z)}
  BY <1>6, ElemsShort
<1> HIDE DEF ins
<1>8. /\ raise.at = node /\ raise.ins = <<>> /\ raise.end.op = "raise" /\ raise.end.args = <<>>
      /\ raise.end.regs = MachRegs("ovphi", node)
      /\ branch.at = node /\ branch.blk = bb /\ branch.ins = ins /\ branch.end.op = "ovbr"
      /\ branch.end.args = <<>>
  BY DEF Group, End, Jump
<1> HIDE DEF raise, branch
<1>9. Elems(<<>>) = {}
  BY ElemsShort
<1>10. Uses(raise) \subseteq {V("ovphi", node, r) : r \in mach}
  <2>1. {raise.end.regs[r] : r \in mach} \subseteq {V("ovphi", node, r) : r \in mach}
    BY <1>5, <1>8 DEF MachRegs
  <2>2. Uses(raise) = {raise.end.regs[r] : r \in mach}
    BY <1>8, <1>9 DEF Uses
  <2> QED
    BY <2>1, <2>2
<1>11. Uses(branch) = InsUses(ins) /\ Defs(branch) = InsDefs(ins) /\ Terminates(branch)
  BY <1>8, <1>9 DEF Uses, Defs, InsUses, InsDefs, Terminates
<1>12. /\ es \in Seq({raise, branch}) /\ branch \in Elems(es) /\ \A g \in Elems(es) : g \in {raise, branch}
       /\ out' = out \o es
  <2> DEFINE a == IF ovBB = NoBlock THEN <<raise>> ELSE <<>>
             b == <<branch>>
             T == GroupType \cup {raise, branch}
             R == {raise, branch}
  <2>1. a \in Seq(T) /\ b \in Seq(T) /\ a \in Seq(R) /\ b \in Seq(R)
    <3>1. a \in Seq(T) /\ a \in Seq(R)
      <4>1. a = <<raise>> \/ a = <<>>
        OBVIOUS
      <4>2. <<raise>> \in Seq(T) /\ <<raise>> \in Seq(R)
        OBVIOUS
      <4>3. <<>> \in Seq(T) /\ <<>> \in Seq(R)
        OBVIOUS
      <4> HIDE DEF a, T, R
      <4> QED
        BY <4>1, <4>2, <4>3
    <3>2. b \in Seq(T) /\ b \in Seq(R)
      OBVIOUS
    <3> QED
      BY <3>1, <3>2
  <2>2. out \in Seq(GroupType)
    BY DEF TypeOK
  <2>3. out \in Seq(T)
    BY <2>2
  <2>4. Elems(b) = {branch} /\ Elems(a) \subseteq {raise}
    BY ElemsShort
  <2>5. out' = (out \o a) \o b /\ es = a \o b
    BY <1>4
  <2>6. {raise} \subseteq R /\ {branch} \subseteq R
    OBVIOUS
  <2> HIDE DEF a, b, T, es, R
  <2>7. Elems(es) = Elems(a) \cup Elems(b) /\ es \in Seq(R)
    BY <2>1, <2>5, ElemsConcat, ConcatProperties
  <2>8. out' = out \o es
    BY <2>1, <2>3, <2>5, ConcatAssociative, SMTT(60)
  <2> QED
    BY <2>4, <2>6, <2>7, <2>8 DEF R
<1> HIDE DEF es
<1> DEFINE known == Reaches(node) \cup UNION {Defs(g) : g \in Elems(es)}
<1>13. Reaches(node) \subseteq known /\ InsDefs(ins) \subseteq known
  BY <1>11, <1>12
<1>14. /\ none \in Seq(Task) /\ todo' = none \o todo /\ DOMAIN none = {}
  BY <1>2, NoArms
<1>15. \A e \in news : e.val \in known /\ \E g \in Elems(es) : g.blk = e.pred /\ Terminates(g)
  BY <1>5, <1>8, <1>11, <1>12, <1>13 DEF Incoming
<1>16. /\ \A y \in Var : vMap'[y] = vMap[y] \/ y \in Elems(S.res)
       /\ \A y \in Elems(S.res) : vMap'[y] \in known
  <2>1. V("ins", node, z) \in known
    BY <1>7, <1>13
  <2> HIDE DEF known
  <2> QED
    BY <1>1, <1>2, <1>3, <2>1, BindFresh
<1>17. /\ \A g \in Elems(es) :
            /\ g.at = node
            /\ Uses(g) \subseteq IF g.end.op = "raise" THEN {V("ovphi", node, r) : r \in mach} ELSE known
       /\ \A r \in mach : regState'[r] \in known
  BY <1>2, <1>5, <1>7, <1>8, <1>10, <1>11, <1>12, <1>13
<1>18. node' \in Children(prog, node) \cup {NoNode}
  BY <1>1, <1>2, <1>3, NextFacts
<1>19. known = Reaches(node) \cup UNION {Defs(g) : g \in Elems(es)}
  OBVIOUS
<1>20. /\ phase = "gen" /\ Visit /\ node \in Node /\ UNCHANGED <<prog, mach>>
       /\ out' = out \o es /\ es \in Seq({raise, branch})
       /\ inc' = inc \cup news
  BY <1>1, <1>2, <1>4, <1>12
<1> HIDE DEF known, none, news
<1>21. KnownTurn(none, es, news, known)
  BY <1>14, <1>15, <1>16, <1>17, <1>18, <1>19, <1>20 DEF KnownTurn
<1> QED
  BY <1>21, <1>12, SomeGroups

-----------------------------------------------------------------------------
(* The steps that set up work emit no code. *)

(* Without new code, the same values reach the same statements. *)
LEMMA SameValues ==
  ASSUME DomInv, UNCHANGED <<prog, mach, at, out, inc>>
  PROVE  /\ Done' = Done /\ \A k : Reaches(k)' = Reaches(k)
         /\ DefsDominateUses'
<1>1. Groups' = Groups /\ Done' = Done
  BY DEF Groups, Done, Visited
<1>2. \A g : Defs(g)' = Defs(g) /\ Uses(g)' = Uses(g) /\ Terminates(g)' = Terminates(g)
  BY DEF Defs, Uses, Terminates
<1>3. \A k : Reaches(k)' = Reaches(k)
  BY <1>1, <1>2 DEF Reaches
<1>4. DefsDominateUses'
  BY <1>1, <1>2, <1>3 DEF DomInv, DefsDominateUses
<1> QED
  BY <1>1, <1>3, <1>4

(* An arm that stays pending stays supplied while nothing is generated or bound. *)
LEMMA SameArm ==
  ASSUME DomInv, UNCHANGED <<prog, mach, at, out, inc, vMap>>,
         NEW n, NEW rs, Supplied(n, rs), BoundHere(n)
  PROVE  /\ \A r \in mach : rs[r] \in Reaches(n)'
         /\ \A z \in prog.scope[n] : vMap'[z] \in Reaches(n)'
         /\ BoundHere(n)'
<1>1. Done' = Done /\ Reaches(n)' = Reaches(n)
  BY SameValues
<1> QED
  BY <1>1 DEF Supplied, BoundHere

(* The next arm starts from the registers saved for it. *)
LEMMA NextArmValues ==
  ASSUME TypeOK, TypeOK', RegsInv, DomInv, NextArm
  PROVE  DomInv'
<1>1. /\ Returned("arm") /\ UNCHANGED <<prog, mach, at, vMap, out, inc>> /\ todo' = Tail(todo)
      /\ node' = Head(todo).n /\ regState' = Head(todo).saved
  BY DEF NextArm, const, irVars, RestoredRegs
<1>2. /\ Head(todo) = todo[1] /\ 1 \in DOMAIN todo
      /\ \A i \in DOMAIN todo' : i + 1 \in DOMAIN todo /\ todo'[i] = todo[i + 1]
  BY <1>1, TailCases DEF Returned
<1> PICK h : h = todo[1]
  OBVIOUS
<1>3. h.t = "arm" /\ Supplied(h.n, h.saved) /\ BoundHere(h.n) /\ node' = h.n /\ regState' = h.saved
  BY <1>1, <1>2 DEF Returned, DomInv, ArmsSupplied
<1>4. NodeSupplied'
  <2>1. /\ \A r \in mach : h.saved[r] \in Reaches(h.n)'
        /\ \A z \in prog.scope[h.n] : vMap'[z] \in Reaches(h.n)'
        /\ BoundHere(h.n)'
    BY <1>1, <1>3, SameArm
  <2>2. Reaches(node)' = Reaches(h.n)' /\ (BoundHere(node)' <=> BoundHere(h.n)')
    BY <1>3 DEF Reaches, BoundHere
  <2> QED
    BY <1>1, <1>3, <2>1, <2>2 DEF NodeSupplied, Supplied
<1>5. ArmsSupplied'
  <2>1. ASSUME NEW i \in DOMAIN todo', todo'[i].t = "arm"
        PROVE  /\ Supplied(todo[i].n, todo[i].saved)' /\ BoundHere(todo[i].n)'
               /\ prog.owner[todo'[i].n] = prog.owner[h.n]
    <3> PICK t : t = todo'[i]
      OBVIOUS
    <3>1. t.t = "arm" /\ Supplied(t.n, t.saved) /\ BoundHere(t.n) /\ prog.owner[t.n] = prog.owner[h.n]
      BY <1>2, <1>3, <2>1 DEF DomInv, ArmsSupplied
    <3>2. /\ \A r \in mach : t.saved[r] \in Reaches(t.n)'
          /\ \A z \in prog.scope[t.n] : vMap'[z] \in Reaches(t.n)'
          /\ BoundHere(t.n)'
      BY <1>1, <3>1, SameArm
    <3>3. Reaches(todo[i].n)' = Reaches(t.n)' /\ (BoundHere(todo[i].n)' <=> BoundHere(t.n)')
      BY DEF Reaches, BoundHere
    <3> QED
      BY <1>1, <3>1, <3>2, <3>3 DEF Supplied
  <2> QED
    BY <1>1, <1>3, <2>1 DEF ArmsSupplied
<1>6. FragKinds'
  BY <1>1, <1>2 DEF DomInv, FragKinds
<1> QED
  BY <1>1, <1>4, <1>5, <1>6, SameValues DEF DomInv

(* A fragment starts from its parameters and the registers of its kind. *)
LEMMA BeginFragValues ==
  ASSUME TypeOK, TypeOK', RegsInv, DomInv, BeginFrag
  PROVE  DomInv'
<1>1. Returned("frag") /\ UNCHANGED <<prog, mach, at, out, inc>> /\ todo' = Tail(todo)
  BY DEF BeginFrag, const, irVars
<1>2. /\ Head(todo) = todo[1] /\ 1 \in DOMAIN todo /\ Head(todo) \in Task
      /\ \A i \in DOMAIN todo' : i \in Nat /\ i > 0 /\ i + 1 \in DOMAIN todo /\ todo'[i] = todo[i + 1]
  BY <1>1, TailCases DEF Returned
<1> PICK h \in Task : h = Head(todo)
  BY <1>2
<1>3. h.t = "frag" /\ h.lab \in Lab /\ prog \in Programs
  BY <1>1 DEF Returned, Task, TypeOK
<1> PICK f \in Frag : f = prog.frag[h.lab]
  BY <1>3, UnitFacts
<1> PICK n \in Node : n = f.body
  BY <1>3, UnitFacts
<1> PICK k : k = IF h.entry THEN "arg" ELSE "phi"
  OBVIOUS
<1>4. /\ node' = n /\ vMap' = BindAll(ClearedMap, f.params, k, n)
      /\ regState' = IF h.entry THEN StdEntryRegs(n) ELSE FragEntryRegs(n)
  BY DEF BeginFrag
<1>5. prog.owner[n] = h.lab /\ prog.scope[n] = Elems(f.params) /\ f.params \in Seq(Var)
  BY <1>3, ProgramsAssumption DEF WellFormed, WellScoped, Frag
<1>6. k = IF f.kind = "INTERNAL" THEN "phi" ELSE "arg"
  <2>1. h.entry <=> f.kind # "INTERNAL"
    BY <1>2, <1>3, Zenon DEF DomInv, FragKinds
  <2> QED
    BY <2>1
<1>7. \A y \in mach \cup Elems(f.params) : V(k, n, y) \in Reaches(n)'
  <2> SUFFICES ASSUME NEW y \in mach \cup Elems(f.params) PROVE V(k, n, y) \in Reaches(n)
    BY <1>1, SameValues
  <2>1. V(k, f.body, y) \in {V(k, f.body, x) : x \in mach \cup Elems(f.params)}
    OBVIOUS
  <2> QED
    BY <1>5, <1>6, <2>1, Zenon DEF Reaches
<1>8. \A r \in mach : regState'[r] \in Reaches(n)'
  <2>1. mach \subseteq Reg
    BY TargetsAssumption DEF TypeOK
  <2>2. \A r \in mach : regState'[r] = V(k, n, r)
    BY <1>4, <2>1 DEF StdEntryRegs, FragEntryRegs, MachRegs
  <2> QED
    BY <1>7, <2>2
<1>9. \A z \in Var : vMap'[z] = IF z \in Elems(f.params) THEN V(k, n, z) ELSE NoVal
  BY <1>4 DEF BindAll, ClearedMap, NoVals
<1>10. \A z \in Elems(f.params) : z \in Var
  <2>1. f.params \in Seq(Var)
    BY <1>5
  <2>2. \A i \in DOMAIN f.params : f.params[i] \in Var
    BY ONLY <2>1, SMTT(60)
  <2> QED
    BY ONLY <2>2, ZenonT(60) DEF Elems
<1>11. \A z \in prog.scope[n] : vMap'[z] \in Reaches(n)'
  <2> SUFFICES ASSUME NEW z \in prog.scope[n] PROVE vMap'[z] \in Reaches(n)'
    OBVIOUS
  <2>1. z \in Elems(f.params)
    BY <1>5
  <2>2. vMap'[z] = V(k, n, z)
    BY <1>9, <1>10, <2>1, Zenon
  <2> QED
    BY <1>7, <2>1, <2>2
<1>12. BoundHere(n)'
  BY <1>1, <1>5, <1>9, Zenon DEF BoundHere
<1>13. NodeSupplied'
  <2>1. Reaches(node)' = Reaches(n)' /\ (BoundHere(node)' <=> BoundHere(n)')
    BY <1>4 DEF Reaches, BoundHere
  <2> QED
    BY <1>1, <1>4, <1>8, <1>11, <1>12, <2>1, Zenon DEF NodeSupplied, Supplied
<1>14. ArmsSupplied'
  <2>1. \A i \in DOMAIN todo' : todo'[i].t # "arm"
    BY <1>2, <1>3 DEF RegsInv, ArmsFirst
  <2> QED
    BY <2>1 DEF ArmsSupplied
<1>15. FragKinds'
  BY <1>1, <1>2 DEF DomInv, FragKinds
<1> QED
  BY <1>1, <1>13, <1>14, <1>15, SameValues DEF DomInv

(* The first fragment of a cluster is its entry, the others are internal. *)
LEMMA BeginClusterValues ==
  ASSUME TypeOK, TypeOK', RegsInv, DomInv, BeginCluster
  PROVE  DomInv'
<1>1. /\ Returned("cluster") /\ node = NoNode /\ UNCHANGED <<prog, mach, at, node, vMap, out, inc>>
  BY Zenon DEF BeginCluster, Returned, const
<1>2. /\ Head(todo) = todo[1] /\ 1 \in DOMAIN todo /\ Head(todo) \in Task /\ Tail(todo) \in Seq(Task)
      /\ \A i \in DOMAIN Tail(todo) :
           i \in Nat /\ i > 0 /\ i + 1 \in DOMAIN todo /\ Tail(todo)[i] = todo[i + 1]
  BY <1>1, TailCases DEF Returned
<1> PICK h \in Task : h = Head(todo)
  BY <1>2
<1>3. h.t = "cluster" /\ h.c \in DOMAIN prog.clusters /\ prog \in Programs
  BY <1>1 DEF Returned, Task, TypeOK
<1> PICK c \in DOMAIN prog.clusters : c = h.c
  BY <1>3
<1> PICK frags \in Seq(Lab) : frags = prog.clusters[c]
  BY <1>3, ClusterStarts, Zenon
<1> DEFINE new == [i \in DOMAIN frags |-> [t |-> "frag", lab |-> frags[i], entry |-> i = 1]]
           rest == Tail(todo)
<1>4. todo' = new \o rest
  BY Zenon DEF BeginCluster
<1>5. new \in Seq(Task)
  <2>1. DOMAIN frags = 1..Len(frags) /\ Len(frags) \in Nat /\ \A i \in DOMAIN frags : frags[i] \in Lab
    OBVIOUS
  <2>2. new \in [1..Len(frags) -> Task]
    BY <2>1 DEF Task
  <2> QED
    BY <2>1, <2>2, SeqDef
<1>6. \A i \in DOMAIN new : /\ new[i].t = "frag"
                            /\ new[i].entry <=> prog.frag[new[i].lab].kind # "INTERNAL"
  <2> SUFFICES ASSUME NEW i \in DOMAIN frags
               PROVE  (i = 1) <=> prog.frag[frags[i]].kind # "INTERNAL"
    BY Zenon
  <2>1. (i > 1) <=> prog.frag[frags[i]].kind = "INTERNAL"
    BY <1>3, ProgramsAssumption DEF WellFormed, WellLinked
  <2>2. i \in Nat /\ i >= 1
    OBVIOUS
  <2> QED
    BY <2>1, <2>2
<1>7. \A i \in DOMAIN rest : rest[i].t # "arm" /\ \E j \in DOMAIN todo : rest[i] = todo[j]
  BY <1>2, <1>3 DEF RegsInv, ArmsFirst
<1> HIDE DEF new, rest
<1>8. \A i \in DOMAIN todo' :
        \/ i \in DOMAIN new /\ todo'[i] = new[i]
        \/ i - Len(new) \in DOMAIN rest /\ todo'[i] = rest[i - Len(new)]
  BY <1>2, <1>4, <1>5, ConcatCases DEF rest
<1>9. ArmsSupplied'
  BY <1>6, <1>7, <1>8 DEF ArmsSupplied
<1>10. FragKinds'
  <2> SUFFICES ASSUME NEW i \in DOMAIN todo', NEW t, t = todo'[i], t.t = "frag"
               PROVE  t.entry <=> prog.frag[t.lab].kind # "INTERNAL"
    BY <1>1 DEF FragKinds
  <2> QED
    BY <1>6, <1>7, <1>8 DEF DomInv, FragKinds
<1>11. NodeSupplied'
  BY <1>1 DEF NodeSupplied
<1> QED
  BY <1>1, <1>9, <1>10, <1>11, SameValues DEF DomInv

(* Beginning the unit, and steps that leave values and pending work alone. *)
LEMMA IdleValues ==
  ASSUME TypeOK, RegsInv, DomInv, BeginUnit \/ EndUnit \/ Finished \/ UNCHANGED vars
  PROVE  DomInv'
<1>1. /\ UNCHANGED <<prog, mach, at, out, inc, vMap, node, regState>>
      /\ UNCHANGED todo \/ (node = NoNode /\ \A i \in DOMAIN todo' : todo'[i].t = "cluster")
  BY DEF BeginUnit, EndUnit, Finished, vars, const, irVars, RegsInv, NothingDone
<1>2. Done' = Done /\ \A k : Reaches(k)' = Reaches(k)
  BY <1>1, SameValues
<1>3. NodeSupplied'
  <2>1. Reaches(node)' = Reaches(node)
    BY <1>1, <1>2 DEF Reaches, Groups, Defs
  <2> QED
    BY <1>1, <1>2, <2>1 DEF DomInv, NodeSupplied, Supplied, BoundHere
<1>4. ArmsSupplied'
  <2>1. CASE UNCHANGED todo
    <3>1. ASSUME NEW i \in DOMAIN todo PROVE Reaches(todo[i].n)' = Reaches(todo[i].n)
      BY <1>1, <2>1 DEF Reaches, Groups, Defs
    <3> QED
      BY <1>1, <1>2, <2>1, <3>1 DEF DomInv, ArmsSupplied, Supplied, BoundHere
  <2>2. CASE \A i \in DOMAIN todo' : todo'[i].t = "cluster"
    BY <2>2 DEF ArmsSupplied
  <2> QED
    BY <1>1, <2>1, <2>2
<1>5. FragKinds'
  BY <1>1 DEF DomInv, FragKinds
<1> QED
  BY <1>1, <1>3, <1>4, <1>5, SameValues DEF DomInv

(* Before a unit is begun there is no code. *)
LEMMA InitDom == Init => DomInv
<1> SUFFICES ASSUME Init PROVE DomInv
  OBVIOUS
<1>1. node = NoNode /\ DOMAIN todo = {} /\ Elems(out) = {} /\ inc = {}
  BY DEF Init, Elems
<1> QED
  BY <1>1 DEF DomInv, NodeSupplied, ArmsSupplied, FragKinds, DefsDominateUses, Groups

(* Every step preserves DomInv: one lemma per method, or group of methods. *)
LEMMA StepDom == TypeOK /\ TypeOK' /\ RegsInv /\ DomInv /\ [Next]_vars => DomInv'
<1> SUFFICES ASSUME TypeOK, TypeOK', RegsInv, DomInv, [Next]_vars PROVE DomInv'
  OBVIOUS
<1>1. CASE BeginCluster
  BY <1>1, BeginClusterValues
<1>2. CASE BeginFrag
  BY <1>2, BeginFragValues
<1>3. CASE NextArm
  BY <1>3, NextArmValues
<1>4. CASE GenLet
  BY <1>4, LetValues
<1>5. CASE GenAlloc
  BY <1>5, AllocValues
<1>6. CASE GenArith
  BY <1>6, DivValues, TrapValues
<1>7. CASE GenSetter
  BY <1>7, SetterValues
<1>8. CASE GenCallGC
  BY <1>8, GCValues
<1>9. CASE GenBranch
  BY <1>9, BranchValues
<1>10. CASE GenSwitch
  BY <1>10, SwitchValues
<1>11. CASE GenGoto
  BY <1>11, GotoValues
<1>12. CASE GenApply \/ GenThrow
  BY <1>12, CallValues
<1>13. CASE BeginUnit \/ EndUnit \/ Finished \/ UNCHANGED vars
  BY <1>13, IdleValues
<1> QED
  BY <1>1, <1>2, <1>3, <1>4, <1>5, <1>6, <1>7, <1>8, <1>9, <1>10, <1>11, <1>12, <1>13
  DEF Next, Step, GenStm

(***************************************************************************)
(* Definitions dominate uses, for every well-formed unit and every target: *)
(* although all arms of a fragment share the variable map and the register *)
(* state, no codegen method looks a value up in them that was computed on  *)
(* another arm, in another fragment or later.                              *)
(***************************************************************************)
THEOREM DefsDominate == Spec => []DefsDominateUses
<1>1. Init => RegsInv /\ DomInv
  BY InitRegs, InitDom
<1>2. TypeOK /\ TypeOK' /\ RegsInv /\ DomInv /\ [Next]_vars => RegsInv' /\ DomInv'
  BY StepRegs, StepDom
<1>3. DomInv => DefsDominateUses
  BY DEF DomInv
<1> QED
  BY <1>1, <1>2, <1>3, TypeCorrect, PTL DEF Spec
-----------------------------------------------------------------------------
(* PHI nodes and the branches to their blocks. *)

(* A PHI node is in one block, and it stays there. *)
LEMMA PhisApart ==
  ASSUME NEW b \in Block, NEW c \in Block, NEW v \in PhisOf(b), v \in PhisOf(c)
  PROVE  b = c
<1>1. /\ v.k = IF b.k = "overflow" THEN "ovphi" ELSE "phi"
      /\ v.at = b.at /\ b.k \in {"overflow", "bb"}
  BY DEF PhisOf, V
<1>2. /\ v.k = IF c.k = "overflow" THEN "ovphi" ELSE "phi"
      /\ v.at = c.at /\ c.k \in {"overflow", "bb"}
  BY DEF PhisOf, V
<1>3. b.k = c.k /\ b.at = c.at
  BY <1>1, <1>2
<1> QED
  BY <1>3 DEF Block

(* Only overflow blocks and the blocks of fragments have PHI nodes. *)
LEMMA NoPhis ==
  ASSUME NEW n \in Node
  PROVE  /\ PhisOf(Blk("ok", n)) = {} /\ PhisOf(Blk("impossible", n)) = {}
         /\ n \notin Bodies(prog) => PhisOf(BB(n)) = {}
BY DEF PhisOf, BB, Blk, Bodies

(* The children of a statement are not bodies, so their blocks have none. *)
LEMMA ChildNoPhis ==
  ASSUME TypeOK, NEW n \in Node, NEW m \in Children(prog, n)
  PROVE  PhisOf(BB(m)) = {}
<1>1. prog \in Programs
  BY DEF TypeOK
<1>2. m \in Node /\ m \notin Bodies(prog)
  BY <1>1, StmFacts, ProgramsAssumption DEF WellFormed, IsForest
<1> QED
  BY <1>2, NoPhis

(***************************************************************************)
(* A turn that branches only to blocks without PHI nodes, and gives none   *)
(* an entry.                                                               *)
(***************************************************************************)
QuietTurn(es) ==
  /\ UNCHANGED <<prog, mach, inc>>
  /\ made \subseteq made'
  /\ out' = out \o es
  /\ \A g \in Elems(es) : \A b \in Elems(g.end.to) : PhisOf(b) = {}

(* Such a turn leaves the PHI nodes complete. *)
LEMMA QuietPhis ==
  ASSUME TypeOK, TypeOK', PhiInv, NEW es \in Seq(GroupType), QuietTurn(es)
  PROVE  /\ (\A b \in Block : PhisComplete(b))'
         /\ (\A e \in inc : \E m \in made : e.phi \in PhisOf(m.blk))'
<1>1. Groups' = Groups \cup Elems(es)
  BY ReachesGrows DEF QuietTurn
<1>2. \A b : PhisOf(b)' = PhisOf(b)
  BY DEF QuietTurn, PhisOf
<1>3. ASSUME NEW b \in Block PROVE PhisComplete(b)'
  <2> SUFFICES ASSUME NEW v \in PhisOf(b)
               PROVE  LET mine == {e \in inc : e.phi = v} IN
                      /\ {e.pred : e \in mine} = Preds(b)'
                      /\ \A e, f \in mine : e.pred = f.pred => e = f
    BY <1>2 DEF PhisComplete, QuietTurn
  <2>1. Preds(b)' = Preds(b)
    <3>1. \A g \in Elems(es) : b \notin Elems(g.end.to)
      BY DEF QuietTurn
    <3> QED
      BY <1>1, <3>1 DEF Preds
  <2> QED
    BY <2>1 DEF PhiInv, PhisComplete
<1>4. ASSUME NEW e \in inc' PROVE \E m \in made' : e.phi \in PhisOf(m.blk)
  BY DEF PhiInv, QuietTurn
<1> QED
  BY <1>2, <1>3, <1>4

(***************************************************************************)
(* A turn that branches from the insert block to block b0, and to no other *)
(* block with PHI nodes, and gives each PHI node of b0 the entry for it.   *)
(***************************************************************************)
BranchTurn(b0, es, news) ==
  /\ UNCHANGED <<prog, mach>>
  /\ made \subseteq made' /\ b0 \in Block /\ \E m \in made' : m.blk = b0
  /\ out' = out \o es
  /\ \A g \in Elems(es) : \A b \in Elems(g.end.to) : PhisOf(b) = {} \/ (b = b0 /\ g.blk = bb)
  /\ \E g \in Elems(es) : b0 \in Elems(g.end.to) /\ g.blk = bb
  /\ inc' = inc \cup news
  /\ \A e \in news : e.phi \in PhisOf(b0) /\ e.pred = bb
  /\ \A v \in PhisOf(b0) : \E e \in news : e.phi = v
  /\ \A e, f \in news : e.phi = f.phi => e = f

(* Such a turn leaves them complete as well: the insert block was open, so
   none of the old entries can be from it. *)
LEMMA BranchPhis ==
  ASSUME TypeOK, TypeOK', DomInv, PhiInv, ~Closed(bb),
         NEW b0, NEW es \in Seq(GroupType), NEW news, BranchTurn(b0, es, news)
  PROVE  /\ (\A b \in Block : PhisComplete(b))'
         /\ (\A e \in inc : \E m \in made : e.phi \in PhisOf(m.blk))'
<1>1. Groups' = Groups \cup Elems(es)
  BY ReachesGrows DEF BranchTurn
<1>2. \A b : PhisOf(b)' = PhisOf(b)
  BY DEF BranchTurn, PhisOf
<1>3. \A e \in inc : e.pred # bb
  <2> SUFFICES ASSUME NEW e \in inc, e.pred = bb PROVE FALSE
    OBVIOUS
  <2>1. PICK g \in Groups : g.blk = bb /\ Terminates(g)
    BY DEF DomInv, DefsDominateUses
  <2>2. Closed(bb)
    BY <2>1 DEF Closed, Groups, Elems
  <2> QED
    BY <2>2
<1>4. ASSUME NEW b \in Block PROVE PhisComplete(b)'
  <2> SUFFICES ASSUME NEW v \in PhisOf(b)
               PROVE  LET mine == {e \in inc' : e.phi = v} IN
                      /\ {e.pred : e \in mine} = Preds(b)'
                      /\ \A e, f \in mine : e.pred = f.pred => e = f
    BY <1>2 DEF PhisComplete
  <2> DEFINE old == {e \in inc : e.phi = v}
             mine == {e \in inc' : e.phi = v}
  <2>1. {e.pred : e \in old} = Preds(b) /\ \A e, f \in old : e.pred = f.pred => e = f
    BY DEF PhiInv, PhisComplete
  <2>2. CASE b # b0
    <3>1. \A g \in Elems(es) : b \notin Elems(g.end.to)
      BY <2>2 DEF BranchTurn
    <3>2. Preds(b)' = Preds(b)
      BY <1>1, <3>1 DEF Preds
    <3>3. \A e \in news : e.phi # v
      BY <2>2, PhisApart DEF BranchTurn
    <3>4. mine = old
      BY <3>3 DEF BranchTurn
    <3> QED
      BY <2>1, <3>2, <3>4
  <2>3. CASE b = b0
    <3>1. PICK e0 \in news : e0.phi = v
      BY <2>3 DEF BranchTurn
    <3>2. e0.pred = bb /\ mine = old \cup {e0}
      BY <3>1 DEF BranchTurn
    <3>3. Preds(b)' = Preds(b) \cup {bb}
      <4>1. \A g \in Elems(es) : b \in Elems(g.end.to) => g.blk = bb
        BY DEF BranchTurn
      <4>2. \E g \in Elems(es) : b \in Elems(g.end.to) /\ g.blk = bb
        BY <2>3 DEF BranchTurn
      <4> QED
        BY <1>1, <4>1, <4>2 DEF Preds
    <3>4. \A e \in old : e.pred # bb
      BY <1>3
    <3> HIDE DEF old, mine
    <3>5. {e.pred : e \in mine} = Preds(b)'
      BY <2>1, <3>2, <3>3
    <3>6. \A e, f \in mine : e.pred = f.pred => e = f
      BY <2>1, <3>2, <3>4
    <3> QED
      BY <3>5, <3>6 DEF mine
  <2> QED
    BY <2>2, <2>3
<1>5. ASSUME NEW e \in inc' PROVE \E m \in made' : e.phi \in PhisOf(m.blk)
  BY DEF PhiInv, BranchTurn
<1> QED
  BY <1>2, <1>4, <1>5
(* Statements that branch nowhere: straight-line code and calls. *)
LEMMA LinePhis ==
  ASSUME TypeOK, TypeOK', PhiInv,
         GenLet \/ GenAlloc \/ GenSetter \/ GenCallGC \/ (GenArith /\ S.prim = "DIV")
           \/ GenApply \/ GenThrow
  PROVE  PhiInv'
<1>1. UNCHANGED <<prog, mach, inc, made, ovBB, ovPhis>>
  BY DEF GenLet, GenAlloc, GenSetter, GenCallGC, GenArith, GenApply, GenThrow, TailCall, const, ovVars
<1>2. \E ins, end : Emit(ins, end) /\ end.to = <<>>
  <2>1. Fall.to = <<>>
    BY DEF Fall, End
  <2>2. CASE GenCallGC \/ GenApply \/ GenThrow
    BY <2>2 DEF GenCallGC, GenApply, GenThrow, TailCall, End
  <2>3. CASE GenLet \/ GenAlloc \/ GenSetter \/ (GenArith /\ S.prim = "DIV")
    <3>1. \E ins : Emit(ins, Fall)
      BY <2>3 DEF GenLet, GenAlloc, AllocRecord, GenSetter, SetSpecial, RecordStore, GenArith
    <3> QED
      BY <2>1, <3>1
  <2> QED
    BY <2>2, <2>3
<1>3. PICK ins, end : Emit(ins, end) /\ end.to = <<>>
  BY <1>2
<1> DEFINE g == Group(node, bb, ins, end)
           es == <<g>>
<1>4. g.end.to = <<>>
  BY <1>3 DEF Group
<1>5. out' = Append(out, g) /\ out \in Seq(GroupType)
  BY <1>3 DEF Emit, TypeOK
<1> HIDE DEF g
<1>6. out' = out \o es /\ es \in Seq({g}) /\ Elems(es) = {g}
  BY <1>5, ElemsShort
<1> HIDE DEF es
<1>7. es \in Seq(GroupType)
  BY <1>6, Appended
<1>8. QuietTurn(es)
  BY <1>1, <1>4, <1>6, ElemsShort DEF QuietTurn
<1> QED
  BY <1>1, <1>7, <1>8, QuietPhis DEF PhiInv, OverflowPhis

(* The arms of a BRANCH are not bodies of fragments. *)
LEMMA BranchArmsPhis ==
  ASSUME TypeOK, TypeOK', PhiInv, GenBranch
  PROVE  PhiInv'
<1> DEFINE end == Jump("br", <<BB(S.next[1]), BB(S.next[2])>>, Test.args)
           g == Group(node, bb, Test.ins, end)
           es == <<g>>
<1>1. node \in Node /\ S.op = "BRANCH" /\ Arity(S)
  BY RunningFacts DEF GenBranch, Running
<1>2. Emit(Test.ins, end) /\ UNCHANGED <<prog, mach, inc, made, ovBB, ovPhis>>
  BY DEF GenBranch, const, ovVars
<1>3. /\ S.next[1] \in Children(prog, node) /\ S.next[2] \in Children(prog, node)
  BY <1>1, NextFacts DEF Arity
<1>4. PhisOf(BB(S.next[1])) = {} /\ PhisOf(BB(S.next[2])) = {}
  BY <1>1, <1>3, ChildNoPhis
<1>5. g.end.to = <<BB(S.next[1]), BB(S.next[2])>>
  BY DEF Group, Jump, End
<1>6. Elems(g.end.to) = {BB(S.next[1]), BB(S.next[2])}
  <2> HIDE DEF g
  <2> QED
    BY <1>5 DEF Elems
<1>7. out' = Append(out, g) /\ out \in Seq(GroupType)
  BY <1>2 DEF Emit, TypeOK
<1> HIDE DEF g, end
<1>8. out' = out \o es /\ es \in Seq({g}) /\ Elems(es) = {g}
  BY <1>7, ElemsShort
<1> HIDE DEF es
<1>9. es \in Seq(GroupType)
  BY <1>8, Appended
<1>10. QuietTurn(es)
  BY <1>2, <1>4, <1>6, <1>8 DEF QuietTurn
<1> QED
  BY <1>2, <1>9, <1>10, QuietPhis DEF PhiInv, OverflowPhis

(* Nor are those of a SWITCH, and its default block has no PHI nodes. *)
LEMMA SwitchArmsPhis ==
  ASSUME TypeOK, TypeOK', PhiInv, GenSwitch
  PROVE  PhiInv'
<1> DEFINE dflt == Blk("impossible", node)
           cases == [i \in DOMAIN S.next |-> BB(S.next[i])]
           g1 == Group(node, dflt, <<>>, Jump("unreachable", <<>>, <<>>))
           g2 == Group(node, bb, <<>>, Jump("br", cases \o <<dflt>>, Args))
           es == <<g1, g2>>
<1>1. node \in Node
  BY RunningFacts DEF GenSwitch
<1>2. /\ out' = out \o es /\ made \subseteq made'
      /\ UNCHANGED <<prog, mach, inc, ovBB, ovPhis>>
  BY DEF GenSwitch, const, ovVars
<1>3. g1.end.to = <<>> /\ g2.end.to = cases \o <<dflt>>
  BY DEF Group, Jump, End
<1>4. \A b \in Elems(cases \o <<dflt>>) : PhisOf(b) = {}
  <2>1. /\ DOMAIN S.next = 1..Len(S.next) /\ Len(S.next) \in Nat
        /\ \A i \in DOMAIN S.next : S.next[i] \in Node /\ S.next[i] \in Children(prog, node)
    BY <1>1, NextFacts
  <2>2. \A i \in DOMAIN S.next : PhisOf(BB(S.next[i])) = {} /\ BB(S.next[i]) \in Block
    BY <1>1, <2>1, ChildNoPhis, NameTypes
  <2>3. cases \in Seq(Block)
    <3>1. cases \in [1..Len(S.next) -> Block]
      BY <2>1, <2>2
    <3> QED
      BY <2>1, <3>1, SeqDef
  <2>4. PhisOf(dflt) = {} /\ dflt \in Block
    BY <1>1, NoPhis, NameTypes
  <2>5. \A b \in Elems(cases) : PhisOf(b) = {}
    BY <2>2 DEF Elems
  <2> HIDE DEF cases, dflt
  <2>6. <<dflt>> \in Seq(Block) /\ Elems(<<dflt>>) = {dflt}
    BY <2>4, ElemsShort
  <2> DEFINE last == <<dflt>>
  <2>7. Elems(cases \o <<dflt>>) = Elems(cases) \cup {dflt}
    <3>1. last \in Seq(Block) /\ Elems(last) = {dflt}
      BY <2>6
    <3> HIDE DEF last
    <3>2. Elems(cases \o last) = Elems(cases) \cup Elems(last)
      BY <2>3, <3>1, ElemsConcat
    <3> QED
      BY <3>1, <3>2 DEF last
  <2> QED
    BY <2>4, <2>5, <2>7
<1> HIDE DEF g1, g2, cases, dflt
<1>5. es \in Seq({g1, g2}) /\ Elems(es) = {g1, g2}
  BY DEF Elems
<1> HIDE DEF es
<1>6. es \in Seq(GroupType)
  BY <1>2, <1>5, Appended
<1>7. \A g \in Elems(es) : \A b \in Elems(g.end.to) : PhisOf(b) = {}
  BY <1>3, <1>4, <1>5, ElemsShort
<1>8. QuietTurn(es)
  BY <1>2, <1>7 DEF QuietTurn
<1> QED
  BY <1>2, <1>6, <1>8, QuietPhis DEF PhiInv, OverflowPhis
(* The parameters of a fragment are distinct. *)
LEMMA ParamsDistinct ==
  ASSUME NEW p \in Programs, NEW l \in Lab
  PROVE  \A i, j \in DOMAIN p.frag[l].params :
           p.frag[l].params[i] = p.frag[l].params[j] => i = j
<1> DEFINE ps == p.frag[l].params
           n == Len(ps)
<1>1. p.frag[l] \in Frag /\ Cardinality(Elems(ps)) = n
  BY UnitFacts, ProgramsAssumption DEF WellFormed, WellScoped
<1>2. ps \in Seq(Var)
  BY <1>1 DEF Frag
<1>3. n \in Nat /\ DOMAIN ps = 1..n /\ ps = [i \in 1..n |-> ps[i]]
  BY <1>2, SMTT(60)
<1> HIDE DEF ps, n
<1>4. ps \in Surjection(1..n, Elems(ps))
  BY <1>3 DEF Surjection, Elems
<1>5. IsFiniteSet(1..n) /\ Cardinality(1..n) = n
  BY <1>3, FS_Interval
<1>6. ps \in Injection(1..n, Elems(ps))
  BY <1>1, <1>4, <1>5, FS_Surjection DEF ps, n
<1>7. \A i, j \in DOMAIN ps : ps[i] = ps[j] => i = j
  BY <1>3, <1>6 DEF Injection, IsInjective
<1> QED
  BY <1>7 DEF ps

(* The destination of a GOTO is an internal fragment of the open cluster:
   its block is made and has the PHI nodes that its code starts with. *)
LEMMA GotoTarget ==
  ASSUME TypeOK, BlockInv, GenGoto
  PROVE  LET f == prog.frag[S.to] IN
         /\ S.to \in Lab /\ MadeIn(BB(f.body), curC) /\ BB(f.body) \in Block
         /\ PhisOf(BB(f.body)) = {V("phi", f.body, x) : x \in mach \cup Elems(f.params)}
         /\ f.params \in Seq(Var) /\ DOMAIN f.params = DOMAIN Args
<1> DEFINE f == prog.frag[S.to]
<1>1. node \in Node /\ S.op = "GOTO" /\ prog \in Programs /\ S \in Stm /\ S.to \in fragMap
  BY RunningFacts DEF GenGoto, TypeOK
<1>2. Open /\ curC \in DOMAIN prog.clusters /\ S.to \in Elems(prog.clusters[curC])
  BY <1>1, NextTurn DEF Open, BlockInv, HomeInv, ClusterOpen
<1>3. /\ S.to \in Lab /\ f.body \in Node
      /\ f.body \in NodesOf(prog, curC) \cap Bodies(prog)
  BY <1>1, <1>2, BodyHome
<1>4. MadeIn(BB(f.body), curC) /\ BB(f.body) \in Block
  BY <1>2, <1>3, HeadMade, NameTypes DEF BlockInv, Heads
<1>5. S.to \notin EntryLabs(prog) /\ Len(S.args) = Len(f.params)
  BY <1>1, ProgramsAssumption DEF WellFormed, WellTargeted, S
<1>6. f.kind = "INTERNAL" /\ prog.owner[f.body] = S.to
  <2>1. PICK i \in DOMAIN prog.clusters[curC] : S.to = prog.clusters[curC][i]
    BY <1>2 DEF Elems
  <2>2. i # 1
    BY <1>2, <1>5, <2>1 DEF EntryLabs
  <2>3. prog.clusters[curC] \in Seq(Lab)
    BY <1>1, <1>2, UnitFacts
  <2>4. i > 1
    BY <2>2, <2>3
  <2>5. WellLinked(prog) /\ WellScoped(prog)
    BY <1>1, ProgramsAssumption DEF WellFormed
  <2>6. f.kind = "INTERNAL"
    BY <1>2, <2>1, <2>4, <2>5 DEF WellLinked
  <2>7. prog.owner[f.body] = S.to
    BY <1>3, <2>5, ZenonT(30) DEF WellScoped
  <2> QED
    BY <2>6, <2>7
<1>7. PhisOf(BB(f.body)) = {V("phi", f.body, x) : x \in mach \cup Elems(f.params)}
  BY <1>3, <1>6 DEF PhisOf, BB, Blk
<1>8. f.params \in Seq(Var) /\ S.args \in Seq(Var)
  BY <1>1, <1>3, UnitFacts DEF Frag, Stm
<1>9. DOMAIN f.params = 1..Len(f.params) /\ DOMAIN S.args = 1..Len(S.args)
  BY <1>8
<1> QED
  BY <1>3, <1>4, <1>5, <1>7, <1>8, <1>9 DEF Args

(* GOTO: one entry for each PHI node of the destination. *)
LEMMA GotoPhis ==
  ASSUME TypeOK, TypeOK', BlockInv, DomInv, PhiInv, GenGoto
  PROVE  PhiInv'
<1> DEFINE f == prog.frag[S.to]
           from(r, v) == [phi |-> V("phi", f.body, r), val |-> v, pred |-> bb]
           fromRegs == {from(r, regState[r]) : r \in mach}
           fromArgs == {from(f.params[i], Args[i]) : i \in DOMAIN f.params}
           news == fromRegs \cup fromArgs
           b0 == BB(f.body)
           end == Jump("br", <<b0>>, <<>>)
           g == Group(node, bb, <<>>, end)
           es == <<g>>
<1>1. node \in Node /\ prog \in Programs /\ node # NoNode /\ mach \subseteq Reg
  BY RunningFacts, TargetsAssumption, NullAssumption DEF GenGoto, TypeOK
<1>2. Emit(<<>>, end) /\ UNCHANGED <<prog, mach, made, ovBB, ovPhis>>
  BY DEF GenGoto, const, ovVars
<1>3. inc' = inc \cup news
  <2>1. inc' = inc \cup fromRegs \cup fromArgs
    BY DEF GenGoto
  <2> QED
    BY <2>1
<1>4. /\ S.to \in Lab /\ MadeIn(b0, curC) /\ b0 \in Block
      /\ PhisOf(b0) = {V("phi", f.body, x) : x \in mach \cup Elems(f.params)}
      /\ f.params \in Seq(Var) /\ DOMAIN f.params = DOMAIN Args
  BY GotoTarget
<1>5. ~Closed(bb)
  BY <1>1 DEF BlockInv, TermInv, InsertPointOpen
<1>6. \A e \in news : e.phi \in PhisOf(b0) /\ e.pred = bb
  <2>1. \A i \in DOMAIN f.params : f.params[i] \in Elems(f.params)
    BY DEF Elems
  <2>2. ASSUME NEW e \in fromRegs PROVE e.phi \in PhisOf(b0) /\ e.pred = bb
    BY <1>4, <2>2
  <2>3. ASSUME NEW e \in fromArgs PROVE e.phi \in PhisOf(b0) /\ e.pred = bb
    BY <1>4, <2>1, <2>3
  <2> QED
    BY <2>2, <2>3
<1>7. \A v \in PhisOf(b0) : \E e \in news : e.phi = v
  <2> SUFFICES ASSUME NEW x \in mach \cup Elems(f.params)
               PROVE  \E e \in news : e.phi = V("phi", f.body, x)
    BY <1>4
  <2>1. CASE x \in mach
    <3>1. from(x, regState[x]) \in news /\ from(x, regState[x]).phi = V("phi", f.body, x)
      BY <2>1
    <3> QED
      BY <3>1
  <2>2. CASE x \in Elems(f.params)
    <3>1. PICK i \in DOMAIN f.params : x = f.params[i]
      BY <2>2 DEF Elems
    <3>2. from(x, Args[i]) \in news /\ from(x, Args[i]).phi = V("phi", f.body, x)
      BY <3>1
    <3> QED
      BY <3>2
  <2> QED
    BY <2>1, <2>2
<1>8. \A d, e \in news : d.phi = e.phi => d = e
  <2>1. \A d \in news : \/ \E r \in mach : d = from(r, regState[r]) /\ d.phi.nm = r
                        \/ \E i \in DOMAIN f.params : d = from(f.params[i], Args[i]) /\ d.phi.nm = f.params[i]
    BY DEF V
  <2>2. \A i \in DOMAIN f.params : f.params[i] \in Var /\ f.params[i] \notin mach
    BY <1>1, <1>4, NamesAssumption
  <2>3. \A i, j \in DOMAIN f.params : f.params[i] = f.params[j] => i = j
    BY <1>1, <1>4, ParamsDistinct
  <2> HIDE DEF news, f, from
  <2> QED
    BY <2>1, <2>2, <2>3
<1>9. g.end.to = <<b0>> /\ g.blk = bb
  BY DEF Group, Jump, End
<1>10. out' = Append(out, g) /\ out \in Seq(GroupType)
  BY <1>2 DEF Emit, TypeOK
<1> HIDE DEF g, end, news, b0
<1>11. out' = out \o es /\ es \in Seq({g}) /\ Elems(es) = {g}
  BY <1>10, ElemsShort
<1> HIDE DEF es
<1>12. es \in Seq(GroupType)
  BY <1>11, Appended
<1>13. Elems(g.end.to) = {b0}
  BY <1>9, ElemsShort
<1>14. \E m \in made' : m.blk = b0
  BY <1>2, <1>4 DEF MadeIn
<1>15. /\ \A e \in Elems(es) : \A b \in Elems(e.end.to) : PhisOf(b) = {} \/ (b = b0 /\ e.blk = bb)
       /\ \E e \in Elems(es) : b0 \in Elems(e.end.to) /\ e.blk = bb
  BY <1>9, <1>11, <1>13
<1>16. made \subseteq made' /\ UNCHANGED <<prog, mach>> /\ b0 \in Block /\ out' = out \o es
  BY <1>2, <1>4, <1>11
<1>17. BranchTurn(b0, es, news)
  BY <1>3, <1>6, <1>7, <1>8, <1>14, <1>15, <1>16 DEF BranchTurn
<1> QED
  BY <1>2, <1>5, <1>12, <1>17, BranchPhis DEF PhiInv, OverflowPhis
(* The overflow block: its PHI nodes are made once and get the registers of
   each trapping operation. *)
LEMMA TrapPhis ==
  ASSUME TypeOK, TypeOK', BlockInv, BlockInv', DomInv, PhiInv, GenArith, S.prim # "DIV"
  PROVE  PhiInv'
<1> DEFINE z == S.res[1]
           ok == Blk("ok", node)
           aside == Blk("overflow", node)
           raise == Group(node, aside, <<>>, End("raise", <<>>, MachRegs("ovphi", node), <<>>))
           branch == Group(node, bb, <<Op(z, Args)>>, Jump("ovbr", <<ovBB', ok>>, <<>>))
           first == IF ovBB = NoBlock THEN <<raise>> ELSE <<>>
           last == <<branch>>
           es == first \o last
           news == Incoming(ovPhis')
           fresh == ovBB = NoBlock
           phis == MachRegs("ovphi", node)
<1>1. node \in Node /\ node # NoNode /\ mach \subseteq Reg
  BY RunningFacts, TargetsAssumption, NullAssumption DEF GenArith, TypeOK
<1>2. TrapArith(z) /\ UNCHANGED <<prog, mach>>
  BY DEF GenArith, const
<1>3. /\ inc' = inc \cup news
      /\ out' = out \o first \o last
      /\ made \subseteq made'
      /\ ovBB' = IF fresh THEN aside ELSE ovBB
      /\ ovPhis' = IF fresh THEN [r \in Reg |-> IF ovPhis[r] = NoVal THEN phis[r] ELSE ovPhis[r]]
                   ELSE ovPhis
  BY <1>2 DEF TrapArith, GetOverflowBB
<1>4. aside \in Block /\ aside # NoBlock /\ aside.k = "overflow" /\ aside.at = node
  <2>1. aside \in Block
    BY <1>1, NameTypes
  <2> QED
    BY <2>1, NullAssumption DEF Blk
<1>5. /\ ovBB' \in Block /\ ovBB' # NoBlock /\ ovBB'.k = "overflow"
      /\ \A r \in mach : ovPhis'[r] = V("ovphi", ovBB'.at, r)
  <2>1. CASE fresh
    <3>1. \A r \in Reg : ovPhis'[r] = phis[r]
      BY <1>3, <2>1 DEF PhiInv, OverflowPhis
    <3>2. \A r \in mach : phis[r] = V("ovphi", node, r)
      BY <1>1 DEF MachRegs
    <3>3. ovBB' = aside
      BY <1>3, <2>1
    <3> HIDE DEF aside, phis
    <3> QED
      BY <1>1, <1>4, <3>1, <3>2, <3>3
  <2>2. CASE ~fresh
    BY <1>3, <2>2 DEF PhiInv, OverflowPhis
  <2> QED
    BY <2>1, <2>2
<1>6. PhisOf(ovBB') = {V("ovphi", ovBB'.at, r) : r \in mach}
  BY <1>5 DEF PhisOf
<1>7. \E m \in made' : m.blk = ovBB'
  <2>1. MadeIn(ovBB, curC)'
    BY <1>5 DEF BlockInv, HomeInv, OverflowAtHome
  <2> QED
    BY <2>1 DEF MadeIn
<1>8. ~Closed(bb)
  BY <1>1 DEF BlockInv, TermInv, InsertPointOpen
<1>9. /\ \A e \in news : e.phi \in PhisOf(ovBB') /\ e.pred = bb
      /\ \A v \in PhisOf(ovBB') : \E e \in news : e.phi = v
      /\ \A d, e \in news : d.phi = e.phi => d = e
  <2> DEFINE entry(r) == [phi |-> ovPhis'[r], val |-> regState[r], pred |-> bb]
  <2>1. news = {entry(r) : r \in mach}
    BY DEF Incoming
  <2>2. \A r \in mach : entry(r).phi = V("ovphi", ovBB'.at, r) /\ entry(r).pred = bb
    BY <1>5
  <2>3. \A r \in mach : V("ovphi", ovBB'.at, r).nm = r
    BY DEF V
  <2> HIDE DEF news, entry
  <2>4. \A d, e \in news : d.phi = e.phi => d = e
    BY <2>1, <2>2, <2>3
  <2> QED
    BY <1>6, <2>1, <2>2, <2>4
<1>10. raise.end.to = <<>> /\ branch.end.to = <<ovBB', ok>> /\ branch.blk = bb
  BY DEF Group, Jump, End
<1>11. PhisOf(ok) = {}
  BY <1>1, NoPhis
<1> HIDE DEF raise, branch, ok, aside, news, phis
<1>12. Elems(raise.end.to) = {} /\ Elems(branch.end.to) = {ovBB', ok}
  BY <1>10 DEF Elems
<1>13. /\ es \in Seq({raise, branch}) /\ Elems(es) \subseteq {raise, branch} /\ branch \in Elems(es)
       /\ out' = out \o es
  <2> DEFINE T == GroupType \cup {raise, branch}
             R == {raise, branch}
  <2>1. first \in Seq(T) /\ first \in Seq(R)
    <3>1. first = <<raise>> \/ first = <<>>
      OBVIOUS
    <3>2. /\ <<raise>> \in Seq(T) /\ <<raise>> \in Seq(R)
          /\ <<>> \in Seq(T) /\ <<>> \in Seq(R)
      OBVIOUS
    <3> HIDE DEF first, T, R
    <3> QED
      BY <3>1, <3>2
  <2>2. last \in Seq(T) /\ last \in Seq(R)
    OBVIOUS
  <2>3. out \in Seq(T)
    BY DEF TypeOK
  <2>4. Elems(last) = {branch} /\ Elems(first) \subseteq {raise}
    BY ElemsShort
  <2>5. out' = (out \o first) \o last /\ es = first \o last
    BY <1>3
  <2> HIDE DEF first, last, T, R, es
  <2>6. Elems(es) = Elems(first) \cup Elems(last) /\ es \in Seq(R)
    BY <2>1, <2>2, <2>5, ElemsConcat, ConcatProperties
  <2>7. out' = out \o es
    BY <2>1, <2>2, <2>3, <2>5, ConcatAssociative
  <2> QED
    BY <2>4, <2>6, <2>7 DEF R
<1> HIDE DEF es, first, last, fresh
<1>14. es \in Seq(GroupType)
  BY <1>13, Appended
<1>15. \A g \in Elems(es) : \A b \in Elems(g.end.to) : PhisOf(b) = {} \/ (b = ovBB' /\ g.blk = bb)
  BY <1>10, <1>11, <1>12, <1>13
<1>16. \E g \in Elems(es) : ovBB' \in Elems(g.end.to) /\ g.blk = bb
  BY <1>10, <1>12, <1>13
<1> PICK b0 \in Block : b0 = ovBB'
  BY <1>5
<1>17. BranchTurn(b0, es, news)
  BY <1>2, <1>3, <1>5, <1>7, <1>9, <1>13, <1>15, <1>16 DEF BranchTurn
<1>18. OverflowPhis'
  BY <1>2, <1>5 DEF OverflowPhis
<1> QED
  BY <1>8, <1>14, <1>17, <1>18, BranchPhis DEF PhiInv

(* The steps that set up work: beginCluster forgets the overflow block. *)
LEMMA SetupPhis ==
  ASSUME TypeOK, PhiInv,
         BeginUnit \/ BeginCluster \/ BeginFrag \/ NextArm \/ EndUnit \/ Finished \/ UNCHANGED vars
  PROVE  PhiInv'
<1>1. /\ UNCHANGED <<prog, mach, out, inc>> /\ made \subseteq made'
      /\ UNCHANGED <<ovBB, ovPhis>> \/ (ovBB' = NoBlock /\ ovPhis' = NoRegs)
  BY Zenon DEF BeginUnit, BeginCluster, BeginFrag, NextArm, EndUnit, Finished, vars, const, ovVars, irVars,
         ClearedOverflow
<1>2. \A b : PhisOf(b)' = PhisOf(b) /\ Preds(b)' = Preds(b)
  BY <1>1 DEF PhisOf, Preds, Groups
<1>3. \A b \in Block : PhisComplete(b)'
  BY <1>1, <1>2 DEF PhiInv, PhisComplete
<1>4. \A e \in inc' : \E m \in made' : e.phi \in PhisOf(m.blk)
  BY <1>1 DEF PhiInv
<1>5. OverflowPhis'
  BY <1>1 DEF PhiInv, OverflowPhis, NoRegs
<1> QED
  BY <1>2, <1>3, <1>4, <1>5, Zenon DEF PhiInv

(* Before a unit is begun no PHI node has an entry. *)
LEMMA InitPhis == Init => PhiInv
<1> SUFFICES ASSUME Init PROVE PhiInv
  OBVIOUS
<1>1. Elems(out) = {} /\ inc = {} /\ ovBB = NoBlock /\ ovPhis = NoRegs
  BY DEF Init, Elems
<1>2. \A b : Preds(b) = {}
  BY <1>1 DEF Preds, Groups
<1> QED
  BY <1>1, <1>2 DEF PhiInv, PhisComplete, OverflowPhis, NoRegs

(* Every step preserves PhiInv. *)
LEMMA StepPhis ==
  TypeOK /\ TypeOK' /\ BlockInv /\ BlockInv' /\ DomInv /\ PhiInv /\ [Next]_vars => PhiInv'
<1> SUFFICES ASSUME TypeOK, TypeOK', BlockInv, BlockInv', DomInv, PhiInv, [Next]_vars PROVE PhiInv'
  OBVIOUS
<1>1. CASE GenLet \/ GenAlloc \/ GenSetter \/ GenCallGC \/ (GenArith /\ S.prim = "DIV")
             \/ GenApply \/ GenThrow
  BY <1>1, LinePhis
<1>2. CASE GenArith /\ S.prim # "DIV"
  BY <1>2, TrapPhis
<1>3. CASE GenBranch
  BY <1>3, BranchArmsPhis
<1>4. CASE GenSwitch
  BY <1>4, SwitchArmsPhis
<1>5. CASE GenGoto
  BY <1>5, GotoPhis
<1>6. CASE BeginUnit \/ BeginCluster \/ BeginFrag \/ NextArm \/ EndUnit \/ Finished \/ UNCHANGED vars
  BY <1>6, SetupPhis
<1> QED
  BY <1>1, <1>2, <1>3, <1>4, <1>5, <1>6 DEF Next, Step, GenStm

(***************************************************************************)
(* PHI nodes match predecessors, for every well-formed unit and every      *)
(* target: each GOTO gives every PHI node of its fragment one entry and    *)
(* each trapping operation every PHI node of the overflow block that its   *)
(* cluster shares, although a block may be reached from any number of      *)
(* places and the two kinds of entry are added by different methods.       *)
(***************************************************************************)
THEOREM PhisMatch == Spec => []PhisMatchPreds
<1>1. Init => RegsInv /\ BlockInv /\ DomInv /\ PhiInv
  BY InitRegs, InitBlockInv, InitDom, InitPhis
<1>2. TypeOK /\ TypeOK' /\ RegsInv /\ BlockInv /\ DomInv /\ PhiInv /\ [Next]_vars
        => RegsInv' /\ BlockInv' /\ DomInv' /\ PhiInv'
  BY StepRegs, StepBlocks, StepDom, StepPhis
<1>3. BlockInv /\ PhiInv => PhisMatchPreds
  <2> SUFFICES ASSUME BlockInv, PhiInv PROVE PhisMatchPreds
    OBVIOUS
  <2>1. \A m \in made : m.blk \in Block
    BY DEF BlockInv, HomeInv, MadeAtHome
  <2>2. \A m \in made : PhisComplete(m.blk)
    BY <2>1 DEF PhiInv
  <2>3. \A e \in inc : \E m \in made : e.phi \in PhisOf(m.blk)
    BY DEF PhiInv
  <2> QED
    BY <2>2, <2>3 DEF PhisMatchPreds, PhisComplete
<1> QED
  BY <1>1, <1>2, <1>3, TypeCorrect, PTL DEF Spec

=============================================================================
