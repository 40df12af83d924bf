------------------------------ MODULE CodeGen ------------------------------
(***************************************************************************)
(* Code generation for one compilation unit (lib-codegen: cfg-init.cpp,    *)
(* cfg-codegen.cpp, cfg-prim-codegen.cpp, context.cpp, overflow.cpp).      *)
(*                                                                         *)
(* The recursive codegen methods become a machine: `node` is the statement *)
(* whose codegen method runs next and `todo` is what remains of the loops  *)
(* and recursive calls around it.  The Context object is the variables     *)
(* from bb to ovPhis.  The LLVM function under construction is recorded as *)
(* `out`, the groups of instructions in the order they are appended to     *)
(* their blocks, and `inc`, the incoming entries of PHI nodes.  LLVM       *)
(* values and blocks are named by the statement that creates them.         *)
(***************************************************************************)
EXTENDS CFG

CONSTANTS
  Programs,   \* the compilation units to consider
  Targets,    \* for each target, the registers held in machine registers
  NoVal,      \* nullptr for llvm::Value
  NoBlock,    \* nullptr for llvm::BasicBlock
  NoNode      \* no codegen method is running

Val == [k: {"phi", "arg", "ins", "load", "ovphi"}, at: Node, nm: Reg \cup Var]
Block == [k: {"bb", "ok", "overflow", "impossible"}, at: Node]

ASSUME NodeAssumption == Node \subseteq Nat
ASSUME ProgramsAssumption == \A p \in Programs : WellFormed(p)
ASSUME TargetsAssumption == Targets \subseteq SUBSET Reg
ASSUME NullAssumption == NoVal \notin Val /\ NoBlock \notin Block /\ NoNode \notin Node

(* Registers and lvars name the PHI nodes of a fragment (see V): the
   register nodes and the parameter nodes are different objects. *)
ASSUME NamesAssumption == Var \cap Reg = {}

VARIABLES
  prog,       \* the unit being compiled
  mach,       \* the machine registers of the target (CMRegs::_hwRegs)
  phase,      \* "start", "gen" or "done"
  todo,       \* pending clusters, fragments and arms, innermost first
  node,       \* the statement to generate, or NoNode
  bb,         \* the builder's insert block
  regState,   \* _regState: register -> value, NoVal if it lives in the frame
  vMap,       \* _vMap: lvar -> value
  curC,       \* _curCluster/_curFn, as an index
  fragMap,    \* _fragMap: the labels it binds
  clusterMap, \* _clusterMap: the labels it binds
  ovBB,       \* _overflowBB
  ovPhis,     \* _overflowPhiNodes
  out,        \* the groups of instructions, in the order generated
  inc,        \* incoming entries of the PHI nodes
  made,       \* the blocks and the function each was created in
  at          \* history: register state, variable map and block at each statement

const == <<prog, mach>>
modVars == <<clusterMap>>
fnVars == <<curC, fragMap>>
ovVars == <<ovBB, ovPhis>>
irVars == <<out, inc, made>>
vars == <<prog, mach, phase, todo, node, bb, regState, vMap, curC, fragMap,
          clusterMap, ovBB, ovPhis, out, inc, made, at>>

-----------------------------------------------------------------------------
(* Names of values and blocks. *)

V(k, n, x) == [k |-> k, at |-> n, nm |-> x]
Blk(k, n) == [k |-> k, at |-> n]
BB(n) == Blk("bb", n)

NoVals == [x \in Var |-> NoVal]
NoRegs == [r \in Reg |-> NoVal]

(* Values for the machine registers; frame registers have none. *)
MachRegsOnly(k, n) == [r \in mach |-> V(k, n, r)]
MachRegs(k, n) == [r \in Reg |-> IF r \in mach THEN V(k, n, r) ELSE NoVal]

(***************************************************************************)
(* A group is what one codegen call appends to a block: instructions, then *)
(* how the group ends.  "fall" and "gc" (the call of call-gc, which        *)
(* returns) continue with the block's next group; the others terminate it. *)
(***************************************************************************)
End(op, to, regs, args) == [op |-> op, to |-> to, regs |-> regs, args |-> args]
Fall == End("fall", <<>>, NoRegs, <<>>)
Jump(op, to, args) == End(op, to, NoRegs, args)
Group(n, b, ins, end) == [at |-> n, blk |-> b, ins |-> ins, end |-> end]
Terminates(g) == g.end.op \notin {"fall", "gc"}

Instr(op, def, nm, args) == [op |-> op, def |-> def, nm |-> nm, args |-> args]
Op(x, args) == Instr("ins", V("ins", node, x), x, args)

-----------------------------------------------------------------------------
(* Context helpers, at the statement being generated. *)

S == prog.stm[node]

(* lookupVal over the arguments of the statement *)
Args == [i \in DOMAIN S.args |-> vMap[S.args[i]]]

(* insertVal: unordered_map::insert leaves an existing binding alone *)
Bind(m, x, v) == IF m[x] = NoVal THEN [m EXCEPT ![x] = v] ELSE m
BindRest(m, xs, k, n) ==
  [x \in Var |-> IF (\E i \in DOMAIN xs : i > 1 /\ xs[i] = x) /\ m[x] = NoVal
                 THEN V(k, n, x) ELSE m[x]]
BindAll(m, xs, k, n) ==
  [x \in Var |-> IF x \in Elems(xs) /\ m[x] = NoVal THEN V(k, n, x) ELSE m[x]]

(* mlReg: the value of a register, and the load it takes to get it *)
RegVal(r) == IF regState[r] = NoVal THEN V("load", node, r) ELSE regState[r]
Load(r) == IF regState[r] = NoVal
           THEN <<Instr("load", V("load", node, r), r, <<>>)>> ELSE <<>>

(* beginFrag clears the variable map, beginCluster the overflow block *)
StaleMap == vMap
ClearedMap == NoVals
StaleOverflow == ovBB
ClearedOverflow == NoBlock

(* restoreSMLRegState and setInsertPoint, before an arm is generated *)
KeptRegs(saved) == regState
RestoredRegs(saved) == saved
KeptPoint(n) == bb
InsertPoint(n) == BB(n)

(* setMLReg: the new register state, and the store to the frame *)
SetReg(rs, r, v) == IF rs[r] = NoVal THEN rs ELSE [rs EXCEPT ![r] = v]
StoreNothing(r, v) == <<>>
Store(r, v) == IF regState[r] = NoVal
               THEN <<Instr("store", NoVal, r, <<v>>)>> ELSE <<>>

(* setupStdEntry and setupFragEntry: the registers a fragment starts with *)
StdEntryRegs(body) == MachRegs("arg", body)
FragEntryRegs(body) == [r \in Reg |-> IF r \in mach THEN V("phi", body, r) ELSE regState[r]]

(* The blocks that the init methods create for cluster c. *)
InitBlocks(c) ==
  {[blk |-> BB(n), fn |-> c] : n \in NodesOf(prog, c) \cap (Bodies(prog) \cup Arms(prog))}

(* Append a group for the current statement to the insert block. *)
Emit(ins, end) == out' = Append(out, Group(node, bb, ins, end))

(* History: where and with what bindings the statement was generated. *)
Visit == at' = [at EXCEPT ![node] = [regs |-> regState, vars |-> vMap, blk |-> bb]]

Running(op) == phase = "gen" /\ node # NoNode /\ S.op = op
Returned(t) == phase = "gen" /\ node = NoNode /\ todo # <<>> /\ Head(todo).t = t

-----------------------------------------------------------------------------
NotVisited == [n \in Node |-> [regs |-> NoRegs, vars |-> NoVals, blk |-> NoBlock]]

Init ==
  /\ prog \in Programs
  /\ mach \in Targets
  /\ phase = "start"
  /\ todo = <<>>
  /\ node = NoNode
  /\ bb = NoBlock
  /\ regState = NoRegs
  /\ vMap = NoVals
  /\ curC = 0
  /\ fragMap = {}
  /\ clusterMap = {}
  /\ ovBB = NoBlock
  /\ ovPhis = NoRegs
  /\ out = <<>>
  /\ inc = {}
  /\ made = {}
  /\ at = NotVisited

(* insertCluster: every cluster is entered before any code is generated *)
EntryCluster == {prog.clusters[1][1]}
InsertedClusters == EntryLabs(prog)

(* comp_unit::codegen: create the functions of all clusters, then loop. *)
BeginUnit ==
  /\ phase = "start"
  /\ phase' = "gen"
  /\ clusterMap' = InsertedClusters
  /\ curC' = Len(prog.clusters)
  /\ todo' = [c \in DOMAIN prog.clusters |-> [t |-> "cluster", c |-> c]]
  /\ UNCHANGED <<const, node, bb, regState, vMap, fragMap, ovVars, irVars, at>>

(* cluster::codegen: beginCluster, and frag::init for every fragment.  The
   builder is left at the last internal fragment, whose PHIs it created. *)
BeginCluster ==
  /\ Returned("cluster")
  /\ LET c == Head(todo).c
         frags == prog.clusters[c]
     IN /\ curC' = c
        /\ ovBB' = ClearedOverflow
        /\ ovPhis' = NoRegs
        /\ fragMap' = Elems(frags)
        /\ made' = made \cup InitBlocks(c)
        /\ bb' = IF Len(frags) > 1 THEN BB(prog.frag[frags[Len(frags)]].body) ELSE bb
        /\ todo' = [i \in DOMAIN frags |-> [t |-> "frag", lab |-> frags[i], entry |-> i = 1]]
                     \o Tail(todo)
  /\ UNCHANGED <<const, phase, node, regState, vMap, modVars, out, inc, at>>

(* frag::codegen up to the body: beginFrag, then setupStdEntry for the
   entry fragment and setupFragEntry for the others. *)
BeginFrag ==
  /\ Returned("frag")
  /\ LET f == prog.frag[Head(todo).lab]
         k == IF Head(todo).entry THEN "arg" ELSE "phi"
     IN /\ vMap' = BindAll(ClearedMap, f.params, k, f.body)
        /\ bb' = BB(f.body)
        /\ regState' = IF Head(todo).entry THEN StdEntryRegs(f.body) ELSE FragEntryRegs(f.body)
        /\ node' = f.body
  /\ todo' = Tail(todo)
  /\ UNCHANGED <<const, phase, modVars, fnVars, ovVars, irVars, at>>

-----------------------------------------------------------------------------
(* The codegen methods of the statements. *)

(* LET::codegen over VAR, the pure expressions, and GET_HDLR/GET_VAR *)
GenLet ==
  /\ Running("LET")
  /\ LET x == S.res[1] IN
     \/ S.prim = "VAR" /\ Emit(<<>>, Fall) /\ vMap' = Bind(vMap, x, Args[1])
     \/ S.prim = "PURE" /\ Emit(<<Op(x, Args)>>, Fall) /\ vMap' = Bind(vMap, x, V("ins", node, x))
     \/ S.prim = "GET" /\ Emit(Load(S.reg), Fall) /\ vMap' = Bind(vMap, x, RegVal(S.reg))
  /\ node' = S.next[1]
  /\ Visit
  /\ UNCHANGED <<const, phase, todo, bb, regState, modVars, fnVars, ovVars, inc, made>>

(* allocRecord: the object, then the bumped allocation pointer *)
AllocRecord(x) ==
  LET alloc == RegVal("ALLOC")
      new == V("ins", node, "ALLOC")
  IN /\ Emit(Load("ALLOC") \o <<Op(x, <<alloc>> \o Args), Op("ALLOC", <<alloc>>)>>
               \o Store("ALLOC", new), Fall)
     /\ regState' = SetReg(regState, "ALLOC", new)

(* ALLOC::codegen *)
GenAlloc ==
  /\ Running("ALLOC")
  /\ AllocRecord(S.res[1])
  /\ vMap' = Bind(vMap, S.res[1], V("ins", node, S.res[1]))
  /\ node' = S.next[1]
  /\ Visit
  /\ UNCHANGED <<const, phase, todo, bb, modVars, fnVars, ovVars, inc, made>>

(* The entries that a call of getOverflowBB adds to the PHIs ps. *)
IncomingOnce(ps) ==
  IF ovBB = NoBlock THEN {[phi |-> ps[r], val |-> regState[r], pred |-> bb] : r \in mach} ELSE {}
Incoming(ps) == {[phi |-> ps[r], val |-> regState[r], pred |-> bb] : r \in mach}

(* getOverflowBB, called by ARITH::codegen for the conditional branch: the
   block is created once per cluster, and each call adds an incoming entry
   from the insert block to every PHI. *)
GetOverflowBB ==
  LET fresh == ovBB = NoBlock
      phis == MachRegs("ovphi", node)
  IN /\ ovBB' = IF fresh THEN Blk("overflow", node) ELSE ovBB
     /\ ovPhis' = IF fresh THEN [r \in Reg |-> IF ovPhis[r] = NoVal THEN phis[r] ELSE ovPhis[r]]
                  ELSE ovPhis
     /\ inc' = inc \cup Incoming(ovPhis')

(* ARITH::codegen of the primitives that can overflow: compute, then branch
   to the overflow block or go on in a new block *)
TrapArith(x) ==
  LET ok == Blk("ok", node)
      fresh == ovBB = NoBlock
  IN /\ GetOverflowBB
     /\ out' = out
          \o (IF fresh
              THEN <<Group(node, Blk("overflow", node), <<>>,
                           End("raise", <<>>, MachRegs("ovphi", node), <<>>))>>
              ELSE <<>>)
          \o <<Group(node, bb, <<Op(x, Args)>>, Jump("ovbr", <<ovBB', ok>>, <<>>))>>
     /\ made' = made \cup {[blk |-> b, fn |-> curC] : b \in {ok} \cup IF fresh THEN {ovBB'} ELSE {}}
     /\ bb' = ok

(* ARITH::codegen *)
GenArith ==
  /\ Running("ARITH")
  /\ \/ /\ S.prim = "TRAP"
        /\ TrapArith(S.res[1])
     \/ /\ S.prim = "DIV"
        /\ Emit(<<Op(S.res[1], Args)>>, Fall)
        /\ UNCHANGED <<ovVars, inc, made, bb>>
  /\ vMap' = Bind(vMap, S.res[1], V("ins", node, S.res[1]))
  /\ node' = S.next[1]
  /\ Visit
  /\ UNCHANGED <<const, phase, todo, regState, modVars, fnVars>>

(* SET_HDLR and SET_VAR *)
SetSpecial(r, v) ==
  /\ Emit(Store(r, v), Fall)
  /\ regState' = SetReg(regState, r, v)

(* recordStore: cons the updated address onto the store list *)
RecordStore ==
  LET cell == V("ins", node, "STORE")
      new == V("ins", node, "ALLOC")
  IN /\ Emit(Load("ALLOC") \o Load("STORE")
               \o <<Op("STORE", <<RegVal("ALLOC"), RegVal("STORE")>> \o Args)>>
               \o Store("STORE", cell)
               \o <<Op("ALLOC", <<RegVal("ALLOC")>>)>>
               \o Store("ALLOC", new), Fall)
     /\ regState' = SetReg(SetReg(regState, "STORE", cell), "ALLOC", new)

(* SETTER::codegen *)
GenSetter ==
  /\ Running("SETTER")
  /\ \/ S.prim = "SET" /\ SetSpecial(S.reg, Args[1])
     \/ S.prim = "RECORD" /\ RecordStore
     \/ S.prim = "POKE" /\ Emit(<<>>, Fall) /\ UNCHANGED regState
  /\ node' = S.next[1]
  /\ Visit
  /\ UNCHANGED <<const, phase, todo, bb, vMap, modVars, fnVars, ovVars, inc, made>>

(* callGC: the machine registers come back in the result struct *)
RegsAfterGC ==
  [r \in Reg |-> IF r \in mach THEN SetReg(regState, r, V("ins", node, r))[r] ELSE regState[r]]

(* CALLGC::codegen: registers and roots go in, registers and new roots come out *)
GenCallGC ==
  /\ Running("CALLGC")
  /\ Emit(<<>>, End("gc", <<>>, regState, Args))
  /\ regState' = RegsAfterGC
  /\ vMap' = BindAll(vMap, S.res, "ins", node)
  /\ node' = S.next[1]
  /\ Visit
  /\ UNCHANGED <<const, phase, todo, bb, modVars, fnVars, ovVars, inc, made>>

(* What a BRANCH tests: for LIMIT, the allocation pointer and the limit *)
Test ==
  IF S.prim = "LIMIT"
  THEN [ins |-> Load("ALLOC") \o Load("LIMIT"), args |-> <<RegVal("ALLOC"), RegVal("LIMIT")>>]
  ELSE [ins |-> <<>>, args |-> Args]

(* BRANCH::codegen: the true arm is generated at once, the false arm after
   it, from the register state saved here. *)
GenBranch ==
  /\ Running("BRANCH")
  /\ Emit(Test.ins, Jump("br", <<BB(S.next[1]), BB(S.next[2])>>, Test.args))
  /\ todo' = <<[t |-> "arm", n |-> S.next[2], saved |-> regState]>> \o todo
  /\ bb' = BB(S.next[1])
  /\ node' = S.next[1]
  /\ Visit
  /\ UNCHANGED <<const, phase, regState, vMap, modVars, fnVars, ovVars, inc, made>>

(* SWITCH::codegen: the default case is an unreachable block *)
GenSwitch ==
  /\ Running("SWITCH")
  /\ LET dflt == Blk("impossible", node) IN
     /\ made' = made \cup {[blk |-> dflt, fn |-> curC]}
     /\ out' = out \o <<Group(node, dflt, <<>>, Jump("unreachable", <<>>, <<>>)),
                        Group(node, bb, <<>>,
                              Jump("br", [i \in DOMAIN S.next |-> BB(S.next[i])] \o <<dflt>>, Args))>>
  /\ todo' = [i \in DOMAIN S.next |-> [t |-> "arm", n |-> S.next[i], saved |-> regState]] \o todo
  /\ node' = NoNode
  /\ Visit
  /\ UNCHANGED <<const, phase, bb, regState, vMap, modVars, fnVars, ovVars, inc>>

(* The next arm of a BRANCH or SWITCH: restoreSMLRegState, setInsertPoint *)
NextArm ==
  /\ Returned("arm")
  /\ regState' = RestoredRegs(Head(todo).saved)
  /\ bb' = InsertPoint(Head(todo).n)
  /\ node' = Head(todo).n
  /\ todo' = Tail(todo)
  /\ UNCHANGED <<const, phase, vMap, modVars, fnVars, ovVars, irVars, at>>

(* GOTO::codegen: incoming values for the PHIs of the destination *)
GenGoto ==
  /\ Running("GOTO")
  /\ S.to \in fragMap
  /\ LET f == prog.frag[S.to]
         from(r, v) == [phi |-> V("phi", f.body, r), val |-> v, pred |-> bb]
     IN /\ inc' = inc \cup {from(r, regState[r]) : r \in mach}
                      \cup {from(f.params[i], Args[i]) : i \in DOMAIN f.params}
        /\ Emit(<<>>, Jump("br", <<BB(f.body)>>, <<>>))
  /\ node' = NoNode
  /\ Visit
  /\ UNCHANGED <<const, phase, todo, bb, regState, vMap, modVars, fnVars, ovVars, made>>

(* SetupStdArgs and createJWACall: a tail call with registers and arguments *)
TailCall ==
  /\ S.to \in clusterMap \cup {NoLab}
  /\ Emit(<<>>, End("call", <<>>, regState, Args))
  /\ node' = NoNode
  /\ Visit
  /\ UNCHANGED <<const, phase, todo, bb, regState, vMap, modVars, fnVars, ovVars, inc, made>>

(* APPLY::codegen and THROW::codegen *)
GenApply == Running("APPLY") /\ TailCall
GenThrow == Running("THROW") /\ TailCall

(* completeModule *)
EndUnit ==
  /\ phase = "gen" /\ node = NoNode /\ todo = <<>>
  /\ phase' = "done"
  /\ UNCHANGED <<const, todo, node, bb, regState, vMap, modVars, fnVars, ovVars, irVars, at>>

GenStm ==
  \/ GenLet \/ GenAlloc \/ GenArith \/ GenSetter \/ GenCallGC
  \/ GenBranch \/ GenSwitch \/ GenGoto \/ GenApply \/ GenThrow

Step == BeginUnit \/ BeginCluster \/ BeginFrag \/ GenStm \/ NextArm \/ EndUnit

(* The unit is complete: completeModule returns. *)
Finished == phase = "done" /\ UNCHANGED vars

Next == Step \/ Finished

Spec == Init /\ [][Next]_vars

-----------------------------------------------------------------------------
(* Types. *)

Regs == [Reg -> Val \cup {NoVal}]

Task == [t: {"cluster"}, c: DOMAIN prog.clusters]
          \cup [t: {"frag"}, lab: Lab, entry: BOOLEAN]
          \cup [t: {"arm"}, n: Node, saved: Regs]

EndType == [op: {"fall", "gc", "br", "ovbr", "call", "raise", "unreachable"},
            to: Seq(Block \cup {NoBlock}), regs: Regs, args: Seq(Val \cup {NoVal})]

InstrType == [op: {"ins", "load", "store"}, def: Val \cup {NoVal}, nm: Reg \cup Var,
              args: Seq(Val \cup {NoVal})]

GroupType == [at: Node, blk: Block \cup {NoBlock}, ins: Seq(InstrType), end: EndType]

(* The type invariant of the code generator. *)
TypeOK ==
  /\ prog \in Programs
  /\ mach \in Targets
  /\ phase \in {"start", "gen", "done"}
  /\ todo \in Seq(Task)
  /\ node \in Node \cup {NoNode}
  /\ bb \in Block \cup {NoBlock}
  /\ regState \in Regs
  /\ vMap \in [Var -> Val \cup {NoVal}]
  /\ curC \in Nat
  /\ fragMap \subseteq Lab
  /\ clusterMap \subseteq Lab
  /\ ovBB \in Block \cup {NoBlock}
  /\ ovPhis \in Regs
  /\ out \in Seq(GroupType)
  /\ inc \subseteq [phi: Val \cup {NoVal}, val: Val \cup {NoVal}, pred: Block \cup {NoBlock}]
  /\ made \subseteq [blk: Block \cup {NoBlock}, fn: Nat]
  /\ at \in [Node -> [regs: Regs, vars: [Var -> Val \cup {NoVal}], blk: Block \cup {NoBlock}]]

-----------------------------------------------------------------------------
(* Safety properties. *)

Visited(n) == at[n].blk # NoBlock

(* The register state after n, as a function of the state before it. *)
RegsAfter(n) ==
  LET s == prog.stm[n] IN
  [r \in Reg |->
     IF r \notin mach THEN NoVal
     ELSE IF r \notin Writes(s) THEN at[n].regs[r]
     ELSE IF s.prim = "SET" THEN at[n].vars[s.args[1]]
     ELSE V("ins", n, r)]

(***************************************************************************)
(* The mutable register state agrees with the program text: every arm of   *)
(* a BRANCH or SWITCH starts from the registers its branch ended with,     *)
(* whatever was generated for its siblings in between, and straight-line   *)
(* code sees exactly the updates of the statement before it.               *)
(***************************************************************************)
RegsFollowProgram ==
  \A n \in Node : Visited(n) =>
    \A m \in Children(prog, n) : Visited(m) => at[m].regs = RegsAfter(n)

(***************************************************************************)
(* The Context never answers a lookup with a null value: lookupVal finds   *)
(* every argument of the statement being generated, and mlReg has a value  *)
(* for each register that the target keeps in a machine register, so that  *)
(* no load from the frame is generated for it, and for no other.           *)
(***************************************************************************)
LookupsSucceed ==
  node # NoNode =>
    /\ \A i \in DOMAIN Args : Args[i] # NoVal
    /\ \A r \in Reg : regState[r] # NoVal <=> r \in mach

Groups == Elems(out)
Defs(g) ==
  {i.def : i \in Elems(g.ins)}
    \cup IF g.end.op # "gc" THEN {}
         ELSE {V("ins", g.at, x) : x \in mach \cup Elems(prog.stm[g.at].res)}

Uses(g) ==
  (UNION {Elems(i.args) : i \in Elems(g.ins)}) \cup Elems(g.end.args)
    \cup {g.end.regs[r] : r \in IF g.end.op \in {"gc", "call", "raise"} THEN mach ELSE {}}

(* Values that reach statement n: the entry values of its fragment and what
   the statements on its path define. *)
Reaches(n) ==
  LET f == prog.frag[prog.owner[n]]
      k == IF f.kind = "INTERNAL" THEN "phi" ELSE "arg"
  IN {V(k, f.body, x) : x \in mach \cup Elems(f.params)}
       \cup UNION {Defs(g) : g \in {h \in Groups : h.at \in Path(prog, n)}}

Preds(b) == {g.blk : g \in {h \in Groups : b \in Elems(h.end.to)}}

(***************************************************************************)
(* Every definition dominates its uses: an instruction, a call and the     *)
(* incoming entry of a PHI only mention values that are computed on the    *)
(* path to them in the same fragment.                                      *)
(***************************************************************************)
DefsDominateUses ==
  /\ \A g \in Groups : Uses(g) \subseteq
       IF g.end.op = "raise" THEN {V("ovphi", g.at, r) : r \in mach} ELSE Reaches(g.at)
  /\ \A e \in inc : \E g \in Groups :
       g.blk = e.pred /\ Terminates(g) /\ e.val \in Reaches(g.at)

(* The PHI nodes at the head of block b. *)
PhisOf(b) ==
  IF b.k = "overflow" THEN {V("ovphi", b.at, r) : r \in mach}
  ELSE IF b.k = "bb" /\ \E l \in Lab : prog.frag[l].kind = "INTERNAL" /\ prog.frag[l].body = b.at
       THEN {V("phi", b.at, x) : x \in mach \cup Elems(prog.frag[prog.owner[b.at]].params)}
       ELSE {}

(***************************************************************************)
(* The PHI nodes of fragments and of the shared overflow block have        *)
(* exactly one incoming entry for each branch into their block, and no     *)
(* entry goes to any other PHI.                                            *)
(***************************************************************************)
PhisMatchPreds ==
  /\ \A m \in made : \A v \in PhisOf(m.blk) :
       LET mine == {e \in inc : e.phi = v} IN
       /\ {e.pred : e \in mine} = Preds(m.blk)
       /\ \A e, f \in mine : e.pred = f.pred => e = f
  /\ \A e \in inc : \E m \in made : e.phi \in PhisOf(m.blk)

(***************************************************************************)
(* Nothing is appended to a block after its terminator, and when a cluster *)
(* is finished each of its blocks has one.                                 *)
(***************************************************************************)
OneTerminator ==
  /\ \A i, j \in DOMAIN out : i < j /\ out[i].blk = out[j].blk => ~Terminates(out[i])
  /\ phase = "done" => \A m \in made : \E g \in Groups : g.blk = m.blk /\ Terminates(g)

(***************************************************************************)
(* A branch stays in its function: its block, its targets and the blocks   *)
(* its PHI entries come from were all created in the function of the       *)
(* cluster that the statement belongs to.                                  *)
(***************************************************************************)
StaysInFunction ==
  \A g \in Groups : LET c == ClusterOf(prog, prog.owner[g.at]) IN
    \A b \in {g.blk} \cup Elems(g.end.to) : {m.fn : m \in {k \in made : k.blk = b}} = {c}
=============================================================================
