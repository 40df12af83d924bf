------------------------------ MODULE Lowering ------------------------------
(***************************************************************************)
(* The generated code, executed.  When CodeGen has finished a unit, a call *)
(* enters one of its functions and the instructions it emitted run block   *)
(* by block: PHI nodes take the incoming value of the block control came   *)
(* from, frame registers are loads and stores, and call-gc returns every   *)
(* root it was given.  LLVM's instructions, call-gc and raise_overflow are *)
(* external; the code they connect is CodeGen's.  Implements states that   *)
(* the run does exactly what CFGSem says the unit does.                    *)
(***************************************************************************)
EXTENDS CodeGen

CONSTANTS
  Undef,      \* the value of a register or variable nobody computed
  Outside,    \* control is not in the unit
  MaxGroups   \* bound on the groups of instructions one call executes

ASSUME OutsideAssumption == Outside \notin Nat

VARIABLES
  pos,    \* the index in out of the group to execute, or Outside
  env,    \* the values computed so far
  frame,  \* the contents of the registers kept in the frame
  obs,    \* the last observable event
  fuel    \* groups executed

xvars == <<pos, env, frame, obs, fuel>>

Held(e, v) == IF v \in DOMAIN e THEN e[v] ELSE Undef
HeldAll(e, vs) == [i \in DOMAIN vs |-> Held(e, vs[i])]
InVal(x) == <<"in", x>>
Fn(n, x, ts) == <<"fn", n, x, ts>>
Event(op, n, rs, ts) == [op |-> op, at |-> n, regs |-> rs, args |-> ts]
UndefRegs == [r \in Reg |-> Undef]
UndefVars == [x \in Var |-> Undef]

(* The first group of block b, and the one that follows group i in its block:
   out has them in the order they were appended. *)
BlockStart(b) ==
  CHOOSE i \in DOMAIN out : out[i].blk = b /\ \A j \in 1..(i - 1) : out[j].blk # b
NextInBlock(i) ==
  CHOOSE j \in DOMAIN out :
    i < j /\ out[j].blk = out[i].blk /\ \A k \in (i + 1)..(j - 1) : out[k].blk # out[i].blk
Here == out[pos]

(* The values e, with those of f in place of old ones *)
With(e, f) == [v \in DOMAIN e \cup DOMAIN f |-> IF v \in DOMAIN f THEN f[v] ELSE e[v]]

(* An instruction of statement n, with values p.e and frame p.f before it *)
Exec(n, c, p) ==
  CASE c.op = "ins" ->
         [e |-> With(p.e, [v \in {c.def} |-> Fn(n, c.nm, HeldAll(p.e, c.args))]), f |-> p.f]
    [] c.op = "load" -> [e |-> With(p.e, [v \in {c.def} |-> p.f[c.nm]]), f |-> p.f]
    [] c.op = "store" -> [e |-> p.e, f |-> [p.f EXCEPT ![c.nm] = Held(p.e, c.args[1])]]

(* The instructions of a group, in order. *)
Run(n, ins, p) ==
  LET run[i \in 0..Len(ins)] == IF i = 0 THEN p ELSE Exec(n, ins[i], run[i - 1])
  IN run[Len(ins)]

(* All PHI nodes of b at once, for control coming from block p. *)
Taken(v, p, e) ==
  LET es == {x \in inc : x.phi = v /\ x.pred = p} IN
  IF es = {} THEN Undef ELSE Held(e, (CHOOSE x \in es : TRUE).val)
Enter(b, p, e) == With(e, [v \in PhisOf(b) |-> Taken(v, p, e)])

(* The values after call-gc at n got the registers rs and the roots ts: new
   machine registers, and new roots for res *)
Collected(n, res, rs, ts, e) ==
  With(With(e, [v \in {V("ins", n, x) : x \in Elems(res)} |->
                  Fn(n, v.nm, <<Held(e, ts[CHOOSE i \in DOMAIN res : res[i] = v.nm])>>)]),
       [v \in {V("ins", n, r) : r \in mach} |-> Fn(n, v.nm, <<Held(e, rs[v.nm])>>)])

(* The registers a callee sees: arguments for the machine registers. *)
Seen(rs, e, f) == [r \in Reg |-> IF r \in mach THEN Held(e, rs[r]) ELSE f[r]]

-----------------------------------------------------------------------------
XInit ==
  /\ pos = Outside
  /\ env = <<>>
  /\ frame = UndefRegs
  /\ obs = Event("none", Outside, UndefRegs, <<>>)
  /\ fuel = 0

XEnter ==
  /\ phase = "done" /\ fuel = 0
  /\ \E l \in EntryLabs(prog) : LET f == prog.frag[l] IN
       /\ pos' = BlockStart(BB(f.body))
       /\ env' = [v \in {V("arg", f.body, x) : x \in mach \cup Elems(f.params)} |-> InVal(v.nm)]
  /\ frame' = [r \in Reg |-> IF r \in mach THEN Undef ELSE InVal(r)]
  /\ fuel' = 1
  /\ UNCHANGED <<obs, vars>>

XLeave(op, n, rs, ts, e, f) ==
  /\ pos' = Outside
  /\ env' = <<>>
  /\ frame' = UndefRegs
  /\ obs' = Event(op, n, Seen(rs, e, f), ts)

(* What follows the instructions of group g, with their results in p. *)
XFall(g, p) ==
  /\ g.end.op = "fall"
  /\ pos' = NextInBlock(pos)
  /\ env' = p.e
  /\ frame' = p.f
  /\ UNCHANGED obs

XGC(g, p) ==
  /\ g.end.op = "gc"
  /\ pos' = NextInBlock(pos)
  /\ env' = Collected(g.at, prog.stm[g.at].res, g.end.regs, g.end.args, p.e)
  /\ frame' = [r \in Reg |-> IF r \in mach THEN Undef ELSE Fn(g.at, r, <<p.f[r]>>)]
  /\ UNCHANGED obs

XBranch(g, p) ==
  /\ g.end.op = "br"
  /\ \E b \in {t \in Elems(g.end.to) : t.k # "impossible"} :
       /\ pos' = BlockStart(b)
       /\ env' = Enter(b, g.blk, p.e)
  /\ frame' = p.f
  /\ obs' = IF Len(g.end.to) = 1 THEN obs
            ELSE Event("test", g.at, UndefRegs, HeldAll(p.e, g.end.args))

(* The branch after checked arithmetic: on overflow, the overflow block *)
XOverflow(g, p) ==
  /\ g.end.op = "ovbr"
  /\ \/ /\ pos' = BlockStart(g.end.to[2])
        /\ env' = p.e
        /\ frame' = p.f
        /\ UNCHANGED obs
     \/ LET b == g.end.to[1]
            raise == out[BlockStart(b)]
        IN XLeave("raise", g.at, raise.end.regs, <<>>, Enter(b, g.blk, p.e), p.f)

XCall(g, p) ==
  /\ g.end.op = "call"
  /\ XLeave("call", g.at, g.end.regs, HeldAll(p.e, g.end.args), p.e, p.f)

XGroup ==
  /\ pos # Outside /\ fuel < MaxGroups
  /\ fuel' = fuel + 1
  /\ LET g == Here
         p == Run(g.at, g.ins, [e |-> env, f |-> frame])
     IN XFall(g, p) \/ XGC(g, p) \/ XBranch(g, p) \/ XOverflow(g, p) \/ XCall(g, p)
  /\ UNCHANGED vars

LInit == Init /\ XInit
LNext == (Step /\ UNCHANGED xvars) \/ XEnter \/ XGroup

(* The code generator is one thread that nothing stops; whoever calls the
   generated code may stop at any time. *)
LFair == WF_<<vars, xvars>>(Step /\ UNCHANGED xvars)
LSpec == LInit /\ [][LNext]_<<vars, xvars>> /\ LFair

(***************************************************************************)
(* Code generation of a well-formed unit comes to its end: no statement    *)
(* finds a label unbound, and the arms, fragments and clusters that the    *)
(* recursive methods leave pending are all taken up again.                 *)
(***************************************************************************)
Completes == <>(phase = "done")

-----------------------------------------------------------------------------
(* The source-level state that a state of the running code stands for: the
   register state and the variable map that the code generator had at the
   statement say which values hold what. *)
Loc == IF pos = Outside THEN Outside ELSE Here.at
RegsNow ==
  IF pos = Outside THEN UndefRegs ELSE
    [r \in Reg |-> IF at[Loc].regs[r] = NoVal THEN frame[r] ELSE Held(env, at[Loc].regs[r])]
VarsNow ==
  IF pos = Outside THEN UndefVars ELSE
    [x \in Var |-> IF x \in prog.scope[Loc] THEN Held(env, at[Loc].vars[x]) ELSE Undef]

Source == INSTANCE CFGSem WITH loc <- Loc, regs <- RegsNow, env <- VarsNow

(***************************************************************************)
(* Every run of the generated code is a run of the source: the same tests  *)
(* in the same order, the same registers and arguments at every call, and  *)
(* at an Overflow the registers as they were at the faulting operation.    *)
(***************************************************************************)
Implements == Source!Spec
=============================================================================
