------------------------------- MODULE CFGSem -------------------------------
(***************************************************************************)
(* What a compilation unit means: an interpreter for CFG that keeps the    *)
(* five CMachine registers and the variables in scope as plain state.  It  *)
(* is the abstract specification that the generated code must implement    *)
(* (see Lowering).  Data are uninterpreted: Fn(n, x, ts) is what statement *)
(* n computes for x from ts.  What the unit does to the outside -- the     *)
(* tests it makes, the calls it leaves with, the Overflow exceptions it    *)
(* raises -- is shown in obs.                                              *)
(***************************************************************************)
EXTENDS CFG

CONSTANTS Programs, Outside, Undef

VARIABLES
  prog,   \* the unit
  loc,    \* the statement to execute, or Outside
  regs,   \* the CMachine registers
  env,    \* the variables in scope, Undef for the others
  obs     \* the last observable event

vars == <<prog, loc, regs, env, obs>>

In(x) == <<"in", x>>
Fn(n, x, ts) == <<"fn", n, x, ts>>
Event(op, n, rs, ts) == [op |-> op, at |-> n, regs |-> rs, args |-> ts]

NoRegs == [r \in Reg |-> Undef]
NoEnv == [x \in Var |-> Undef]
Silent == Event("none", Outside, NoRegs, <<>>)

s == prog.stm[loc]
a == [i \in DOMAIN s.args |-> env[s.args[i]]]

(* The registers after s. *)
RegsAfter ==
  [r \in Reg |->
     IF r \notin Writes(s) THEN regs[r]
     ELSE IF s.prim = "SET" THEN a[1]
     ELSE IF r = "STORE" /\ s.prim = "RECORD"
          THEN Fn(loc, r, <<regs["ALLOC"], regs["STORE"]>> \o a)
     ELSE Fn(loc, r, <<regs[r]>>)]

(* The value s gives its i-th result. *)
Result(i) ==
  CASE s.prim = "VAR" -> a[1]
    [] s.prim = "GET" -> regs[s.reg]
    [] s.op = "ALLOC" -> Fn(loc, s.res[i], <<regs["ALLOC"]>> \o a)
    [] s.op = "CALLGC" -> Fn(loc, s.res[i], <<a[i]>>)
    [] OTHER -> Fn(loc, s.res[i], a)

EnvAfter ==
  [x \in Var |-> IF \E i \in DOMAIN s.res : s.res[i] = x
                 THEN Result(CHOOSE i \in DOMAIN s.res : s.res[i] = x) ELSE env[x]]

Leave(op, ts) ==
  /\ loc' = Outside
  /\ regs' = NoRegs
  /\ env' = NoEnv
  /\ obs' = Event(op, loc, regs, ts)

-----------------------------------------------------------------------------
Init ==
  /\ prog \in Programs
  /\ loc = Outside
  /\ regs = NoRegs
  /\ env = NoEnv
  /\ obs = Silent

(* A call arrives at the entry fragment of some cluster. *)
Enter ==
  /\ obs = Silent /\ loc = Outside
  /\ \E l \in EntryLabs(prog) :
       /\ loc' = prog.frag[l].body
       /\ env' = [x \in Var |-> IF x \in Elems(prog.frag[l].params) THEN In(x) ELSE Undef]
  /\ regs' = [r \in Reg |-> In(r)]
  /\ UNCHANGED <<prog, obs>>

(* A statement with a continuation. *)
Straight ==
  /\ loc # Outside
  /\ s.op \in {"LET", "ALLOC", "ARITH", "SETTER", "CALLGC"}
  /\ loc' = s.next[1]
  /\ regs' = RegsAfter
  /\ env' = EnvAfter
  /\ UNCHANGED <<prog, obs>>

Overflow ==
  /\ loc # Outside
  /\ s.prim = "TRAP"
  /\ Leave("raise", <<>>)
  /\ UNCHANGED prog

(* BRANCH and SWITCH: any arm, after a test of the arguments. *)
Choose ==
  /\ loc # Outside
  /\ s.op \in {"BRANCH", "SWITCH"}
  /\ loc' \in Children(prog, loc)
  /\ obs' = Event("test", loc, NoRegs,
                  IF s.prim = "LIMIT" THEN <<regs["ALLOC"], regs["LIMIT"]>> ELSE a)
  /\ UNCHANGED <<prog, regs, env>>

Goto ==
  /\ loc # Outside
  /\ s.op = "GOTO"
  /\ LET f == prog.frag[s.to] IN
     /\ loc' = f.body
     /\ env' = [x \in Var |-> IF \E i \in DOMAIN f.params : f.params[i] = x
                              THEN a[CHOOSE i \in DOMAIN f.params : f.params[i] = x] ELSE Undef]
  /\ UNCHANGED <<prog, regs, obs>>

Call ==
  /\ loc # Outside
  /\ s.op \in {"APPLY", "THROW"}
  /\ Leave("call", a)
  /\ UNCHANGED prog

Next == Enter \/ Straight \/ Overflow \/ Choose \/ Goto \/ Call

Spec == Init /\ [][Next]_vars
=============================================================================
