----------------------------- MODULE CallConv -----------------------------
(***************************************************************************)
(* Calls between functions, and with the runtime system, in the "jump with *)
(* arguments" convention (JWA).  The code generator lists arguments and    *)
(* parameters in four places, and LLVM assigns registers to the elements   *)
(* of each list on its own, by their classes alone: a value arrives only   *)
(* if the lists agree.                                                     *)
(*                                                                         *)
(* The registers of the SML machine that a target keeps in memory take no  *)
(* part in this (module Lowering has them).                                *)
(***************************************************************************)
EXTENDS Naturals, Sequences, FiniteSets, Functions

CONSTANTS
  Params,   \* lists of parameter classes, "gp" or "fp", that functions have
  MaxSteps  \* how often values change

ASSUME ParamsAssumption == Params \subseteq Seq({"gp", "fp"})
ASSUME MaxStepsAssumption == MaxSteps \in Nat \ {0}

VARIABLES
  target,  \* "x86_64" or "aarch64"
  debug,   \* whether assertions are compiled
  fn,      \* the function that runs or is entered: its kind and parameters
  regs,    \* its view of the SML registers
  vals,    \* the values of its parameters, or what the GC left of them
  hw,      \* the registers of the processor
  meant,   \* what the program means its registers and values to be
  pc,      \* "entry" of fn, its "body", "gc" called, "gcret" returned, "overflow",
           \* "failed" an assertion, or "unassigned": LLVM has no register
  step     \* counts, to tell values apart

vars == <<target, debug, fn, regs, vals, hw, meant, pc, step>>

-----------------------------------------------------------------------------
(* The convention of each target, and what its registers are for. *)
JWA ==
  [x86_64 |->
     [gp |-> <<"RDI", "R14", "R15", "R8", "R9", "RSI", "RBX", "RCX", "RDX", "RBP", "R10", "R11",
               "R12", "R13">>,
      fp |-> <<"XMM0", "XMM1", "XMM2", "XMM3", "XMM4", "XMM5", "XMM6", "XMM7", "XMM8", "XMM9",
               "XMM10", "XMM11", "XMM12", "XMM13", "XMM14", "XMM15">>],
   aarch64 |->
     [gp |-> <<"X24", "X25", "X26", "X27", "X28", "X3", "X2", "X1", "X4", "X5", "X6", "X0", "X7",
               "X8", "X9", "X10", "X11", "X12", "X13", "X14", "X15", "X16", "X19", "X20", "X21",
               "X22", "X23">>,
      fp |-> <<"D0", "D1", "D2", "D3", "D4", "D5", "D6", "D7", "D8", "D9", "D10", "D11", "D12",
               "D13", "D14", "D15">>]]

(* What the runtime system, whose code is not here, has in its registers *)
Role ==
  [x86_64 |->
     [ALLOC |-> "RDI", LIMIT |-> "R14", STORE |-> "R15", LINK |-> "R8", CLOS |-> "R9",
      CONT |-> "RSI", CS0 |-> "RBX", CS1 |-> "RCX", CS2 |-> "RDX", ARG |-> "RBP"],
   aarch64 |->
     [ALLOC |-> "X24", LIMIT |-> "X25", STORE |-> "X26", EXN |-> "X27", VAR |-> "X28",
      LINK |-> "X3", CLOS |-> "X2", CONT |-> "X1", CS0 |-> "X4", CS1 |-> "X5", CS2 |-> "X6",
      ARG |-> "X0"]]

StdRoles == <<"LINK", "CLOS", "CONT", "CS0", "CS1", "CS2", "ARG">>

TargetInfo ==
  [x86_64 |-> [numGPArgRegs |-> 11, numFPArgRegs |-> 16, numCalleeSaves |-> 3],
   aarch64 |-> [numGPArgRegs |-> 22, numFPArgRegs |-> 32, numCalleeSaves |-> 3]]

MachineRegs ==
  [x86_64 |-> <<"ALLOC", "LIMIT", "STORE">>,
   aarch64 |-> <<"ALLOC", "LIMIT", "STORE", "EXN", "VAR">>]

MachRegs == MachineRegs[target]
HWRegs == UNION {Range(JWA[target][c]) : c \in {"gp", "fp"}}

(* How LLVM assigns the i-th element of a list of classes *)
Assigned(tys, i) ==
  LET of == JWA[target][tys[i]]
      n == Cardinality({j \in 1 .. i : tys[j] = tys[i]})
  IN IF n <= Len(of) THEN of[n] ELSE "none"
AllAssigned(tys) == \A i \in DOMAIN tys : Assigned(tys, i) # "none"

-----------------------------------------------------------------------------
(* The lists that the code generator makes *)

NExtra == Len(MachRegs)
OneUnused(kind) == IF kind = "STD_CONT" THEN 1 ELSE 0
NUnused(kind) == IF kind = "STD_CONT" THEN 2 ELSE 0
GP(n) == [i \in 1 .. n |-> "gp"]

CreateParamTys(kind) == GP(NExtra + NUnused(kind))
CreateFnTy(kind, tys) == CreateParamTys(kind) \o tys

Undef == <<"undef", 0>>
CreateArgs(kind) ==
  [i \in 1 .. NExtra |-> regs[MachRegs[i]]] \o [i \in 1 .. NUnused(kind) |-> Undef]

NumGCRoots == TargetInfo[target].numCalleeSaves + 4
GCTys == CreateParamTys("STD_FUN") \o GP(NumGCRoots)

(* The registers, with the elements of a list in theirs; and how an element
   is read back. *)
Placed(tys, list) ==
  [r \in HWRegs |->
     IF \E i \in DOMAIN list : Assigned(tys, i) = r
     THEN list[CHOOSE i \in DOMAIN list : Assigned(tys, i) = r] ELSE hw[r]]
Element(tys, i) == hw[Assigned(tys, i)]

-----------------------------------------------------------------------------
NewValues(name, n) == [i \in 1 .. n |-> <<name, step * 100 + i>>]

Init ==
  /\ target \in DOMAIN JWA /\ debug \in BOOLEAN
  /\ fn = [kind |-> "STD_FUN", params |-> <<>>]
  /\ regs = [r \in Range(MachRegs) |-> <<r, 0>>] /\ vals = <<>>
  /\ hw = [r \in HWRegs |-> Undef]
  /\ meant = [regs |-> regs, vals |-> vals]
  /\ pc = "body" /\ step = 1

Step == step < MaxSteps /\ step' = step + 1

(* The code allocates an object. *)
Allocate ==
  /\ pc = "body" /\ Step
  /\ regs' = [regs EXCEPT !["ALLOC"] = <<"ALLOC", step>>]
  /\ meant' = [meant EXCEPT !.regs = regs']
  /\ UNCHANGED <<target, debug, fn, vals, hw, pc>>

(* createJWACall, with the type at the call *)
JWACall(tys, args) ==
  IF AllAssigned(tys) THEN pc' = "entry" /\ hw' = Placed(tys, args)
  ELSE pc' = "unassigned" /\ hw' = hw

Count(class, tys) == Cardinality({i \in DOMAIN tys : tys[i] = class})
SameForThrow(kind, tys) ==
  \/ Count("gp", tys) > TargetInfo[target].numGPArgRegs
  \/ Count("fp", tys) > TargetInfo[target].numFPArgRegs
TooMany(kind, tys) ==
  \/ Count("gp", tys) > TargetInfo[target].numGPArgRegs - (IF kind = "STD_CONT" THEN 2 ELSE 0)
  \/ Count("fp", tys) > TargetInfo[target].numFPArgRegs

(* A call of f, at which the code generator takes it to be of a kind; where
   it has a label, the function type is that of f, else it is made from the
   types at the call. *)
Transfer(f, kind, label) ==
  /\ pc = "body" /\ Step
  /\ fn' = f
  /\ meant' = [regs |-> regs, vals |-> NewValues("arg", Len(f.params))]
  /\ IF debug /\ TooMany(kind, f.params) THEN pc' = "failed" /\ hw' = hw
     ELSE JWACall(IF label THEN CreateFnTy(f.kind, f.params) ELSE CreateFnTy(kind, f.params),
                  CreateArgs(kind) \o meant'.vals)
  /\ UNCHANGED <<target, debug, regs, vals>>

Functions == [kind: {"STD_FUN", "KNOWN_FUN", "STD_CONT"}, params: Params]

Apply ==
  \E f \in Functions :
    \/ f.kind = "STD_FUN" /\ Transfer(f, "STD_FUN", FALSE)
    \/ f.kind # "STD_CONT" /\ Transfer(f, f.kind, TRUE)

Throw ==
  \E f \in Functions, label \in BOOLEAN : f.kind = "STD_CONT" /\ Transfer(f, "STD_CONT", label)

(* setupStdEntry *)
FnTy == CreateFnTy(fn.kind, fn.params)
FirstThree ==
  [r \in {"ALLOC", "LIMIT", "STORE"} |->
     Element(FnTy, CHOOSE i \in 1 .. NExtra : MachRegs[i] = r)]
EntryRegs == [r \in Range(MachRegs) |-> Element(FnTy, CHOOSE i \in 1 .. NExtra : MachRegs[i] = r)]
UnusedAsParams == [i \in DOMAIN fn.params |-> Element(FnTy, NExtra + i)]
EntryParams ==
  [i \in DOMAIN fn.params |-> Element(FnTy, NExtra + NUnused(fn.kind) + i)]

SetupStdEntry ==
  /\ pc = "entry"
  /\ regs' = EntryRegs
  /\ vals' = EntryParams
  /\ pc' = "body"
  /\ UNCHANGED <<target, debug, fn, hw, meant, step>>

(* callGC up to the call; the roots are in the order of StdRoles. *)
CallGC ==
  /\ pc = "body" /\ Step
  /\ \E roots \in {NewValues("root", Len(StdRoles))} :
       IF Len(GCTys) # NExtra + Len(roots)   \* arity mismatch
       THEN pc' = "failed" /\ UNCHANGED <<hw, meant>>
       ELSE /\ hw' = Placed(GCTys, CreateArgs("STD_FUN") \o roots)
            /\ meant' = [meant EXCEPT !.vals = roots]
            /\ pc' = "gc"
  /\ UNCHANGED <<target, debug, fn, regs, vals>>

(* The collector moves the roots, and leaves nothing else as it was. *)
Moved(v) == <<"moved", v[2]>>
GC ==
  /\ pc = "gc"
  /\ hw' = [r \in HWRegs |->
              IF \E i \in DOMAIN StdRoles : Role[target][StdRoles[i]] = r THEN Moved(hw[r])
              ELSE IF \E m \in Range(MachRegs) : Role[target][m] = r THEN <<"gc", hw[r][2]>>
              ELSE Undef]
  /\ meant' = [regs |-> [m \in Range(MachRegs) |-> hw'[Role[target][m]]],
               vals |-> [i \in DOMAIN meant.vals |-> Moved(meant.vals[i])]]
  /\ pc' = "gcret"
  /\ UNCHANGED <<target, debug, fn, regs, vals, step>>

(* The rest of callGC: the fields of the structure that is returned *)
ExtractRoots ==
  /\ pc = "gcret"
  /\ regs' = [r \in Range(MachRegs) |-> Element(GCTys, CHOOSE i \in 1 .. NExtra : MachRegs[i] = r)]
  /\ vals' = [i \in DOMAIN StdRoles |-> Element(GCTys, NExtra + i)]
  /\ pc' = "body"
  /\ UNCHANGED <<target, debug, fn, hw, meant, step>>

(* The call in the overflow block; control does not come back. *)
RaiseOverflow ==
  /\ pc = "body"
  /\ hw' = Placed(GP(NExtra), [i \in 1 .. NExtra |-> regs[MachRegs[i]]])
  /\ pc' = "overflow"
  /\ UNCHANGED <<target, debug, fn, regs, vals, meant, step>>

Next ==
  \/ Allocate \/ Apply \/ Throw \/ SetupStdEntry \/ CallGC \/ GC \/ ExtractRoots
  \/ RaiseOverflow

Spec == Init /\ [][Next]_vars

-----------------------------------------------------------------------------
Values == {"ALLOC", "LIMIT", "STORE", "EXN", "VAR", "undef", "arg", "root", "moved", "gc"} \X Nat

(* The type invariant of calls: every register has a value, and a function
   as many as it has parameters, or as the collector has roots. *)
TypeOK ==
  /\ target \in DOMAIN JWA /\ debug \in BOOLEAN /\ step \in 1 .. MaxSteps
  /\ pc \in {"entry", "body", "gc", "gcret", "overflow", "failed", "unassigned"}
  /\ hw \in [HWRegs -> Values]
  /\ regs \in [Range(MachRegs) -> Values]
  /\ pc = "body" => Len(vals) \in {Len(fn.params), Len(StdRoles)}

(***************************************************************************)
(* What the code of a function finds in its registers and parameters, at   *)
(* its entry and after a collection, is what its caller, or the collector, *)
(* put there: APPLY, THROW, callGC and setupStdEntry list the same things. *)
(***************************************************************************)
Arrives == pc = "body" => regs = meant.regs /\ vals = meant.vals

(***************************************************************************)
(* The runtime system, and code compiled apart, find the SML registers in  *)
(* fixed registers at every transfer of control, the roots of a collection *)
(* in the standard ones, the standard parameters of an escaping function,  *)
(* and those of a continuation behind its two unused registers.            *)
(***************************************************************************)
InPlace ==
  LET At(role, v) == hw[Role[target][role]] = v
      StdParams(first) ==
        \A i \in DOMAIN fn.params :
          (\A j \in 1 .. i : fn.params[j] = "gp") /\ i + first \in DOMAIN StdRoles =>
            At(StdRoles[i + first], meant.vals[i])
  IN /\ pc \in {"entry", "gc", "overflow"} => \A r \in Range(MachRegs) : At(r, meant.regs[r])
     /\ pc = "gc" => \A i \in DOMAIN StdRoles : At(StdRoles[i], meant.vals[i])
     /\ pc = "entry" /\ fn.kind = "STD_FUN" => StdParams(0)
     /\ pc = "entry" /\ fn.kind = "STD_CONT" => StdParams(2)

(***************************************************************************)
(* The assertions in APPLY and THROW fail for exactly the calls for which  *)
(* the convention has no registers; the one in callGC never fails.  Not    *)
(* so for AArch64 and floats: the target has 32 registers for them, the    *)
(* convention 16.                                                          *)
(***************************************************************************)
FloatsShort == target = "aarch64" /\ Count("fp", fn.params) \in 17 .. 32

AssertionsExact ==
  /\ pc = "failed" => ~AllAssigned(FnTy)
  /\ pc = "unassigned" => ~debug \/ FloatsShort
=============================================================================
