------------------------------ MODULE Session ------------------------------
(***************************************************************************)
(* A Context across the compilation units it is used for: the drivers call *)
(* setTarget and codegen again and again (cfgc/codegen.cpp), each codegen  *)
(* builds a module, optimizes it, emits it and deletes it.  The Context    *)
(* and its MCGen outlive the modules and cache pointers into them; the     *)
(* allocator may reuse the addresses of a deleted module.                  *)
(*                                                                         *)
(* Objects of a module (functions, intrinsic declarations, aliases) are    *)
(* addresses; heap says which unit's object lives at an address.  A cached *)
(* pointer is an address together with the unit it was stored for, which   *)
(* is history: the code only has the address.                              *)
(***************************************************************************)
EXTENDS Naturals, FiniteSets

CONSTANTS
  Name,       \* strings that setTarget may be called with
  Target,     \* the names that TargetInfo::infoForTarget knows
  Addr,       \* addresses for the objects of a module
  Lab,        \* labels of clusters; units use the same ones
  Intrin,     \* the intrinsics with a cache in the Context
  MaxUnits,   \* bound on the units compiled
  None        \* nullptr, or no entry

ASSUME TargetNames == Target \subseteq Name /\ None \notin Name
ASSUME UnitBound == MaxUnits \in Nat

Ptr == [addr: Addr, unit: 1..MaxUnits]

ASSUME NoneIsNoPointer == None \notin Ptr

VARIABLES
  ctx,        \* target of gContext, or None
  since,      \* history: number of modules begun before the Context was made
  phase,      \* "idle", "init", "gen" or "opt"
  unit,       \* number of modules begun; the current one while not idle
  heap,       \* the unit whose object lives at an address, 0 if free
  clusterMap, \* _clusterMap: label -> function of the cluster
  aliasMap,   \* _aliasMap: label -> alias
  intrin,     \* the Intrinsic::_ptr fields
  readReg,    \* _readReg
  spMD,       \* whether _spRegMD is set
  fam,        \* _fam: address -> unit of the function it has results for, or 0
  called,     \* history: pointers put into the code of the current module
  analysed    \* history: address -> unit of the results its passes used, or 0

caches == <<clusterMap, aliasMap, intrin, readReg, spMD>>
vars == <<ctx, since, phase, unit, heap, caches, fam, called, analysed>>

Nowhere(S) == [x \in S |-> None]
NoResults == [a \in Addr |-> 0]
Here(a) == [addr |-> a, unit |-> unit]

(* The functions with a body: those of the clusters. *)
Defined == {clusterMap[l] : l \in {k \in Lab : clusterMap[k] # None}}

Init ==
  /\ ctx = None /\ since = 0
  /\ phase = "idle"
  /\ unit = 0
  /\ heap = NoResults
  /\ clusterMap = Nowhere(Lab) /\ aliasMap = Nowhere(Lab) /\ intrin = Nowhere(Intrin)
  /\ readReg = None /\ spMD = FALSE
  /\ fam = NoResults
  /\ called = {}
  /\ analysed = NoResults

(* TargetInfo::infoForTarget and Context::create *)
AnyTarget(t) == t
Created(t) == IF t \in Target THEN t ELSE None

KeepResults == UNCHANGED fam
NewResults == fam' = NoResults

(* setTarget: a new Context and MCGen unless the target stays the same *)
SetTarget(t) ==
  /\ phase = "idle"
  /\ t # ctx
  /\ ctx' = Created(t) /\ since' = unit
  /\ clusterMap' = Nowhere(Lab) /\ aliasMap' = Nowhere(Lab) /\ intrin' = Nowhere(Intrin)
  /\ readReg' = None /\ spMD' = FALSE
  /\ NewResults
  /\ UNCHANGED <<phase, unit, heap, called, analysed>>

KeepIntrinsics == UNCHANGED intrin
ResetIntrinsics == intrin' = Nowhere(Intrin)

ResetReadReg == readReg' = None /\ UNCHANGED spMD
ResetSPAccess == readReg' = None /\ spMD' = FALSE

(* beginModule: the per-module caches are reset *)
BeginModule ==
  /\ phase = "idle" /\ ctx # None /\ unit < MaxUnits
  /\ phase' = "init"
  /\ unit' = unit + 1
  /\ clusterMap' = Nowhere(Lab) /\ aliasMap' = Nowhere(Lab)
  /\ ResetIntrinsics
  /\ ResetSPAccess
  /\ called' = {}
  /\ analysed' = NoResults
  /\ UNCHANGED <<ctx, since, heap, fam>>

(* Create an object of the current module. *)
Allocate(a) == heap[a] = 0 /\ heap' = [heap EXCEPT ![a] = unit]

(* cluster::init: insertCluster, which leaves an existing entry alone, and
   newFunction *)
InitCluster(l) ==
  /\ phase = "init"
  /\ clusterMap[l] = None
  /\ \E a \in Addr : Allocate(a) /\ clusterMap' = [clusterMap EXCEPT ![l] = Here(a)]
  /\ UNCHANGED <<ctx, since, phase, unit, aliasMap, intrin, readReg, spMD, fam, called, analysed>>

(* All clusters are initialized: comp_unit::codegen generates their code. *)
BeginCode ==
  /\ phase = "init" /\ Defined # {}
  /\ phase' = "gen"
  /\ UNCHANGED <<ctx, since, unit, heap, caches, fam, called, analysed>>

(* Intrinsic::get *)
UseIntrinsic(i) ==
  /\ phase = "gen"
  /\ \/ /\ intrin[i] = None
        /\ \E a \in Addr : Allocate(a) /\ intrin' = [intrin EXCEPT ![i] = Here(a)]
     \/ intrin[i] # None /\ UNCHANGED <<heap, intrin>>
  /\ called' = called \cup {intrin'[i]}
  /\ UNCHANGED <<ctx, since, phase, unit, clusterMap, aliasMap, readReg, spMD, fam, analysed>>

(* stkAddr and _initSPAccess *)
ReadStack ==
  /\ phase = "gen"
  /\ \/ /\ readReg = None
        /\ \E a \in Addr : Allocate(a) /\ readReg' = Here(a)
        /\ spMD' = TRUE
     \/ readReg # None /\ UNCHANGED <<heap, readReg, spMD>>
  /\ called' = called \cup {readReg'}
  /\ UNCHANGED <<ctx, since, phase, unit, clusterMap, aliasMap, intrin, fam, analysed>>

(* evalLabel: the alias of a cluster is made once per module *)
EvalLabel(l) ==
  /\ phase = "gen"
  /\ clusterMap[l] # None
  /\ \/ /\ aliasMap[l] = None
        /\ \E a \in Addr : Allocate(a) /\ aliasMap' = [aliasMap EXCEPT ![l] = Here(a)]
     \/ aliasMap[l] # None /\ UNCHANGED <<heap, aliasMap>>
  /\ called' = called \cup {clusterMap[l], aliasMap'[l]}
  /\ UNCHANGED <<ctx, since, phase, unit, clusterMap, intrin, readReg, spMD, fam, analysed>>

(* completeModule *)
CompleteModule ==
  /\ phase = "gen"
  /\ phase' = "opt"
  /\ UNCHANGED <<ctx, since, unit, heap, caches, fam, called, analysed>>

(* MCGen::optimize, for one function: its passes ask the analysis manager
   for the results for the function's address.  Modelled are the results that
   no change to the function invalidates (AssumptionAnalysis, which
   SimplifyCFG asks for): they are computed when there are none, and stay. *)
OptimizeFn(f) ==
  LET results == IF fam[f.addr] = 0 THEN unit ELSE fam[f.addr] IN
  /\ phase = "opt"
  /\ f \in Defined /\ analysed[f.addr] = 0
  /\ analysed' = [analysed EXCEPT ![f.addr] = results]
  /\ fam' = [fam EXCEPT ![f.addr] = results]
  /\ UNCHANGED <<ctx, since, phase, unit, heap, caches, called>>

(* The module is emitted (compile, dumpAsm, ...) and deleted: endModule. *)
EndModule ==
  /\ phase = "opt"
  /\ \A f \in Defined : analysed[f.addr] # 0
  /\ phase' = "idle"
  /\ heap' = [a \in Addr |-> IF heap[a] = unit THEN 0 ELSE heap[a]]
  /\ UNCHANGED <<ctx, since, unit, caches, fam, called, analysed>>

Next ==
  \/ \E t \in Name : SetTarget(t)
  \/ BeginModule \/ BeginCode \/ ReadStack \/ CompleteModule \/ EndModule
  \/ \E l \in Lab : InitCluster(l) \/ EvalLabel(l)
  \/ \E i \in Intrin : UseIntrinsic(i)
  \/ \E f \in Defined : OptimizeFn(f)

Spec == Init /\ [][Next]_vars

-----------------------------------------------------------------------------
(* The type invariant of a session. *)
TypeOK ==
  /\ ctx \in Target \cup {None}
  /\ phase \in {"idle", "init", "gen", "opt"}
  /\ unit \in 0..MaxUnits /\ since \in 0..MaxUnits
  /\ heap \in [Addr -> 0..MaxUnits]
  /\ clusterMap \in [Lab -> Ptr \cup {None}]
  /\ aliasMap \in [Lab -> Ptr \cup {None}]
  /\ intrin \in [Intrin -> Ptr \cup {None}]
  /\ readReg \in Ptr \cup {None}
  /\ spMD \in BOOLEAN
  /\ fam \in [Addr -> 0..MaxUnits]
  /\ called \subseteq Ptr
  /\ analysed \in [Addr -> 0..MaxUnits]

(***************************************************************************)
(* The code of a module only refers to objects of that module, and those   *)
(* are alive: no pointer that the Context cached for an earlier module,    *)
(* which is deleted by now, finds its way into the code of a later one.    *)
(***************************************************************************)
UsesLiveObjects ==
  phase # "idle" => \A p \in called : p.unit = unit /\ heap[p.addr] = unit

(***************************************************************************)
(* The stack pointer access is initialized once per module: when stkAddr   *)
(* finds no read_register intrinsic, the metadata is missing too, as the   *)
(* assertion in _initSPAccess wants it.                                    *)
(***************************************************************************)
SPAccessTogether == phase # "idle" => (readReg = None <=> ~spMD)

(***************************************************************************)
(* The results that a pass is given were computed for a module of the      *)
(* current target: they refer to the TargetMachine of their MCGen, and     *)
(* setTarget makes new ones.  They need not be for the function that the   *)
(* pass runs on: endModule leaves the results for the functions of a       *)
(* deleted module in _fam, and a later module may reuse their addresses.   *)
(***************************************************************************)
ResultsOfTarget == phase = "opt" => \A a \in Addr : analysed[a] # 0 => analysed[a] > since
=============================================================================
