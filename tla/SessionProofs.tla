--------------------------- MODULE SessionProofs ---------------------------
(***************************************************************************)
(* Proofs about Session.  TypeOK and UsesLiveObjects are not inductive: a  *)
(* cached pointer gets into the code only when it is used again.  What is  *)
(* inductive is that, while a module is built, every cached pointer is to  *)
(* an object of that module, at an address that the heap holds for it.     *)
(***************************************************************************)
EXTENDS Session, TLAPS

(* The object of p belongs to the current module and is alive. *)
Live(p) == p.unit = unit /\ heap[p.addr] = unit

CachesLive ==
  /\ \A l \in Lab : clusterMap[l] # None => Live(clusterMap[l])
  /\ \A l \in Lab : aliasMap[l] # None => Live(aliasMap[l])
  /\ \A i \in Intrin : intrin[i] # None => Live(intrin[i])
  /\ readReg # None => Live(readReg)
  /\ \A p \in called : Live(p)

SInv == TypeOK /\ (phase # "idle" => unit # 0 /\ CachesLive /\ (readReg = None <=> ~spMD))

(* A fresh pointer is a pointer of the current module. *)
LEMMA HereTyped ==
  ASSUME unit \in 0..MaxUnits, unit # 0, NEW a \in Addr
  PROVE  Here(a) \in Ptr /\ Here(a) # None /\ Here(a).addr = a /\ Here(a).unit = unit
BY NoneIsNoPointer, UnitBound DEF Here, Ptr

(* Allocating an object leaves the others alive, and makes the new one live. *)
LEMMA AllocateLive ==
  ASSUME TypeOK, unit # 0, unit' = unit, NEW a \in Addr, Allocate(a)
  PROVE  /\ heap' \in [Addr -> 0..MaxUnits]
         /\ Here(a) \in Ptr /\ Here(a) # None
         /\ Here(a).unit = unit /\ heap'[Here(a).addr] = unit
         /\ \A p \in Ptr : Live(p) => p.unit = unit /\ heap'[p.addr] = unit
<1>1. Here(a) \in Ptr /\ Here(a) # None /\ Here(a).addr = a /\ Here(a).unit = unit
  BY HereTyped DEF TypeOK
<1>2. heap' \in [Addr -> 0..MaxUnits] /\ heap'[a] = unit
  BY DEF TypeOK, Allocate
<1>3. ASSUME NEW p \in Ptr, Live(p)
      PROVE  p.unit = unit /\ heap'[p.addr] = unit
  <2>1. p.addr \in Addr /\ p.addr # a
    BY <1>3, UnitBound DEF Live, Allocate, Ptr, TypeOK
  <2> QED
    BY <1>3, <2>1 DEF Live, Allocate, TypeOK
<1> QED
  BY <1>1, <1>2, <1>3

(* The empty maps have their types. *)
LEMMA EmptyMaps ==
  /\ \A S : Nowhere(S) \in [S -> Ptr \cup {None}] /\ \A x \in S : Nowhere(S)[x] = None
  /\ NoResults \in [Addr -> 0..MaxUnits]
BY UnitBound DEF Nowhere, NoResults

(* The invariant holds initially. *)
LEMMA SInit == Init => SInv
<1> SUFFICES ASSUME Init
             PROVE  TypeOK
  BY DEF Init, SInv
<1>1. unit \in 0..MaxUnits
  BY UnitBound DEF Init
<1>2. /\ clusterMap \in [Lab -> Ptr \cup {None}]
      /\ aliasMap \in [Lab -> Ptr \cup {None}]
      /\ intrin \in [Intrin -> Ptr \cup {None}]
  BY EmptyMaps DEF Init
<1> QED
  BY <1>1, <1>2, EmptyMaps DEF Init, TypeOK

(* No step breaks it. *)
LEMMA SStep == SInv /\ [Next]_vars => SInv'
<1> SUFFICES ASSUME SInv, [Next]_vars
             PROVE  SInv'
  OBVIOUS
<1> USE UnitBound
<1>0. TypeOK
  BY DEF SInv
<1>1. ASSUME NEW t \in Name, SetTarget(t)
      PROVE  SInv'
  <2>1. Created(t) \in Target \cup {None}
    BY DEF Created
  <2> QED
    BY <1>0, <1>1, <2>1, EmptyMaps DEF SetTarget, NewResults, SInv, TypeOK
<1>2. CASE BeginModule
  <2>1. unit' \in 0..MaxUnits /\ unit' # 0
    BY <1>0, <1>2 DEF BeginModule, TypeOK
  <2>2. TypeOK'
    BY <1>0, <1>2, <2>1, EmptyMaps DEF BeginModule, TypeOK, ResetIntrinsics, ResetSPAccess
  <2>3. CachesLive' /\ readReg' = None /\ ~spMD'
    BY <1>2, EmptyMaps DEF BeginModule, CachesLive, ResetIntrinsics, ResetSPAccess
  <2> QED
    BY <2>1, <2>2, <2>3 DEF SInv
<1>3. ASSUME NEW l \in Lab, InitCluster(l)
      PROVE  SInv'
  <2>1. /\ phase = "init" /\ unit # 0 /\ CachesLive /\ (readReg = None <=> ~spMD)
        /\ UNCHANGED <<ctx, since, phase, unit, aliasMap, intrin, readReg, spMD, fam, called, analysed>>
    BY <1>3 DEF InitCluster, SInv
  <2>2. PICK a \in Addr : Allocate(a) /\ clusterMap' = [clusterMap EXCEPT ![l] = Here(a)]
    BY <1>3 DEF InitCluster
  <2>3. /\ heap' \in [Addr -> 0..MaxUnits]
        /\ Here(a) \in Ptr /\ Here(a) # None
        /\ Here(a).unit = unit /\ heap'[Here(a).addr] = unit
        /\ \A p \in Ptr : Live(p) => p.unit = unit /\ heap'[p.addr] = unit
    BY <1>0, <2>1, <2>2, AllocateLive
  <2>4. TypeOK'
    BY <1>0, <2>1, <2>2, <2>3 DEF TypeOK
  <2>5. CachesLive'
    <3>1. \A k \in Lab : (clusterMap[k] # None => Live(clusterMap[k]))'
      <4> SUFFICES ASSUME NEW k \in Lab, clusterMap'[k] # None
                   PROVE  clusterMap'[k].unit = unit /\ heap'[clusterMap'[k].addr] = unit
        BY <2>1 DEF Live
      <4>1. CASE k = l
        BY <4>1, <1>0, <2>2, <2>3 DEF TypeOK
      <4>2. CASE k # l
        BY <4>2, <1>0, <2>1, <2>2, <2>3 DEF TypeOK, CachesLive
      <4> QED
        BY <4>1, <4>2
    <3> QED
      BY <3>1, <1>0, <2>1, <2>3 DEF CachesLive, TypeOK, Live
  <2> QED
    BY <2>1, <2>4, <2>5 DEF SInv
<1>4. CASE BeginCode
  BY <1>0, <1>4 DEF BeginCode, caches, SInv, TypeOK, CachesLive, Live
<1>5. ASSUME NEW i \in Intrin, UseIntrinsic(i)
      PROVE  SInv'
  <2>1. /\ phase = "gen" /\ unit # 0 /\ CachesLive /\ (readReg = None <=> ~spMD)
        /\ called' = called \cup {intrin'[i]}
        /\ UNCHANGED <<ctx, since, phase, unit, clusterMap, aliasMap, readReg, spMD, fam, analysed>>
    BY <1>5 DEF UseIntrinsic, SInv
  <2>2. CASE \E a \in Addr : Allocate(a) /\ intrin' = [intrin EXCEPT ![i] = Here(a)]
    <3>1. PICK a \in Addr : Allocate(a) /\ intrin' = [intrin EXCEPT ![i] = Here(a)]
      BY <2>2
    <3>2. /\ heap' \in [Addr -> 0..MaxUnits]
          /\ Here(a) \in Ptr /\ Here(a) # None
          /\ Here(a).unit = unit /\ heap'[Here(a).addr] = unit
          /\ \A p \in Ptr : Live(p) => p.unit = unit /\ heap'[p.addr] = unit
      BY <1>0, <2>1, <3>1, AllocateLive
    <3>3. TypeOK'
      BY <1>0, <2>1, <3>1, <3>2 DEF TypeOK
    <3>4. \A k \in Intrin : (intrin[k] # None => Live(intrin[k]))'
      <4> SUFFICES ASSUME NEW k \in Intrin, intrin'[k] # None
                   PROVE  intrin'[k].unit = unit /\ heap'[intrin'[k].addr] = unit
        BY <2>1 DEF Live
      <4>1. CASE k = i
        BY <4>1, <1>0, <3>1, <3>2 DEF TypeOK
      <4>2. CASE k # i
        BY <4>2, <1>0, <2>1, <3>1, <3>2 DEF TypeOK, CachesLive
      <4> QED
        BY <4>1, <4>2
    <3>5. \A p \in called' : Live(p)'
      BY <1>0, <2>1, <3>1, <3>2 DEF TypeOK, CachesLive, Live
    <3>6. CachesLive'
      BY <1>0, <2>1, <3>2, <3>4, <3>5 DEF CachesLive, TypeOK, Live
    <3> QED
      BY <2>1, <3>3, <3>6 DEF SInv
  <2>3. CASE intrin[i] # None /\ UNCHANGED <<heap, intrin>>
    BY <1>0, <2>1, <2>3 DEF SInv, TypeOK, CachesLive, Live
  <2> QED
    BY <1>5, <2>2, <2>3 DEF UseIntrinsic
<1>6. CASE ReadStack
  <2>1. /\ phase = "gen" /\ unit # 0 /\ CachesLive /\ (readReg = None <=> ~spMD)
        /\ called' = called \cup {readReg'}
        /\ UNCHANGED <<ctx, since, phase, unit, clusterMap, aliasMap, intrin, fam, analysed>>
    BY <1>6 DEF ReadStack, SInv
  <2>2. CASE (\E a \in Addr : Allocate(a) /\ readReg' = Here(a)) /\ spMD' = TRUE
    <3>1. PICK a \in Addr : Allocate(a) /\ readReg' = Here(a)
      BY <2>2
    <3>2. /\ heap' \in [Addr -> 0..MaxUnits]
          /\ Here(a) \in Ptr /\ Here(a) # None
          /\ Here(a).unit = unit /\ heap'[Here(a).addr] = unit
          /\ \A p \in Ptr : Live(p) => p.unit = unit /\ heap'[p.addr] = unit
      BY <1>0, <2>1, <3>1, AllocateLive
    <3>3. TypeOK'
      BY <1>0, <2>1, <2>2, <3>1, <3>2 DEF TypeOK
    <3>4. CachesLive'
      BY <1>0, <2>1, <3>1, <3>2 DEF CachesLive, TypeOK, Live
    <3> QED
      BY <2>1, <2>2, <3>1, <3>2, <3>3, <3>4 DEF SInv
  <2>3. CASE readReg # None /\ UNCHANGED <<heap, readReg, spMD>>
    BY <1>0, <2>1, <2>3 DEF SInv, TypeOK, CachesLive, Live
  <2> QED
    BY <1>6, <2>2, <2>3 DEF ReadStack
<1>7. ASSUME NEW l \in Lab, EvalLabel(l)
      PROVE  SInv'
  <2>1. /\ phase = "gen" /\ unit # 0 /\ CachesLive /\ (readReg = None <=> ~spMD)
        /\ clusterMap[l] # None
        /\ called' = called \cup {clusterMap[l], aliasMap'[l]}
        /\ UNCHANGED <<ctx, since, phase, unit, clusterMap, intrin, readReg, spMD, fam, analysed>>
    BY <1>7 DEF EvalLabel, SInv
  <2>2. CASE \E a \in Addr : Allocate(a) /\ aliasMap' = [aliasMap EXCEPT ![l] = Here(a)]
    <3>1. PICK a \in Addr : Allocate(a) /\ aliasMap' = [aliasMap EXCEPT ![l] = Here(a)]
      BY <2>2
    <3>2. /\ heap' \in [Addr -> 0..MaxUnits]
          /\ Here(a) \in Ptr /\ Here(a) # None
          /\ Here(a).unit = unit /\ heap'[Here(a).addr] = unit
          /\ \A p \in Ptr : Live(p) => p.unit = unit /\ heap'[p.addr] = unit
      BY <1>0, <2>1, <3>1, AllocateLive
    <3>3. TypeOK'
      BY <1>0, <2>1, <3>1, <3>2 DEF TypeOK
    <3>4. \A k \in Lab : (aliasMap[k] # None => Live(aliasMap[k]))'
      <4> SUFFICES ASSUME NEW k \in Lab, aliasMap'[k] # None
                   PROVE  aliasMap'[k].unit = unit /\ heap'[aliasMap'[k].addr] = unit
        BY <2>1 DEF Live
      <4>1. CASE k = l
        BY <4>1, <1>0, <3>1, <3>2 DEF TypeOK
      <4>2. CASE k # l
        BY <4>2, <1>0, <2>1, <3>1, <3>2 DEF TypeOK, CachesLive
      <4> QED
        BY <4>1, <4>2
    <3>5. \A p \in called' : Live(p)'
      BY <1>0, <2>1, <3>1, <3>2 DEF TypeOK, CachesLive, Live
    <3>6. CachesLive'
      BY <1>0, <2>1, <3>2, <3>4, <3>5 DEF CachesLive, TypeOK, Live
    <3> QED
      BY <2>1, <3>3, <3>6 DEF SInv
  <2>3. CASE aliasMap[l] # None /\ UNCHANGED <<heap, aliasMap>>
    BY <1>0, <2>1, <2>3 DEF SInv, TypeOK, CachesLive, Live
  <2> QED
    BY <1>7, <2>2, <2>3 DEF EvalLabel
<1>8. CASE CompleteModule
  BY <1>0, <1>8 DEF CompleteModule, caches, SInv, TypeOK, CachesLive, Live
<1>9. ASSUME NEW f \in Defined, OptimizeFn(f)
      PROVE  SInv'
  <2> DEFINE results == IF fam[f.addr] = 0 THEN unit ELSE fam[f.addr]
  <2>1. f \in Ptr
    BY <1>0, <1>9, NoneIsNoPointer DEF Defined, TypeOK
  <2>2. results \in 0..MaxUnits
    BY <1>0, <2>1 DEF TypeOK, Ptr
  <2>3. TypeOK'
    BY <1>0, <1>9, <2>1, <2>2 DEF OptimizeFn, TypeOK, caches, Ptr
  <2> QED
    BY <1>9, <2>3 DEF OptimizeFn, SInv, caches, CachesLive, Live
<1>10. CASE EndModule
  <2>1. heap' \in [Addr -> 0..MaxUnits]
    BY <1>0, <1>10 DEF EndModule, TypeOK
  <2> QED
    BY <1>0, <1>10, <2>1 DEF EndModule, caches, SInv, TypeOK
<1>11. CASE UNCHANGED vars
  BY <1>11 DEF vars, caches, SInv, TypeOK, CachesLive, Live
<1> QED
  BY <1>1, <1>2, <1>3, <1>4, <1>5, <1>6, <1>7, <1>8, <1>9, <1>10, <1>11 DEF Next

(* The types of a session: Context and MCGen state, for any number of
   units, addresses, labels and intrinsics. *)
THEOREM SessionTypes == Spec => []TypeOK
<1>1. SInv => TypeOK
  BY DEF SInv
<1> QED
  BY SInit, SStep, <1>1, PTL DEF Spec

(* The code of a module never refers to an object of an earlier module:
   beginModule resets every cache that could hold a pointer to one. *)
THEOREM LiveObjects == Spec => []UsesLiveObjects
<1>1. SInv => UsesLiveObjects
  BY DEF SInv, UsesLiveObjects, CachesLive, Live
<1> QED
  BY SInit, SStep, <1>1, PTL DEF Spec

(* The assertion of _initSPAccess: its two fields are set and reset
   together, so that it never fails. *)
THEOREM SPAccess == Spec => []SPAccessTogether
<1>1. SInv => SPAccessTogether
  BY DEF SInv, SPAccessTogether
<1> QED
  BY SInit, SStep, <1>1, PTL DEF Spec

-----------------------------------------------------------------------------
(* The modules of the current target come after since, the current one
   among them, and so do those that results were computed for. *)
ResultsInv ==
  /\ since <= unit
  /\ phase # "idle" => since < unit
  /\ \A a \in Addr : fam[a] # 0 => fam[a] > since
  /\ phase # "idle" => \A a \in Addr : analysed[a] # 0 => analysed[a] > since

(* It holds initially, and no step breaks it. *)
LEMMA ResultsInit == Init => ResultsInv
BY DEF Init, ResultsInv, NoResults

LEMMA ResultsStep == SInv /\ ResultsInv /\ [Next]_vars => ResultsInv'
<1> SUFFICES ASSUME SInv, ResultsInv, [Next]_vars
             PROVE  ResultsInv'
  OBVIOUS
<1>0. TypeOK
  BY DEF SInv
<1>1. ASSUME NEW t \in Name, SetTarget(t)
      PROVE  ResultsInv'
  BY <1>0, <1>1, UnitBound DEF SetTarget, NewResults, NoResults, ResultsInv, TypeOK
<1>2. CASE BeginModule
  BY <1>0, <1>2, UnitBound DEF BeginModule, NoResults, ResultsInv, TypeOK
<1>3. ASSUME NEW f \in Defined, OptimizeFn(f)
      PROVE  ResultsInv'
  <2>1. f.addr \in Addr
    BY <1>0, NoneIsNoPointer DEF Defined, TypeOK, Ptr
  <2> QED
    BY <1>0, <1>3, <2>1, UnitBound DEF OptimizeFn, ResultsInv, TypeOK
<1>4. CASE EndModule
  BY <1>4 DEF EndModule, ResultsInv
<1>5. ASSUME UNCHANGED <<since, unit, fam, analysed>>, phase # "idle"
      PROVE  ResultsInv'
  BY <1>5 DEF ResultsInv
<1>6. CASE BeginCode \/ CompleteModule \/ ReadStack
  BY <1>5, <1>6 DEF BeginCode, CompleteModule, ReadStack
<1>7. ASSUME NEW l \in Lab, InitCluster(l) \/ EvalLabel(l)
      PROVE  ResultsInv'
  BY <1>5, <1>7 DEF InitCluster, EvalLabel
<1>8. ASSUME NEW i \in Intrin, UseIntrinsic(i)
      PROVE  ResultsInv'
  BY <1>5, <1>8 DEF UseIntrinsic
<1>9. CASE UNCHANGED vars
  BY <1>9 DEF vars, ResultsInv
<1> QED
  BY <1>1, <1>2, <1>3, <1>4, <1>6, <1>7, <1>8, <1>9 DEF Next

(* Passes are given no results that were computed for another target:
   setTarget starts over with an empty analysis manager. *)
THEOREM FreshResults == Spec => []ResultsOfTarget
<1>1. ResultsInv => ResultsOfTarget
  BY DEF ResultsInv, ResultsOfTarget
<1> QED
  BY SInit, SStep, ResultsInit, ResultsStep, <1>1, PTL DEF Spec
=============================================================================
