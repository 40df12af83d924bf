------------------------------- MODULE Loader -------------------------------
(***************************************************************************)
(* Loading the generated object file into one piece of memory: the         *)
(* MemManager of object-file.cpp together with LLVM's RuntimeDyld, which   *)
(* drives it.  RuntimeDyld first reserves space for the code, the          *)
(* read-only and the read-write data, sized before anything is placed;     *)
(* then it places the sections one by one, in the order in which symbols   *)
(* and relocations mention them, and makes stubs and GOT entries while it  *)
(* processes the relocations.  That the reservation is large enough is     *)
(* asserted, and nothing checks it in a build without assertions.          *)
(*                                                                         *)
(* Sizes, alignments and addresses are numbers; contents are left out.     *)
(***************************************************************************)
EXTENDS Integers, Sequences, FiniteSetsExt

CONSTANTS
  Objects,    \* the object files
  MemAddrs,   \* addresses that new[] may return
  Nowhere     \* a section that is not placed

Kind == {"code", "ro", "rw"}
Format == {"elf", "macho"}    \* ELF for x86_64, MachO for aarch64

(***************************************************************************)
(* An object file: its format and its sections.  A section has a kind, a   *)
(* size, an alignment and relocations: calls to external functions, uses   *)
(* of the GOT, and others that relocationNeedsStub takes into account.     *)
(***************************************************************************)
BaseAlign == 4096

(* Alignments are powers of two; none is above that of the memory. *)
Alignment == {1, 2, 4, 8, 16, 32, 64, 128, 256, 512, 1024, 2048, BaseAlign}

Section ==
  [kind: Kind, size: Nat, align: Alignment, calls: Nat, gots: Nat, others: Nat]

ASSUME MemAddrsAssumption == MemAddrs \subseteq Nat
ASSUME NowhereAssumption == Nowhere \notin [addr: Nat, size: Nat]
ASSUME ObjectsTyped == Objects \subseteq [fmt: Format, secs: Seq(Section)]

(* Sections of a MachO object get the alignment of stubs when they are placed,
   after the space was reserved with their own: among several of a kind there
   is one with that alignment. *)
ASSUME MachOAligned ==
  \A o \in Objects : o.fmt = "macho" =>
    \A i, j \in DOMAIN o.secs : i # j /\ o.secs[i].kind = o.secs[j].kind =>
      \E m \in DOMAIN o.secs : o.secs[m].kind = o.secs[i].kind /\ o.secs[m].align >= 8

VARIABLES
  obj,      \* the object file
  phase,    \* "new", "load" or "loaded"
  base,     \* _base
  data,     \* _data of _code, _roData and _rwData
  szb,      \* their _szb
  padded,   \* their _paddedSzb
  maxAlign, \* alignment the sections were padded for
  placed,   \* section or GOT -> [addr, size], or Nowhere
  stubOff,  \* section -> its StubOffset
  stubs,    \* the stubs made: [sec, addr]
  gotIndex, \* CurrentGOTIndex
  todo      \* section -> [calls, gots] not yet processed

mem == <<base, data, padded, maxAlign>>
vars == <<obj, phase, base, data, szb, padded, maxAlign, placed, stubOff, stubs, gotIndex, todo>>

GOT == 0                      \* the GOT among the sections, which count from 1
Secs == DOMAIN obj.secs
Sec(i) == obj.secs[i]
OfKind(k) == {i \in Secs : Sec(i).kind = k}
Zero == [k \in Kind |-> 0]

Unmasked(n, a) == n + a - 1
AlignBy(n, a) == ((n + a - 1) \div a) * a

(* The sum that a loop over sections computes *)
Total(f) == LET s[i \in 0 .. Len(f)] == IF i = 0 THEN 0 ELSE s[i - 1] + f[i] IN s[Len(f)]

-----------------------------------------------------------------------------
(* Properties of the object formats *)
StubAlignment == IF obj.fmt = "elf" THEN 1 ELSE 8
MaxStubSize == IF obj.fmt = "elf" THEN 6 ELSE 8
GOTEntrySize == IF obj.fmt = "elf" THEN 8 ELSE 0

(* relocationNeedsStub: what a section may need a stub for *)
CallStubs(s) == s.calls + s.others
NeedStub(s) == s.calls + s.others + IF obj.fmt = "elf" THEN 0 ELSE s.gots

(* commonAlignment: the largest power of 2 that divides both *)
CommonAlignment(a, n) == Max({d \in Alignment : a % d = 0 /\ n % d = 0})

(* computeSectionStubBufSize *)
StubBufSize(s) ==
  LET end == CommonAlignment(s.align, s.size) IN
  MaxStubSize * NeedStub(s) + IF StubAlignment > end THEN StubAlignment - end ELSE 0

Padding(s) == IF StubBufSize(s) # 0 THEN StubAlignment - 1 ELSE 0

(* The size that both computeTotalAllocSize and emitSection ask for *)
AllocSize(s) == Max({1, s.size + Padding(s) + StubBufSize(s)})

EmitAlign(s) == IF StubBufSize(s) # 0 THEN Max({s.align, StubAlignment}) ELSE s.align

(* computeGOTSize *)
GOTSize == Total([i \in Secs |-> Sec(i).gots]) * GOTEntrySize

KindAlign(k) ==
  Max({1} \cup {Sec(i).align : i \in OfKind(k)}
          \cup IF k = "rw" /\ GOTSize > 0 THEN {GOTEntrySize} ELSE {})

(* Sections of kind k take the size that they have at the alignment of the kind. *)
Sizes(k) ==
  [i \in Secs |-> IF Sec(i).kind = k THEN AlignBy(AllocSize(Sec(i)), KindAlign(k)) ELSE 0]

(* computeTotalAllocSize; 64 is for an IFunc resolver *)
TotalSize(k) ==
  LET a == KindAlign(k) IN
  Total(Sizes(k))
  + (IF k = "rw" /\ GOTSize > 0 THEN AlignBy(GOTSize, a) ELSE 0)
  + (IF k = "code" /\ OfKind(k) # {} THEN AlignBy(64, a) ELSE 0)

-----------------------------------------------------------------------------
Init ==
  /\ obj \in Objects
  /\ phase = "new"
  /\ base = 0
  /\ data = Zero /\ szb = Zero /\ padded = Zero
  /\ maxAlign = 1
  /\ placed = [i \in Secs \cup {GOT} |-> Nowhere]
  /\ stubOff = [i \in Secs |-> 0]
  /\ stubs = {}
  /\ gotIndex = 0
  /\ todo = [i \in Secs |-> [calls |-> Sec(i).calls, gots |-> Sec(i).gots]]

OneByte == 1
MinPadding == 8

(* reserveAllocationSpace: one piece of memory for the three kinds, all
   padded for the largest alignment, which is 8 at least *)
Reserve ==
  /\ phase = "new"
  /\ phase' = "load"
  /\ maxAlign' = Max({MinPadding} \cup {KindAlign(k) : k \in Kind})
  /\ padded' = [k \in Kind |-> AlignBy(TotalSize(k), maxAlign')]
  /\ \E m \in MemAddrs : base' = AlignBy(m, BaseAlign)
  /\ data' = [code |-> base',
              ro |-> base' + padded'["code"],
              rw |-> base' + padded'["code"] + padded'["ro"]]
  /\ UNCHANGED <<obj, szb, placed, stubOff, stubs, gotIndex, todo>>

(* _Section::alloc, without the assertion: the offset of n bytes in kind k,
   and the new _szb *)
AllocOffset(k, align) == AlignBy(szb[k], align)
TopOfSizes(k, n, align) == szb[k] + AlignBy(n, align)
NewTop(k, n, align) == AllocOffset(k, align) + AlignBy(n, align)

Place(i, k, n, align) ==
  /\ placed' = [placed EXCEPT ![i] = [addr |-> data[k] + AllocOffset(k, align), size |-> n]]
  /\ szb' = [szb EXCEPT ![k] = NewTop(k, n, align)]

(* Where the stubs of a section start: after the data and the padding,
   rounded down to the alignment of stubs *)
FirstStub(s) ==
  IF Padding(s) = 0 THEN s.size
  ELSE ((s.size + Padding(s)) \div StubAlignment) * StubAlignment

(* findOrEmitSection and emitSection, for a section not met before *)
Emit(i) ==
  /\ phase = "load" /\ placed[i] = Nowhere
  /\ Place(i, Sec(i).kind, AllocSize(Sec(i)), EmitAlign(Sec(i)))
  /\ stubOff' = [stubOff EXCEPT ![i] = FirstStub(Sec(i))]
  /\ UNCHANGED <<obj, phase, mem, stubs, gotIndex, todo>>

(* A new stub in section i *)
NewStub(i) ==
  /\ stubs' = stubs \cup {[sec |-> i, addr |-> AlignBy(placed[i].addr + stubOff[i], StubAlignment)]}
  /\ stubOff' = [stubOff EXCEPT ![i] = @ + MaxStubSize]

HasStub(i) == \E st \in stubs : st.sec = i

(* processRelocationRef for a call of an external function: ELF makes a stub
   and a GOT entry, unless the function has its stub already; MachO does not *)
ProcessCall(i) ==
  /\ phase = "load" /\ placed[i] # Nowhere /\ todo[i].calls > 0
  /\ todo' = [todo EXCEPT ![i].calls = @ - 1]
  /\ \/ obj.fmt = "elf" /\ NewStub(i) /\ gotIndex' = gotIndex + 1
     \/ (obj.fmt = "elf" => HasStub(i)) /\ UNCHANGED <<stubs, stubOff, gotIndex>>
  /\ UNCHANGED <<obj, phase, mem, szb, placed>>

(* processRelocationRef for a use of the GOT: an entry in ELF, a stub that
   serves as entry, unless there is one already, in MachO *)
ProcessGot(i) ==
  /\ phase = "load" /\ placed[i] # Nowhere /\ todo[i].gots > 0
  /\ todo' = [todo EXCEPT ![i].gots = @ - 1]
  /\ \/ obj.fmt = "elf" /\ gotIndex' = gotIndex + 1 /\ UNCHANGED <<stubs, stubOff>>
     \/ obj.fmt = "macho" /\ NewStub(i) /\ UNCHANGED gotIndex
     \/ obj.fmt = "macho" /\ HasStub(i) /\ UNCHANGED <<stubs, stubOff, gotIndex>>
  /\ UNCHANGED <<obj, phase, mem, szb, placed>>

(* finalizeLoad: the relocations are processed; ELF places the GOT, and
   MachO has placed the text section *)
FinalizeLoad ==
  /\ phase = "load"
  /\ \A i \in Secs : todo[i].calls = 0 /\ todo[i].gots = 0
  /\ obj.fmt = "macho" => \A i \in OfKind("code") : placed[i] # Nowhere
  /\ phase' = "loaded"
  /\ IF gotIndex > 0 THEN Place(GOT, "rw", gotIndex * GOTEntrySize, GOTEntrySize)
                     ELSE UNCHANGED <<placed, szb>>
  /\ UNCHANGED <<obj, mem, stubOff, stubs, gotIndex, todo>>

Next ==
  \/ Reserve \/ FinalizeLoad
  \/ \E i \in Secs : Emit(i) \/ ProcessCall(i) \/ ProcessGot(i)

Spec == Init /\ [][Next]_vars

-----------------------------------------------------------------------------
Block == [addr: Nat, size: Nat]
Placed == {i \in DOMAIN placed : placed[i] # Nowhere}

(* The type invariant of the loader. *)
TypeOK ==
  /\ obj.fmt \in Format /\ obj.secs \in [Secs -> Section]
  /\ phase \in {"new", "load", "loaded"}
  /\ base \in Nat /\ base % BaseAlign = 0
  /\ data \in [Kind -> Nat] /\ szb \in [Kind -> Nat] /\ padded \in [Kind -> Nat]
  /\ maxAlign \in Nat \ {0}
  /\ placed \in [Secs \cup {GOT} -> Block \cup {Nowhere}]
  /\ stubOff \in [Secs -> Nat]
  /\ stubs \subseteq [sec: Secs, addr: Nat]
  /\ gotIndex \in Nat
  /\ todo \in [Secs -> [calls: Nat, gots: Nat]]

(* The code has no library calls, or they take no room (MachO). *)
SelfContained == obj.fmt = "elf" => \A i \in Secs : Sec(i).calls = 0

(***************************************************************************)
(* "insufficient space for allocation" never happens: what RuntimeDyld     *)
(* places of each kind, in whatever order, fits into what it reserved,     *)
(* "an upper bound of the memory size that is required".  True when ELF    *)
(* objects have no calls of library functions (AllocFits), claimed of all  *)
(* objects (AllAllocFit).                                                  *)
(***************************************************************************)
AllocFits == SelfContained => \A k \in Kind : szb[k] <= padded[k]
AllAllocFit == \A k \in Kind : szb[k] <= padded[k]

(***************************************************************************)
(* No two placed sections overlap, and each is at a multiple of its own    *)
(* alignment, although the three kinds are placed one after the other.     *)
(***************************************************************************)
SectionsApart ==
  /\ \A i, j \in Placed : i # j =>
       \/ placed[i].addr + placed[i].size <= placed[j].addr
       \/ placed[j].addr + placed[j].size <= placed[i].addr
  /\ \A i \in Placed \cap Secs : placed[i].addr % EmitAlign(Sec(i)) = 0

(***************************************************************************)
(* The stubs of a section are aligned, lie behind its data and within what *)
(* was allocated for it, and do not overlap, however many relocations turn *)
(* out to share one.                                                       *)
(***************************************************************************)
StubsFit ==
  /\ \A st \in stubs :
       /\ st.addr % StubAlignment = 0
       /\ st.addr >= placed[st.sec].addr + Sec(st.sec).size
       /\ st.addr + MaxStubSize <= placed[st.sec].addr + placed[st.sec].size
  /\ \A st, tt \in stubs : st # tt =>
       st.addr + MaxStubSize <= tt.addr \/ tt.addr + MaxStubSize <= st.addr
=============================================================================
