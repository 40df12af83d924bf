-------------------------------- MODULE Heap --------------------------------
(***************************************************************************)
(* What the generated code does to the heap: the alloc and setter          *)
(* primitives and LIMIT (cfg-prim-codegen.cpp) and allocRecord             *)
(* (context.cpp), as the code that they generate runs, between collections.*)
(*                                                                         *)
(* The code allocates by moving a pointer and never looks whether there is *)
(* room: a LIMIT test is made for all that is allocated until the next     *)
(* one, and for amounts up to the slop it only compares two registers, as  *)
(* the real end is that much above the limit.  Addresses are in bytes.     *)
(***************************************************************************)
EXTENDS Integers, Sequences

CONSTANTS
  WordSz,      \* bytes in a word
  Slop,        \* allocSlopSzb of the target
  Areas,       \* allocation areas the collector may set up: [base, limit]
  Amounts,     \* amounts that LIMIT tests ask for
  RecordLens,  \* numbers of fields of records
  RawFields,   \* lists of field sizes, in bytes, of raw records
  RawAllocs,   \* alignment and length of raw objects
  Cells,       \* addresses outside the area of locations that are updated
  MaxGC        \* bound on collections

ASSUME WordAssumption == WordSz \in Nat \ {0}
ASSUME NatAssumption ==
  /\ Slop \in Nat /\ MaxGC \in Nat
  /\ Amounts \subseteq Nat /\ RecordLens \subseteq Nat /\ Cells \subseteq Nat
ASSUME AreasAssumption ==
  \A a \in Areas : a.base \in Nat /\ a.limit \in Nat /\ a.base % WordSz = 0
(* What the front end asks for *)
ASSUME RawAssumption ==
  /\ \A r \in RawAllocs : /\ r.align \in Nat /\ r.align >= WordSz /\ r.align % WordSz = 0
                          /\ r.len \in Nat /\ r.len % WordSz = 0
  /\ RawFields \subseteq Seq(Nat \ {0})
  /\ \A fs \in RawFields : \A i \in DOMAIN fs : WordSz % fs[i] = 0

VARIABLES
  alloc, limit, store,  \* the registers ALLOC, LIMIT and STORE
  mem,      \* the words of the area that were written
  objs,     \* history: the objects since the last collection
  updates,  \* history: the locations updated since then, the last one first
  budget,   \* what the front end has left of what it asked LIMIT for
  raw,      \* history: a raw record was allocated since the last test
  gcs       \* number of collections

vars == <<alloc, limit, store, mem, objs, updates, budget, raw, gcs>>
regs == <<limit, store>>

-----------------------------------------------------------------------------
Nil == 0
Ptr(a) == <<"ptr", a>>
Data == <<"data", 0>>

(* createGEP: in words, unless the element type is a byte *)
GEP(p, n) == p + n * WordSz
ByteGEP(p, n) == p + n

(* Rounding up, and the bitwise or with n - WordSz, for powers of two *)
AlignUp(x, n) == ((x + n - 1) \div n) * n
OrMask(x, n) == (x \div n) * n + (n - WordSz) + (x % WordSz)

(* An object with its descriptor in the word before; fields are sizes *)
Object(a, size, align, fields) == [addr |-> a, size |-> size, align |-> align, fields |-> fields]
Words(from, size) == {from + i * WordSz : i \in 0 .. AlignUp(size, WordSz) \div WordSz - 1}
Put(S, v, m) == [w \in S \cup DOMAIN m |-> IF w \in S THEN v ELSE m[w]]
Written(from, size) == Put(Words(from, size), Data, mem)

(* What the front end counts for an object *)
Spend(bytes) == budget >= bytes /\ budget' = budget - bytes

Unpadded(offset, szb) == offset
Padded(offset, szb) == IF offset % szb = 0 THEN offset ELSE AlignUp(offset, szb)

Init ==
  /\ \E a \in Areas : alloc = a.base /\ limit = a.limit
  /\ store = Nil
  /\ mem = [w \in {} |-> Data]
  /\ objs = {} /\ updates = <<>>
  /\ budget = 0 /\ raw = FALSE /\ gcs = 0

-----------------------------------------------------------------------------
(* allocRecord, for RECORD and SPECIAL *)
RecordEnd(len) == GEP(alloc, len)
RecordBump(len) == GEP(alloc, len + 1)
AllocRecord ==
  \E len \in RecordLens :
    /\ Spend((len + 1) * WordSz)
    /\ mem' = Written(alloc, (len + 1) * WordSz)
    /\ alloc' = RecordBump(len)
    /\ objs' = objs \cup {Object(GEP(alloc, 1), len * WordSz, WordSz, {})}
    /\ UNCHANGED <<regs, updates, raw, gcs>>

(* The offsets of the fields of a raw record, and behind the last one *)
Offsets(fs) ==
  LET after[i \in 0 .. Len(fs)] == IF i = 0 THEN 0 ELSE Padded(after[i - 1], fs[i]) + fs[i]
  IN [i \in DOMAIN fs |-> after[i] - fs[i]]
FinalOffset(fs) ==
  IF fs = <<>> THEN 0 ELSE AlignUp(Offsets(fs)[Len(fs)] + fs[Len(fs)], WordSz)

(* RAW_RECORD::codegen.  The final offset is one in bytes; the pointer is
   moved by as many words. *)
RawRecordBump(obj, fs) == GEP(obj, FinalOffset(fs))
RawRecord ==
  \E fs \in RawFields : LET obj == GEP(alloc, 1) IN
    /\ Spend(WordSz + FinalOffset(fs))
    /\ mem' = Written(alloc, WordSz + FinalOffset(fs))
    /\ alloc' = RawRecordBump(obj, fs)
    /\ objs' = objs \cup
         {Object(obj, FinalOffset(fs), WordSz, {[off |-> Offsets(fs)[i], szb |-> fs[i]] : i \in DOMAIN fs})}
    /\ raw' = TRUE
    /\ UNCHANGED <<regs, updates, gcs>>

(* RAW_ALLOC::codegen: with a descriptor, or tagless for spilling *)
NoAdjust(align) == alloc
Adjusted(align) == IF align > WordSz THEN OrMask(alloc, align) ELSE alloc
EndInUnits(p, len) == ByteGEP(p, len + 1)
RawAllocEnd(p, len) == ByteGEP(p, len + WordSz)
RawAlloc ==
  \E r \in RawAllocs, tagged \in BOOLEAN :
    /\ tagged \/ r.align = WordSz
    /\ Spend(r.align + r.len)
    /\ LET p == IF tagged THEN Adjusted(r.align) ELSE alloc IN
         /\ mem' = IF tagged THEN Written(p, WordSz + r.len) ELSE Written(GEP(p, 1), r.len)
         /\ alloc' = RawAllocEnd(p, r.len)
         /\ objs' = objs \cup {Object(GEP(p, 1), r.len, r.align, {})}
    /\ UNCHANGED <<regs, updates, raw, gcs>>

(* recordStore; UPDATE and ASSIGN then write to adr *)
CellAtNext(adr) == Put({GEP(alloc, 0)}, Ptr(adr), Put({GEP(alloc, 1)}, Ptr(alloc), mem))
Cell(adr) == Put({GEP(alloc, 0)}, Ptr(adr), Put({GEP(alloc, 1)}, Ptr(store), mem))
RecordStore ==
  \E adr \in Cells :
    /\ Spend(2 * WordSz)
    /\ mem' = Cell(adr)
    /\ store' = alloc
    /\ alloc' = GEP(alloc, 2)
    /\ updates' = <<adr>> \o updates
    /\ UNCHANGED <<limit, objs, raw, gcs>>

(* LIMIT::codegen: whether the collector is called *)
NoAmount(amt) == alloc > limit
OverLimit(amt) == IF amt > Slop THEN alloc + (amt - Slop) > limit ELSE alloc > limit

Test ==
  \E amt \in Amounts :
    /\ ~OverLimit(amt)
    /\ budget' = amt /\ raw' = FALSE
    /\ UNCHANGED <<alloc, regs, mem, objs, updates, gcs>>

(* The collector, which is external: it is given the store list, and leaves
   an empty one and some area; the code tests again. *)
GC ==
  /\ gcs < MaxGC /\ gcs' = gcs + 1
  /\ \E amt \in Amounts : OverLimit(amt)
  /\ \E a \in Areas : alloc' = a.base /\ limit' = a.limit
  /\ store' = Nil
  /\ mem' = [w \in {} |-> Data]
  /\ objs' = {} /\ updates' = <<>>
  /\ budget' = 0 /\ raw' = FALSE

Next == AllocRecord \/ RawRecord \/ RawAlloc \/ RecordStore \/ Test \/ GC

Spec == Init /\ [][Next]_vars

-----------------------------------------------------------------------------
(* The type invariant of the heap: the allocation pointer stays at a word. *)
TypeOK ==
  /\ alloc \in Nat /\ alloc % WordSz = 0
  /\ limit \in Nat /\ store \in Nat /\ budget \in Nat /\ gcs \in 0 .. MaxGC /\ raw \in BOOLEAN
  /\ \A w \in DOMAIN mem : w % WordSz = 0 /\ mem[w] \in {Data} \cup {Ptr(a) : a \in DOMAIN mem \cup Cells \cup {Nil}}
  /\ \A o \in objs : {o.addr, o.size, o.align} \subseteq Nat
  /\ updates \in Seq(Cells)

Bytes(o) == o.addr - WordSz .. o.addr + o.size - 1

(***************************************************************************)
(* Each object has its descriptor and its fields to itself, and lies below *)
(* the allocation pointer: what is allocated later does not overwrite it.  *)
(***************************************************************************)
ObjectsApart ==
  /\ \A o, p \in objs : o # p => Bytes(o) \cap Bytes(p) = {}
  /\ \A o \in objs : o.addr + o.size <= alloc

(***************************************************************************)
(* Objects are aligned as they were asked to be, descriptor or not, and    *)
(* the fields of raw records are aligned to their sizes, inside the object *)
(* and apart.                                                              *)
(***************************************************************************)
FieldsAligned ==
  \A o \in objs :
    /\ o.addr % o.align = 0
    /\ \A f \in o.fields :
         /\ (o.addr + f.off) % f.szb = 0 /\ f.off + f.szb <= o.size
         /\ \A g \in o.fields : f # g => f.off + f.szb <= g.off \/ g.off + g.szb <= f.off

(***************************************************************************)
(* The code writes nothing at or above the real end of the allocation      *)
(* area, which is the slop above the limit: after a test for an amount,    *)
(* objects of that amount together do not exceed it.  True of code without *)
(* raw records (BelowLimit), claimed of all (AllBelowLimit).               *)
(***************************************************************************)
BelowEnd == \A w \in DOMAIN mem : w + WordSz <= limit + Slop
BelowLimit == ~raw => BelowEnd
AllBelowLimit == BelowEnd

(***************************************************************************)
(* The store list that the collector is given has each location that was   *)
(* updated since the last collection, the last one first, and ends: no     *)
(* cell of it was overwritten by what was allocated after it.              *)
(***************************************************************************)
StoreListComplete ==
  LET n == Len(updates)
      cell[i \in 0 .. n] == IF i = 0 THEN store ELSE mem[GEP(cell[i - 1], 1)][2]
  IN /\ \A i \in 1 .. n : mem[cell[i - 1]] = Ptr(updates[i])
     /\ cell[n] = Nil
=============================================================================
