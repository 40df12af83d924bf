# TLA+ models and proofs for the SML/NJ LLVM code generator

The program (`src/smlnj`) is the back end of the SML/NJ compiler: it reads a
compilation unit in the CFG representation, generates LLVM code for it, has
LLVM optimize and assemble it, and either writes the result or loads it into
memory as a code object. It is linked into the SML/NJ runtime system, and used
on its own by the `cfgc` test driver. LLVM itself (`src/llvm`) is vendored, with
a calling convention ("JWA") added to two of its targets.

The program is sequential. What makes it hard is state: one object, the
`Context`, is shared by hundreds of recursive `codegen` methods, is reset
piecewise per fragment, cluster, module and target, and caches pointers into
structures that others delete. Mistakes there show only in programs with the
right combination of branches, or in the second unit that a process compiles.

Contents: 1 inventory, 2 modules and how they correspond to the code, 3 runs and
bounds, 4 proofs, 5 where code and documentation disagree, 6 what is not
modelled, 7 plan.

## 1. Inventory

**Code generator** (`cfg-init.cpp`, `cfg-codegen.cpp`, `context.cpp/.hpp`,
`cm-registers`, `overflow.cpp`). State: the `Context`: insert point, SML register
state (`_regState`), variable map, fragment and cluster maps, the overflow block
and its PHI nodes. Operations: `comp_unit`/`cluster`/`frag` `init` and `codegen`,
one `codegen` per statement form. Hard: both arms of a branch are generated from
one register state; GOTOs and overflow checks add PHI entries from wherever the
builder happens to be; some registers live in memory on x86-64. Right when every
value used is the one that the source program means there, dominates its use, and
every block and PHI node is well formed.

**Primitive operations** (`cfg-prim-codegen.cpp`). No state of their own; each
selects an instruction, intrinsic or predicate. Hard: overflow, least integer,
shifts and counts at the word width, signed and unsigned predicates, NaNs. Right
when the instruction computes what the primitive stands for. Those that allocate, update
or test the limit work on the heap of the running code, by pointer arithmetic in words
or in bytes; right when objects are apart, aligned and below the end of the allocation
area, and when the collector finds every update.

**Compilation session** (`Context`, `MCGen`, `cfgc/codegen.cpp`). State: the
context of the current target, caches of intrinsics, aliases, the stack pointer
access, and LLVM's analysis managers; they outlive the module they point into.
Operations: `setTarget`, `beginModule`, code generation, `optimize`, `endModule`.
Right when the code of a module refers to objects of that module only, and
passes see analyses of the functions they run on.

**In-memory loader** (`object-file.cpp` and LLVM's `RuntimeDyld`). State: one
reservation with three areas, the sections and GOT placed in it, stubs.
Operations: reserve, allocate a section, process relocations, finalize. Hard: the
reservation is sized before the order of the placements is known, and only an
assertion compares the two. Right when everything fits and nothing overlaps.

**ASDL runtime and LambdaVar** (`asdl.cpp`, `asdl-integer.cpp`, `lambda-var.cpp`).
State: a stream and its position. Variable-length encodings of numbers, signs,
literals of any length, end of file. Right when what is read is what was written.

**CFG unpickler** (`cfg.cpp`, `cfg.hpp`). Generated from a description, like its
counterpart in the compiler; the file has no types. Right when both agree on
every tag and every field, and damage is reported.

**JWA calling convention** (`X86CallingConv.td`, `AArch64CallingConvention.td`, with
`createFnTy`, `createArgs`, `setupStdEntry`, `callGC`). Tables, and four places that
build argument lists. Right when values arrive where the other side looks.

**Object-file stream** (`objfile-stream.cpp`, with `raw_ostream` and `MCGen::emitMC`,
`emitFile`). State: a buffer, and behind it a vector that the loader reads, or a file whose
writes may fail. Operations: write, patch what was written, ask for the position. Hard:
the vector is read without a flush. Right when what is read is what was written.

**Target descriptions** (`target-info.cpp`), constant data; **cfgc driver**, options and
files; **heap2obj**, one pass of LLVM calls over a heap image; the **runtime system**,
which is not in this repository.

Interactions: the driver calls `setTarget`, then for each unit reads the pickle
(unpickler over the ASDL runtime) and calls `comp_unit::codegen` (code generator
over the primitives, both on the `Context`), `MCGen::optimize` and `compile`, and
loads the object (`ObjectFile`), all by direct calls. The generated code talks to
the runtime system through registers and stack slots.

The hazards are listed, each at its line, with the properties that cover it or why none does,
in `PROJECT.json`.

## 2. Modules

| Module | Models |
| --- | --- |
| `CFG` | compilation units as terms, and what the front end guarantees of them (`WellFormed`) |
| `CodeGen` | code generation of one unit; safety properties |
| `CodeGenProofs` | proofs about `CodeGen`: types, registers and lookups; blocks; values and PHI nodes |
| `CFGSem` | abstract specification: what a unit means |
| `Lowering`, `LoweringProofs` | the generated code executed; refinement of `CFGSem`; proofs |
| `Units` | units for TLC |
| `Session`, `SessionProofs` | the `Context` over several units and targets; proofs |
| `Loader`, `LoaderProofs` | reservation, placement, stubs and GOT; proofs |
| `Bytes`, `ByteFile` | abstract specification: a file of bytes that can be patched |
| `OutStream`, `OutStreamProofs` | `raw_ostream` over memory and over a file; refinement of `ByteFile`; proofs |
| `Prims`, `PrimsProofs` | what each primitive computes; proofs |
| `Heap`, `HeapProofs` | what the generated code does to the heap between collections; proofs |
| `Pickle` | basic values of a pickle, byte by byte |
| `Pickler`, `Unpickler` | the compiler's writer, and the C++ reader, of whole units |
| `CallConv`, `CallConvProofs` | transfers of control in the JWA convention; proofs |
| `MC…` | instances for TLC |

**CodeGen.** The recursion of the `codegen` methods becomes a work list, `todo`,
and `node`, the statement whose method runs. Each action is a method up to its
recursive call: `GenBranch` is `BRANCH::codegen` up to the first arm, and leaves a
task to restore the registers and continue with the second (`NextArm`). The
`Context` fields are variables under the names they have in the code (`regState`,
`vMap`, `fragMap`, `clusterMap`, `ovBB`, `ovPhis`). LLVM values and blocks are named
by the statement that creates them. The function that is built is `out`, the groups
of instructions in the order they are appended, and `inc`, the PHI entries. The
statements keep their control; the primitives are reduced to their effect on
registers: `LET` of a variable, a pure operation or a special register, arithmetic
that traps and that does not, setters of a register, with a store list record, and
without. `mach` is the set of registers that the target keeps in machine registers:
three on x86-64 (the handler and the variable pointer are in the stack frame), five
on AArch64. `at` is history: the state at each statement.

**CFGSem and Lowering.** `CFGSem` interprets a unit directly: five registers and an
environment, with uninterpreted functions for data. `Lowering` extends `CodeGen`
with a machine for what it generated: blocks, PHI nodes that take the entry of the
block control came from, frame registers that are loaded and stored, a GC call that
returns its roots, branches to the overflow block. Control, `pos`, is at a group of
instructions of `out`. The refinement mapping reads the source registers and variables
off the values computed so far through `at`, the register state and variable map that
the generator had at that statement (`RegsNow`, `VarsNow`; a register without a value is
in the frame). `Implements` says that each step of the machine is a step of `CFGSem` or a
stutter, with the same tests, calls and Overflow exceptions.

**Session.** Objects of a module (functions, declarations of intrinsics, aliases) are
addresses, which the allocator may give out again after `EndModule`. Each cache holds
an address; which unit it was stored for is kept beside it as history. Actions are
the public operations of `Context` and `MCGen` that touch a cache. One cached intrinsic
stands for the 24, which are treated alike.

**Loader.** `Reserve` is `computeTotalAllocSize` with `reserveAllocationSpace`, `Emit`
is `emitSection` with `_Section::alloc`, `ProcessCall` and `ProcessGot` are the
relocations that make stubs and GOT entries, for ELF on x86-64 and MachO on AArch64.
The order of sections is any, as it follows symbols and relocations. Sizes and
addresses are numbers, contents are left out. Two assumptions restrict the objects: no
section is aligned to more than `BaseAlign` (4096, what `ObjectFile` aligns the memory to),
and if several sections of a MachO object are of one kind, one of them is aligned to 8 at
least (`MachOAligned`), since `emitSection` raises the alignment of sections with stubs
after the space was computed without that.

**OutStream.** The variable `strm` is the stream object with the vector or file behind it;
actions are the calls that LLVM's object writer makes: write a row of bytes, patch a row
of bytes, ask for the position, and the end of the pass. `ObjfileStream` is unbuffered by
its constructor, the file stream has a buffer of the preferred block size, which may be 0
for a terminal. The system may take part of a write, or fail, at every call; a patch of a
file seeks, writes and seeks back. `ByteFile` is the abstract specification: one sequence of
bytes, a position, and an outcome that is complete, or reported as an error. The mapping
patches what the buffer holds into what was written. Which calls the object writer makes
is external; that it patches inside what it has written is its obligation, asserted in
`pwrite`.

**Prims.** A state is one evaluation: target, primitive, arguments; the action computes
what the instruction selected by the code computes, undefined results being any the
processor gives (division on x86-64 traps, on AArch64 it does not). Floats are a sign
and a magnitude in halves, with NaNs and both zeros.

**Heap.** This is the generated code as it runs, not its generation: an action is what one
primitive's instructions do, with `alloc`, `limit` and `store` the three registers and
addresses in bytes. `objs` and `updates` are history, and `budget` is what the front end
has left of the amount it asked the last `LIMIT` for, which it is assumed to keep to: a
descriptor and the fields for each object, two words for an update, and the alignment of
a raw object on top of its length. It is also assumed to ask for lengths in whole words
and alignments in powers of two. The collector, and that the real end of an area is the
slop above its limit, are external.

**Pickle.** The writer's encodings as operators, the reader as a machine that takes a
byte a step, with the stream's state tested before the byte is taken, as `getb` does.
A value may be read into a narrower type than it was written from (`Narrowed`): variables
are, to `int`.

**Pickler, Unpickler.** Two sets of tables, one from the SML source and one from the C++
source, for the 18 enumerations and classes and the 7 records. `Written` linearizes a
term; the reader is a stack of read functions. A damaged file has one tag byte that is
no constructor's.

**CallConv.** A function runs with a view of the SML registers (`regs`) and of its
parameters (`vals`); a transfer lists types and values as `APPLY`, `THROW`, `callGC` or
`getOverflowBB` do, LLVM's assignment puts them in registers (`hw`), and
`setupStdEntry`, the GC or the rest of `callGC` takes them out. `meant` is history: what
arrives is compared with it. What the runtime system has in which register (`Role`)
is external, from the comments in the tables.

## 3. Runs

Runs end with all states explored. Two of them check liveness. `Completes`, in `lowering`,
says that the generation of a unit gets to its end, and `Ends`, in `pickle`, that a file
is read to the end or to an error. Both assume weak fairness of the next step and no more:
the program is sequential, waits for nothing, and so takes a step whenever there is one.
Other parts have no liveness: calls of a session, of the loader and of a stream are made
at the pleasure of their callers, and generated code may loop. Where a run is expected
to end in a final state, deadlock checking is off in its configuration, with the reason;
`CodeGen` has an explicit final step, and a session can go on until its bound by choosing
another target, so both are checked for deadlock: a method that got stuck would be found.

| Run | Shows | Bounds |
| --- | --- | --- |
| `lowering` | generation: registers across arms, lookups, dominance, PHI nodes, one terminator per block, blocks of the right function, `Completes`; and of the generated code, `Implements` | 1040 units of 10 statements, 5 variables, 2 labels, on 2 targets; calls up to 10 groups of instructions |
| `session` | only live objects get into code; stack pointer access is set and reset as a whole; analysis results are for the current target | 3 units, 4 addresses, 2 labels, 2 targets and an unknown name |
| `loader` | the reservation suffices, sections and stubs are apart, aligned and inside | up to 4 sections, all orders of placements and relocations |
| `prims` | each primitive on all pairs of words and floats | 4-bit words, 6 magnitudes and NaN |
| `heap` | objects are apart, aligned and below the end, the store list is complete | two areas, 8-byte words, a slop of 64, amounts of 48, 64 and 80, one collection |
| `outstream` | `Implements`: memory and file are `ByteFile`s | rows of 1, 2, 3 and 5 bytes, blocks of 0, 2 and 3, up to 6 bytes, failures at any call |
| `pickle` | values come back from whole files, except variables above `int`; from truncated ones, the reads before the end; reading ends | one or two values, 4-bit bytes, 8-bit digits, 16-bit int, variables on both sides of it |
| `unpickler` | reader and writer in step; units come back; damage | 381 units, one damaged byte |
| `callconv` | values arrive, in standard places; assertions are exact | 3 steps that change values, 14 parameter lists |
| `heap_raw`, `loader_libcalls`, `prims_unordered` | disagreements, section 5 | as above or smaller |

Why the bounds suffice. `lowering`: the units have every statement form before a
branch, in an arm, and in a fragment reached by two GOTOs or in a second cluster, each
combined with those that change what the property depends on (registers and the
overflow block); ten statements leave room for two trapping operations in one cluster
before and after an arm, and ten groups of instructions pass the loop of a unit twice.
`session`: a stale cache needs a second unit at an address of the first; the third
unit shows that what the second one leaves is no different. `loader`: two sections of
one kind with different alignments and a third of another kind are what padding
depends on. `prims`: at 4 bits every boundary of a word is there (least and greatest
integer, sign bit, shift counts at and above the width); the code does not depend on
the width except through LLVM. `heap`: the amounts are below, at and above the slop, and each leaves room for two or more
objects, so that what one leaves the next one finds; areas start at an address that is
aligned to two words and at one that is not; fields have every width and a hole.
`outstream`: rows are shorter than, as long as and longer than the buffer, and six bytes
fill it twice with a patch across its start. `pickle`: narrow bytes make every length of every
encoding occur, with values one off at each limit. `unpickler`: a unit differs from
the plainest one in one argument at any depth, which reaches every field of every
constructor. `callconv`: lists as long as the registers of each target and one more,
for both classes, with the two that a continuation does not use.

## 4. Proofs

`CodeGenProofs` proves, for every set of well-formed units, nodes, variables and
labels, and any choice of machine registers:

- `TypeCorrect`: `Spec => []TypeOK`.
- `RegsCorrect`: `Spec => []RegsFollowProgram`. The property speaks of statements that
  were generated; to be inductive it needs to know what is pending. `RegsInv` adds that
  no statement is generated twice (`PendingFresh`, `PendingApart`, `DoneFromTop`), that
  arms come before the clusters and fragments pending with them (`ArmsFirst`), and that
  a pending arm has saved, and the current statement has, the registers that its parent
  ended with (`ArmsReady`, `NodeReady`). Steps are proved one lemma per method.
- `LookupsCorrect`: `Spec => []LookupsSucceed`, from `RegsInv` with the scope of the
  variable map: no lookup of a variable or register returns a null pointer.

It goes on from there, for the same units and targets, with what is known of the blocks
(`BlockInv`):

- `BranchesStay`: `Spec => []StaysInFunction`. That the code so far stays in its function
  says nothing of the code that comes next. `HomeInv` adds that the pending work of an open
  cluster comes before the clusters still closed (`ClustersLast`), so that the current
  cluster is the home of the current statement and of every pending arm and fragment
  (`NodeAtHome`, `TasksAtHome`), and that the overflow block, if there is one, was made in it
  (`OverflowAtHome`), which is where a block left from an earlier cluster would break it.
- `BlocksTerminated`: `Spec => []OneTerminator`. `TermInv` adds that the insert point is not
  terminated (`InsertPointOpen`), and that any other open block starts a statement not
  generated yet (`MadeClosed`). At the end there is no such statement: what follows a
  generated statement is pending or generated (`Covered`), so the least one missing would
  have a parent that is generated.

Each `codegen` method is shown to be a turn of one form (`Turn`): it appends its groups,
makes blocks, moves the insert point and queues what comes next; that a turn preserves
the invariants is proved once (`TurnStep`).

Last come the values that this code mentions:

- `DefsDominate`: `Spec => []DefsDominateUses`. The property speaks of code that exists, and
  the variable map and the register state, from which the next code takes its values, are
  shared by all arms of a fragment. `DomInv` adds that what the current statement may look
  up is computed on the path to it, and what each pending arm may look up on the path to
  that arm, with the registers it has saved (`NodeSupplied`, `ArmsSupplied`); that whatever
  is bound was bound by finished statements of this one fragment (`BoundHere`), so that with
  one binding per variable no arm rebinds what another will look up; and that fragments are
  set up by their kind (`FragKinds`). That paths grow from parent to child needs the
  recursive function in `Path`, whose existence is proved first (`PathEquation`).
- `PhisMatch`: `Spec => []PhisMatchPreds`. `PhiInv` has this for all blocks, made or not, and
  says what the Context's `ovPhis` are: the nodes of `ovBB`, made by the first trapping
  operation of the cluster (`OverflowPhis`). A turn either branches to blocks without PHI
  nodes only, or to one block with them and completes those (`QuietTurn`, `BranchTurn`); a
  second entry from the same block is excluded by `DomInv` and `BlockInv` together: each
  entry's block has been terminated, and the insert point has not.

`LoweringProofs` goes on from there. The generated code is right when it does, run as a
program, what the unit does. `Lowering` runs only finished code, so this divides into what
is true of the code and what a run does:

- `CodeRight`: `Spec => []CodeInv`. Each statement that is done has one group of its own
  (`OneMain`), which is right (`GroupsRight`): whatever values the code before it left, its
  instructions do to what registers and variables stand for what the statement does
  (`Means`), its tests test the arguments (`Tests`), and its end is that of the statement,
  with the right arms, the right PHI entries or the right outgoing registers (`EndRight`).
  For that, instructions define values of their statement only (`DefsOwn`). The group of
  a continuation starts its block or is the next of its block (`InOrder`), and the maps it
  was generated with are those its parent left (`RegsInv`, `VarsFollow`), or the arguments
  or PHI nodes of its fragment (`BodiesStart`). A branch on overflow leads to a block that
  raises with the nodes it completes (`OverflowRaises`). As before, each method is shown to
  be a turn (`OutTurn`, `VarTurn`), and turns preserve the invariant.
- `LoweringImplements`: `LSpec => Implements`. With the invariants so far as one (`AllInv`),
  `ExecInv` says that control is outside or in a group of a statement of a finished unit.
  There is one lemma for each end of a group (`GroupRuns`): falling through, the collection,
  the jump, the branch, the checked operation, the call; each shows that control arrives at
  the source's next statement, and that the values there, read through the maps of that
  statement, are the source's. That all registers move at once into the PHI nodes, that each
  takes the one entry of the block control comes from (`PhisMatchPreds`), and that values of
  other statements are kept are the facts that make it so. `InitImplements`, `StepImplements`
  and temporal logic give the refinement, for units of any size and any number of steps.

They assume that units are `WellFormed` (forests of statements that hang off fragments,
with scoped variables and resolvable labels, as the front end emits them), that nodes
are numbers, that the null values are no values, and that variables have other names than
registers (`NamesAssumption`: PHI nodes are named by either).

`SessionProofs` proves, for any numbers of units, addresses, labels and intrinsics:

- `SessionTypes`: `Spec => []TypeOK`.
- `LiveObjects`: `Spec => []UsesLiveObjects`. A stale pointer does harm only when it is
  used again, so the property is not inductive; `SInv` says that while a module is
  built every cached pointer, used or not, is to a live object of that module. It holds
  because `BeginModule` resets each cache, the step where a forgotten one would break it.
- `SPAccess`: `Spec => []SPAccessTogether`.
- `FreshResults`: `Spec => []ResultsOfTarget`. `ResultsInv` says that all results that
  `_fam` has, used or not, are for modules begun since the `Context` was made.

`OutStreamProofs` proves, for any rows of bytes, block sizes and bound:

- `StreamTypes`: `Spec => []TypeOK`, with the buffer never overfull (`OInv`).
- `StreamImplements`: `Spec => Implements`, the refinement of `ByteFile`. What the bytes of a
  stream amount to is `Patched(data, offset, buffer)`; the lemmas say how `raw_ostream`'s
  calls change it. The loop that writes a row in blocks of the buffer's size is a
  recursive function, and what it returns is proved by induction.

`HeapProofs` proves, for any word size, slop, areas and lists of fields: `HeapTypes`,
`NeverPastEnd` (`BelowLimit`), `ApartAlways`, `AlignedAlways` and `UpdatesFound`. The
inductive `HInv` adds that all memory in use ends at the allocation pointer (`InRow`), that
what the front end has left of its amount fits below the end of the area (`Budgeted`), and
that the store list is a chain of cells, one per update (`StoreIsCell`, `Chain`). It assumes
areas aligned to words and lists of fields as the front end makes them.

`LoaderProofs` proves, for any objects, addresses and orders of sections and relocations:
`LoaderTypes`, `ReservationSuffices` (`AllocFits`), `SectionsDisjoint` and `StubsInside`. That
what was placed fits is not inductive, as the room left says nothing of the sections to
come. `LInv` has instead that each kind has handed out at most the sum of the sizes of
the sections placed, each rounded up to the alignment of the kind (`Measured`); the rest of
the sum is room for the others. That holds because the alignment that a section is placed
at divides the alignment its kind was measured with, or the section is the only one of its
kind; `MachOAligned` is needed exactly here. Likewise the space for stubs has room for the
relocations left (`StubSpace`), and the GOT for the entries left (`GotCount`). The sums over
sections are related to their elements by induction on the number of sections.

`CallConvProofs` proves, for any lists of parameters and any number of steps:

- `ValuesArrive`: `Spec => []Arrives`. That what a function finds is what was meant says
  nothing while control is on its way; `CInv` adds that at an entry the registers that LLVM
  assigned by the callee's own type hold the arguments (`EntryHolds`), that the machine
  registers are where the runtime system has them from the transfer until they are read back
  (`RegsHold`), and that so are the roots before and after the collection (`RootsHold`). What
  carries it is that no two elements of a list share a register (`AssignedFacts`) and that
  caller and callee make the same list but for the values (`ListFacts`).
- `RegistersInPlace`: `Spec => []InPlace`. The first elements of every list are general, so their
  places do not depend on what comes after (`AssignedFirst`), and the tables begin with what the
  runtime system uses (`RolesFirst`).
- `AssertionsRight`: `Spec => []AssertionsExact`. An element has a register exactly if its rank in
  its class is at most the length of the table, and the last of a class has the count of the
  class as its rank (`LastRank`); the assertion's limits and the convention's are the same but
  for the floats of AArch64 (`AssertionFacts`).
- `CallTypes`: `Spec => []TypeOK`.

The tables of both targets are those of the model; nothing is assumed of parameter lists but
their classes.

`PrimsProofs` proves, for words of every width and floats of every magnitude:

- `ExactArithmetic`: `Spec => []ArithExact`. A division of numbers of the range leaves it
  only for the least integer by -1 (`QuotInRange`), which is why `IDIV` needs no overflow
  block otherwise. For these two operands the exact result or no result is not what the
  code gives, and the theorem says what it gives (`LeastDivision`): `IDIV` and `IREM` trap
  on x86-64, and on AArch64 return the wrapped quotient and 0. Excluded are divisors of
  zero, for which the front end tests, and for conversions NaNs, rounding modes
  other than `TO_ZERO` and floats at or outside the ends of the range; any other conversion
  returns a signed word that is the integral part (`FloatRounded`).
- `PureOperations`: `Spec => []PureRight`. The bits of a word are related to division by
  powers of two: multiples of a higher power do not matter to a bit (`BitPlus`), and dividing
  by a power moves the bits (`BitDiv`). From these come shifts, sign extension (`BitSigned`) and
  rotation, where the funnel shift has the word twice (`BitTwice`). The counts of zeros are
  cardinalities of intervals (`LeadingZeros`, `TrailingZeros`). That signed and unsigned
  operands give the same sum, difference and product is `ModularIs`.
- `BranchesRight`: `Spec => []BranchRight`. The index into the table of integer predicates,
  which has the signed predicate before the unsigned one, is followed for each operation;
  the table of `fcmp` is right but for `F_UN`.
- `PrimTypes`: `Spec => []TypeOK`.

The inductive `PrimsInv` only says that the outcome is one that the generated code has
(`Outcomes`); the work is in the lemmas about the operators. Powers of two are not
arithmetic to the solver: `2^(n+1) = 2 * 2^n` is obtained by counting the subsets of `1 .. n`
(`Doubled`), and the other laws from it by induction. Assumed is that the width is at least two.

The induction theorems of the library take an operator as parameter, which the provers
cannot instantiate. Where it is needed, a lemma states induction with a set of numbers instead
(`SetInduction`), or that such a set has a least element (`LeastNat`), from the
well-foundedness of the naturals.

Only model-checked: liveness (`Completes` and `Ends`), since the provers do not handle
`ENABLED`, and all of `Pickle` and `Unpickler`. What a reader of pickles returns is an
induction over the bytes with the folds and recursive functions that encode and decode
them, of which only single steps could be proved; `Unpickler` and its tables moreover use
recursive operators over terms, which the provers do not accept. No proof uses fairness.

## 5. Where code and documentation disagree

Each has a run in which the documented property fails:

- `heap_raw`: `RAW_RECORD` computes the end of its fields in bytes and moves the allocation
  pointer by as many words, so that a raw record takes eight times its size and the
  allocations after it may exceed the slop. Without raw records, `BelowLimit` holds.
- `loader_libcalls`: a call of a C library function in an ELF object (a float remainder
  on x86-64) takes a GOT entry that was not reserved.
- `prims_unordered`: `F_UN` is translated to the predicate of `F_LG`, not to unordered.

Met while modelling, without a run of their own:

- `MCGen::endModule` is empty, so analysis results for functions of a deleted module remain
  (`mc-gen.cpp:155`), and a function of the next module at the same address gets them: in
  `Session`, `analysed` may hold an earlier unit than the current one. The
  generated code has no assumptions, so no wrong code is known to follow.
- `read_lvar` narrows variables to `int` (`lambda-var.cpp:38`), which its comment calls 63 bits
  wide (`:18`). `Pickle` has the narrowing, its run has variables on both sides of the limit,
  and `ReadsAsWritten` says that exactly those above it do not come back.
- AArch64 has `numFPArgRegs` 32 (`target-info.cpp:60`), "the number of floating-point
  registers that are available for argument passing", and its convention assigns 16. A
  call with 17 to 32 passes the assertion in `APPLY`; `AssertionsExact` names this
  exception (`FloatsShort`).
- `IDIV` and `IREM` of the least integer by -1 are undefined in LLVM. On x86-64 the processor
  traps, as the comment at `cfg-prim-codegen.cpp:184` says, for `IREM` too, although its
  exact result is 0; on AArch64, of which the comment does not speak, the quotient wraps
  unnoticed. `ArithExact` has both.
- `FLOAT_TO_INT` ignores its rounding mode and always rounds to zero (`:205`).
- `getb` returns 0xFF for the byte that runs into the end of the file, and reports the
  end at the next one (`asdl-stream.hpp:122`).
- Tags of enumerations are cast unchecked, those of classes are checked (`cfg.cpp:203`);
  `ReadBack` says exactly this.
- `verify` returns true for a broken module; the driver reports good ones only, and goes on
  to optimize and emit a broken one (`cfgc/codegen.cpp:95`).
- Drivers do not delete a `comp_unit`.

## 6. Not modelled

Foreign calls (`RCC` is an assertion failure in the code); float arithmetic and the
bitwise operations, one LLVM instruction each; loads, and the values in heap objects; application
of relocations and exception frames; the formatted stream that assembly is written to, and
a vector that fails to grow; `heap2obj` (one pass of LLVM calls, without a state of its own); options and
files of `cfgc`; destructors; base pointers, which neither target uses; LLVM, except
for what the loader, the session, the primitives and the convention rely on.

## 7. Plan

Done, in this order: `CFG`, `CodeGen` with its runs and proofs, `CFGSem`/`Lowering`,
`Session` with proofs, `Loader`, `Prims`, `Pickle`, `Pickler`/`Unpickler`, `CallConv`, `Heap`,
`OutStream` with proofs, liveness of `CodeGen` and `Pickle`, proofs for `Heap` and `Loader`, and
about the blocks and values of `CodeGen`, for `CallConv`
and for `Prims`, and that the generated code implements the unit.

Next:

1. The driver's sequence of reading, generating, verifying and writing, composed with
   `Session`: what happens after `verify` found a broken module, or a read failed.
2. Application of relocations, with the distances that stubs and GOT entries may have.
