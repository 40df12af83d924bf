------------------------------ MODULE MCLoader ------------------------------
(***************************************************************************)
(* Objects for TLC: a text section and up to two or three data sections.   *)
(* The generated code is closed, except where LLVM expands an operation    *)
(* to a call of the C library: WithLibcalls has such calls.                *)
(***************************************************************************)
EXTENDS Loader

Sects(kinds, sizes, aligns, calls, gots, others) ==
  [kind: kinds, size: sizes, align: aligns, calls: calls, gots: gots, others: others]

Object(f, secs) == [fmt |-> f, secs |-> secs]

ElfText(calls) == Sects({"code"}, {12, 37}, {16}, calls, {0, 2}, {1})
ElfData == Sects({"ro"}, {5, 16}, {4, 16}, {0}, {0}, {0, 1})
           \cup Sects({"rw"}, {1, 8}, {1, 8}, {0}, {0, 1}, {0})

MachoText == Sects({"code"}, {12, 24}, {4}, {0}, {0, 2}, {1})
MachoData == Sects({"rw"}, {5, 20}, {1, 4, 16}, {0}, {0, 2}, {0})

Aligned8 == {s \in MachoData : s.align >= 8}

(* MachO data sections are of alignment 8 and more, but for one (jump tables). *)
Closed ==
  {Object("elf", <<t, d, e>>) : t \in ElfText({0}), d, e \in ElfData}
  \cup {Object("elf", <<t, d, e, d>>) : t \in Sects({"code"}, {37}, {16}, {0}, {0}, {0}), d, e \in ElfData}
  \cup {Object("macho", <<t, d>>) : t \in MachoText, d \in MachoData}
  \cup {Object("macho", <<t, d, e>>) : t \in MachoText, d \in MachoData, e \in Aligned8}

WithLibcalls ==
  {Object("elf", <<t, d, e>>) : t \in ElfText({1, 2}), d, e \in ElfData}
  \cup {Object("macho", <<[t EXCEPT !.calls = 1], d, e>>) :
          t \in MachoText, d \in MachoData, e \in Aligned8}

AllObjects == Closed \cup WithLibcalls

Addrs == {16, 4096}
=============================================================================
