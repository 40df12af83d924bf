------------------------------- MODULE MCHeap -------------------------------
(***************************************************************************)
(* Heap for TLC: words of 8 bytes, a slop of 64; areas at addresses that   *)
(* are and are not aligned to two words; amounts below and above the slop. *)
(***************************************************************************)
EXTENDS Heap

Area(base, size) == [base |-> base, limit |-> base + size]
TwoAreas == {Area(1024, 16), Area(1032, 24)}

(* 32-bit and 64-bit fields, with a hole, and one of each width *)
Fields == {<<8, 8>>, <<4, 8>>, <<1, 2, 4>>}
Raws == {[align |-> 8, len |-> 16], [align |-> 16, len |-> 16], [align |-> 32, len |-> 8]}
=============================================================================
