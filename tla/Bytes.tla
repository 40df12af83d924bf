------------------------------- MODULE Bytes -------------------------------
(* Rows of bytes. *)
EXTENDS Integers, Sequences

(* d with the bytes bs in place from offset o on; what lies between the end
   of d and o reads as 0. *)
Patched(d, o, bs) ==
  [i \in 1..(IF Len(d) < o + Len(bs) THEN o + Len(bs) ELSE Len(d)) |->
     IF o < i /\ i <= o + Len(bs) THEN bs[i - o]
     ELSE IF i <= Len(d) THEN d[i] ELSE 0]
=============================================================================
