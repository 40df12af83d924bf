---------------------------- MODULE MCCallConv ----------------------------
(***************************************************************************)
(* Parameter lists for TLC: floats among general ones, and as many of both *)
(* as a target has registers, less two for a continuation, and one more.   *)
(***************************************************************************)
EXTENDS CallConv

List(gps, fps) == [i \in 1 .. gps |-> "gp"] \o [i \in 1 .. fps |-> "fp"]

SomeParams ==
  {<<>>, <<"gp", "gp", "gp", "fp", "gp">>, <<"fp", "gp", "fp">>, List(8, 0)}
  \cup {List(n, 1) : n \in {9, 10, 20, 21}}
  \cup {List(11, 16), List(12, 0), List(22, 2), List(23, 0), List(3, 17), List(3, 33)}
=============================================================================
