------------------------------ MODULE MCPrims ------------------------------
(* Prims for TLC: all words of the given width, floats of both signs. *)
EXTENDS Prims
=============================================================================
