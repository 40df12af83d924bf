----------------------------- MODULE MCSession -----------------------------
(* Session for TLC: two targets and an unknown name, four addresses. *)
EXTENDS Session
=============================================================================
