----------------------------- MODULE MCSession ------------------------------
(* Session for TLC: two nodes. *)
EXTENDS Session

=============================================================================
