----------------------------- MODULE MCNodeRepo -----------------------------
(* NodeRepo for TLC: two seeds and two nodes with keys. *)
EXTENDS NodeRepo

CONSTANTS e1, e2

MCSeeds == <<e1, e2>>

=============================================================================
