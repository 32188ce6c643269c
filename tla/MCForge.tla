------------------------------ MODULE MCForge -------------------------------
(* Forge for TLC: the second block needs two signatures. *)
EXTENDS Forge

MCReqValidators == [h \in 0..MaxHeight |-> IF h = 1 THEN 2 ELSE 1]

=============================================================================
