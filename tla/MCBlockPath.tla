---------------------------- MODULE MCBlockPath ----------------------------
(* The searches on every tree of a handful of blocks. *)
EXTENDS BlockPath, TLC

Symmetry == Permutations(Blocks \ {Genesis})

=============================================================================
