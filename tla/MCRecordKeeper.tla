--------------------------- MODULE MCRecordKeeper ---------------------------
(* RecordKeeper with a registration "v", two moves "a" and "r" of one turn, a *)
(* move "c" in the next by the validator that "v" registers, and a transfer   *)
(* "s".                                                                       *)
EXTENDS RecordKeeper, TLC

MCCreator == [t \in Txns |-> IF t = "c" THEN {"v"} ELSE {}]
MCFollows == [t \in Txns |-> IF t = "c" THEN {"a", "r"} ELSE {}]
MCRivals == {{"a", "r"}}

Symmetry == Permutations(Threads) \cup Permutations(Blocks \ {Genesis})

=============================================================================
