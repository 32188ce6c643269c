----------------------------- MODULE BlockTree ------------------------------
(***************************************************************************)
(* What the record keeper promises of its blocks: a tree that only grows,  *)
(* whole batches at a time, and a head that is one of its highest blocks   *)
(* and stays until there is a higher one. How the tree is stored, walked   *)
(* and recovered does not appear.                                          *)
(***************************************************************************)
EXTENDS Integers

CONSTANTS Blocks, Genesis, Zero, None

VARIABLES parent,   \* the block below, Zero for genesis, None for no block yet
          depth,    \* the number of blocks down to genesis
          tip       \* the head; Zero until there is a block

treeVars == <<parent, depth, tip>>

Known == {b \in Blocks : parent[b] # None}

Init ==
    /\ parent = [b \in Blocks |-> None]
    /\ depth = [b \in Blocks |-> 0]
    /\ tip = Zero

Found ==
    /\ Known = {}
    /\ parent' = [b \in Blocks |-> IF b = Genesis THEN Zero ELSE None]
    /\ depth' = [b \in Blocks |-> IF b = Genesis THEN 1 ELSE 0]
    /\ tip' = Genesis

\* Known blocks stay as they are, and every new one is on another block.
Extended ==
    /\ \A b \in Known : parent'[b] = parent[b] /\ depth'[b] = depth[b]
    /\ \A b \in Known' \ Known : /\ parent'[b] \in Known'
                                 /\ depth'[b] = depth'[parent'[b]] + 1

\* No block is higher than the tip, which moves only to a higher one.
TipMoves ==
    /\ tip' \in Known'
    /\ \A b \in Known' : depth'[b] <= depth'[tip']
    /\ tip' # tip => depth'[tip'] > depth[tip]

Grow ==
    /\ Known # {}
    /\ parent' \in [Blocks -> Blocks \cup {Zero, None}]
    /\ depth' \in [Blocks -> Nat]
    /\ Extended
    /\ TipMoves

Next == Found \/ Grow

Spec == Init /\ [][Next]_treeVars

=============================================================================
