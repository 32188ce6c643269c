------------------------------ MODULE MCShard -------------------------------
(* Shard for TLC: two nodes that the file has, one of them on two addresses. *)
EXTENDS Shard

CONSTANTS ex, ey, x, y

MCSeeds == <<ex>>
MCOwn == [i \in {x, y} |-> IF i = x THEN ex ELSE ey]
MCReach == [i \in {x, y} |-> IF i = x THEN {ex, ey} ELSE {ey}]
MCFiles == {[i \in {x, y} |-> [ep |-> MCOwn[i], score |-> 0]]}

=============================================================================
