------------------------------ MODULE RepoOps -------------------------------
(***************************************************************************)
(* The repository of nodes that a shard can connect to: the nodes by the   *)
(* hash of their key, and a list of the hashes with the best score first.  *)
(* What its operations make of a repository; NodeRepo is its state and its *)
(* file, Shard uses it.                                                    *)
(***************************************************************************)
EXTENDS Integers, FiniteSets, Sequences, SequencesExt

CONSTANTS Ids,        \* hashes of keys
          Endpoints, None,
          NoKey,      \* the hash of the empty key, which all seed nodes have
          Seeds,      \* the endpoints of ClientConfig.seed_nodes, in order
          MaxScore,   \* bound: the scores
          SAVED_NODES_COUNT

ASSUME RepoAssumption ==
    /\ NoKey \in Ids /\ None \notin Ids \cup Endpoints
    /\ Seeds \in Seq(Endpoints)
    /\ {MaxScore, SAVED_NODES_COUNT} \subseteq Nat

-----------------------------------------------------------------------------
(* The operations, on a repository r *)

\* A node that is new has score 0.
LocalNode(ep) == [ep |-> ep, score |-> 0]

empty == [nodes |-> <<>>, sorted |-> <<>>, dirty |-> FALSE]

\* The elements of a finite set, in the order of a relation that is total on it.
InOrder(I, before) ==
    CHOOSE at \in [1..Cardinality(I) -> I] :
       \A j, k \in DOMAIN at : j < k => <<at[j], at[k]>> \in before

\* The entries of a list at some of its positions, in an order of these.
Arranged(list, I, before) ==
    LET at == InOrder(I, before) IN [k \in DOMAIN at |-> list[at[k]]]

\* A stable sort, the highest score first.
resort(r) ==
    LET I == DOMAIN r.sorted
        Score(j) == r.nodes[r.sorted[j]].score
    IN [r EXCEPT !.sorted =
          Arranged(@, I, {p \in I \X I : \/ Score(p[1]) > Score(p[2])
                                         \/ Score(p[1]) = Score(p[2]) /\ p[1] < p[2]})]

\* The map that inserting the entries of a list one by one gives: of those with
\* one hash the last stays.
MapOf(list) ==
    [i \in {list[k].id : k \in DOMAIN list} |->
       LET n == list[Max({k \in DOMAIN list : list[k].id = i})] IN [ep |-> n.ep, score |-> n.score]]

\* From a list of nodes; two with one hash leave one node and two list entries.
build(r, list) ==
    IF list = <<>> THEN [empty EXCEPT !.dirty = r.dirty]
    ELSE resort([nodes  |-> MapOf(list),
                 sorted |-> [k \in DOMAIN list |-> list[k].id],
                 dirty  |-> TRUE])

\* The node that is tried as number idx.
get_nodes(r, idx) == r.sorted[(idx % Len(r.sorted)) + 1]

\* Only what changes counts as a change.
apply(r, id, ep) ==
    IF id \in DOMAIN r.nodes /\ r.nodes[id].ep # ep
    THEN [r EXCEPT !.nodes[id].ep = ep, !.dirty = TRUE]
    ELSE r

\* Faulty variant: a node that is known is put on the list again.
new_node_Again(r, id, ep) ==
    [nodes  |-> [i \in DOMAIN r.nodes \cup {id} |-> IF i = id THEN LocalNode(ep) ELSE r.nodes[i]],
     sorted |-> Append(r.sorted, id), dirty |-> TRUE]

\* A new node comes last; one that is known gets the new endpoint.
new_node(r, id, ep) ==
    IF id \in DOMAIN r.nodes THEN apply(r, id, ep)
    ELSE [nodes  |-> [i \in DOMAIN r.nodes \cup {id} |-> IF i = id THEN LocalNode(ep) ELSE r.nodes[i]],
          sorted |-> Append(r.sorted, id), dirty |-> TRUE]

\* The list without the entries of one node.
Without(list, id) ==
    LET I == {k \in DOMAIN list : list[k] # id} IN Arranged(list, I, {p \in I \X I : p[1] < p[2]})

\* Faulty variant: the removal is not counted as a change.
remove_Unsaved(r, id) ==
    [r EXCEPT !.nodes = [i \in DOMAIN @ \ {id} |-> @[i]], !.sorted = Without(@, id)]

\* All list entries of the node go.
remove(r, id) ==
    IF id \notin DOMAIN r.nodes THEN r
    ELSE [nodes  |-> [i \in DOMAIN r.nodes \ {id} |-> r.nodes[i]],
          sorted |-> Without(r.sorted, id), dirty |-> TRUE]

up_score(r, id) ==
    IF id \in DOMAIN r.nodes THEN resort([r EXCEPT !.nodes[id].score = @ + 1, !.dirty = TRUE]) ELSE r

down_score(r, id) ==
    IF id \in DOMAIN r.nodes /\ r.nodes[id].score > 0
    THEN resort([r EXCEPT !.nodes[id].score = @ \div 2, !.dirty = TRUE]) ELSE r

\* The nodes in some order, as a hash map gives them.
Lists(m) ==
    {[k \in DOMAIN s |-> [id |-> s[k], ep |-> m[s[k]].ep, score |-> m[s[k]].score]] :
        s \in SetToSeqs(DOMAIN m)}

\* Some nodes stay, whichever the map gives first.
Trims(r) ==
    {build(r, SubSeq(l, 1, SAVED_NODES_COUNT)) : l \in {l \in Lists(r.nodes) : Len(l) > SAVED_NODES_COUNT}}
    \cup {build(r, l) : l \in {l \in Lists(r.nodes) : Len(l) <= SAVED_NODES_COUNT}}

SeedList == [k \in DOMAIN Seeds |-> [id |-> NoKey, ep |-> Seeds[k], score |-> 0]]

\* What load_node_repo makes of the file: the seed nodes if it has no node,
\* nothing if it is there and cannot be opened.
Loads(f) ==
    (IF f = None \/ f = <<>> THEN {build(empty, SeedList)} ELSE {build(empty, l) : l \in Lists(f)})
    \cup (IF f = None THEN {} ELSE {empty})

=============================================================================
