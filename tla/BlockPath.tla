----------------------------- MODULE BlockPath -----------------------------
(***************************************************************************)
(* The searches that the database makes over the block tree, as the code   *)
(* makes them: the two-ended search for the latest common ancestor, the    *)
(* paths of a walk that are worked out from its distances, and the lists   *)
(* of blocks that are served to a peer that synchronises. They are checked *)
(* on every block tree that Chain reaches against the definitions over     *)
(* whole paths that Chain uses.                                            *)
(***************************************************************************)
EXTENDS Chain

CONSTANT Limits     \* the block limits a request is answered with

ASSUME LimitsAssumption == Limits \subseteq Nat \ {0}

(* _latest_common_ancestor *)

\* One search: the distance at which each hash was met, and the last one met.
SearchFrom(b) == [dist |-> [x \in {b} |-> 0], last |-> b]

Found(a, b) ==
    \/ b.last \in DOMAIN a.dist
    \/ a.last \in DOMAIN b.dist
    \/ a.last = Zero /\ b.last = Zero

\* A search goes one block down, and stays when it has reached the zero hash.
Extend(s, a, d) ==
    IF a.last = Zero THEN a
    ELSE LET p == s.header[a.last] IN
         [dist |-> [x \in DOMAIN a.dist \cup {p} |-> IF x = p THEN d ELSE a.dist[x]],
          last |-> p]

\* Both searches go down together until one meets the other.
latest_common_ancestor(s, x, y) ==
    LET round[d \in 0..MaxHeight] ==
          IF d = 0 THEN <<SearchFrom(x), SearchFrom(y)>>
          ELSE LET r == round[d - 1] IN
               IF Found(r[1], r[2]) THEN r
               ELSE <<Extend(s, r[1], d), Extend(s, r[2], d)>>
    IN round[MaxHeight]

\* Faulty variant: the collision is always taken to be the last block met.
intersect_dist_Last(a, b) == a.dist[a.last]

\* The distance from a search's start to the block where the searches met.
intersect_dist(a, b) ==
    IF b.last \in DOMAIN a.dist THEN a.dist[b.last] ELSE a.dist[a.last]

\* The blocks to undo and the blocks to apply, with their heights.
calculate_block_path(s, x, y) ==
    LET r == latest_common_ancestor(s, x, y)
        a_dist == intersect_dist(r[1], r[2])
        b_dist == intersect_dist(r[2], r[1])
        b_height == s.headHeight - a_dist + b_dist
        heights(a, top, d) == {<<top - a.dist[k], k>> : k \in {k \in DOMAIN a.dist : a.dist[k] < d}}
    IN <<heights(r[1], s.headHeight, a_dist), heights(r[2], b_height, b_dist)>>

\* Faulty variant: the search goes on below the first block it meets.
latest_common_ancestor_with_current_chain_Below(s, b) ==
    LET f == Path(s, b)
        on == {h \in DOMAIN f : is_part_of_current_chain(s, f[h])}
    IN f[CHOOSE h \in on : \A k \in on : k >= h]

\* Down from b to the first block that is on the current chain.
latest_common_ancestor_with_current_chain(s, b) ==
    LET f == Path(s, b)
        on == {h \in DOMAIN f : is_part_of_current_chain(s, f[h])}
    IN f[CHOOSE h \in on : \A k \in on : k <= h]

-----------------------------------------------------------------------------
(* The blocks served to a peer: get_blocks_between(last_known, target, limit) *)

Smaller(a, b) == IF a < b THEN a ELSE b
Larger(a, b) == IF a < b THEN b ELSE a

\* f[low], ..., f[high] as a list.
Slice(f, low, high) == [i \in 1..(high - low + 1) |-> f[low + i - 1]]

\* At most limit blocks down from target, up to the current chain or last_known.
get_blocks_before(s, target, last_known, limit) ==
    LET f == Path(s, target)
        top == s.height[target]
        stop == {h \in 1..top : f[h] = last_known \/ is_part_of_current_chain(s, f[h])}
        first == 1 + CHOOSE h \in stop : \A k \in stop : k <= h
    IN Slice(f, Larger(first, top - limit + 1), top)

\* The current chain from a height up to the head.
iter_up(s, start) == [i \in 1..(s.headHeight - start + 1) |-> get_current_block_of_height(s, start + i - 1)]

\* Faulty variant: two blocks are skipped above the ancestor.
get_blocks_after_SkipTwo(s, last_known, target, limit) ==
    LET first == 2 + get_block_height(s, latest_common_ancestor_with_current_chain(s, last_known))
    IN Slice(CurrentChain(s), first, Smaller(s.headHeight, first + limit - 1))

\* Faulty variant: the limit keeps the blocks next to target.
get_blocks_after_Upper(s, last_known, target, limit) ==
    LET first == 1 + get_block_height(s, latest_common_ancestor_with_current_chain(s, last_known))
        hit == {h \in first..s.headHeight : get_current_block_of_height(s, h) = target}
        last == IF hit = {} THEN s.headHeight ELSE CHOOSE h \in hit : TRUE
    IN Slice(CurrentChain(s), Larger(first, last - limit + 1), last)

\* At most limit blocks of the current chain above the ancestor of last_known,
\* up to target when it is among them.
get_blocks_after(s, last_known, target, limit) ==
    LET above == Tail(iter_up(s, get_block_height(s, latest_common_ancestor_with_current_chain(s, last_known))))
        last == Smaller(Len(above), limit)
        hit == {i \in 1..last : above[i] = target}
    IN SubSeq(above, 1, IF hit = {} THEN last ELSE CHOOSE i \in hit : TRUE)

get_blocks_between(s, last_known, target, limit) ==
    IF is_part_of_current_chain(s, target)
    THEN get_blocks_after(s, last_known, target, limit)
    ELSE LET uncles == get_blocks_before(s, target, last_known, limit)
             mc_target == IF uncles = <<>> THEN target ELSE uncles[1]
         IN get_blocks_after(s, last_known, mc_target, limit - Len(uncles)) \o uncles

-----------------------------------------------------------------------------
(* What the searches promise *)

\* The two-ended search with its distance arithmetic finds exactly the blocks
\* by which the two chains differ, at their heights, and never genesis (the
\* debug assertions of walk).
BlockPathExact ==
    db.head # Zero =>
      \A b \in Stored(db) :
        LET path == calculate_block_path(db, db.head, b) IN
        /\ path[1] = {<<h, Path(db, db.head)[h]>> : h \in Down(db, db.head, b)}
        /\ path[2] = {<<h, Path(db, b)[h]>> : h \in Up(db, db.head, b)}
        /\ \A e \in path[1] \cup path[2] : e[1] > 1

\* The search along the current chain, which trusts the first entries of the
\* height lists, finds the same ancestor as comparing the two whole chains.
AncestorExact ==
    db.head # Zero =>
      \A b \in Stored(db) :
        LET anc == latest_common_ancestor_with_current_chain(db, b) IN
        /\ db.height[anc] \in Shared(db, db.head, b)
        /\ \A h \in Shared(db, db.head, b) : h <= db.height[anc]

\* Each block of the list can be added when the ones before it are, and the
\* target is known in the end, by a peer that knows last_known and all below.
ImportableBy(known, list, target) ==
    /\ \A i \in 1..Len(list) :
          db.header[list[i]] \in known \cup {list[j] : j \in 1..(i - 1)}
    /\ target \in known \cup Members(list)

\* A request that the limit does not cut short brings the peer from any block
\* it knows to the target, whichever of the two are uncles: import_pkg never
\* meets a block of the answer before the block's prev.
SyncReachesTarget ==
    \A last_known, target \in Stored(db) :
       LET list == get_blocks_between(db, last_known, target, 2 * MaxHeight) IN
       ImportableBy(Members(Path(db, last_known)), list, target)

\* A request for a target on the current chain that the limit does cut short
\* still gives blocks that can all be imported, so repeating it makes progress.
CutSyncIsImportable ==
    \A last_known, target \in Stored(db), limit \in Limits :
       is_part_of_current_chain(db, target) =>
         LET list == get_blocks_between(db, last_known, target, limit)
             known == Members(Path(db, last_known))
         IN /\ ImportableBy(known, list, target) \/ ImportableBy(known, list, list[Len(list)])
            /\ target \notin known => list # <<>>

=============================================================================
