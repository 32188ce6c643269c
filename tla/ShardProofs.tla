---------------------------- MODULE ShardProofs ----------------------------
(* What the operations of RepoOps keep true of a repository, and so of NodeRepo;
   then the shard, which uses them. *)
EXTENDS Shard, NodeRepo, InductionFacts, FiniteSetTheorems, TLAPS


-----------------------------------------------------------------------------
(* Putting in order *)

\* A strict total order on a set.
TotalOn(before, I) ==
    /\ \A i \in I : <<i, i>> \notin before
    /\ \A i, j \in I : i # j => <<i, j>> \in before \/ <<j, i>> \in before
    /\ \A i, j, k \in I : <<i, j>> \in before /\ <<j, k>> \in before => <<i, k>> \in before

\* A finite set can be put in order: each element at the place that the number of
\* those before it gives.
LEMMA OrderExists ==
    ASSUME NEW I, IsFiniteSet(I), NEW before, TotalOn(before, I)
    PROVE  \E at \in [1..Cardinality(I) -> I] :
              \A j, k \in DOMAIN at : j < k => <<at[j], at[k]>> \in before
<1> DEFINE n == Cardinality(I)
           Below(i) == {j \in I : <<j, i>> \in before}
           size == [i \in I |-> Cardinality(Below(i))]
           place == [i \in I |-> size[i] + 1]
<1>1. n \in Nat
  BY FS_CardinalityType
<1>2. ASSUME NEW i \in I
      PROVE  IsFiniteSet(Below(i)) /\ size[i] \in Nat /\ size[i] < n
  <2>1. Below(i) \in SUBSET I /\ Below(i) # I
    BY DEF TotalOn
  <2> HIDE DEF Below
  <2>2. IsFiniteSet(Below(i)) /\ Cardinality(Below(i)) <= n /\ Cardinality(Below(i)) # n
    BY <2>1, FS_Subset
  <2>3. Cardinality(Below(i)) \in Nat
    BY <2>2, FS_CardinalityType
  <2> QED BY <1>1, <2>2, <2>3
<1>3. ASSUME NEW i \in I, NEW j \in I, <<i, j>> \in before
      PROVE  size[i] < size[j]
  <2>1. Below(i) \in SUBSET Below(j) /\ Below(i) # Below(j)
    BY <1>3 DEF TotalOn
  <2>2. IsFiniteSet(Below(j)) /\ size[i] \in Nat /\ size[j] \in Nat
    BY <1>2
  <2> HIDE DEF Below
  <2>3. Cardinality(Below(i)) <= Cardinality(Below(j)) /\ Cardinality(Below(i)) # Cardinality(Below(j))
    BY <2>1, <2>2, FS_Subset
  <2> QED BY <2>2, <2>3
<1>4. \A i \in I : size[i] \in Nat /\ size[i] < n
  BY <1>2
<1>5. \A i, j \in I : <<i, j>> \in before => size[i] < size[j]
  BY <1>3
<1> HIDE DEF size, n, Below
<1>6. place \in [I -> 1..n]
  BY <1>1, <1>4
<1>7. \A i, j \in I : place[i] < place[j] => <<i, j>> \in before
  <2> SUFFICES ASSUME NEW i \in I, NEW j \in I, place[i] < place[j]
               PROVE  <<i, j>> \in before
    OBVIOUS
  <2>1. size[i] \in Nat /\ size[j] \in Nat /\ size[i] < size[j]
    BY <1>4
  <2>2. i # j /\ <<j, i>> \notin before
    BY <1>5, <2>1
  <2> QED BY <2>2 DEF TotalOn
<1>8. \A i, j \in I : place[i] = place[j] => i = j
  <2> SUFFICES ASSUME NEW i \in I, NEW j \in I, place[i] = place[j], i # j
               PROVE  FALSE
    OBVIOUS
  <2>1. size[i] \in Nat /\ size[j] \in Nat /\ size[i] = size[j]
    BY <1>4
  <2>2. <<i, j>> \in before \/ <<j, i>> \in before
    BY DEF TotalOn
  <2>3. size[i] < size[j] \/ size[j] < size[i]
    BY <1>5, <2>2
  <2> QED BY <2>1, <2>3
<1> HIDE DEF place
<1>9. place \in Injection(I, 1..n)
  BY <1>6, <1>8 DEF Injection, IsInjective
<1>10. IsFiniteSet(1..n) /\ Cardinality(1..n) = n
  BY <1>1, FS_Interval
<1>11. place \in Surjection(I, 1..n)
  BY <1>9, <1>10, FS_Injection DEF n
<1>12. \A k \in 1..n : \E i \in I : place[i] = k
  BY <1>11 DEF Surjection
<1> DEFINE at == [k \in 1..n |-> CHOOSE i \in I : place[i] = k]
<1>13. \A k \in 1..n : at[k] \in I /\ place[at[k]] = k
  BY <1>12
<1>14. at \in [1..n -> I] /\ \A j, k \in DOMAIN at : j < k => <<at[j], at[k]>> \in before
  BY <1>7, <1>13
<1> QED BY <1>14 DEF n

\* InOrder lists the set, every element once.
LEMMA InOrderFacts ==
    ASSUME NEW I, IsFiniteSet(I), NEW before, TotalOn(before, I)
    PROVE  /\ Cardinality(I) \in Nat
           /\ InOrder(I, before) \in [1..Cardinality(I) -> I]
           /\ \A j, k \in 1..Cardinality(I) :
                 j < k => <<InOrder(I, before)[j], InOrder(I, before)[k]>> \in before
           /\ \A j, k \in 1..Cardinality(I) :
                 InOrder(I, before)[j] = InOrder(I, before)[k] => j = k
           /\ \A i \in I : \E k \in 1..Cardinality(I) : InOrder(I, before)[k] = i
<1> DEFINE n == Cardinality(I)
           at == InOrder(I, before)
<1>1. n \in Nat
  BY FS_CardinalityType
<1>2. at \in [1..n -> I] /\ \A j, k \in DOMAIN at : j < k => <<at[j], at[k]>> \in before
  BY OrderExists DEF InOrder
<1> HIDE DEF at
<1>3. \A j, k \in 1..n : j < k => <<at[j], at[k]>> \in before
  BY <1>2
<1>4. \A j, k \in 1..n : at[j] = at[k] => j = k
  <2> SUFFICES ASSUME NEW j \in 1..n, NEW k \in 1..n, at[j] = at[k], j < k
               PROVE  FALSE
    BY <1>1
  <2> QED BY <1>2, <1>3 DEF TotalOn
<1>5. at \in Injection(1..n, I)
  BY <1>2, <1>4 DEF Injection, IsInjective
<1>6. Cardinality(1..n) = n
  BY <1>1, FS_Interval
<1>7. at \in Surjection(1..n, I)
  BY <1>5, <1>6, FS_Injection
<1> QED BY <1>1, <1>2, <1>3, <1>4, <1>7 DEF Surjection, at

\* A list of the entries at some positions of another: two of its entries come
\* from two of these positions, in order.
IsArranged(res, list, I, before) ==
    /\ \A x : x \in Range(res) <=> \E i \in I : x = list[i]
    /\ \A j, k \in DOMAIN res :
          j < k => \E p, q \in I : /\ <<p, q>> \in before /\ p # q
                                   /\ res[j] = list[p] /\ res[k] = list[q]

\* That is what Arranged gives.
LEMMA ArrangedFacts ==
    ASSUME NEW X, NEW list \in Seq(X), NEW I \in SUBSET DOMAIN list,
           NEW before, TotalOn(before, I)
    PROVE  /\ Arranged(list, I, before) \in Seq(X)
           /\ IsArranged(Arranged(list, I, before), list, I, before)
<1> DEFINE n == Cardinality(I)
           at == InOrder(I, before)
           res == Arranged(list, I, before)
<1>1. IsFiniteSet(I)
  <2>1. Len(list) \in Nat /\ DOMAIN list = 1..Len(list)
    OBVIOUS
  <2>2. IsFiniteSet(DOMAIN list)
    BY <2>1, FS_Interval
  <2> QED BY <2>2, FS_Subset
<1>2. /\ n \in Nat /\ at \in [1..n -> I]
      /\ \A j, k \in 1..n : j < k => <<at[j], at[k]>> \in before
      /\ \A j, k \in 1..n : at[j] = at[k] => j = k
      /\ \A i \in I : \E k \in 1..n : at[k] = i
  BY <1>1, InOrderFacts
<1>3. res = [k \in DOMAIN at |-> list[at[k]]]
  BY DEF Arranged
<1> HIDE DEF n, at, res
<1>4. DOMAIN at = 1..n /\ \A k \in 1..n : at[k] \in I /\ list[at[k]] \in X
  BY <1>2
<1>5. res = [k \in 1..n |-> list[at[k]]]
  BY <1>3, <1>4
<1>6. res \in Seq(X) /\ DOMAIN res = 1..n
  BY <1>2, <1>4, <1>5
<1>7. \A x : x \in Range(res) <=> \E i \in I : x = list[i]
  <2>1. \A x \in Range(res) : \E i \in I : x = list[i]
    BY <1>4, <1>5, <1>6 DEF Range
  <2>2. ASSUME NEW i \in I PROVE list[i] \in Range(res)
    <3>1. PICK k \in 1..n : at[k] = i
      BY <1>2
    <3> QED BY <1>5, <1>6, <3>1 DEF Range
  <2> QED BY <2>1, <2>2
<1>8. \A j, k \in DOMAIN res : j < k => \E p, q \in I : /\ <<p, q>> \in before /\ p # q
                                                        /\ res[j] = list[p] /\ res[k] = list[q]
  <2> SUFFICES ASSUME NEW j \in DOMAIN res, NEW k \in DOMAIN res, j < k
               PROVE  \E p, q \in I : /\ <<p, q>> \in before /\ p # q
                                      /\ res[j] = list[p] /\ res[k] = list[q]
    OBVIOUS
  <2>1. j \in 1..n /\ k \in 1..n
    BY <1>6
  <2>2. at[j] # at[k] /\ <<at[j], at[k]>> \in before
    BY <1>2, <2>1
  <2>3. at[j] \in I /\ at[k] \in I /\ res[j] = list[at[j]] /\ res[k] = list[at[k]]
    BY <1>4, <1>5, <2>1
  <2> QED BY <2>2, <2>3
<1> QED BY <1>6, <1>7, <1>8 DEF res, IsArranged

-----------------------------------------------------------------------------
(* Repositories *)

Entry == [ep : Endpoints, score : 0..MaxScore]
Maps == UNION {[S -> Entry] : S \in SUBSET Ids}
Records == [nodes : Maps, sorted : Seq(Ids), dirty : BOOLEAN]

\* The list has the hashes of the map, once each but for the seeds.
Listed(r) ==
    /\ Range(r.sorted) = DOMAIN r.nodes
    /\ \A j, k \in DOMAIN r.sorted : j < k /\ r.sorted[j] = r.sorted[k] => r.sorted[j] = NoKey

\* The list is ordered by score.
ByScore(r) ==
    \A j, k \in DOMAIN r.sorted : j < k => r.nodes[r.sorted[j]].score >= r.nodes[r.sorted[k]].score

Repos == {r \in Records : Listed(r) /\ ByScore(r)}

\* What it means to be a map of the repository.
LEMMA MapFacts ==
    ASSUME NEW m
    PROVE  m \in Maps <=> m \in [DOMAIN m -> Entry] /\ DOMAIN m \subseteq Ids
  BY DEF Maps

\* The list is finite, so the map is.
LEMMA FiniteMap ==
    ASSUME NEW r \in Records, Listed(r)
    PROVE  IsFiniteSet(DOMAIN r.nodes)
<1>1. r.sorted \in Seq(Ids)
  BY DEF Records
<1> DEFINE n == Len(r.sorted)
<1>2. n \in Nat /\ DOMAIN r.sorted = 1..n
  BY <1>1
<1> HIDE DEF n
<1>3. IsFiniteSet(1..n)
  BY <1>2, FS_Interval
<1>4. r.sorted \in Surjection(1..n, Range(r.sorted))
  BY <1>1, <1>2 DEF Range, Surjection
<1>5. IsFiniteSet(Range(r.sorted))
  BY <1>4, <1>3, FS_Surjection
<1> QED BY <1>5 DEF Listed

\* resort puts a list that agrees with its map in order and changes nothing else.
LEMMA ResortFacts ==
    ASSUME NEW r \in Records, Listed(r)
    PROVE  resort(r) \in Repos /\ resort(r).nodes = r.nodes /\ resort(r).dirty = r.dirty
<1> DEFINE I == DOMAIN r.sorted
           Score(j) == r.nodes[r.sorted[j]].score
           before == {p \in I \X I : \/ Score(p[1]) > Score(p[2])
                                     \/ Score(p[1]) = Score(p[2]) /\ p[1] < p[2]}
           res == Arranged(r.sorted, I, before)
<1>1. /\ r.sorted \in Seq(Ids) /\ r.nodes \in Maps /\ r.dirty \in BOOLEAN
      /\ r.nodes \in [DOMAIN r.nodes -> Entry]
  BY MapFacts DEF Records
<1>2. I \subseteq Nat /\ \A j \in I : r.sorted[j] \in DOMAIN r.nodes
  BY <1>1 DEF Listed, Range
<1>3. \A j \in I : Score(j) \in 0..MaxScore
  BY <1>1, <1>2 DEF Entry
<1>4. \A j \in I : Score(j) \in Int
  BY <1>3, RepoAssumption
<1>5. \A i, j \in I : <<i, j>> \in before <=> Score(i) > Score(j) \/ (Score(i) = Score(j) /\ i < j)
  OBVIOUS
<1>6. resort(r) = [r EXCEPT !.sorted = res]
  BY DEF resort
<1> HIDE DEF Score, before
<1>7. TotalOn(before, I)
  BY <1>2, <1>4, <1>5 DEF TotalOn
<1>8. res \in Seq(Ids) /\ IsArranged(res, r.sorted, I, before)
  BY <1>1, <1>7, ArrangedFacts
<1> HIDE DEF res
<1>9. /\ resort(r) \in Records /\ resort(r).nodes = r.nodes
      /\ resort(r).dirty = r.dirty /\ resort(r).sorted = res
  BY <1>6, <1>8 DEF Records
<1>10. \A j, k \in DOMAIN res :
         j < k => \E p, q \in I : /\ <<p, q>> \in before /\ p # q
                                  /\ res[j] = r.sorted[p] /\ res[k] = r.sorted[q]
  BY <1>8, Zenon DEF IsArranged
<1>11. ASSUME NEW j \in DOMAIN res, NEW k \in DOMAIN res, j < k
       PROVE  /\ res[j] = res[k] => res[j] = NoKey
              /\ r.nodes[res[j]].score >= r.nodes[res[k]].score
  <2> HIDE DEF I
  <2>1. PICK p, q \in I : /\ <<p, q>> \in before /\ p # q
                        /\ res[j] = r.sorted[p] /\ res[k] = r.sorted[q]
    BY <1>11, <1>10
  <2>2. res[j] = res[k] => res[j] = NoKey
    <3>1. p < q \/ q < p
      BY <1>2, <2>1
    <3> QED BY <2>1, <3>1 DEF Listed, I
  <2>3. Score(p) >= Score(q)
    BY <1>4, <1>5, <2>1
  <2> QED BY <2>1, <2>2, <2>3 DEF Score
<1>12. Range(res) = DOMAIN r.nodes
  <2>1. \A x : x \in Range(res) <=> x \in Range(r.sorted)
    BY <1>8 DEF IsArranged, Range
  <2> QED BY <2>1 DEF Listed
<1>13. Listed(resort(r)) /\ ByScore(resort(r))
  BY <1>9, <1>11, <1>12 DEF Listed, ByScore
<1> QED BY <1>9, <1>13 DEF Repos

\* remove takes all entries of a node out of list and map.
LEMMA RemoveFacts ==
    ASSUME NEW r \in Repos, NEW id
    PROVE  /\ remove(r, id) \in Repos
           /\ remove(r, id) = r \/ remove(r, id).dirty
<1> SUFFICES ASSUME id \in DOMAIN r.nodes
             PROVE  remove(r, id) \in Repos /\ remove(r, id).dirty
  BY DEF remove
<1> DEFINE I == {k \in DOMAIN r.sorted : r.sorted[k] # id}
           before == {p \in I \X I : p[1] < p[2]}
           res == Without(r.sorted, id)
           map == [i \in DOMAIN r.nodes \ {id} |-> r.nodes[i]]
<1>1. /\ r \in Records /\ Listed(r) /\ ByScore(r)
      /\ r.sorted \in Seq(Ids) /\ r.nodes \in [DOMAIN r.nodes -> Entry] /\ DOMAIN r.nodes \subseteq Ids
  BY MapFacts DEF Repos, Records
<1>2. I \subseteq DOMAIN r.sorted /\ DOMAIN r.sorted \subseteq Nat
  BY <1>1
<1>3. \A i, j \in I : <<i, j>> \in before <=> i < j
  OBVIOUS
<1>4. \A i : i \in I <=> i \in DOMAIN r.sorted /\ r.sorted[i] # id
  OBVIOUS
<1>5. res = Arranged(r.sorted, I, before)
  BY DEF Without
<1> HIDE DEF I, before, res
<1>6. TotalOn(before, I)
  BY <1>2, <1>3 DEF TotalOn
<1>7. res \in Seq(Ids) /\ IsArranged(res, r.sorted, I, before)
  BY <1>1, <1>2, <1>5, <1>6, ArrangedFacts
<1>8. \A j, k \in DOMAIN res :
        j < k => \E p, q \in I : /\ <<p, q>> \in before /\ p # q
                                 /\ res[j] = r.sorted[p] /\ res[k] = r.sorted[q]
  BY <1>7, Zenon DEF IsArranged
<1>9. \A x : x \in Range(res) <=> \E i \in I : x = r.sorted[i]
  BY <1>7, Zenon DEF IsArranged
<1>10. Range(res) = DOMAIN r.nodes \ {id}
  <2>1. \A x : x \in Range(res) <=> x \in Range(r.sorted) /\ x # id
    BY <1>4, <1>9 DEF Range
  <2> QED BY <1>1, <2>1 DEF Listed
<1>11. /\ map \in Maps /\ DOMAIN map = DOMAIN r.nodes \ {id}
       /\ \A i \in DOMAIN r.nodes \ {id} : map[i] = r.nodes[i]
  <2>1. /\ map \in [DOMAIN map -> Entry] /\ DOMAIN map = DOMAIN r.nodes \ {id}
        /\ \A i \in DOMAIN r.nodes \ {id} : map[i] = r.nodes[i]
    BY <1>1
  <2> HIDE DEF map
  <2> QED BY <1>1, <2>1, MapFacts
<1>12. remove(r, id) = [nodes |-> map, sorted |-> res, dirty |-> TRUE]
  BY DEF remove, res
<1> HIDE DEF map
<1>13. remove(r, id) \in Records
  BY <1>7, <1>11, <1>12 DEF Records
<1>14. ASSUME NEW j \in DOMAIN res, NEW k \in DOMAIN res, j < k
       PROVE  /\ res[j] = res[k] => res[j] = NoKey
              /\ map[res[j]].score >= map[res[k]].score
  <2>1. PICK p, q \in I : /\ <<p, q>> \in before /\ p # q
                        /\ res[j] = r.sorted[p] /\ res[k] = r.sorted[q]
    BY <1>8, <1>14
  <2>2. p < q /\ p \in DOMAIN r.sorted /\ q \in DOMAIN r.sorted
    BY <1>2, <1>3, <2>1
  <2>3. res[j] \in Range(res) /\ res[k] \in Range(res)
    BY DEF Range
  <2>4. map[res[j]] = r.nodes[r.sorted[p]] /\ map[res[k]] = r.nodes[r.sorted[q]]
    BY <1>10, <1>11, <2>1, <2>3
  <2> QED BY <1>1, <2>1, <2>2, <2>4 DEF Listed, ByScore
<1>15. Listed(remove(r, id)) /\ ByScore(remove(r, id))
  BY <1>10, <1>11, <1>12, <1>14 DEF Listed, ByScore
<1> QED BY <1>12, <1>13, <1>15 DEF Repos

\* new_node puts an unknown node last, where its score belongs.
LEMMA NewNodeFacts ==
    ASSUME NEW r \in Repos, NEW id \in Ids, NEW ep \in Endpoints
    PROVE  /\ new_node(r, id, ep) \in Repos
           /\ new_node(r, id, ep) = r \/ new_node(r, id, ep).dirty
<1>1. /\ r \in Records /\ Listed(r) /\ ByScore(r)
      /\ r.sorted \in Seq(Ids) /\ r.nodes \in [DOMAIN r.nodes -> Entry] /\ DOMAIN r.nodes \subseteq Ids
  BY MapFacts DEF Repos, Records
<1>2. \A k \in DOMAIN r.sorted : r.sorted[k] \in DOMAIN r.nodes
  BY <1>1 DEF Listed, Range
<1>3. CASE id \in DOMAIN r.nodes
  <2>1. CASE r.nodes[id].ep = ep
    BY <1>3, <2>1 DEF new_node, apply
  <2>2. CASE r.nodes[id].ep # ep
    <3> DEFINE map == [r.nodes EXCEPT ![id].ep = ep]
               res == [r EXCEPT !.nodes = map, !.dirty = TRUE]
    <3>1. new_node(r, id, ep) = res
      BY <1>3, <2>2 DEF new_node, apply
    <3>2. /\ map \in [DOMAIN r.nodes -> Entry] /\ DOMAIN map = DOMAIN r.nodes
          /\ \A i \in DOMAIN r.nodes : map[i].score = r.nodes[i].score
      BY <1>1, <1>3 DEF Entry
    <3> HIDE DEF map
    <3>3. map \in Maps
      BY <1>1, <3>2, MapFacts
    <3>4. res \in Records /\ res.nodes = map /\ res.sorted = r.sorted /\ res.dirty
      BY <1>1, <3>3 DEF Records
    <3> HIDE DEF res
    <3>5. Listed(res)
      BY <1>1, <3>2, <3>4 DEF Listed
    <3>6. ByScore(res)
      BY <1>1, <1>2, <3>2, <3>4 DEF ByScore
    <3> QED BY <3>1, <3>4, <3>5, <3>6 DEF Repos
  <2> QED BY <2>1, <2>2
<1>4. CASE id \notin DOMAIN r.nodes
  <2> DEFINE map == [i \in DOMAIN r.nodes \cup {id} |-> IF i = id THEN LocalNode(ep) ELSE r.nodes[i]]
             list == Append(r.sorted, id)
             res == [nodes |-> map, sorted |-> list, dirty |-> TRUE]
  <2>1. new_node(r, id, ep) = res
    BY <1>4 DEF new_node
  <2>2. LocalNode(ep) \in Entry /\ LocalNode(ep).score = 0
    BY RepoAssumption DEF LocalNode, Entry
  <2>3. /\ map \in [DOMAIN map -> Entry] /\ DOMAIN map = DOMAIN r.nodes \cup {id}
        /\ map[id].score = 0 /\ \A i \in DOMAIN r.nodes : map[i] = r.nodes[i]
    BY <1>1, <1>4, <2>2
  <2>4. \A i \in DOMAIN map : map[i].score \in Int /\ map[i].score >= 0
    BY <2>3, RepoAssumption DEF Entry
  <2> HIDE DEF map
  <2>5. map \in Maps
    BY <1>1, <2>3, MapFacts
  <2>6. /\ list \in Seq(Ids) /\ DOMAIN list = 1..Len(r.sorted) + 1
        /\ Len(r.sorted) \in Nat /\ DOMAIN r.sorted = 1..Len(r.sorted)
        /\ \A k \in 1..Len(r.sorted) : list[k] = r.sorted[k]
        /\ list[Len(r.sorted) + 1] = id
    BY <1>1
  <2> DEFINE n == Len(r.sorted)
  <2> HIDE DEF list, n
  <2>7. DOMAIN list = 1..n + 1 /\ n \in Nat /\ DOMAIN r.sorted = 1..n
        /\ (\A k \in 1..n : list[k] = r.sorted[k]) /\ list[n + 1] = id
    BY <2>6 DEF n
  <2>8. res \in Records
    BY <2>5, <2>6 DEF Records
  <2>9. Range(list) = DOMAIN map
    <3>1. Range(list) = Range(r.sorted) \cup {id}
      <4>1. 1..n + 1 = (1..n) \cup {n + 1}
        BY <2>7
      <4> QED BY <2>7, <4>1 DEF Range
    <3> QED BY <1>1, <2>3, <3>1 DEF Listed
  <2>10. ASSUME NEW j \in 1..n + 1, NEW k \in 1..n + 1, j < k
         PROVE  /\ list[j] = list[k] => list[j] = NoKey
                /\ map[list[j]].score >= map[list[k]].score
    <3>1. j \in 1..n /\ list[j] = r.sorted[j] /\ list[j] \in DOMAIN r.nodes
      BY <1>2, <2>7, <2>10
    <3>2. CASE k = n + 1
      <4>1. list[k] = id /\ list[j] # id
        BY <1>4, <2>7, <3>1, <3>2
      <4>2. map[list[k]].score = 0 /\ list[j] \in DOMAIN map
        BY <2>3, <3>1, <4>1
      <4> QED BY <2>4, <4>1, <4>2
    <3>3. CASE k # n + 1
      <4>1. k \in 1..n /\ list[k] = r.sorted[k] /\ list[k] \in DOMAIN r.nodes
        BY <1>2, <2>7, <2>10, <3>3
      <4>2. map[list[j]] = r.nodes[r.sorted[j]] /\ map[list[k]] = r.nodes[r.sorted[k]]
        BY <2>3, <3>1, <4>1
      <4> QED BY <1>1, <2>7, <2>10, <3>1, <4>1, <4>2 DEF Listed, ByScore
    <3> QED BY <3>2, <3>3
  <2>11. Listed(res) /\ ByScore(res)
    BY <2>7, <2>9, <2>10 DEF Listed, ByScore
  <2> QED BY <2>1, <2>8, <2>11 DEF Repos
<1> QED BY <1>3, <1>4

\* A new score for one node, and the list sorted again.
LEMMA ScoreFacts ==
    ASSUME NEW r \in Repos, NEW id \in DOMAIN r.nodes, NEW score \in 0..MaxScore
    PROVE  /\ resort([r EXCEPT !.nodes[id].score = score, !.dirty = TRUE]) \in Repos
           /\ resort([r EXCEPT !.nodes[id].score = score, !.dirty = TRUE]).dirty
<1> DEFINE map == [r.nodes EXCEPT ![id].score = score]
           res == [r EXCEPT !.nodes = map, !.dirty = TRUE]
<1>1. /\ r \in Records /\ Listed(r) /\ r.sorted \in Seq(Ids)
      /\ r.nodes \in [DOMAIN r.nodes -> Entry] /\ DOMAIN r.nodes \subseteq Ids
  BY MapFacts DEF Repos, Records
<1>2. res = [r EXCEPT !.nodes[id].score = score, !.dirty = TRUE]
  BY <1>1 DEF Records
<1>3. map \in [DOMAIN r.nodes -> Entry] /\ DOMAIN map = DOMAIN r.nodes
  BY <1>1 DEF Entry
<1> HIDE DEF map
<1>4. map \in Maps
  BY <1>1, <1>3, MapFacts
<1>5. res \in Records /\ res.nodes = map /\ res.sorted = r.sorted /\ res.dirty
  BY <1>1, <1>4 DEF Records
<1> HIDE DEF res
<1>6. Listed(res)
  BY <1>1, <1>3, <1>5 DEF Listed
<1>7. resort(res) \in Repos /\ resort(res).dirty
  BY <1>5, <1>6, ResortFacts
<1> QED BY <1>2, <1>7

\* up_score below the bound on scores.
LEMMA UpScoreFacts ==
    ASSUME NEW r \in Repos, NEW id \in DOMAIN r.nodes, r.nodes[id].score < MaxScore
    PROVE  up_score(r, id) \in Repos /\ up_score(r, id).dirty
<1>1. r.nodes[id].score + 1 \in 0..MaxScore
  <2>1. r.nodes \in [DOMAIN r.nodes -> Entry]
    BY MapFacts DEF Repos, Records
  <2>2. r.nodes[id].score \in 0..MaxScore /\ MaxScore \in Nat
    BY <2>1, RepoAssumption DEF Entry
  <2> QED BY <2>2
<1>2. r.nodes \in [DOMAIN r.nodes -> Entry] /\ r \in Records
  BY MapFacts DEF Repos, Records
<1>3. [r EXCEPT !.nodes[id].score = @ + 1, !.dirty = TRUE]
        = [r EXCEPT !.nodes[id].score = r.nodes[id].score + 1, !.dirty = TRUE]
  BY <1>2 DEF Records
<1>4. up_score(r, id) = resort([r EXCEPT !.nodes[id].score = r.nodes[id].score + 1, !.dirty = TRUE])
  BY <1>3 DEF up_score
<1> QED BY <1>1, <1>4, ScoreFacts

\* down_score halves a score that is above 0.
LEMMA DownScoreFacts ==
    ASSUME NEW r \in Repos, NEW id
    PROVE  /\ down_score(r, id) \in Repos
           /\ down_score(r, id) = r \/ down_score(r, id).dirty
<1> SUFFICES ASSUME id \in DOMAIN r.nodes, r.nodes[id].score > 0
             PROVE  down_score(r, id) \in Repos /\ down_score(r, id).dirty
  BY DEF down_score
<1>1. r.nodes[id].score \div 2 \in 0..MaxScore
  <2>1. r.nodes \in [DOMAIN r.nodes -> Entry]
    BY MapFacts DEF Repos, Records
  <2>2. r.nodes[id].score \in 0..MaxScore /\ MaxScore \in Nat
    BY <2>1, RepoAssumption DEF Entry
  <2>3. \A x \in 0..MaxScore : x \div 2 \in 0..MaxScore
    BY <2>2
  <2> QED BY <2>2, <2>3
<1>2. r.nodes \in [DOMAIN r.nodes -> Entry] /\ r \in Records
  BY MapFacts DEF Repos, Records
<1>3. [r EXCEPT !.nodes[id].score = @ \div 2, !.dirty = TRUE]
        = [r EXCEPT !.nodes[id].score = r.nodes[id].score \div 2, !.dirty = TRUE]
  BY <1>2 DEF Records
<1>4. down_score(r, id) = resort([r EXCEPT !.nodes[id].score = r.nodes[id].score \div 2, !.dirty = TRUE])
  BY <1>3 DEF down_score
<1> QED BY <1>1, <1>4, ScoreFacts

-----------------------------------------------------------------------------
(* Repositories from lists *)

\* A set of positions of a list has a last one.
LEMMA LastPosition ==
    ASSUME NEW n \in Nat, NEW S \in SUBSET (1..n), S # {}
    PROVE  Max(S) \in S
<1> DEFINE T == {t \in Nat : n - t \in S}
<1>1. ASSUME NEW k \in S
      PROVE  n - k \in T /\ k \in 1..n
  <2>1. k \in 1..n
    OBVIOUS
  <2>2. n - k \in Nat /\ n - (n - k) = k
    BY <2>1
  <2> QED BY <2>1, <2>2
<1>2. T \subseteq Nat /\ T # {}
  BY <1>1
<1>3. PICK t \in T : \A u \in T : t <= u
  BY <1>2, LeastElement
<1>4. t \in Nat /\ n - t \in S
  OBVIOUS
<1> HIDE DEF T
<1>5. ASSUME NEW j \in S
      PROVE  n - t >= j
  <2>1. n - j \in T /\ j \in 1..n
    BY <1>1
  <2>2. t <= n - j
    BY <1>3, <2>1
  <2> QED BY <1>4, <2>1, <2>2
<1> QED BY <1>4, <1>5 DEF Max

ListEntry == [id : Ids, ep : Endpoints, score : 0..MaxScore]

\* A list of nodes to build a repository from.
NodeLists ==
    {l \in Seq(ListEntry) : \A j, k \in DOMAIN l : j < k /\ l[j].id = l[k].id => l[j].id = NoKey}

\* The repository without nodes.
LEMMA EmptyFacts ==
    ASSUME NEW d \in BOOLEAN
    PROVE  [empty EXCEPT !.dirty = d] \in Repos /\ empty \in Repos
<1>1. [empty EXCEPT !.dirty = d] = [nodes |-> <<>>, sorted |-> <<>>, dirty |-> d]
  BY DEF empty
<1>2. <<>> \in Maps /\ <<>> \in Seq(Ids) /\ DOMAIN <<>> = {}
  <2>1. DOMAIN <<>> = {} /\ <<>> \in [{} -> Entry]
    OBVIOUS
  <2> QED BY <2>1 DEF Maps
<1>3. ASSUME NEW c \in BOOLEAN
      PROVE  [nodes |-> <<>>, sorted |-> <<>>, dirty |-> c] \in Repos
  <2> DEFINE e == [nodes |-> <<>>, sorted |-> <<>>, dirty |-> c]
  <2>1. e \in Records /\ DOMAIN e.nodes = {} /\ DOMAIN e.sorted = {}
    BY <1>2 DEF Records
  <2> HIDE DEF e
  <2>2. Listed(e) /\ ByScore(e)
    BY <2>1 DEF Listed, ByScore, Range
  <2> QED BY <2>1, <2>2 DEF e, Repos
<1> QED BY <1>1, <1>3 DEF empty

\* build makes a repository of a list, and one without nodes of an empty list.
LEMMA BuildFacts ==
    ASSUME NEW r, r.dirty \in BOOLEAN, NEW list \in NodeLists
    PROVE  /\ build(r, list) \in Repos
           /\ build(r, list).dirty \/ build(r, list).nodes = <<>>
<1>1. CASE list = <<>>
  <2>1. build(r, list) = [empty EXCEPT !.dirty = r.dirty]
    BY <1>1 DEF build
  <2>2. [empty EXCEPT !.dirty = r.dirty].nodes = <<>>
    BY DEF empty
  <2> QED BY <2>1, <2>2, EmptyFacts
<1>2. CASE list # <<>>
  <2> DEFINE n == Len(list)
             ids == {list[k].id : k \in DOMAIN list}
             hashes == [k \in DOMAIN list |-> list[k].id]
             res == [nodes |-> MapOf(list), sorted |-> hashes, dirty |-> TRUE]
  <2>1. /\ n \in Nat /\ DOMAIN list = 1..n /\ \A k \in 1..n : list[k] \in ListEntry
        /\ \A j, k \in DOMAIN list : j < k /\ list[j].id = list[k].id => list[j].id = NoKey
    BY DEF NodeLists
  <2> HIDE DEF n
  <2>2. ids \subseteq Ids
    BY <2>1 DEF ListEntry
  <2>3. ASSUME NEW i \in ids
        PROVE  [ep    |-> list[Max({k \in DOMAIN list : list[k].id = i})].ep,
                score |-> list[Max({k \in DOMAIN list : list[k].id = i})].score] \in Entry
    <3> DEFINE S == {k \in DOMAIN list : list[k].id = i}
    <3>1. S \in SUBSET (1..n) /\ S # {}
      BY <2>1
    <3> HIDE DEF S
    <3>2. Max(S) \in 1..n
      BY <2>1, <3>1, LastPosition
    <3>3. list[Max(S)] \in ListEntry
      BY <2>1, <3>2
    <3>4. [ep |-> list[Max(S)].ep, score |-> list[Max(S)].score] \in Entry
      BY <3>3 DEF ListEntry, Entry
    <3> QED BY <3>4 DEF S
  <2>4. MapOf(list) \in [ids -> Entry] /\ DOMAIN MapOf(list) = ids
    BY <2>3 DEF MapOf
  <2>5. MapOf(list) \in Maps
    BY <2>2, <2>4 DEF Maps
  <2>6. hashes \in Seq(Ids) /\ DOMAIN hashes = 1..n /\ Range(hashes) = ids
    <3>1. \A k \in 1..n : list[k].id \in Ids
      BY <2>1 DEF ListEntry
    <3> QED BY <2>1, <3>1 DEF Range
  <2>7. \A j, k \in DOMAIN hashes : j < k /\ hashes[j] = hashes[k] => hashes[j] = NoKey
    BY <2>1
  <2>8. build(r, list) = resort(res)
    BY <1>2 DEF build
  <2> HIDE DEF ids, hashes
  <2>9. res \in Records /\ res.sorted = hashes /\ res.nodes = MapOf(list) /\ res.dirty
    BY <2>5, <2>6 DEF Records
  <2> HIDE DEF res
  <2>10. Listed(res)
    BY <2>4, <2>6, <2>7, <2>9 DEF Listed
  <2> QED BY <2>8, <2>9, <2>10, ResortFacts
<1> QED BY <1>1, <1>2

\* The nodes of a map in any order make such a list.
LEMMA ListsFacts ==
    ASSUME NEW m \in Maps, IsFiniteSet(DOMAIN m), NEW l \in Lists(m)
    PROVE  l \in NodeLists /\ Len(l) \in Nat
<1>1. PICK s \in SetToSeqs(DOMAIN m) :
          l = [k \in DOMAIN s |-> [id |-> s[k], ep |-> m[s[k]].ep, score |-> m[s[k]].score]]
  BY DEF Lists
<1> DEFINE n == Cardinality(DOMAIN m)
<1>2. n \in Nat
  BY FS_CardinalityType
<1> HIDE DEF n
<1>3. s \in [1..n -> DOMAIN m] /\ \A i, j \in 1..n : i # j => s[i] # s[j]
  BY DEF SetToSeqs, n
<1>4. m \in [DOMAIN m -> Entry] /\ DOMAIN m \subseteq Ids
  BY MapFacts
<1>5. \A k \in 1..n : [id |-> s[k], ep |-> m[s[k]].ep, score |-> m[s[k]].score] \in ListEntry
  BY <1>3, <1>4 DEF ListEntry, Entry
<1>6. DOMAIN s = 1..n
  BY <1>3
<1>7. l = [k \in 1..n |-> [id |-> s[k], ep |-> m[s[k]].ep, score |-> m[s[k]].score]]
  BY <1>1, <1>6
<1>8. l \in Seq(ListEntry) /\ DOMAIN l = 1..n /\ Len(l) \in Nat
  BY <1>2, <1>5, <1>7
<1>9. \A k \in 1..n : l[k].id = s[k]
  BY <1>7
<1>10. \A j, k \in DOMAIN l : j < k => l[j].id # l[k].id
  BY <1>2, <1>3, <1>8, <1>9
<1> QED BY <1>8, <1>10 DEF NodeLists

\* What trim leaves is a repository, and differs from the file or has no node.
LEMMA TrimsFacts ==
    ASSUME NEW r \in Repos, NEW t \in Trims(r)
    PROVE  t \in Repos /\ (t.dirty \/ t.nodes = <<>>)
<1>1. r \in Records /\ Listed(r) /\ r.nodes \in Maps /\ r.dirty \in BOOLEAN
  BY DEF Repos, Records
<1>2. IsFiniteSet(DOMAIN r.nodes)
  BY <1>1, FiniteMap
<1>3. ASSUME NEW l \in Lists(r.nodes), t = build(r, l)
      PROVE  t \in Repos /\ (t.dirty \/ t.nodes = <<>>)
  <2>1. l \in NodeLists
    BY <1>1, <1>2, ListsFacts
  <2> QED BY <1>1, <1>3, <2>1, BuildFacts
<1>4. ASSUME NEW l \in Lists(r.nodes), Len(l) > SAVED_NODES_COUNT,
             t = build(r, SubSeq(l, 1, SAVED_NODES_COUNT))
      PROVE  t \in Repos /\ (t.dirty \/ t.nodes = <<>>)
  <2> DEFINE c == SAVED_NODES_COUNT
             cut == SubSeq(l, 1, c)
  <2>1. l \in NodeLists /\ Len(l) \in Nat /\ c \in Nat /\ c < Len(l)
    BY <1>1, <1>2, <1>4, ListsFacts, RepoAssumption
  <2> HIDE DEF c
  <2>2. l \in Seq(ListEntry)
    BY <2>1 DEF NodeLists
  <2>3. cut \in Seq(ListEntry) /\ DOMAIN cut = 1..c /\ \A k \in 1..c : cut[k] = l[k]
    BY <2>1, <2>2
  <2>4. 1..c \subseteq DOMAIN l
    BY <2>1, <2>2
  <2> HIDE DEF cut
  <2>5. \A j, k \in DOMAIN cut : j < k /\ cut[j].id = cut[k].id => cut[j].id = NoKey
    BY <2>1, <2>3, <2>4 DEF NodeLists
  <2>6. cut \in NodeLists
    BY <2>3, <2>5 DEF NodeLists
  <2> QED BY <1>1, <1>4, <2>6, BuildFacts DEF cut, c
<1> QED BY <1>3, <1>4 DEF Trims

\* What load_node_repo gives is a repository that differs from the file or has
\* no node.
LEMMA LoadsFacts ==
    ASSUME NEW f, f = None \/ (f \in Maps /\ IsFiniteSet(DOMAIN f)), NEW r \in Loads(f)
    PROVE  r \in Repos /\ (r.dirty \/ r.nodes = <<>>)
<1>1. empty.dirty \in BOOLEAN /\ empty.nodes = <<>>
  BY DEF empty
<1>2. CASE r = empty
  BY <1>1, <1>2, EmptyFacts
<1>3. CASE r = build(empty, SeedList)
  <2>1. Seeds \in Seq(Endpoints) /\ 0 \in 0..MaxScore /\ NoKey \in Ids
    BY RepoAssumption
  <2>2. /\ SeedList \in Seq(ListEntry)
        /\ \A k \in DOMAIN SeedList : SeedList[k].id = NoKey
    <3>1. \A k \in DOMAIN Seeds : [id |-> NoKey, ep |-> Seeds[k], score |-> 0] \in ListEntry
      BY <2>1 DEF ListEntry
    <3>2. Len(Seeds) \in Nat /\ DOMAIN Seeds = 1..Len(Seeds)
      BY <2>1
    <3> QED BY <3>1, <3>2 DEF SeedList
  <2>3. SeedList \in NodeLists
    BY <2>2 DEF NodeLists
  <2> QED BY <1>1, <1>3, <2>3, BuildFacts
<1>4. ASSUME f \in Maps, IsFiniteSet(DOMAIN f), NEW l \in Lists(f), r = build(empty, l)
      PROVE  r \in Repos /\ (r.dirty \/ r.nodes = <<>>)
  <2>1. l \in NodeLists
    BY <1>4, ListsFacts
  <2> QED BY <1>1, <1>4, <2>1, BuildFacts
<1> QED BY <1>2, <1>3, <1>4 DEF Loads

-----------------------------------------------------------------------------
(* The repository and its file *)

\* The repository in memory is one that its operations give, the file holds a map
\* of one or is torn, and without changes the two agree.
RepoInv ==
    /\ repository \in Repos
    /\ file = None \/ file = Torn \/ (file \in Maps /\ IsFiniteSet(DOMAIN file))
    /\ CleanIsSaved

\* A new repository is clean only where CleanIsSaved allows it.
LEMMA RepoStep ==
    ASSUME RepoInv, repository' \in Repos, UNCHANGED file,
           repository' = repository \/ repository'.dirty \/ repository'.nodes = <<>>
    PROVE  RepoInv'
BY DEF RepoInv, CleanIsSaved

\* Map and list agree and a clean repository is saved, always.
LEMMA RepoInvariance == RepoSpec => []RepoInv
<1>1. RepoInit => RepoInv
  <2> SUFFICES ASSUME RepoInit PROVE RepoInv
    OBVIOUS
  <2>1. repository \in Repos /\ (repository.dirty \/ repository.nodes = <<>>)
    BY LoadsFacts DEF RepoInit
  <2> QED BY <2>1 DEF RepoInv, CleanIsSaved, RepoInit
<1>2. RepoInv /\ [RepoNext]_savedVars => RepoInv'
  <2> SUFFICES ASSUME RepoInv, [RepoNext]_savedVars PROVE RepoInv'
    OBVIOUS
  <2>1. repository \in Repos
    BY DEF RepoInv
  <2>2. ASSUME NEW id \in Ids, NEW ep \in Endpoints,
               repository' = new_node(repository, id, ep), UNCHANGED file
        PROVE  RepoInv'
    BY <2>1, <2>2, NewNodeFacts, RepoStep
  <2>3. ASSUME NEW id \in Ids, repository' = remove(repository, id), UNCHANGED file
        PROVE  RepoInv'
    BY <2>1, <2>3, RemoveFacts, RepoStep
  <2>4. ASSUME NEW id \in DOMAIN repository.nodes, repository.nodes[id].score < MaxScore,
               repository' = up_score(repository, id), UNCHANGED file
        PROVE  RepoInv'
    <3>1. up_score(repository, id) \in Repos /\ up_score(repository, id).dirty
      BY <2>1, <2>4, UpScoreFacts
    <3> QED BY <2>4, <3>1, RepoStep
  <2>5. ASSUME NEW id \in Ids, repository' = down_score(repository, id), UNCHANGED file
        PROVE  RepoInv'
    BY <2>1, <2>5, DownScoreFacts, RepoStep
  <2>6. ASSUME repository' \in Trims(repository), UNCHANGED file
        PROVE  RepoInv'
    BY <2>1, <2>6, TrimsFacts, RepoStep
  <2>7. CASE save
    <3>1. CASE UNCHANGED savedVars
      BY <3>1 DEF savedVars, RepoInv, CleanIsSaved
    <3>2. CASE /\ repository.dirty
               /\ file' = repository.nodes
               /\ repository' = [repository EXCEPT !.dirty = FALSE]
      <4>1. repository \in Records /\ repository.nodes \in Maps /\ Listed(repository)
        BY <2>1 DEF Repos, Records
      <4>2. IsFiniteSet(DOMAIN repository.nodes)
        BY <4>1, FiniteMap
      <4>3. /\ repository' \in Records
            /\ repository'.nodes = repository.nodes /\ repository'.sorted = repository.sorted
        BY <3>2, <4>1 DEF Records
      <4>4. repository' \in Repos
        BY <2>1, <4>3 DEF Repos, Listed, ByScore
      <4> QED BY <3>2, <4>1, <4>2, <4>3, <4>4 DEF RepoInv, CleanIsSaved
    <3>3. CASE file' = Torn /\ repository' = empty
      <4>1. repository' \in Repos /\ repository'.nodes = <<>>
        BY <3>3, EmptyFacts DEF empty
      <4> QED BY <3>3, <4>1 DEF RepoInv, CleanIsSaved
    <3> QED BY <2>7, <3>1, <3>2, <3>3 DEF save
  <2>8. CASE Reload
    <3>1. CASE file = Torn
      BY <2>8, <3>1 DEF Reload, savedVars, RepoInv, CleanIsSaved
    <3>2. CASE file # Torn
      <4>1. repository' \in Repos /\ (repository'.dirty \/ repository'.nodes = <<>>)
        BY <2>8, <3>2, LoadsFacts DEF RepoInv, Reload
      <4> QED BY <2>8, <3>2, <4>1, RepoStep DEF Reload
    <3> QED BY <3>1, <3>2
  <2>9. CASE UNCHANGED savedVars
    BY <2>9 DEF savedVars, RepoInv, CleanIsSaved
  <2> QED BY <2>2, <2>3, <2>4, <2>5, <2>6, <2>7, <2>8, <2>9 DEF RepoNext, Operation
<1> QED BY <1>1, <1>2, PTL DEF RepoSpec

\* After any operations, trims, saves and restarts, and for any scores: list and
\* map have the same hashes, once each but for the seeds, best score first.
THEOREM RepoConsistentAlways == RepoSpec => []RepoConsistent
<1>1. RepoInv => RepoConsistent
  BY DEF RepoInv, Repos, Listed, ByScore, RepoConsistent
<1> QED BY <1>1, RepoInvariance, PTL

\* A repository without changes has what its file has, or no node at all: save
\* never leaves out something to write.
THEOREM CleanIsSavedAlways == RepoSpec => []CleanIsSaved
<1>1. RepoInv => CleanIsSaved
  BY DEF RepoInv
<1> QED BY <1>1, RepoInvariance, PTL

-----------------------------------------------------------------------------
(* The invariant of the shard *)

\* The list of the repository agrees with its map, as NodeRepo has it: each peer
\* that node_scan asks get_nodes for is there.
RepoAgrees == repo \in Repos

\* The table has finitely many sessions, each under its own address, and a session
\* goes on only within the limit on abuses.
OpenIn(t) == {a \in Addrs : t[a] # None}

Tables ==
    {t \in [Addrs -> {None} \cup SessionRecords] :
       /\ IsFiniteSet(OpenIn(t))
       /\ \A a \in Addrs :
             t[a] # None => t[a].addr = a /\ (t[a].done = None => t[a].abuses <= MAX_ABUSES)}

\* Who calls us has a key.
Calls == {c \in OpenCalls : c.why = "answer" => c.id # NoKey}

IInv ==
    /\ sessions \in Tables
    /\ RepoAgrees
    /\ idx \in Nat
    /\ peer_ids \subseteq Ids
    /\ opening \subseteq Calls
    /\ unsent \in 0..MaxUnsent
    /\ UnsentOnlyWhileAlone

\* The constants, one by one.
LEMMA Constants ==
    /\ Own \in [Ids \ {NoKey} -> Endpoints]
    /\ MinNodes \in Nat /\ AttachNodes \in Nat /\ MAX_ABUSES \in Nat /\ MaxUnsent \in Nat
    /\ IdxCycle \in Nat /\ IdxCycle > 0
    /\ None \notin {"Exit", "ExitPermanent", "Abuse"}
    /\ \A f \in Files : f = None \/ (f \in Maps /\ IsFiniteSet(DOMAIN f))
<1>1. /\ Own \in [Ids \ {NoKey} -> Endpoints]
      /\ MinNodes \in Nat /\ AttachNodes \in Nat /\ MAX_ABUSES \in Nat /\ MaxUnsent \in Nat
      /\ IdxCycle \in Nat /\ IdxCycle > 0
      /\ None \notin {"Exit", "ExitPermanent", "Abuse"}
  BY ShardAssumption
<1>2. ASSUME NEW f \in Files, f # None
      PROVE  f \in Maps /\ IsFiniteSet(DOMAIN f)
  <2>1. /\ IsFiniteSet(DOMAIN f) /\ DOMAIN f \subseteq Ids
        /\ f \in [DOMAIN f -> [ep : Endpoints, score : 0..MaxScore]]
    BY <1>2, ShardAssumption
  <2> QED BY <2>1, MapFacts DEF Entry
<1> QED BY <1>1, <1>2

-----------------------------------------------------------------------------
(* node_scan *)

\* A set of naturals has its least element as Min.
LEMMA MinInSet ==
    ASSUME NEW S, S \subseteq Nat, S # {}
    PROVE  Min(S) \in S /\ \A y \in S : Min(S) <= y
<1>1. \E x \in S : \A y \in S : x <= y
  BY LeastElement
<1> QED BY <1>1 DEF Min

\* Every call that a scan makes is for a node of the repository.
LEMMA ScanFacts ==
    ASSUME NEW r \in Repos, NEW from \in Nat, NEW count, NEW wanted \in Nat, NEW ids
    PROVE  /\ node_scan(r, from, count, wanted, ids).idx \in Nat
           /\ node_scan(r, from, count, wanted, ids).queue \subseteq Calls
<1> DEFINE limit    == Min({wanted * 3, Len(r.sorted)})
           Peer(k)  == get_nodes(r, (from + k) % IdxCycle)
           Queue(n) == {k \in 0..n - 1 : Peer(k) \notin ids \cup {MyId}}
           attempts == Min({n \in 0..limit : n = limit \/ count + Cardinality(Queue(n)) >= wanted})
           queue    == {open_session(Peer(k), r.nodes[Peer(k)].ep, "scan") : k \in Queue(attempts)}
<1>1. /\ r.sorted \in Seq(Ids) /\ r.nodes \in [DOMAIN r.nodes -> Entry]
      /\ DOMAIN r.nodes \subseteq Ids /\ Range(r.sorted) = DOMAIN r.nodes
  BY MapFacts DEF Repos, Records, Listed
<1>2. Len(r.sorted) \in Nat /\ DOMAIN r.sorted = 1..Len(r.sorted)
  BY <1>1
<1>3. limit \in Nat /\ limit <= Len(r.sorted)
  <2>1. wanted * 3 \in Nat
    OBVIOUS
  <2>2. {wanted * 3, Len(r.sorted)} \subseteq Nat /\ {wanted * 3, Len(r.sorted)} # {}
    BY <1>2, <2>1
  <2> QED BY <2>2, MinInSet
<1> HIDE DEF limit
<1>4. attempts \in Nat /\ attempts <= limit
  <2> DEFINE S == {n \in 0..limit : n = limit \/ count + Cardinality(Queue(n)) >= wanted}
  <2>1. S \subseteq 0..limit /\ limit \in S
    BY <1>3
  <2> HIDE DEF S
  <2>2. S \subseteq Nat /\ S # {}
    BY <1>3, <2>1
  <2>3. Min(S) \in S
    BY <2>2, MinInSet
  <2>4. Min(S) \in 0..limit
    BY <2>1, <2>3
  <2>5. \A x \in 0..limit : x \in Nat /\ x <= limit
    BY <1>3
  <2> HIDE DEF Queue
  <2>6. Min(S) \in Nat /\ Min(S) <= limit
    BY <2>4, <2>5
  <2> QED BY <2>6 DEF S
<1>5. node_scan(r, from, count, wanted, ids) = [idx |-> (from + attempts) % IdxCycle, queue |-> queue]
  BY DEF node_scan, limit
<1>6. \A k \in Queue(attempts) : k \in 0..attempts - 1
  OBVIOUS
<1> HIDE DEF attempts
<1>7. (from + attempts) % IdxCycle \in Nat
  BY <1>4, Constants
<1>8. ASSUME NEW k \in Queue(attempts)
      PROVE  open_session(Peer(k), r.nodes[Peer(k)].ep, "scan") \in Calls
  <2>1. k \in Nat /\ Len(r.sorted) > 0
    BY <1>2, <1>3, <1>4, <1>6
  <2>2. (from + k) % IdxCycle \in Nat
    BY <2>1, Constants
  <2>3. ((from + k) % IdxCycle) % Len(r.sorted) \in 0..Len(r.sorted) - 1
    BY <1>2, <2>1, <2>2
  <2>4. (((from + k) % IdxCycle) % Len(r.sorted)) + 1 \in DOMAIN r.sorted
    BY <1>2, <2>3
  <2>5. Peer(k) \in DOMAIN r.nodes
    BY <1>1, <2>4 DEF get_nodes, Range
  <2> HIDE DEF Peer
  <2>6. Peer(k) \in Ids /\ r.nodes[Peer(k)].ep \in Endpoints
    BY <1>1, <2>5 DEF Entry
  <2> QED BY <2>6 DEF open_session, OpenCalls, Calls, Exists
<1> QED BY <1>5, <1>7, <1>8

\* The scan of attach_network.
LEMMA FirstScanFacts ==
    ASSUME NEW r \in Repos
    PROVE  FirstScan(r).idx \in Nat /\ FirstScan(r).queue \subseteq Calls
<1>1. CASE Len(r.sorted) >= 2
  BY <1>1, ScanFacts, Constants DEF FirstScan
<1>2. CASE ~(Len(r.sorted) >= 2)
  BY <1>2 DEF FirstScan
<1> QED BY <1>1, <1>2

-----------------------------------------------------------------------------
(* check_sessions *)

\* A session that is open is a record of a session.
LEMMA OpenFacts ==
    ASSUME sessions \in Tables, NEW a \in Open
    PROVE  a \in Addrs /\ sessions[a] \in SessionRecords
  BY DEF Tables, Open

\* Checking a session keeps the repository one.
LEMMA CheckedFacts ==
    ASSUME sessions \in Tables, NEW a \in Open, NEW r \in Repos
    PROVE  checked(r, a) \in Repos
<1> DEFINE s == sessions[a]
           t == IF s.done \in {"ExitPermanent", "Abuse"} THEN remove(r, s.id) ELSE r
<1>1. s.id \in Ids /\ s.ep \in Endpoints
  BY OpenFacts DEF SessionRecords
<1>2. t \in Repos
  BY RemoveFacts
<1>3. checked(r, a) = IF s.intro /\ s.id \notin DOMAIN t.nodes THEN new_node(t, s.id, s.ep) ELSE t
  BY DEF checked
<1> HIDE DEF t
<1>4. new_node(t, s.id, s.ep) \in Repos
  BY <1>1, <1>2, NewNodeFacts
<1> QED BY <1>2, <1>3, <1>4

\* Also one after the other.
LEMMA CheckedAllFacts ==
    ASSUME sessions \in Tables, RepoAgrees, NEW order, NEW n \in Nat, order \in [1..n -> Open], Len(order) = n
    PROVE  CheckedAll(order) \in Repos
<1> DEFINE F == [k \in 1..n |-> [r \in Repos |-> checked(r, order[k])]]
           after[k \in 0..Len(order)] == IF k = 0 THEN repo ELSE checked(after[k - 1], order[k])
<1>1. F \in [1..n -> [Repos -> Repos]]
  BY CheckedFacts
<1>2. PICK f : IsRun(f, Repos, repo, F, n)
  BY <1>1, RunExists DEF RepoAgrees
<1>3. f \in [0..n -> Repos] /\ f[0] = repo /\ \A k \in 1..n : f[k] = F[k][f[k - 1]]
  BY <1>2 DEF IsRun
<1>4. \A k \in 1..n : f[k] = checked(f[k - 1], order[k])
  <2> SUFFICES ASSUME NEW k \in 1..n PROVE f[k] = checked(f[k - 1], order[k])
    OBVIOUS
  <2>1. k - 1 \in 0..n
    OBVIOUS
  <2>2. f[k - 1] \in Repos
    BY <1>3, <2>1
  <2> QED BY <1>3, <2>2
<1>5. f = [k \in 0..n |-> IF k = 0 THEN repo ELSE checked(f[k - 1], order[k])]
  BY <1>3, <1>4
<1>6. f = [k \in 0..Len(order) |-> IF k = 0 THEN repo ELSE checked(f[k - 1], order[k])]
  BY <1>5
<1>7. after = [k \in 0..Len(order) |-> IF k = 0 THEN repo ELSE checked(after[k - 1], order[k])]
  BY <1>6, Zenon
<1>8. CheckedAll(order) = after[Len(order)]
  BY Zenon DEF CheckedAll
<1> HIDE DEF after, F
<1> DEFINE T == {k \in Nat : k <= n => after[k] \in Repos}
<1>9. 0 \in T
  BY <1>7 DEF RepoAgrees
<1>10. ASSUME NEW k \in Nat, k \in T PROVE k + 1 \in T
  <2> SUFFICES ASSUME k + 1 <= n PROVE after[k + 1] \in Repos
    OBVIOUS
  <2>1. after[k + 1] = checked(after[k], order[k + 1])
    BY <1>7
  <2>2. after[k] \in Repos /\ order[k + 1] \in Open
    BY <1>10
  <2> QED BY <2>1, <2>2, CheckedFacts
<1> HIDE DEF T
<1>11. n \in T
  BY <1>9, <1>10, SetInduction
<1> QED BY <1>8, <1>11 DEF T

-----------------------------------------------------------------------------
(* The table of sessions *)

\* Who of a table is introduced.
IntroducedIn(t) == {a \in Addrs : t[a] # None /\ t[a].intro}

\* A session in the table of that session's address.
LEMMA PutFacts ==
    ASSUME NEW t \in Tables, NEW at \in Addrs, NEW s \in SessionRecords,
           s.addr = at, s.done = None => s.abuses <= MAX_ABUSES
    PROVE  [t EXCEPT ![at] = s] \in Tables
<1> DEFINE later == [t EXCEPT ![at] = s]
<1>1. later \in [Addrs -> {None} \cup SessionRecords] /\ later[at] = s /\ \A a \in Addrs \ {at} : later[a] = t[a]
  BY DEF Tables
<1> HIDE DEF later
<1>2. ASSUME NEW a \in Addrs, later[a] # None
      PROVE  later[a].addr = a /\ (later[a].done = None => later[a].abuses <= MAX_ABUSES)
  BY <1>1, <1>2 DEF Tables
<1>3. OpenIn(later) \subseteq OpenIn(t) \cup {at}
  BY <1>1 DEF OpenIn
<1>4. IsFiniteSet(OpenIn(later))
  BY <1>3, FS_AddElement, FS_Subset DEF Tables
<1>5. later \in Tables
  BY <1>1, <1>2, <1>4 DEF Tables
<1> QED BY <1>5 DEF later

\* A session that is new is put where it belongs, and is not introduced.
LEMMA InsertedFacts ==
    ASSUME sessions \in Tables, NEW c \in OpenCalls
    PROVE  Inserted(c) \in Tables /\ IntroducedIn(Inserted(c)) \subseteq IntroducedIn(sessions)
<1>1. /\ new(c) \in SessionRecords /\ new(c).addr = c.ep /\ new(c).intro = FALSE
      /\ new(c).abuses = 0 /\ c.ep \in Addrs
  BY Constants DEF new, SessionRecords, OpenCalls, Addrs
<1>2. Inserted(c) \in Tables
  BY <1>1, PutFacts, Constants DEF Inserted
<1>3. Inserted(c)[c.ep] = new(c) /\ \A a \in Addrs \ {c.ep} : Inserted(c)[a] = sessions[a]
  BY <1>1 DEF Inserted, Tables
<1> QED BY <1>1, <1>2, <1>3 DEF IntroducedIn

\* handle_introduce gives a session that may have another address.
LEMMA HandleIntroduceFacts ==
    ASSUME NEW s \in SessionRecords, NEW a \in Addrs, NEW id \in Ids \ {NoKey},
           s.done = None => s.abuses <= MAX_ABUSES
    PROVE  /\ handle_introduce(s, a, id) \in SessionRecords
           /\ handle_introduce(s, a, id).done = None => handle_introduce(s, a, id).abuses <= MAX_ABUSES
<1> DEFINE later == [s EXCEPT !.id = id, !.ep = Own[id], !.intro = TRUE,
                   !.addr = IF s.intro THEN a ELSE @,
                   !.done = IF id \in Incompatible THEN "ExitPermanent" ELSE @]
<1>1. handle_introduce(s, a, id) = IF s.intro /\ s.id # id THEN s ELSE later
  BY DEF handle_introduce
<1>2. id \in Ids /\ Own[id] \in Endpoints
  BY Constants
<1>3. /\ later \in SessionRecords
      /\ later.done = None => s.done = None \/ "ExitPermanent" = None
      /\ later.abuses = s.abuses
  BY <1>2 DEF SessionRecords
<1>4. "ExitPermanent" # None
  BY Constants
<1> QED BY <1>1, <1>3, <1>4

\* Who is open and who is introduced, in the table.
LEMMA IntroducedFacts ==
    /\ Introduced = IntroducedIn(sessions)
    /\ Introduced' = IntroducedIn(sessions')
  BY DEF Introduced, Open, IntroducedIn

\* The session that is introduced is put under its own address, and the messages
\* that waited go to it.
LEMMA IntroduceFacts ==
    ASSUME NEW table \in Tables, NEW a \in Addrs, NEW id \in Ids \ {NoKey},
           unsent \in 0..MaxUnsent, IntroducedIn(table) # {} => unsent = 0,
           Introduce(table, a, id)
    PROVE  /\ sessions' \in Tables
           /\ unsent' \in 0..MaxUnsent
           /\ IntroducedIn(sessions') # {} => unsent' = 0
<1> DEFINE found == IF table[a] # None THEN {a} ELSE {b \in Addrs : table[b] # None /\ table[b].id = id}
<1>1. CASE sessions' = table /\ UNCHANGED unsent
  BY <1>1
<1>2. ASSUME NEW at \in found, sessions' = Rekeyed(table, at, handle_introduce(table[at], a, id)),
             unsent' = Drain(unsent)
      PROVE  /\ sessions' \in Tables
             /\ unsent' \in 0..MaxUnsent
             /\ IntroducedIn(sessions') # {} => unsent' = 0
  <2> DEFINE s == handle_introduce(table[at], a, id)
  <2>1. at \in Addrs /\ table[at] # None
    OBVIOUS
  <2> HIDE DEF found
  <2>2. table[at] \in SessionRecords /\ (table[at].done = None => table[at].abuses <= MAX_ABUSES)
    BY <2>1 DEF Tables
  <2>3. s \in SessionRecords /\ (s.done = None => s.abuses <= MAX_ABUSES)
    BY <2>2, HandleIntroduceFacts
  <2>4. s.addr \in Addrs
    BY <2>3 DEF SessionRecords
  <2>5. sessions' = [b \in Addrs |-> IF b = s.addr THEN s ELSE IF b = at THEN None ELSE table[b]]
    BY <1>2 DEF Rekeyed
  <2> HIDE DEF s
  <2>6. sessions' \in [Addrs -> {None} \cup SessionRecords]
    BY <2>3, <2>5 DEF Tables
  <2>7. ASSUME NEW b \in Addrs, sessions'[b] # None
        PROVE  sessions'[b].addr = b /\ (sessions'[b].done = None => sessions'[b].abuses <= MAX_ABUSES)
    <3>1. CASE b = s.addr
      BY <2>3, <2>5, <3>1
    <3>2. CASE b # s.addr
      BY <2>5, <2>7, <3>2 DEF Tables
    <3> QED BY <3>1, <3>2
  <2>8. OpenIn(sessions') \subseteq OpenIn(table) \cup {s.addr}
    BY <2>5 DEF OpenIn
  <2>9. IsFiniteSet(OpenIn(sessions'))
    BY <2>8, FS_AddElement, FS_Subset DEF Tables
  <2>10. sessions' \in Tables
    BY <2>6, <2>7, <2>9 DEF Tables
  <2>11. unsent' = 0
    BY <1>2 DEF Drain
  <2> QED BY <2>10, <2>11, Constants
<1> QED BY <1>1, <1>2 DEF Introduce

\* A change of one session that keeps its address and its introduction.
LEMMA ChangedFacts ==
    ASSUME sessions \in Tables, UnsentOnlyWhileAlone, UNCHANGED unsent,
           NEW a \in Open, NEW s \in SessionRecords, s.addr = sessions[a].addr, s.intro = sessions[a].intro,
           s.done = None => s.abuses <= MAX_ABUSES, sessions' = [sessions EXCEPT ![a] = s]
    PROVE  sessions' \in Tables /\ UnsentOnlyWhileAlone'
<1>1. a \in Addrs /\ sessions[a] # None /\ sessions[a].addr = a
  BY DEF Open, Tables
<1>2. sessions' \in Tables
  BY <1>1, PutFacts
<1>3. sessions'[a] = s /\ \A b \in Addrs \ {a} : sessions'[b] = sessions[b]
  BY <1>1 DEF Tables
<1>4. Introduced' \subseteq Introduced
  BY <1>1, <1>3 DEF Introduced, Open
<1> QED BY <1>2, <1>4 DEF UnsentOnlyWhileAlone

-----------------------------------------------------------------------------
(* The steps *)

\* A step that leaves the table, the repository and the messages alone.
LEMMA CallStep ==
    ASSUME IInv, NEW id \in Ids \ {NoKey}, NEW why \in {"list", "answer"},
           opening' = opening \cup {open_session(id, Own[id], why)},
           UNCHANGED <<repoVars, sessions, peer_ids, idx, unsent>>
    PROVE  IInv'
<1>1. open_session(id, Own[id], why) \in Calls
  BY Constants DEF open_session, Calls, OpenCalls, Exists
<1>2. repo' = repo
  BY DEF repo, repoVars
<1>3. UnsentOnlyWhileAlone'
  BY DEF IInv, UnsentOnlyWhileAlone, Introduced, Open
<1> QED BY <1>1, <1>2, <1>3 DEF IInv, RepoAgrees

\* The address is known: a session, or a connection first.
LEMMA ResolvedStep ==
    ASSUME IInv, NEW c \in opening, Resolved(c)
    PROVE  IInv'
<1>1. c \in Calls /\ c \in OpenCalls /\ c.id \in Ids /\ c.ep \in Endpoints /\ (c.why = "answer" => c.id # NoKey)
  BY DEF IInv, Calls, OpenCalls
<1>2. repo' = repo /\ UNCHANGED idx
  BY DEF Resolved, repo, repoVars
<1>3. opening' \subseteq Calls
  <2>1. [c EXCEPT !.why = "connect"] \in Calls
    BY <1>1 DEF Calls, OpenCalls
  <2> QED BY <2>1 DEF Resolved, IInv
<1>4. CASE UNCHANGED <<sessions, peer_ids, unsent>>
  BY <1>2, <1>3, <1>4 DEF IInv, RepoAgrees, UnsentOnlyWhileAlone, Introduced, Open
<1>5. CASE peer_ids' = PeerIds(c.id) /\ c.why = "answer" /\ Introduce(Inserted(c), c.ep, c.id)
  <2>1. Inserted(c) \in Tables /\ IntroducedIn(Inserted(c)) \subseteq IntroducedIn(sessions)
    BY <1>1, InsertedFacts DEF IInv
  <2>2. IntroducedIn(Inserted(c)) # {} => unsent = 0
    BY <2>1, IntroducedFacts DEF IInv, UnsentOnlyWhileAlone
  <2>3. /\ sessions' \in Tables /\ unsent' \in 0..MaxUnsent
        /\ IntroducedIn(sessions') # {} => unsent' = 0
    BY <1>1, <1>5, <2>1, <2>2, IntroduceFacts DEF IInv, Addrs
  <2>4. peer_ids' \subseteq Ids
    BY <1>1, <1>5 DEF IInv, PeerIds
  <2> QED BY <1>2, <1>3, <2>3, <2>4, IntroducedFacts DEF IInv, RepoAgrees, UnsentOnlyWhileAlone
<1>6. CASE peer_ids' = PeerIds(c.id) /\ sessions' = Inserted(c) /\ UNCHANGED unsent
  <2>1. sessions' \in Tables /\ IntroducedIn(sessions') \subseteq IntroducedIn(sessions)
    BY <1>1, <1>6, InsertedFacts DEF IInv
  <2>2. UnsentOnlyWhileAlone'
    BY <1>6, <2>1, IntroducedFacts DEF IInv, UnsentOnlyWhileAlone
  <2>3. peer_ids' \subseteq Ids
    BY <1>1, <1>6 DEF IInv, PeerIds
  <2> QED BY <1>2, <1>3, <1>6, <2>1, <2>2, <2>3 DEF IInv, RepoAgrees
<1> QED BY <1>4, <1>5, <1>6 DEF Resolved

\* A connection over TCP is made, or not.
LEMMA ConnectedStep ==
    ASSUME IInv, NEW c \in opening, Connected(c)
    PROVE  IInv'
<1>1. c \in OpenCalls /\ c.id \in Ids
  BY DEF IInv, Calls, OpenCalls
<1>2. repo' = repo /\ UNCHANGED <<idx, unsent>> /\ opening' \subseteq Calls
  BY DEF Connected, repo, repoVars, IInv
<1>3. CASE UNCHANGED <<sessions, peer_ids>>
  BY <1>2, <1>3 DEF IInv, RepoAgrees, UnsentOnlyWhileAlone, Introduced, Open
<1>4. CASE sessions' = Inserted(c) /\ peer_ids' = PeerIds(c.id)
  <2>1. sessions' \in Tables /\ IntroducedIn(sessions') \subseteq IntroducedIn(sessions)
    BY <1>1, <1>4, InsertedFacts DEF IInv
  <2>2. UnsentOnlyWhileAlone'
    BY <1>2, <2>1, IntroducedFacts DEF IInv, UnsentOnlyWhileAlone
  <2>3. peer_ids' \subseteq Ids
    BY <1>1, <1>4 DEF IInv, PeerIds
  <2> QED BY <1>2, <2>1, <2>2, <2>3 DEF IInv, RepoAgrees
<1> QED BY <1>3, <1>4 DEF Connected

\* A repository to become.
LEMMA BecomeFacts ==
    ASSUME NEW r \in Repos, Become(r)
    PROVE  RepoAgrees'
<1>1. [nodes |-> r.nodes, sorted |-> r.sorted, dirty |-> TRUE] \in Repos
  <2> DEFINE later == [nodes |-> r.nodes, sorted |-> r.sorted, dirty |-> TRUE]
  <2>1. later \in Records /\ later.nodes = r.nodes /\ later.sorted = r.sorted
    BY DEF Repos, Records
  <2>2. Listed(r) /\ ByScore(r)
    BY DEF Repos
  <2> HIDE DEF later
  <2>3. Listed(later) /\ ByScore(later)
    BY <2>1, <2>2 DEF Listed, ByScore
  <2>4. later \in Repos
    BY <2>1, <2>3 DEF Repos
  <2> QED BY <2>4 DEF later
<1> QED BY <1>1 DEF Become, RepoAgrees, repo

\* open_session fails after its asynchronous part.
LEMMA OpenFailsStep ==
    ASSUME IInv, NEW c \in opening, OpenFails(c)
    PROVE  IInv'
<1>1. UNCHANGED <<sessions, peer_ids, idx, unsent>> /\ opening' \subseteq Calls
  BY DEF OpenFails, IInv
<1>2. RepoAgrees'
  <2>1. CASE UNCHANGED repoVars
    BY <2>1 DEF IInv, RepoAgrees, repo, repoVars
  <2>2. CASE Become(remove(repo, c.id))
    BY <2>2, RemoveFacts, BecomeFacts DEF IInv, RepoAgrees
  <2> QED BY <2>1, <2>2 DEF OpenFails
<1>3. UnsentOnlyWhileAlone'
  BY <1>1 DEF IInv, UnsentOnlyWhileAlone, Introduced, Open
<1> QED BY <1>1, <1>2, <1>3 DEF IInv

\* Sessions that are done leave the table, the others stay as they are.
LEMMA CheckStep ==
    ASSUME IInv, session_check_task
    PROVE  IInv'
<1> DEFINE scan == node_scan(repo, ScanFrom, Cardinality(Open), MinNodes, peer_ids)
           kept == {a \in Open : sessions[a].done = None}
<1>1. /\ opening' = opening \cup scan.queue /\ idx' = scan.idx
      /\ sessions' = [a \in Addrs |-> IF a \in kept THEN sessions[a] ELSE None]
      /\ peer_ids' = {sessions[a].id : a \in kept}
      /\ UNCHANGED unsent
  BY DEF session_check_task
<1>2. scan.idx \in Nat /\ scan.queue \subseteq Calls
  <2>1. ScanFrom \in Nat /\ repo \in Repos /\ MinNodes \in Nat
    BY Constants DEF IInv, ScanFrom, RepoAgrees
  <2> QED BY <2>1, ScanFacts
<1> HIDE DEF scan
<1>3. \A a \in kept : a \in Open
  OBVIOUS
<1> HIDE DEF kept
<1>4. \A a \in kept : a \in Addrs /\ sessions[a] \in SessionRecords
  BY <1>3, OpenFacts DEF IInv
<1>5. peer_ids' \subseteq Ids
  BY <1>1, <1>4 DEF SessionRecords
<1>6. sessions' \in Tables
  <2>1. OpenIn(sessions') \subseteq OpenIn(sessions)
    BY <1>1 DEF OpenIn
  <2>2. IsFiniteSet(OpenIn(sessions'))
    BY <2>1, FS_Subset DEF IInv, Tables
  <2> QED BY <1>1, <2>2 DEF IInv, Tables
<1>7. Introduced' \subseteq Introduced
  BY <1>1 DEF Introduced, Open
<1>8. RepoAgrees'
  <2>1. PICK order \in SetToSeqs(Open) : Become(CheckedAll(order))
    BY DEF session_check_task
  <2> DEFINE n == Cardinality(Open)
  <2>2. order \in [1..n -> Open]
    BY DEF SetToSeqs
  <2>3. IsFiniteSet(Open)
    BY DEF IInv, Tables, Open, OpenIn
  <2>4. n \in Nat
    BY <2>3, FS_CardinalityType
  <2> HIDE DEF n
  <2>5. Len(order) = n
    BY <2>2, <2>4
  <2>6. CheckedAll(order) \in Repos
    BY <2>2, <2>4, <2>5, CheckedAllFacts DEF IInv
  <2> QED BY <2>1, <2>6, BecomeFacts
<1> QED BY <1>1, <1>2, <1>5, <1>6, <1>7, <1>8 DEF IInv, UnsentOnlyWhileAlone

\* The peer at an address tells who it is.
LEMMA IntroducedByStep ==
    ASSUME IInv, NEW a \in Addrs, NEW id \in Ids \ {NoKey}, IntroducedBy(a, id)
    PROVE  IInv'
<1>1. repo' = repo /\ UNCHANGED <<peer_ids, idx, opening>> /\ Introduce(sessions, a, id)
  BY DEF IntroducedBy, repo, repoVars
<1>2. sessions \in Tables /\ unsent \in 0..MaxUnsent /\ (IntroducedIn(sessions) # {} => unsent = 0)
  BY IntroducedFacts DEF IInv, UnsentOnlyWhileAlone
<1>3. /\ sessions' \in Tables /\ unsent' \in 0..MaxUnsent
      /\ IntroducedIn(sessions') # {} => unsent' = 0
  BY <1>1, <1>2, IntroduceFacts
<1> QED BY <1>1, <1>3, IntroducedFacts DEF IInv, RepoAgrees, UnsentOnlyWhileAlone

\* A session is done.
LEMMA EndsStep ==
    ASSUME IInv, NEW a \in Addrs, Ends(a)
    PROVE  IInv'
<1> DEFINE s == [sessions[a] EXCEPT !.done = "Exit"]
<1>1. /\ repo' = repo /\ UNCHANGED <<peer_ids, idx, opening, unsent>> /\ a \in Open
      /\ sessions' = [sessions EXCEPT ![a] = s]
  BY DEF Ends, repo, repoVars
<1>2. sessions[a] \in SessionRecords
  BY <1>1, OpenFacts DEF IInv
<1>3. /\ s \in SessionRecords /\ s.addr = sessions[a].addr /\ s.intro = sessions[a].intro
      /\ s.done = "Exit"
  BY <1>2 DEF SessionRecords
<1>4. "Exit" # None
  BY Constants
<1> HIDE DEF s
<1>5. sessions' \in Tables /\ UnsentOnlyWhileAlone'
  BY <1>1, <1>3, <1>4, ChangedFacts DEF IInv
<1> QED BY <1>1, <1>5 DEF IInv, RepoAgrees

\* The abuse that exceeds the limit ends the session, so the count stays within it.
LEMMA BroadcastStep ==
    ASSUME IInv, NEW a \in Addrs, NEW known \in BOOLEAN, NEW accepts \in BOOLEAN,
           BroadcastFrom(a, known, accepts)
    PROVE  IInv'
<1>1. /\ repo' = repo /\ UNCHANGED <<peer_ids, idx, opening, unsent>>
      /\ a \in Open /\ sessions[a].done = None
  BY DEF BroadcastFrom, repo, repoVars, Introduced
<1>2. CASE sessions' = sessions
  BY <1>1, <1>2 DEF IInv, RepoAgrees, UnsentOnlyWhileAlone, Introduced, Open
<1>3. CASE sessions' = [sessions EXCEPT ![a] = mark_abuse(@)]
  <2> DEFINE s == mark_abuse(sessions[a])
  <2>1. sessions[a] \in SessionRecords /\ sessions[a] # None
    BY <1>1, OpenFacts DEF IInv, Open
  <2>2. sessions[a].abuses \in Nat /\ sessions[a].abuses <= MAX_ABUSES
    BY <1>1, <2>1, Constants DEF IInv, Tables, SessionRecords, Open
  <2>3. /\ s.abuses = sessions[a].abuses + 1
        /\ s.done = (IF sessions[a].abuses + 1 > MAX_ABUSES THEN "Abuse" ELSE None)
        /\ s.addr = sessions[a].addr /\ s.intro = sessions[a].intro
    BY <1>1, <2>1 DEF mark_abuse, SessionRecords
  <2>4. sessions[a].abuses + 1 \in 0..MAX_ABUSES + 1
    BY <2>2, Constants
  <2>5. ASSUME NEW d \in {None, "Exit", "ExitPermanent", "Abuse"}, NEW k \in 0..MAX_ABUSES + 1
        PROVE  [sessions[a] EXCEPT !.abuses = k, !.done = d] \in SessionRecords
    BY <2>1 DEF SessionRecords
  <2>6. s \in SessionRecords
    BY <1>1, <2>4, <2>5 DEF mark_abuse
  <2>7. s.done = None => s.abuses <= MAX_ABUSES
    BY <2>2, <2>3, Constants
  <2>8. sessions' = [sessions EXCEPT ![a] = s]
    BY <1>3
  <2> HIDE DEF s
  <2>9. sessions' \in Tables /\ UnsentOnlyWhileAlone'
    BY <1>1, <2>3, <2>6, <2>7, <2>8, ChangedFacts DEF IInv
  <2> QED BY <1>1, <2>9 DEF IInv, RepoAgrees
<1> QED BY <1>2, <1>3 DEF BroadcastFrom

\* A message is kept only if there is no session at all.
LEMMA FloodStep ==
    ASSUME IInv, Flood
    PROVE  IInv'
<1>1. repo' = repo /\ UNCHANGED <<sessions, peer_ids, idx, opening>>
  BY DEF Flood, repo, repoVars
<1>2. unsent' \in 0..MaxUnsent
  BY Constants DEF Flood, reliable_flood, IInv
<1>3. UnsentOnlyWhileAlone'
  <2>1. Introduced' = Introduced /\ Introduced \subseteq Open
    BY <1>1 DEF Introduced, Open
  <2>2. Open # {} => unsent' = unsent
    BY DEF Flood, reliable_flood
  <2> QED BY <2>1, <2>2 DEF IInv, UnsentOnlyWhileAlone
<1> QED BY <1>1, <1>2, <1>3 DEF IInv, RepoAgrees

\* The table of a shard that is new.
LEMMA NoSessions ==
    /\ [a \in Addrs |-> None] \in Tables
    /\ IntroducedIn([a \in Addrs |-> None]) = {}
<1> DEFINE t == [a \in Addrs |-> None]
<1>1. t \in [Addrs -> {None} \cup SessionRecords] /\ \A a \in Addrs : t[a] = None
  OBVIOUS
<1> HIDE DEF t
<1>2. OpenIn(t) = {} /\ IntroducedIn(t) = {}
  BY <1>1 DEF OpenIn, IntroducedIn
<1>3. t \in Tables
  BY <1>1, <1>2, FS_EmptySet DEF Tables
<1> QED BY <1>2, <1>3 DEF t

\* The network is detached.
LEMMA DetachStep ==
    ASSUME IInv, detach_network
    PROVE  IInv'
<1>1. /\ sessions' = [a \in Addrs |-> None] /\ peer_ids' = {} /\ unsent' = 0 /\ idx' = 0
      /\ UNCHANGED opening /\ Become(empty)
  BY DEF detach_network
<1>2. RepoAgrees'
  BY <1>1, EmptyFacts, BecomeFacts
<1>3. sessions' \in Tables /\ UnsentOnlyWhileAlone'
  BY <1>1, NoSessions DEF UnsentOnlyWhileAlone
<1> QED BY <1>1, <1>2, <1>3, Constants DEF IInv

\* The network is attached again.
LEMMA AttachStep ==
    ASSUME IInv, attach_network
    PROVE  IInv'
<1>1. PICK f \in Files : \E r \in Loads(f) :
         Become(r) /\ opening' = opening \cup FirstScan(r).queue /\ idx' = FirstScan(r).idx
  BY DEF attach_network
<1>2. PICK r \in Loads(f) :
         Become(r) /\ opening' = opening \cup FirstScan(r).queue /\ idx' = FirstScan(r).idx
  BY <1>1
<1>3. r \in Repos
  BY Constants, LoadsFacts
<1>4. RepoAgrees'
  BY <1>2, <1>3, BecomeFacts
<1>5. FirstScan(r).idx \in Nat /\ FirstScan(r).queue \subseteq Calls
  BY <1>3, FirstScanFacts
<1>6. UNCHANGED <<sessions, peer_ids, unsent>>
  BY DEF attach_network
<1> QED BY <1>2, <1>4, <1>5, <1>6 DEF IInv, UnsentOnlyWhileAlone, Introduced, Open

-----------------------------------------------------------------------------
(* The theorems *)

\* The invariant holds at the start.
LEMMA Initially == Init => IInv
<1> SUFFICES ASSUME Init PROVE IInv
  OBVIOUS
<1>1. PICK f \in Files : \E r \in Loads(f) :
         /\ nodes = r.nodes /\ sorted = r.sorted
         /\ idx = FirstScan(r).idx /\ opening = FirstScan(r).queue
  BY DEF Init
<1>2. PICK r \in Loads(f) :
         /\ nodes = r.nodes /\ sorted = r.sorted
         /\ idx = FirstScan(r).idx /\ opening = FirstScan(r).queue
  BY <1>1
<1>3. r \in Repos
  BY Constants, LoadsFacts
<1>4. repo \in Repos
  <2>1. repo \in Records /\ repo.nodes = r.nodes /\ repo.sorted = r.sorted
    BY <1>2, <1>3 DEF repo, Repos, Records
  <2> QED BY <1>3, <2>1 DEF Repos, Listed, ByScore
<1>5. FirstScan(r).idx \in Nat /\ FirstScan(r).queue \subseteq Calls
  BY <1>3, FirstScanFacts
<1>6. sessions \in Tables /\ Introduced = {}
  BY NoSessions, IntroducedFacts DEF Init
<1> QED BY <1>2, <1>4, <1>5, <1>6, Constants DEF Init, IInv, RepoAgrees, UnsentOnlyWhileAlone

\* Every step keeps the invariant.
LEMMA Invariance == IInv /\ [Next]_vars => IInv'
<1> SUFFICES ASSUME IInv, [Next]_vars PROVE IInv'
  OBVIOUS
<1>1. CASE UNCHANGED vars
  BY <1>1 DEF vars, repoVars, IInv, RepoAgrees, repo, UnsentOnlyWhileAlone, Introduced, Open
<1>2. CASE attach_network \/ detach_network \/ session_check_task \/ Flood
  BY <1>2, AttachStep, DetachStep, CheckStep, FloodStep
<1>3. ASSUME NEW c \in opening, Resolved(c) \/ Connected(c) \/ OpenFails(c)
      PROVE  IInv'
  BY <1>3, ResolvedStep, ConnectedStep, OpenFailsStep
<1>4. ASSUME NEW id \in Ids \ {NoKey}, ListNode(id) \/ CalledBy(id)
      PROVE  IInv'
  BY <1>4, CallStep DEF ListNode, CalledBy
<1>5. ASSUME NEW id \in Ids \ {NoKey}, NEW a \in Addrs, IntroducedBy(a, id)
      PROVE  IInv'
  BY <1>5, IntroducedByStep
<1>6. ASSUME NEW a \in Addrs, Ends(a)
      PROVE  IInv'
  BY <1>6, EndsStep
<1>7. ASSUME NEW a \in Addrs, NEW known \in BOOLEAN, NEW accepts \in BOOLEAN,
             BroadcastFrom(a, known, accepts)
      PROVE  IInv'
  BY <1>7, BroadcastStep
<1> QED BY <1>1, <1>2, <1>3, <1>4, <1>5, <1>6, <1>7 DEF Next

\* process_packet finds every session under the address that its packets come
\* from, however introductions, calls and checks interleave.
THEOREM KeyedByAddressAlways == Spec => []KeyedByAddress
<1>1. IInv => KeyedByAddress
  BY DEF IInv, Tables, KeyedByAddress, Open
<1> QED BY <1>1, Initially, Invariance, PTL DEF Spec

\* No message of unsent_broadcasts still waits once a session is introduced.
THEOREM UnsentOnlyWhileAloneAlways == Spec => []UnsentOnlyWhileAlone
<1>1. IInv => UnsentOnlyWhileAlone
  BY DEF IInv
<1> QED BY <1>1, Initially, Invariance, PTL DEF Spec

\* The repository of a shard keeps its list and its map in agreement, so that
\* node_scan and check_sessions always find the node they ask for.
THEOREM RepoAgreesAlways == Spec => []RepoAgrees
<1>1. IInv => RepoAgrees
  BY DEF IInv
<1> QED BY <1>1, Initially, Invariance, PTL DEF Spec

\* Types, for every set of nodes and endpoints; among them that a session never
\* counts more abuses than the one that ends it.
THEOREM TypeCorrect == Spec => []TypeOK
<1>1. IInv => TypeOK
  BY DEF IInv, TypeOK, RepoAgrees, Repos, Records, Maps, Entry, Tables, Calls
<1> QED BY <1>1, Initially, Invariance, PTL DEF Spec
=============================================================================
