---------------------------- MODULE ChainProofs ----------------------------
(* Proofs about Chain and about the searches of BlockPath. *)
EXTENDS BlockPath, InductionFacts, FiniteSetTheorems, TLAPS

-----------------------------------------------------------------------------
(* Lists of blocks *)

\* Appending a block adds it to the members and changes nothing before it.
LEMMA AppendFacts ==
    ASSUME NEW list \in Seq(Blocks), NEW b \in Blocks
    PROVE  /\ Append(list, b) \in Seq(Blocks)
           /\ Append(list, b) # <<>>
           /\ Members(Append(list, b)) = Members(list) \cup {b}
           /\ list # <<>> => Append(list, b)[1] = list[1]
           /\ list = <<>> => Append(list, b)[1] = b
           /\ NoRepeats(list) /\ b \notin Members(list) => NoRepeats(Append(list, b))
<1> DEFINE new == Append(list, b)
<1>1. /\ new \in Seq(Blocks)
      /\ Len(new) = Len(list) + 1
      /\ Len(list) \in Nat
      /\ \A i \in 1..Len(list) : new[i] = list[i]
      /\ new[Len(list) + 1] = b
  OBVIOUS
<1>2. 1..Len(new) = (1..Len(list)) \cup {Len(list) + 1}
  BY <1>1
<1>3. Members(new) = Members(list) \cup {b}
  BY <1>1, <1>2 DEF Members
<1>4. list # <<>> => Len(list) >= 1
  OBVIOUS
<1>5. list = <<>> => Len(list) = 0
  OBVIOUS
<1>6. ASSUME NoRepeats(list), b \notin Members(list)
      PROVE  NoRepeats(new)
  BY <1>1, <1>2, <1>6 DEF Members, NoRepeats
<1>7. new # <<>>
  BY <1>1
<1> QED BY <1>1, <1>3, <1>4, <1>5, <1>6, <1>7

\* Swapping a member to the front keeps the members, each once.
LEMMA ToFrontFacts ==
    ASSUME NEW list \in Seq(Blocks), NEW b \in Members(list), NoRepeats(list)
    PROVE  /\ ToFront(list, b) \in Seq(Blocks)
           /\ ToFront(list, b) # <<>>
           /\ Members(ToFront(list, b)) = Members(list)
           /\ NoRepeats(ToFront(list, b))
           /\ ToFront(list, b)[1] = b
<1> DEFINE i == CHOOSE j \in 1..Len(list) : list[j] = b
           new == [list EXCEPT ![1] = b, ![i] = list[1]]
<1>1. i \in 1..Len(list) /\ list[i] = b
  BY DEF Members
<1> HIDE DEF i
<1>2. Len(list) \in Nat /\ Len(list) >= 1 /\ 1 \in 1..Len(list)
  BY <1>1
<1>3. new \in Seq(Blocks) /\ Len(new) = Len(list)
  BY <1>1, <1>2
<1>4. \A j \in 1..Len(list) : new[j] = IF j = 1 /\ i # 1 THEN b
                                       ELSE IF j = i THEN list[1] ELSE list[j]
  BY <1>1, <1>2
<1>5. new[1] = b
  BY <1>1, <1>2, <1>4
<1>6. Members(new) \subseteq Members(list)
  BY <1>1, <1>2, <1>3, <1>4 DEF Members
<1>7. Members(list) \subseteq Members(new)
  <2> SUFFICES ASSUME NEW j \in 1..Len(list)
               PROVE  \E k \in 1..Len(list) : new[k] = list[j]
    BY <1>3 DEF Members
  <2>1. CASE j = 1
    BY <2>1, <1>1, <1>2, <1>4
  <2>2. CASE j # 1 /\ j = i
    BY <2>2, <1>1, <1>2, <1>5
  <2>3. CASE j # 1 /\ j # i
    BY <2>3, <1>4
  <2> QED BY <2>1, <2>2, <2>3
<1>8. NoRepeats(new)
  BY <1>1, <1>2, <1>3, <1>4 DEF NoRepeats
<1>9. new # <<>>
  BY <1>2, <1>3
<1>10. ToFront(list, b) = new
  BY DEF ToFront, i
<1> QED BY <1>3, <1>5, <1>6, <1>7, <1>8, <1>9, <1>10

-----------------------------------------------------------------------------
(* Paths *)

\* The path of a stored block is the one that OnePath speaks of.
LEMMA PathFacts ==
    ASSUME NEW s, OnePath(s), NEW b \in Stored(s)
    PROVE  /\ Path(s, b) \in PathSet(s, b)
           /\ \A g \in PathSet(s, b) : g = Path(s, b)
           /\ \A h \in 1..s.height[b] : s.height[Path(s, b)[h]] = h
<1>1. PICK f \in PathSet(s, b) : /\ \A g \in PathSet(s, b) : g = f
                                 /\ \A h \in 1..s.height[b] : s.height[f[h]] = h
  BY DEF OnePath
<1>2. Path(s, b) \in PathSet(s, b)
  BY <1>1 DEF Path
<1> QED BY <1>1, <1>2

\* What the type and the two caches say of a stored block.
LEMMA TreeFacts ==
    ASSUME NEW s, Tree(s)
    PROVE  /\ \A b \in Stored(s) : b \in Blocks /\ s.height[b] \in Heights
           /\ \A b \in Stored(s) : s.height[b] = 1 => b = Genesis
           /\ \A b \in Stored(s) : s.height[b] # 1 => /\ b # Genesis
                                                      /\ s.header[b] \in Stored(s)
           /\ \A h \in Heights : s.byHeight[h] \in Seq(Blocks)
<1>1. /\ s.header \in [Blocks -> Blocks \cup {Zero, None}]
      /\ s.height \in [Blocks -> 0..MaxHeight]
      /\ s.byHeight \in [Heights -> Seq(Blocks)]
  BY DEF Tree, States
<1>2. \A b \in Stored(s) : b \in Blocks /\ s.height[b] # 0 /\ s.height[b] \in 0..MaxHeight
  BY <1>1 DEF Tree, Stored
<1>3. \A b \in Stored(s) : b \in Blocks /\ s.height[b] \in Heights
  BY <1>2, BoundAssumption DEF Heights
<1>4. ASSUME NEW b \in Stored(s), s.height[b] = 1
      PROVE  b = Genesis
  <2> SUFFICES ASSUME b # Genesis PROVE FALSE
    OBVIOUS
  <2>1. s.header[b] \in Stored(s) /\ s.height[b] = s.height[s.header[b]] + 1
    BY DEF Tree, HeightsFollowPrev
  <2> QED BY <1>3, <1>4, <2>1, BoundAssumption DEF Heights
<1>5. ASSUME NEW b \in Stored(s), s.height[b] # 1
      PROVE  b # Genesis /\ s.header[b] \in Stored(s)
  BY <1>5 DEF Tree, HeightsFollowPrev
<1> QED BY <1>1, <1>3, <1>4, <1>5

\* The first entries of the height lists are the path of the head.
LEMMA FrontsArePath ==
    ASSUME NEW s, Tree(s), FrontsFollowPrev(s)
    PROVE  \A h \in 1..s.headHeight : /\ s.byHeight[h][1] = Path(s, s.head)[h]
                                      /\ s.byHeight[h][1] \in Stored(s)
                                      /\ s.height[s.byHeight[h][1]] = h
<1> DEFINE f == [h \in 1..s.headHeight |-> s.byHeight[h][1]]
<1>1. s.head \in Stored(s) /\ s.headHeight = s.height[s.head] /\ s.headHeight \in Heights
  BY TreeFacts DEF FrontsFollowPrev
<1>2. ASSUME NEW h \in 1..s.headHeight
      PROVE  f[h] \in Stored(s) /\ s.height[f[h]] = h
  <2>1. h \in Heights
    BY <1>1, BoundAssumption DEF Heights
  <2>2. s.byHeight[h] \in Seq(Blocks) /\ s.byHeight[h] # <<>>
    BY <2>1, TreeFacts DEF FrontsFollowPrev
  <2>3. s.byHeight[h][1] \in Members(s.byHeight[h])
    <3>1. 1 \in 1..Len(s.byHeight[h])
      BY <2>2
    <3> QED BY <3>1 DEF Members
  <2> QED BY <2>1, <2>3 DEF Tree, ListsMatchHeights
<1>3. f \in [1..s.height[s.head] -> Stored(s)]
  BY <1>1, <1>2
<1>4. f[s.height[s.head]] = s.head
  BY <1>1, BoundAssumption DEF FrontsFollowPrev, Heights
<1>5. s.header[f[1]] = Zero
  <2>1. 1 \in 1..s.headHeight
    BY <1>1, BoundAssumption DEF Heights
  <2>2. f[1] \in Stored(s) /\ s.height[f[1]] = 1
    BY <1>2, <2>1
  <2>3. f[1] = Genesis
    BY <2>2, TreeFacts
  <2> QED BY <2>2, <2>3 DEF Tree, HeightsFollowPrev
<1>6. \A h \in 2..s.height[s.head] : s.header[f[h]] = f[h - 1]
  <2> SUFFICES ASSUME NEW h \in 2..s.headHeight
               PROVE  s.header[f[h]] = f[h - 1]
    BY <1>1
  <2>1. h \in 1..s.headHeight /\ h - 1 \in 1..s.headHeight
    BY <1>1, BoundAssumption DEF Heights
  <2> QED BY <2>1 DEF FrontsFollowPrev
<1>7. f \in PathSet(s, s.head)
  BY <1>3, <1>4, <1>5, <1>6 DEF PathSet, IsPath
<1>8. f = Path(s, s.head)
  BY <1>1, <1>7, PathFacts DEF Tree
<1> QED BY <1>2, <1>8

-----------------------------------------------------------------------------
(* Adding a block *)

\* What add_block leaves in each table.
LEMMA AddBlockFields ==
    ASSUME NEW s, Tree(s), FrontsFollowPrev(s),
           NEW b \in Blocks \ Stored(s), NEW p \in Stored(s), s.height[p] < MaxHeight
    PROVE  LET t == add_block(s, b, p)
               h == s.height[p] + 1
           IN /\ h \in Heights /\ h >= 2
              /\ t \in States
              /\ t.header = [s.header EXCEPT ![b] = p]
              /\ t.height = [s.height EXCEPT ![b] = h]
              /\ t.byHeight = [s.byHeight EXCEPT ![h] = Append(@, b)]
              /\ t.contra = s.contra /\ t.head = s.head /\ t.headHeight = s.headHeight
              /\ Stored(t) = Stored(s) \cup {b}
              /\ b \notin Members(s.byHeight[h])
<1> DEFINE t == add_block(s, b, p)
           h == s.height[p] + 1
<1>1. p \in Blocks /\ s.height[p] \in Heights /\ h \in Heights /\ h >= 2
  BY TreeFacts, BoundAssumption DEF Heights
<1>2. get_block_height(s, p) = s.height[p]
  BY DEF get_block_height, FrontsFollowPrev
<1>3. s \in States
  BY DEF Tree
<1>4. b \notin Members(s.byHeight[h])
  BY <1>1 DEF Tree, ListsMatchHeights
<1>6. Append(s.byHeight[h], b) \in Seq(Blocks)
  BY <1>1, TreeFacts, AppendFacts
<1>7. /\ t.header = [s.header EXCEPT ![b] = p]
      /\ t.height = [s.height EXCEPT ![b] = h]
      /\ t.byHeight = [s.byHeight EXCEPT ![h] = Append(@, b)]
      /\ t.contra = s.contra /\ t.head = s.head /\ t.headHeight = s.headHeight
  BY <1>1, <1>2, <1>3, <1>4 DEF States, add_block
<1>8. t \in States
  <2>1. /\ t.header \in [Blocks -> Blocks \cup {Zero, None}]
        /\ t.height \in [Blocks -> 0..MaxHeight]
        /\ t.byHeight \in [Heights -> Seq(Blocks)]
    <3>1. /\ s.header \in [Blocks -> Blocks \cup {Zero, None}]
          /\ s.height \in [Blocks -> 0..MaxHeight]
          /\ s.byHeight \in [Heights -> Seq(Blocks)]
      BY <1>3 DEF States
    <3>2. h \in 0..MaxHeight
      BY <1>1, BoundAssumption DEF Heights
    <3> HIDE DEF t, h
    <3>3. t.header \in [Blocks -> Blocks \cup {Zero, None}]
      BY <1>1, <1>7, <3>1
    <3>4. t.height \in [Blocks -> 0..MaxHeight]
      BY <1>1, <1>7, <3>1, <3>2
    <3>5. t.byHeight \in [Heights -> Seq(Blocks)]
      BY <1>1, <1>6, <1>7, <3>1
    <3> QED BY <3>3, <3>4, <3>5
  <2>2. t = [header |-> t.header, height |-> t.height, byHeight |-> t.byHeight,
             contra |-> s.contra, head |-> s.head, headHeight |-> s.headHeight]
    BY DEF add_block
  <2>3. s.contra \in SUBSET Blocks /\ s.head \in Blocks \cup {Zero} /\ s.headHeight \in 0..MaxHeight
    BY <1>3 DEF States
  <2> HIDE DEF t
  <2> QED BY <2>1, <2>2, <2>3 DEF States
<1>9. Stored(t) = Stored(s) \cup {b}
  <2>1. p # None
    BY <1>1, MarkerAssumption
  <2> QED BY <1>1, <1>3, <1>7, <2>1 DEF Stored, States
<1> QED BY <1>1, <1>4, <1>7, <1>8, <1>9

\* add_block keeps the tables of the tree in agreement.
LEMMA AddBlockTree ==
    ASSUME NEW s, Tree(s), FrontsFollowPrev(s),
           NEW b \in Blocks \ Stored(s), NEW p \in Stored(s), s.height[p] < MaxHeight
    PROVE  Tree(add_block(s, b, p))
<1> DEFINE t == add_block(s, b, p)
           h == s.height[p] + 1
<1>1. /\ h \in Heights /\ h >= 2
      /\ t \in States
      /\ t.header = [s.header EXCEPT ![b] = p]
      /\ t.height = [s.height EXCEPT ![b] = h]
      /\ t.byHeight = [s.byHeight EXCEPT ![h] = Append(@, b)]
      /\ Stored(t) = Stored(s) \cup {b}
      /\ b \notin Members(s.byHeight[h])
  BY AddBlockFields
<1>2. /\ s.header \in [Blocks -> Blocks \cup {Zero, None}]
      /\ s.height \in [Blocks -> 0..MaxHeight]
      /\ s.byHeight \in [Heights -> Seq(Blocks)]
      /\ Stored(s) \subseteq Blocks
      /\ b \in Blocks /\ b \notin Stored(s) /\ p # b
      /\ p \in Blocks /\ p # None
  BY MarkerAssumption DEF Tree, States, Stored
<1>3. \A c \in Stored(s) : t.header[c] = s.header[c] /\ t.height[c] = s.height[c]
  BY <1>1, <1>2
<1>4. t.header[b] = p /\ t.height[b] = h
  BY <1>1, <1>2
<1>5. s.height[p] \in Nat /\ h # 0 /\ h = s.height[p] + 1
  BY TreeFacts, <1>1, BoundAssumption DEF Heights
<1>6. \A c \in Stored(s) : s.header[c] # b
  BY <1>2, MarkerAssumption DEF Tree, HeightsFollowPrev
<1> HIDE DEF t, h
<1>7. \A c \in Blocks : t.header[c] = None <=> t.height[c] = 0
  <2>1. \A c \in Blocks \ {b} : t.header[c] = s.header[c] /\ t.height[c] = s.height[c]
    BY <1>1, <1>2
  <2> QED BY <1>2, <1>4, <1>5, <2>1 DEF Tree
<1>8. HeightsFollowPrev(t)
  <2> SUFFICES ASSUME NEW c \in Stored(s) \cup {b}
               PROVE  IF c = Genesis THEN t.header[c] = Zero /\ t.height[c] = 1
                      ELSE /\ t.header[c] \in Stored(t)
                           /\ t.height[c] = t.height[t.header[c]] + 1
    BY <1>1 DEF HeightsFollowPrev
  <2>1. CASE c = b
    <3>1. c # Genesis
      BY <2>1, <1>2 DEF Tree
    <3> QED BY <2>1, <3>1, <1>1, <1>3, <1>4, <1>5
  <2>2. CASE c \in Stored(s)
    BY <2>2, <1>1, <1>3 DEF Tree, HeightsFollowPrev
  <2> QED BY <2>1, <2>2
<1>9. ListsMatchHeights(t)
  <2> SUFFICES ASSUME NEW k \in Heights
               PROVE  /\ Members(t.byHeight[k]) = {c \in Stored(t) : t.height[c] = k}
                      /\ NoRepeats(t.byHeight[k])
    BY DEF ListsMatchHeights
  <2>1. /\ Members(s.byHeight[k]) = {c \in Stored(s) : s.height[c] = k}
        /\ NoRepeats(s.byHeight[k])
        /\ s.byHeight[k] \in Seq(Blocks)
    BY <1>2 DEF Tree, ListsMatchHeights
  <2>2. CASE k = h
    <3>1. t.byHeight[k] = Append(s.byHeight[k], b)
      BY <2>2, <1>1, <1>2
    <3>2. /\ Members(t.byHeight[k]) = Members(s.byHeight[k]) \cup {b}
          /\ NoRepeats(t.byHeight[k])
      BY <2>1, <2>2, <3>1, <1>1, <1>2, AppendFacts
    <3> QED BY <2>1, <2>2, <3>2, <1>1, <1>3, <1>4
  <2>3. CASE k # h
    <3>1. t.byHeight[k] = s.byHeight[k]
      BY <2>3, <1>1, <1>2
    <3> QED BY <2>1, <2>3, <3>1, <1>1, <1>3, <1>4
  <2> QED BY <2>2, <2>3
<1>10. ASSUME NEW c \in Stored(t), NEW g \in PathSet(t, c), NEW k \in 1..t.height[c], k # t.height[c]
       PROVE  g[k] # b /\ g[k] \in Stored(s)
  <2>1. t.height[c] \in Nat
    BY <1>1, <1>2, <1>3, <1>4, <1>5, TreeFacts, BoundAssumption DEF Heights
  <2>2. k + 1 \in 2..t.height[c] /\ (k + 1) - 1 = k /\ k + 1 \in 1..t.height[c]
    BY <1>10, <2>1
  <2>3. /\ g \in [1..t.height[c] -> Stored(t)]
        /\ \A j \in 2..t.height[c] : t.header[g[j]] = g[j - 1]
    BY DEF PathSet, IsPath
  <2>4. t.header[g[k + 1]] = g[k] /\ g[k + 1] \in Stored(s) \cup {b} /\ g[k] \in Stored(s) \cup {b}
    BY <1>1, <2>2, <2>3
  <2>5. g[k] # b
    BY <2>4, <1>2, <1>3, <1>4, <1>6
  <2> QED BY <2>4, <2>5
<1>11. ASSUME NEW c \in Stored(s)
       PROVE  PathSet(t, c) = PathSet(s, c)
  <2>1. c # b /\ c \in Stored(t) /\ t.height[c] = s.height[c] /\ s.height[c] \in Heights
    BY <1>1, <1>2, <1>3, TreeFacts
  <2>2. ASSUME NEW f \in PathSet(s, c)
        PROVE  f \in PathSet(t, c)
    <3>1. f \in [1..s.height[c] -> Stored(s)] /\ IsPath(s, c, f)
      BY DEF PathSet
    <3>2. f \in [1..t.height[c] -> Stored(t)]
      BY <3>1, <2>1, <1>1
    <3>3. \A j \in 1..s.height[c] : t.header[f[j]] = s.header[f[j]]
      BY <3>1, <1>3
    <3>4. IsPath(t, c, f)
      BY <3>1, <3>3, <2>1, BoundAssumption DEF IsPath, Heights
    <3> QED BY <3>2, <3>4 DEF PathSet
  <2>3. ASSUME NEW f \in PathSet(t, c)
        PROVE  f \in PathSet(s, c)
    <3>1. f \in [1..t.height[c] -> Stored(t)] /\ IsPath(t, c, f)
      BY DEF PathSet
    <3>2. f[s.height[c]] = c
      BY <3>1, <2>1 DEF IsPath
    <3>3. \A j \in 1..s.height[c] : f[j] \in Stored(s)
      BY <1>10, <2>1, <2>3, <3>2
    <3>4. f \in [1..s.height[c] -> Stored(s)]
      BY <3>1, <3>3, <2>1
    <3>5. \A j \in 1..s.height[c] : t.header[f[j]] = s.header[f[j]]
      BY <3>3, <1>3
    <3>6. IsPath(s, c, f)
      BY <3>1, <3>2, <3>5, <2>1, BoundAssumption DEF IsPath, Heights
    <3> QED BY <3>4, <3>6 DEF PathSet
  <2> QED BY <2>2, <2>3
<1>12. ASSUME NEW c \in Stored(s)
       PROVE  \E f \in PathSet(t, c) : /\ \A g \in PathSet(t, c) : g = f
                                       /\ \A k \in 1..t.height[c] : t.height[f[k]] = k
  <2>1. PICK f \in PathSet(s, c) : /\ \A g \in PathSet(s, c) : g = f
                                   /\ \A k \in 1..s.height[c] : s.height[f[k]] = k
    BY DEF Tree, OnePath
  <2>2. f \in [1..s.height[c] -> Stored(s)]
    BY <2>1 DEF PathSet
  <2>3. \A k \in 1..t.height[c] : t.height[f[k]] = k
    BY <2>1, <2>2, <1>3
  <2> QED BY <2>1, <2>3, <1>11
<1>13. \E f \in PathSet(t, b) : /\ \A g \in PathSet(t, b) : g = f
                                /\ \A k \in 1..t.height[b] : t.height[f[k]] = k
  <2>1. PICK e \in PathSet(s, p) : /\ \A g \in PathSet(s, p) : g = e
                                   /\ \A k \in 1..s.height[p] : s.height[e[k]] = k
    BY DEF Tree, OnePath
  <2>2. e \in [1..s.height[p] -> Stored(s)] /\ IsPath(s, p, e)
    BY <2>1 DEF PathSet
  <2>3. s.height[p] \in Nat /\ s.height[p] >= 1 /\ h = s.height[p] + 1 /\ t.height[b] = h
    BY <1>1, <1>4, <1>5
  <2> DEFINE f == [k \in 1..h |-> IF k = h THEN b ELSE e[k]]
             n == s.height[p]
  <2>4. \A k \in 1..n : f[k] = e[k] /\ e[k] \in Stored(s)
    BY <2>2, <2>3
  <2>5. f[h] = b
    BY <2>3
  <2>6. f \in [1..h -> Stored(t)]
    BY <2>2, <2>3, <1>1
  <2>7. IsPath(t, b, f)
    <3>1. f[t.height[b]] = b
      BY <2>3, <2>5
    <3>2. t.header[f[1]] = Zero
      BY <2>2, <2>3, <2>4, <1>3 DEF IsPath
    <3>3. ASSUME NEW k \in 2..h
          PROVE  t.header[f[k]] = f[k - 1]
      <4>1. CASE k = h
        <5>1. k - 1 = n /\ n \in 1..n
          BY <4>1, <2>3
        <5>2. f[n] = e[n] /\ e[n] = p
          BY <5>1, <2>2, <2>4 DEF IsPath
        <5> QED BY <4>1, <5>1, <5>2, <2>5, <1>4
      <4>2. CASE k # h
        <5>1. k \in 2..n /\ k \in 1..n /\ k - 1 \in 1..n
          BY <4>2, <2>3
        <5>2. s.header[e[k]] = e[k - 1]
          BY <5>1, <2>2 DEF IsPath
        <5> QED BY <5>1, <5>2, <2>4, <1>3
      <4> QED BY <4>1, <4>2
    <3> QED BY <3>1, <3>2, <3>3, <2>3 DEF IsPath
  <2>8. f \in PathSet(t, b)
    BY <2>3, <2>6, <2>7 DEF PathSet
  <2>9. ASSUME NEW g \in PathSet(t, b)
        PROVE  g = f
    <3>1. g \in [1..h -> Stored(t)] /\ IsPath(t, b, g)
      BY <2>3 DEF PathSet
    <3>2. g[h] = b /\ t.header[g[h]] = g[h - 1] /\ h - 1 = n
      BY <3>1, <2>3 DEF IsPath
    <3>3. \A k \in 1..n : g[k] \in Stored(s)
      BY <1>1, <1>10, <2>3
    <3> DEFINE r == [k \in 1..n |-> g[k]]
    <3>4. r \in [1..s.height[p] -> Stored(s)]
      BY <3>3
    <3>5. IsPath(s, p, r)
      <4>1. r[s.height[p]] = p
        BY <3>2, <2>3, <1>4
      <4>2. s.header[r[1]] = Zero
        <5>1. r[1] = g[1] /\ g[1] \in Stored(s)
          BY <3>3, <2>3
        <5> QED BY <5>1, <3>1, <1>3 DEF IsPath
      <4>3. ASSUME NEW k \in 2..n
            PROVE  s.header[r[k]] = r[k - 1]
        <5>1. k \in 1..n /\ k - 1 \in 1..n /\ k \in 2..h
          BY <2>3
        <5>2. t.header[g[k]] = g[k - 1]
          BY <5>1, <3>1, <2>3 DEF IsPath
        <5> QED BY <5>1, <5>2, <3>3, <1>3
      <4> QED BY <4>1, <4>2, <4>3 DEF IsPath
    <3>6. r = e
      BY <3>4, <3>5, <2>1 DEF PathSet
    <3>7. \A k \in 1..h : g[k] = f[k]
      BY <3>2, <3>6, <2>3, <2>4, <2>5
    <3> QED BY <3>1, <3>7, <2>6
  <2>10. \A k \in 1..t.height[b] : t.height[f[k]] = k
    <3>1. \A k \in 1..n : t.height[f[k]] = k
      BY <2>1, <2>4, <1>3
    <3> QED BY <3>1, <2>3, <2>5, SMTT(30)
  <2> QED BY <2>8, <2>9, <2>10
<1>14. OnePath(t)
  BY <1>1, <1>12, <1>13 DEF OnePath
<1>15. Genesis \in Stored(t)
  BY <1>1 DEF Tree
<1> QED BY <1>1, <1>7, <1>8, <1>9, <1>14, <1>15 DEF Tree, t

\* add_block moves no first entry of a list up to the head.
LEMMA AddBlockFronts ==
    ASSUME NEW s, Tree(s), FrontsFollowPrev(s),
           NEW b \in Blocks \ Stored(s), NEW p \in Stored(s), s.height[p] < MaxHeight
    PROVE  FrontsFollowPrev(add_block(s, b, p))
<1> DEFINE t == add_block(s, b, p)
           h == s.height[p] + 1
<1>1. /\ h \in Heights
      /\ t.header = [s.header EXCEPT ![b] = p]
      /\ t.height = [s.height EXCEPT ![b] = h]
      /\ t.byHeight = [s.byHeight EXCEPT ![h] = Append(@, b)]
      /\ t.contra = s.contra /\ t.head = s.head /\ t.headHeight = s.headHeight
      /\ Stored(t) = Stored(s) \cup {b}
  BY AddBlockFields
<1>2. /\ s.header \in [Blocks -> Blocks \cup {Zero, None}]
      /\ s.height \in [Blocks -> 0..MaxHeight]
      /\ s.byHeight \in [Heights -> Seq(Blocks)]
      /\ b \in Blocks /\ b \notin Stored(s)
  BY DEF Tree, States
<1>3. s.head \in Stored(s) /\ s.head \in Blocks /\ s.headHeight = s.height[s.head] /\ s.headHeight \in Heights
  BY TreeFacts DEF FrontsFollowPrev
<1> HIDE DEF t, h
<1>4. ASSUME NEW k \in 1..s.headHeight
      PROVE  /\ t.byHeight[k] # <<>>
             /\ t.byHeight[k][1] = s.byHeight[k][1]
             /\ s.byHeight[k][1] \in Stored(s)
             /\ t.header[s.byHeight[k][1]] = s.header[s.byHeight[k][1]]
  <2>1. k \in Heights
    BY <1>3, BoundAssumption DEF Heights
  <2>2. s.byHeight[k] # <<>> /\ s.byHeight[k] \in Seq(Blocks)
    BY <2>1, <1>2 DEF FrontsFollowPrev
  <2>3. t.byHeight[k] = s.byHeight[k] \/ t.byHeight[k] = Append(s.byHeight[k], b)
    BY <2>1, <1>1, <1>2
  <2>4. t.byHeight[k] # <<>> /\ t.byHeight[k][1] = s.byHeight[k][1]
    BY <2>2, <2>3, <1>2, AppendFacts
  <2>5. s.byHeight[k][1] \in Stored(s)
    BY FrontsArePath
  <2> QED BY <2>4, <2>5, <1>1, <1>2 DEF Stored
<1>5. t.head \in Stored(t) /\ t.headHeight = t.height[t.head]
  BY <1>1, <1>2, <1>3
<1>6. t.byHeight[t.headHeight][1] = t.head
  BY <1>1, <1>3, <1>4, BoundAssumption DEF FrontsFollowPrev, Heights
<1>7. ASSUME NEW k \in 2..t.headHeight
      PROVE  t.header[t.byHeight[k][1]] = t.byHeight[k - 1][1] /\ t.byHeight[k][1] \in t.contra
  <2>1. k \in 1..s.headHeight /\ k - 1 \in 1..s.headHeight /\ k \in 2..s.headHeight
    BY <1>1, <1>3, BoundAssumption DEF Heights
  <2> QED BY <2>1, <1>1, <1>4 DEF FrontsFollowPrev
<1> QED BY <1>1, <1>4, <1>5, <1>6, <1>7 DEF FrontsFollowPrev, t

-----------------------------------------------------------------------------
(* Walking to another block *)

\* walk leaves a tree whose first entries are the path of the block walked to.
LEMMA WalkFacts ==
    ASSUME NEW s, Tree(s), FrontsFollowPrev(s), NEW b \in Stored(s)
    PROVE  /\ Tree(walk(s, b))
           /\ FrontsFollowPrev(walk(s, b))
           /\ walk(s, b).header = s.header /\ walk(s, b).height = s.height
           /\ walk(s, b).head = b /\ walk(s, b).headHeight = s.height[b]
<1> DEFINE t == walk(s, b)
           up == Up(s, s.head, b)
           to == Path(s, b)
<1>1. /\ s.header \in [Blocks -> Blocks \cup {Zero, None}]
      /\ s.height \in [Blocks -> 0..MaxHeight]
      /\ s.byHeight \in [Heights -> Seq(Blocks)]
      /\ s.contra \subseteq Blocks
      /\ b \in Blocks /\ s.height[b] \in Heights
      /\ s.height[b] \in 0..MaxHeight
  BY TreeFacts DEF Tree, States
<1>2. /\ t = [header |-> s.header, height |-> s.height, byHeight |-> t.byHeight,
              contra |-> t.contra, head |-> b, headHeight |-> s.height[b]]
      /\ t.header = s.header /\ t.height = s.height
      /\ t.head = b /\ t.headHeight = s.height[b]
      /\ t.contra = s.contra \cup {to[h] : h \in up}
      /\ t.byHeight = [h \in Heights |-> IF h \in up THEN ToFront(s.byHeight[h], to[h])
                                         ELSE s.byHeight[h]]
  BY DEF walk
<1>3. /\ to \in PathSet(s, b)
      /\ \A h \in 1..s.height[b] : s.height[to[h]] = h
  BY PathFacts DEF Tree
<1>4. to \in [1..s.height[b] -> Stored(s)] /\ IsPath(s, b, to)
  BY <1>3 DEF PathSet
<1>5. up \subseteq 1..s.height[b] /\ up \subseteq Heights
  BY <1>1, BoundAssumption DEF Up, Heights
<1>6. Stored(t) = Stored(s)
  BY <1>2 DEF Stored
<1>7. s.head \in Stored(s) /\ s.headHeight = s.height[s.head] /\ s.headHeight \in Heights
  BY TreeFacts DEF FrontsFollowPrev
<1>8. ASSUME NEW h \in 1..s.height[b], h \notin up
      PROVE  h \in 1..s.headHeight /\ s.byHeight[h][1] = to[h]
  <2>1. h \in Shared(s, s.head, b)
    BY <1>8 DEF Up
  <2>2. h <= s.height[s.head] /\ Path(s, s.head)[h] = to[h]
    BY <2>1 DEF Shared
  <2>3. h \in 1..s.headHeight
    BY <2>2, <1>1, <1>7, BoundAssumption DEF Heights
  <2> QED BY <2>2, <2>3, FrontsArePath
<1> HIDE DEF t, up, to
<1>9. ASSUME NEW h \in Heights
      PROVE  /\ t.byHeight[h] \in Seq(Blocks)
             /\ Members(t.byHeight[h]) = Members(s.byHeight[h])
             /\ NoRepeats(t.byHeight[h])
             /\ h \in up => t.byHeight[h] # <<>> /\ t.byHeight[h][1] = to[h]
  <2>1. /\ s.byHeight[h] \in Seq(Blocks) /\ NoRepeats(s.byHeight[h])
        /\ Members(s.byHeight[h]) = {c \in Stored(s) : s.height[c] = h}
    BY <1>1 DEF Tree, ListsMatchHeights
  <2>2. CASE h \in up
    <3>1. to[h] \in Members(s.byHeight[h])
      BY <2>1, <2>2, <1>3, <1>4, <1>5
    <3>2. t.byHeight[h] = ToFront(s.byHeight[h], to[h])
      BY <2>2, <1>2
    <3> QED BY <2>1, <2>2, <3>1, <3>2, ToFrontFacts
  <2>3. CASE h \notin up
    BY <2>1, <2>3, <1>2
  <2> QED BY <2>2, <2>3
<1>10. t \in States
  <2>1. t.contra \subseteq Blocks
    <3>1. \A h \in up : to[h] \in Blocks
      BY <1>4, <1>5 DEF Stored
    <3> QED BY <1>1, <1>2, <3>1
  <2>2. t.byHeight \in [Heights -> Seq(Blocks)]
    <3>1. t.byHeight = [h \in Heights |-> t.byHeight[h]]
      BY <1>2
    <3> QED BY <1>9, <3>1
  <2> QED BY <1>1, <1>2, <2>1, <2>2 DEF States
<1>11. Tree(t)
  <2>1. ListsMatchHeights(t)
    BY <1>2, <1>6, <1>9 DEF Tree, ListsMatchHeights
  <2>2. HeightsFollowPrev(t)
    BY <1>2, <1>6 DEF Tree, HeightsFollowPrev
  <2>3. \A c \in Stored(s) : PathSet(t, c) = PathSet(s, c)
    BY <1>2, <1>6 DEF PathSet, IsPath
  <2>4. OnePath(t)
    BY <1>2, <1>6, <2>3 DEF Tree, OnePath
  <2> QED BY <1>2, <1>6, <1>10, <2>1, <2>2, <2>4 DEF Tree
<1>12. ASSUME NEW h \in 1..s.height[b]
       PROVE  t.byHeight[h] # <<>> /\ t.byHeight[h][1] = to[h] /\ (h # 1 => to[h] \in t.contra)
  <2>1. h \in Heights
    BY <1>1, BoundAssumption DEF Heights
  <2>2. CASE h \in up
    BY <2>1, <2>2, <1>2, <1>9
  <2>3. CASE h \notin up
    <3>1. h \in 1..s.headHeight /\ s.byHeight[h][1] = to[h]
      BY <2>3, <1>8
    <3>2. t.byHeight[h] = s.byHeight[h]
      BY <2>1, <2>3, <1>2
    <3>3. h # 1 => h \in 2..s.headHeight
      BY <3>1, <1>7, BoundAssumption DEF Heights
    <3> QED BY <3>1, <3>2, <3>3, <1>2 DEF FrontsFollowPrev
  <2> QED BY <2>2, <2>3
<1>13. FrontsFollowPrev(t)
  <2>1. t.byHeight[s.height[b]][1] = b
    BY <1>1, <1>4, <1>12, BoundAssumption DEF IsPath, Heights
  <2>2. ASSUME NEW h \in 2..s.height[b]
        PROVE  s.header[t.byHeight[h][1]] = t.byHeight[h - 1][1] /\ t.byHeight[h][1] \in t.contra
    <3>1. h \in 1..s.height[b] /\ h - 1 \in 1..s.height[b] /\ h # 1
      BY <1>1, BoundAssumption DEF Heights
    <3> QED BY <3>1, <1>4, <1>12 DEF IsPath
  <2> QED BY <1>2, <1>6, <1>12, <2>1, <2>2 DEF FrontsFollowPrev
<1> QED BY <1>2, <1>11, <1>13 DEF t

\* After one block was added, the head to walk to is that block when it is
\* above the head, and the head itself otherwise.
LEMMA FindChainHead ==
    ASSUME NEW s, Tree(s), FrontsFollowPrev(s), Highest(s),
           NEW b \in Blocks \ Stored(s), NEW p \in Stored(s), s.height[p] < MaxHeight
    PROVE  find_chain_head(add_block(s, b, p)) =
             IF s.height[p] = s.headHeight THEN b ELSE s.head
<1> DEFINE t == add_block(s, b, p)
           h == s.height[p] + 1
           known(k) == \A j \in (t.headHeight + 1)..k : t.byHeight[j] # <<>>
           isTop(k) == known(k) /\ (k < MaxHeight => t.byHeight[k + 1] = <<>>)
           top == CHOOSE k \in t.headHeight..MaxHeight : isTop(k)
<1>2. /\ h \in Heights /\ h >= 2
      /\ t \in States
      /\ t.header = [s.header EXCEPT ![b] = p]
      /\ t.height = [s.height EXCEPT ![b] = h]
      /\ t.byHeight = [s.byHeight EXCEPT ![h] = Append(@, b)]
      /\ t.contra = s.contra /\ t.head = s.head /\ t.headHeight = s.headHeight
      /\ Stored(t) = Stored(s) \cup {b}
      /\ b \notin Members(s.byHeight[h])
  BY AddBlockFields
<1>3. /\ s.byHeight \in [Heights -> Seq(Blocks)]
      /\ s.headHeight \in Heights
      /\ s.height[p] \in Heights /\ s.height[p] <= s.headHeight
  BY TreeFacts DEF Tree, States, FrontsFollowPrev, Highest
<1>4. ASSUME NEW k \in Heights, k > s.headHeight
      PROVE  s.byHeight[k] = <<>>
  <2>1. Members(s.byHeight[k]) = {c \in Stored(s) : s.height[c] = k}
    BY DEF Tree, ListsMatchHeights
  <2>2. Members(s.byHeight[k]) = {}
    BY <1>3, <1>4, <2>1, BoundAssumption DEF Highest, Heights
  <2>3. s.byHeight[k] \in Seq(Blocks)
    BY <1>3
  <2> QED
    <3> SUFFICES ASSUME s.byHeight[k] # <<>> PROVE FALSE
      OBVIOUS
    <3>1. 1 \in 1..Len(s.byHeight[k])
      BY <2>3
    <3> QED BY <2>2, <3>1 DEF Members
<1>5. s.headHeight \in Nat /\ MaxHeight \in Nat /\ s.headHeight <= MaxHeight /\ s.headHeight >= 1 /\ h \in Nat
  BY <1>2, <1>3, BoundAssumption DEF Heights
<1>6. find_chain_head(t) = IF top = t.headHeight THEN t.head
                           ELSE get_current_block_of_height(t, top)
  BY DEF find_chain_head
<1> HIDE DEF t, h
<1>7. CASE s.height[p] = s.headHeight
  <2>1. h = s.headHeight + 1 /\ h <= MaxHeight
    BY <1>2, <1>5, <1>7, BoundAssumption DEF h, Heights
  <2>2. t.byHeight[h] = Append(<<>>, b)
    <3>1. s.byHeight[h] = <<>>
      BY <1>2, <1>4, <1>5, <2>1
    <3> QED BY <1>2, <1>3, <3>1
  <2>3. t.byHeight[h] # <<>> /\ t.byHeight[h][1] = b
    BY <2>2, AppendFacts
  <2>4. \A k \in Heights : k > h => t.byHeight[k] = <<>>
    <3> TAKE k \in Heights
    <3> HAVE k > h
    <3>1. k # h /\ k > s.headHeight /\ k \in Nat
      BY <1>5, <2>1, BoundAssumption DEF Heights
    <3> QED BY <1>2, <1>3, <1>4, <3>1
  <2>5. isTop(h) /\ h \in t.headHeight..MaxHeight
    BY <1>2, <1>5, <2>1, <2>3, <2>4, BoundAssumption DEF Heights
  <2>6. ASSUME NEW k \in t.headHeight..MaxHeight, isTop(k)
        PROVE  k = h
    <3>1. k # s.headHeight
      BY <1>2, <1>5, <2>1, <2>3, <2>6
    <3>2. ~(k > h)
      <4> SUFFICES ASSUME k > h PROVE FALSE
        OBVIOUS
      <4>1. k \in Heights /\ k \in (t.headHeight + 1)..k
        BY <1>2, <1>5, <2>1, BoundAssumption DEF Heights
      <4> QED BY <2>4, <2>6, <4>1
    <3> QED BY <1>2, <1>5, <2>1, <3>1, <3>2
  <2>7. top = h
    BY <2>5, <2>6
  <2> HIDE DEF top
  <2> QED BY <1>2, <1>5, <1>6, <1>7, <2>1, <2>3, <2>7 DEF get_current_block_of_height, t
<1>8. CASE s.height[p] # s.headHeight
  <2>1. h <= s.headHeight
    BY <1>3, <1>5, <1>8, BoundAssumption DEF h, Heights
  <2>2. \A k \in Heights : k > s.headHeight => t.byHeight[k] = <<>>
    <3> TAKE k \in Heights
    <3> HAVE k > s.headHeight
    <3>1. k # h
      BY <1>5, <2>1, BoundAssumption DEF Heights
    <3> QED BY <1>2, <1>3, <1>4, <3>1
  <2>3. isTop(s.headHeight) /\ s.headHeight \in t.headHeight..MaxHeight
    BY <1>2, <1>5, <2>2, BoundAssumption DEF Heights
  <2>4. ASSUME NEW k \in t.headHeight..MaxHeight, isTop(k)
        PROVE  k = s.headHeight
    <3> SUFFICES ASSUME k > s.headHeight PROVE FALSE
      BY <1>2, <1>5
    <3>1. k \in Heights /\ k \in (t.headHeight + 1)..k
      BY <1>2, <1>5, BoundAssumption DEF Heights
    <3> QED BY <2>2, <2>4, <3>1
  <2>5. top = s.headHeight
    BY <2>3, <2>4
  <2> HIDE DEF top
  <2> QED BY <1>2, <1>6, <1>8, <2>5 DEF t
<1> QED BY <1>7, <1>8

\* Adding a block and walking to the head takes a consistent database to a
\* consistent one that has the block and keeps all others; the head stays or
\* moves to the new block, which then is strictly higher.
LEMMA AddAndWalk ==
    ASSUME NEW s, Opened(s), NEW b \in Blocks \ Stored(s), NEW p \in Blocks \cup {Zero},
           HasHeight(s, p), get_block_height(s, p) < MaxHeight
    PROVE  LET t == walk_to_head(add_block(s, b, p)) IN
           /\ Opened(t)
           /\ t.header = [s.header EXCEPT ![b] = p]
           /\ \A c \in Stored(s) : t.height[c] = s.height[c]
           /\ Stored(t) = Stored(s) \cup {b}
           /\ \/ t.head = s.head /\ t.headHeight = s.headHeight
              \/ t.head = b /\ t.headHeight > s.headHeight
<1>1. Tree(s) /\ FrontsFollowPrev(s) /\ Highest(s) /\ s \in States
  BY DEF Opened, Tree
<1>2. p \in Stored(s) /\ s.height[p] < MaxHeight /\ s.head # Zero
  <2>1. s.head \in Stored(s) /\ s.head \in Blocks /\ s.headHeight = s.height[s.head]
    BY <1>1 DEF FrontsFollowPrev, Stored
  <2>2. s.head # Zero
    BY <2>1, MarkerAssumption
  <2>3. p \in Blocks => (s.height[p] # 0 => p \in Stored(s))
    BY <1>1 DEF Tree, Stored
  <2> QED BY <2>1, <2>2, <2>3 DEF HasHeight, get_block_height
<1> DEFINE a == add_block(s, b, p)
           c == find_chain_head(a)
           t == walk(a, c)
<1>3. LET h == s.height[p] + 1
      IN /\ h \in Heights /\ h >= 2
         /\ a \in States
         /\ a.header = [s.header EXCEPT ![b] = p]
         /\ a.height = [s.height EXCEPT ![b] = h]
         /\ a.byHeight = [s.byHeight EXCEPT ![h] = Append(@, b)]
         /\ a.contra = s.contra /\ a.head = s.head /\ a.headHeight = s.headHeight
         /\ Stored(a) = Stored(s) \cup {b}
         /\ b \notin Members(s.byHeight[h])
  BY <1>1, <1>2, AddBlockFields
<1>4. Tree(a)
  BY <1>1, <1>2, AddBlockTree
<1>5. FrontsFollowPrev(a)
  BY <1>1, <1>2, AddBlockFronts
<1>6. c = IF s.height[p] = s.headHeight THEN b ELSE s.head
  BY <1>1, <1>2, FindChainHead
<1>7. walk_to_head(a) = t
  BY <1>2, <1>3 DEF walk_to_head
<1> HIDE DEF a, c
<1>8. c \in Stored(a)
  BY <1>1, <1>3, <1>6 DEF FrontsFollowPrev
<1>9. /\ Tree(t) /\ FrontsFollowPrev(t)
      /\ t.header = a.header /\ t.height = a.height
      /\ t.head = c /\ t.headHeight = a.height[c]
  BY <1>4, <1>5, <1>8, WalkFacts
<1> HIDE DEF t
<1>10. Stored(t) = Stored(s) \cup {b}
  BY <1>3, <1>9 DEF Stored
<1>11. \A d \in Stored(s) : /\ d \in Blocks /\ d # b
                            /\ a.height[d] = s.height[d]
                            /\ s.height[d] \in Nat
                            /\ s.height[d] <= s.headHeight
  <2>1. s.height \in [Blocks -> 0..MaxHeight]
    BY <1>1 DEF States
  <2>2. \A d \in Stored(s) : d \in Blocks /\ d # b
    BY DEF Stored
  <2> QED BY <1>1, <1>3, <2>1, <2>2, BoundAssumption DEF Highest
<1>12. a.height[b] = s.height[p] + 1
  BY <1>1, <1>3 DEF States
<1>13. s.head \in Stored(s) /\ s.headHeight = s.height[s.head]
  BY <1>1 DEF FrontsFollowPrev
<1>14. \/ t.head = s.head /\ t.headHeight = s.headHeight /\ s.height[p] # s.headHeight
       \/ t.head = b /\ t.headHeight = s.headHeight + 1 /\ s.height[p] = s.headHeight
  BY <1>6, <1>9, <1>11, <1>12, <1>13
<1>15. Highest(t)
  <2> SUFFICES ASSUME NEW d \in Stored(s) \cup {b}
               PROVE  a.height[d] <= t.headHeight
    BY <1>9, <1>10 DEF Highest
  <2>1. s.height[p] <= s.headHeight /\ s.height[p] \in Nat /\ s.headHeight \in Nat
    BY <1>2, <1>11, <1>13
  <2> QED BY <1>11, <1>12, <1>14, <2>1
<1>16. \/ t.head = s.head /\ t.headHeight = s.headHeight
       \/ t.head = b /\ t.headHeight > s.headHeight
  BY <1>11, <1>13, <1>14
<1>17. \A d \in Stored(s) : t.height[d] = s.height[d]
  BY <1>9, <1>11
<1> QED BY <1>3, <1>7, <1>9, <1>10, <1>15, <1>16, <1>17 DEF Opened, a

-----------------------------------------------------------------------------
(* The invariant *)

\* Opening an empty database leaves the consistent database of genesis alone.
LEMMA OpenEmpty ==
    /\ Opened(walk_to_head(add_block(EmptyDB, Genesis, Zero)))
    /\ walk_to_head(add_block(EmptyDB, Genesis, Zero)).headHeight = 1
    /\ walk_to_head(add_block(EmptyDB, Genesis, Zero)).head = Genesis
    /\ walk_to_head(add_block(EmptyDB, Genesis, Zero)).header
         = [b \in Blocks |-> IF b = Genesis THEN Zero ELSE None]
    /\ walk_to_head(add_block(EmptyDB, Genesis, Zero)).height
         = [b \in Blocks |-> IF b = Genesis THEN 1 ELSE 0]
<1> DEFINE a == add_block(EmptyDB, Genesis, Zero)
           t == walk_to_head(a)
<1>1. 1 \in Heights /\ MaxHeight \in Nat
  BY BoundAssumption DEF Heights
<1>2. Members(<<>>) = {}
  BY DEF Members
<1>3. a = [header |-> [b \in Blocks |-> IF b = Genesis THEN Zero ELSE None],
           height |-> [b \in Blocks |-> IF b = Genesis THEN 1 ELSE 0],
           byHeight |-> [h \in Heights |-> IF h = 1 THEN <<Genesis>> ELSE <<>>],
           contra |-> {}, head |-> Zero, headHeight |-> 0]
  <2>1. get_block_height(EmptyDB, Zero) + 1 = 1
    BY DEF EmptyDB, get_block_height
  <2>2. [EmptyDB.header EXCEPT ![Genesis] = Zero] = [b \in Blocks |-> IF b = Genesis THEN Zero ELSE None]
    BY GenesisAssumption DEF EmptyDB
  <2>3. [EmptyDB.height EXCEPT ![Genesis] = 1] = [b \in Blocks |-> IF b = Genesis THEN 1 ELSE 0]
    BY GenesisAssumption DEF EmptyDB
  <2>4. EmptyDB.byHeight[1] = <<>> /\ Append(<<>>, Genesis) = <<Genesis>>
    BY <1>1 DEF EmptyDB
  <2>5. [EmptyDB.byHeight EXCEPT ![1] = <<Genesis>>]
          = [h \in Heights |-> IF h = 1 THEN <<Genesis>> ELSE <<>>]
    BY <1>1 DEF EmptyDB
  <2>6. EmptyDB.contra = {} /\ EmptyDB.head = Zero /\ EmptyDB.headHeight = 0
    BY DEF EmptyDB
  <2> QED BY <1>2, <2>1, <2>2, <2>3, <2>4, <2>5, <2>6, ZenonT(30) DEF add_block
<1>4. a.head = Zero /\ a.byHeight[1] = <<Genesis>> /\ <<Genesis>>[1] = Genesis
  BY <1>1, <1>3
<1>5. t = [header |-> [b \in Blocks |-> IF b = Genesis THEN Zero ELSE None],
           height |-> [b \in Blocks |-> IF b = Genesis THEN 1 ELSE 0],
           byHeight |-> [h \in Heights |-> IF h = 1 THEN <<Genesis>> ELSE <<>>],
           contra |-> {}, head |-> Genesis, headHeight |-> 1]
  <2>1. a.header = [b \in Blocks |-> IF b = Genesis THEN Zero ELSE None]
        /\ a.height = [b \in Blocks |-> IF b = Genesis THEN 1 ELSE 0]
        /\ a.byHeight = [h \in Heights |-> IF h = 1 THEN <<Genesis>> ELSE <<>>]
        /\ a.contra = {}
    BY <1>3
  <2>2. get_current_block_of_height(a, 1) = Genesis
    BY <1>4 DEF get_current_block_of_height
  <2> HIDE DEF a
  <2>3. t = [header |-> a.header, height |-> a.height, byHeight |-> a.byHeight,
             contra |-> a.contra, head |-> get_current_block_of_height(a, 1), headHeight |-> 1]
    BY <1>4, Zenon DEF walk_to_head
  <2> HIDE DEF t
  <2> QED BY <2>1, <2>2, <2>3, Zenon
<1> HIDE DEF a, t
<1>6. t \in States
  <2>1. \A h \in Heights : (IF h = 1 THEN <<Genesis>> ELSE <<>>) \in Seq(Blocks)
    BY GenesisAssumption
  <2> QED BY <1>1, <1>5, <2>1, GenesisAssumption DEF States, Heights
<1>7. Stored(t) = {Genesis} /\ t.header[Genesis] = Zero /\ t.height[Genesis] = 1
  BY <1>5, GenesisAssumption, MarkerAssumption DEF Stored
<1>8. \A b \in Blocks : t.header[b] = None <=> t.height[b] = 0
  BY <1>5, MarkerAssumption
<1>9. HeightsFollowPrev(t)
  BY <1>7 DEF HeightsFollowPrev
<1>10. ListsMatchHeights(t)
  <2> SUFFICES ASSUME NEW h \in Heights
               PROVE  /\ Members(t.byHeight[h]) = {b \in {Genesis} : t.height[b] = h}
                      /\ NoRepeats(t.byHeight[h])
    BY <1>7 DEF ListsMatchHeights
  <2>1. CASE h = 1
    <3>1. t.byHeight[h] = <<Genesis>> /\ Len(<<Genesis>>) = 1
      BY <2>1, <1>5
    <3> QED BY <2>1, <3>1, <1>7 DEF Members, NoRepeats
  <2>2. CASE h # 1
    <3>1. t.byHeight[h] = <<>> /\ Len(<<>>) = 0
      BY <2>2, <1>5
    <3> QED BY <2>2, <3>1, <1>2, <1>7 DEF NoRepeats
  <2> QED BY <2>1, <2>2
<1>11. OnePath(t)
  <2> DEFINE f == [h \in 1..1 |-> Genesis]
  <2>1. f \in PathSet(t, Genesis)
    BY <1>7 DEF PathSet, IsPath
  <2>2. \A g \in PathSet(t, Genesis) : g = f
    BY <1>7 DEF PathSet
  <2>3. \A h \in 1..t.height[Genesis] : t.height[f[h]] = h
    BY <1>7
  <2> QED BY <1>7, <2>1, <2>2, <2>3 DEF OnePath
<1>12. FrontsFollowPrev(t)
  BY <1>1, <1>5, <1>7 DEF FrontsFollowPrev
<1>13. Highest(t)
  BY <1>5, <1>7 DEF Highest
<1> QED BY <1>5, <1>6, <1>7, <1>8, <1>9, <1>10, <1>11, <1>12, <1>13 DEF Opened, Tree, a, t

\* The empty database is of the right type.
LEMMA EmptyDBType == EmptyDB \in States
<1>1. <<>> \in Seq(Blocks)
  OBVIOUS
<1> QED BY <1>1, BoundAssumption DEF EmptyDB, States

\* The notifications of a finished operation are of the right type.
LEMMA EventTypes ==
    ASSUME TypeOK, Opened(db), Opened(st), batch # <<>>
    PROVE  /\ InvalidatedEvent \in Seq(NewBlockEvents \cup InvalidatedEvents)
           /\ \A i \in 1..Len(batch), u \in BOOLEAN :
                [type |-> "NewBlock", block |-> batch[i], uncled |-> u] \in NewBlockEvents
           /\ Len(batch) \in Nat /\ 1 \in 1..Len(batch)
<1>1. db.headHeight \in Nat /\ st.headHeight \in Nat
  BY BoundAssumption DEF TypeOK, States
<1>2. Invalidated \in Nat
  <2>1. st.height[db.head] \in Int
    BY DEF TypeOK, States, Opened, FrontsFollowPrev, Stored
  <2>2. IsFiniteSet(1..st.height[db.head])
    BY <2>1, FS_Interval
  <2>3. IsFiniteSet(Down(st, db.head, st.head))
    BY <2>2, FS_Subset DEF Down
  <2> QED BY <2>3, FS_CardinalityType DEF Invalidated
<1>3. [type |-> "StateInvalidated", new_height |-> st.headHeight,
       after_height |-> db.headHeight - Invalidated] \in InvalidatedEvents
  BY <1>1, <1>2 DEF InvalidatedEvents
<1>4. InvalidatedEvent \in Seq(NewBlockEvents \cup InvalidatedEvents)
  <2> DEFINE e == [type |-> "StateInvalidated", new_height |-> st.headHeight,
                   after_height |-> db.headHeight - Invalidated]
  <2>1. InvalidatedEvent = <<>> \/ InvalidatedEvent = <<e>>
    BY DEF InvalidatedEvent
  <2>2. e \in NewBlockEvents \cup InvalidatedEvents
    BY <1>3
  <2> HIDE DEF e
  <2> DEFINE S == NewBlockEvents \cup InvalidatedEvents
  <2> HIDE DEF S
  <2>3. e \in S
    BY <2>2 DEF S
  <2>4. <<>> \in Seq(S)
    OBVIOUS
  <2>5. <<e>> \in Seq(S)
    BY <2>3
  <2>6. InvalidatedEvent \in Seq(S)
    BY <2>1, <2>4, <2>5, Zenon
  <2> QED BY <2>6 DEF S
<1>5. batch \in Seq(Blocks)
  BY DEF TypeOK
<1> QED BY <1>4, <1>5 DEF NewBlockEvents

\* Every step keeps the invariant.
LEMMA StepKeepsIInv == IInv /\ [Next]_vars => IInv'
<1> SUFFICES ASSUME IInv, [Next]_vars PROVE IInv'
  OBVIOUS
<1>1. TypeOK /\ (db = EmptyDB \/ Opened(db)) /\ (op # "closed" => Opened(db))
      /\ (op \in {"add_block", "import_pkg"} => Opened(st) /\ Extends(db, st))
  BY DEF IInv
<1>2. \A s : Opened(s) => s \in States
  BY DEF Opened, Tree
<1>3. <<>> \in Seq(Blocks) /\ <<>> \in Seq(NewBlockEvents \cup InvalidatedEvents)
  OBVIOUS
<1>4. CASE open
  <2>1. Opened(db') /\ db' \in States
    BY <1>1, <1>2, <1>4, OpenEmpty DEF open
  <2> QED BY <1>1, <1>4, <2>1 DEF open, IInv, TypeOK, Ops
<1>5. CASE Begin("add_block") \/ Begin("import_pkg")
  <2>1. Extends(db, db)
    BY DEF Extends
  <2>2. op' \in {"add_block", "import_pkg"} /\ st' = db /\ db' = db /\ op = "idle"
        /\ batch' = <<>> /\ events' = <<>>
    BY <1>5 DEF Begin
  <2>3. Opened(db) /\ Extends(db, db)
    BY <1>1, <2>1, <2>2
  <2>4. Opened(db') /\ Opened(st') /\ Extends(db', st')
    BY <2>2, <2>3
  <2>5. TypeOK'
    BY <1>1, <1>3, <2>2 DEF TypeOK, Ops
  <2> QED BY <2>4, <2>5 DEF IInv
<1>6. ASSUME NEW b \in Blocks, NEW p \in Blocks \cup {Zero}, AddNew(b, p)
      PROVE  IInv'
  <2>1. op \in {"add_block", "import_pkg"} /\ b \in Blocks \ Stored(st) /\ HasHeight(st, p)
        /\ get_block_height(st, p) < MaxHeight
        /\ st' = walk_to_head(add_block(st, b, p))
        /\ batch' = Append(batch, b) /\ db' = db /\ op' = op /\ events' = events
    BY <1>6 DEF AddNew
  <2>2. Opened(st) /\ Extends(db, st) /\ Opened(db) /\ db \in States /\ st \in States
    BY <1>1, <1>2, <2>1
  <2>3. /\ Opened(st')
        /\ st'.header = [st.header EXCEPT ![b] = p]
        /\ \A c \in Stored(st) : st'.height[c] = st.height[c]
        /\ \/ st'.head = st.head /\ st'.headHeight = st.headHeight
           \/ st'.head = b /\ st'.headHeight > st.headHeight
    BY <2>1, <2>2, AddAndWalk
  <2>4. st' \in States
    BY <1>2, <2>3
  <2>5. \A c \in Stored(db) : c \in Stored(st) /\ c # b
    BY <2>1, <2>2 DEF Extends, Stored
  <2>6. \A c \in Stored(db) : st'.header[c] = db.header[c] /\ st'.height[c] = db.height[c]
    BY <2>2, <2>3, <2>5 DEF Extends, States, Stored
  <2>7. db.headHeight \in Nat /\ st.headHeight \in Nat /\ st'.headHeight \in Nat
    BY <2>2, <2>4, BoundAssumption DEF States
  <2>8. Extends(db, st')
    BY <2>2, <2>3, <2>6, <2>7 DEF Extends
  <2>9. TypeOK'
    BY <1>1, <2>1, <2>4 DEF TypeOK
  <2>10. Opened(db') /\ Extends(db', st')
    BY <2>1, <2>2, <2>8
  <2> QED BY <2>3, <2>9, <2>10 DEF IInv
<1>7. ASSUME NEW b \in Blocks, SkipKnown(b)
      PROVE  IInv'
  <2>1. op = "import_pkg" /\ batch' = Append(batch, b) /\ UNCHANGED <<db, st, op, events>>
    BY <1>7 DEF SkipKnown
  <2>2. batch' \in Seq(Blocks)
    BY <1>1, <2>1 DEF TypeOK
  <2> QED BY <1>1, <2>1, <2>2 DEF IInv, TypeOK
<1>8. CASE CommitAdd
  <2>1. op = "add_block" /\ batch # <<>> /\ db' = st /\ st' = st /\ op' = "idle" /\ batch' = <<>>
        /\ events' = Append(InvalidatedEvent, [type |-> "NewBlock", block |-> batch[1],
                                               uncled |-> batch[1] # st.head])
    BY <1>8 DEF CommitAdd
  <2>2. Opened(st) /\ Opened(db)
    BY <1>1, <2>1
  <2>3. events' \in Seq(NewBlockEvents \cup InvalidatedEvents)
    <3>1. [type |-> "NewBlock", block |-> batch[1], uncled |-> batch[1] # st.head] \in NewBlockEvents
      BY <1>1, <2>1, <2>2, EventTypes
    <3>2. InvalidatedEvent \in Seq(NewBlockEvents \cup InvalidatedEvents)
      BY <1>1, <2>1, <2>2, EventTypes
    <3> HIDE DEF NewBlockEvents, InvalidatedEvents, InvalidatedEvent
    <3> QED BY <2>1, <3>1, <3>2
  <2> QED BY <1>1, <1>3, <2>1, <2>2, <2>3 DEF IInv, TypeOK, Ops
<1>9. CASE CommitImport
  <2> DEFINE news == [i \in 1..Len(batch) |->
                        [type |-> "NewBlock", block |-> batch[i],
                         uncled |-> is_part_of_current_chain(st, batch[i])]]
  <2>1. op = "import_pkg" /\ batch # <<>> /\ db' = st /\ st' = st /\ op' = "idle" /\ batch' = <<>>
        /\ events' = news \o InvalidatedEvent
    BY <1>9 DEF CommitImport
  <2>2. Opened(st) /\ Opened(db)
    BY <1>1, <2>1
  <2>3. \A i \in 1..Len(batch) : news[i] \in NewBlockEvents
    BY <1>1, <2>1, <2>2, EventTypes DEF is_part_of_current_chain
  <2>4. news \in Seq(NewBlockEvents \cup InvalidatedEvents)
    <3>1. Len(batch) \in Nat
      BY <1>1, <2>1, <2>2, EventTypes
    <3>2. news \in [1..Len(batch) -> NewBlockEvents \cup InvalidatedEvents]
      BY <2>3
    <3> HIDE DEF news
    <3> QED BY <3>1, <3>2
  <2>5. InvalidatedEvent \in Seq(NewBlockEvents \cup InvalidatedEvents)
    BY <1>1, <2>1, <2>2, EventTypes
  <2> HIDE DEF news
  <2>6. events' \in Seq(NewBlockEvents \cup InvalidatedEvents)
    BY <2>1, <2>4, <2>5
  <2> QED BY <1>1, <1>3, <2>1, <2>2, <2>6 DEF IInv, TypeOK, Ops
<1>10. CASE Fail
  BY <1>1, <1>3, <1>10 DEF Fail, IInv, TypeOK, Ops
<1>11. CASE Crash
  BY <1>1, <1>3, <1>11, EmptyDBType DEF Crash, IInv, TypeOK, Ops
<1>12. CASE UNCHANGED vars
  BY <1>1, <1>12 DEF vars, IInv, TypeOK
<1> QED BY <1>4, <1>5, <1>6, <1>7, <1>8, <1>9, <1>10, <1>11, <1>12 DEF Next

\* Whatever forks, failures, crashes and restarts the record keeper goes
\* through, what it has applied is empty or one whole tree with its current
\* chain in front (the invariant behind the theorems below).
THEOREM Invariance == Spec => []IInv
<1>1. Init => IInv
  <2>1. <<>> \in Seq(Blocks) /\ <<>> \in Seq(NewBlockEvents \cup InvalidatedEvents)
    OBVIOUS
  <2> QED BY <2>1, EmptyDBType DEF Init, IInv, TypeOK, Ops
<1> QED BY <1>1, StepKeepsIInv, PTL DEF Spec

-----------------------------------------------------------------------------
(* What the invariant gives *)

\* The tables, the overlay and the events keep their types.
THEOREM TypeCorrect == Spec => []TypeOK
<1>1. IInv => TypeOK
  BY DEF IInv
<1> QED BY <1>1, Invariance, PTL

\* The reads of the empty database, which open has not filled yet.
LEMMA EmptyReads ==
    /\ Stored(EmptyDB) = {} /\ EmptyDB.head = Zero /\ EmptyDB.headHeight = 0
    /\ HeightsFollowPrev(EmptyDB) /\ ListsMatchHeights(EmptyDB)
<1>1. Stored(EmptyDB) = {} /\ EmptyDB.head = Zero /\ EmptyDB.headHeight = 0
  BY DEF Stored, EmptyDB
<1>2. \A h \in Heights : EmptyDB.byHeight[h] = <<>>
  BY DEF EmptyDB
<1>3. Members(<<>>) = {} /\ NoRepeats(<<>>)
  BY DEF Members, NoRepeats
<1> QED BY <1>1, <1>2, <1>3 DEF HeightsFollowPrev, ListsMatchHeights

\* The cached heights and the height lists written by add_block and walk agree
\* with the prev references of the stored headers.
THEOREM HeightCaches == Spec => []HeightCachesExact
<1>1. IInv => HeightCachesExact
  <2>1. CASE db = EmptyDB
    BY <2>1, EmptyReads DEF HeightCachesExact
  <2>2. CASE Opened(db)
    BY <2>2 DEF HeightCachesExact, Opened, Tree
  <2> QED BY <2>1, <2>2 DEF IInv
<1> QED BY <1>1, Invariance, PTL

\* walk_to_head always leaves the head at a highest stored block.
THEOREM HeadHighest == Spec => []HeadIsHighest
<1>1. IInv => HeadIsHighest
  <2>1. CASE db = EmptyDB
    BY <2>1, EmptyReads DEF HeadIsHighest
  <2>2. CASE Opened(db)
    BY <2>2 DEF HeadIsHighest, Opened, Highest
  <2> QED BY <2>1, <2>2 DEF IInv
<1> QED BY <1>1, Invariance, PTL

\* The test on the front of a height list that is_part_of_current_chain makes
\* holds of exactly the ancestors of the head and the head itself.
THEOREM CurrentChainTest == Spec => []CurrentChainExact
<1>1. IInv => CurrentChainExact
  <2> SUFFICES ASSUME IInv, db.head # Zero, NEW b \in Stored(db)
               PROVE  is_part_of_current_chain(db, b)
                        <=> \E h \in 1..db.headHeight : Path(db, db.head)[h] = b
    BY DEF CurrentChainExact
  <2>1. Opened(db)
    BY EmptyReads DEF IInv
  <2>2. \A h \in 1..db.headHeight : /\ db.byHeight[h][1] = Path(db, db.head)[h]
                                    /\ db.byHeight[h][1] \in Stored(db)
                                    /\ db.height[db.byHeight[h][1]] = h
    BY <2>1, FrontsArePath DEF Opened
  <2>3. get_block_height(db, b) = db.height[b]
    BY <2>1 DEF get_block_height, Opened, FrontsFollowPrev
  <2>4. db.height[b] \in Heights /\ db.height[b] <= db.headHeight
    BY <2>1, TreeFacts DEF Opened, Highest
  <2>5. db.headHeight \in Nat
    BY BoundAssumption DEF IInv, TypeOK, States
  <2>6. db.height[b] \in 1..db.headHeight
    BY <2>4, <2>5, BoundAssumption DEF Heights
  <2>7. is_part_of_current_chain(db, b) <=> b = db.byHeight[db.height[b]][1]
    BY <2>3 DEF is_part_of_current_chain, get_current_block_of_height
  <2>8. ASSUME NEW h \in 1..db.headHeight, Path(db, db.head)[h] = b
        PROVE  b = db.byHeight[db.height[b]][1]
    BY <2>2, <2>8
  <2> QED BY <2>2, <2>6, <2>7, <2>8
<1> QED BY <1>1, Invariance, PTL

\* Every block of the current chain above genesis has its contra mutation, so
\* the walk of a reorganisation never meets a block it cannot undo.
THEOREM UndoAlwaysAvailable == Spec => []UndoAvailable
<1>1. IInv => UndoAvailable
  <2>1. CASE db = EmptyDB
    BY <2>1, EmptyReads DEF UndoAvailable
  <2>2. CASE Opened(db)
    BY <2>2 DEF UndoAvailable, Opened, FrontsFollowPrev, get_current_block_of_height
  <2> QED BY <2>1, <2>2 DEF IInv
<1> QED BY <1>1, Invariance, PTL

\* What one step may do to the database: nothing, fill the empty one, or extend
\* the tree that is there.
LEMMA StepExtends ==
    ASSUME IInv, [Next]_vars
    PROVE  \/ db' = db
           \/ /\ db = EmptyDB /\ db'.headHeight = 1 /\ db'.head = Genesis
              /\ db'.header = [b \in Blocks |-> IF b = Genesis THEN Zero ELSE None]
              /\ db'.height = [b \in Blocks |-> IF b = Genesis THEN 1 ELSE 0]
           \/ Opened(db) /\ Extends(db, db')
<1>1. CASE open
  BY <1>1, OpenEmpty DEF open
<1>2. CASE CommitAdd \/ CommitImport
  BY <1>2 DEF CommitAdd, CommitImport, IInv
<1>3. CASE Begin("add_block") \/ Begin("import_pkg") \/ Fail \/ Crash
  BY <1>3 DEF Begin, Fail, Crash
<1>4. CASE \E b \in Blocks, p \in Blocks \cup {Zero} : AddNew(b, p)
  BY <1>4 DEF AddNew
<1>5. CASE \E b \in Blocks : SkipKnown(b)
  BY <1>5 DEF SkipKnown
<1>6. CASE UNCHANGED vars
  BY <1>6 DEF vars
<1> QED BY <1>1, <1>2, <1>3, <1>4, <1>5, <1>6 DEF Next

\* A head is only ever replaced by a strictly higher block: of two branches of
\* one height, the one that became the head first stays.
THEOREM FirstSeen == Spec => FirstSeenWins
<1>1. IInv /\ [Next]_vars => [db'.head # db.head => db'.headHeight > db.headHeight]_vars
  BY StepExtends, EmptyReads DEF Extends
<1> QED BY <1>1, Invariance, PTL DEF Spec, FirstSeenWins

\* A stored header and its height stay as they are for ever.
THEOREM AppendOnlyStore == Spec => AppendOnly
<1>1. IInv /\ [Next]_vars
        => [\A b \in Stored(db) : /\ db'.header[b] = db.header[b]
                                  /\ db'.height[b] = db.height[b]]_vars
  BY StepExtends, EmptyReads DEF Extends
<1> QED BY <1>1, Invariance, PTL DEF Spec, AppendOnly

-----------------------------------------------------------------------------
(* The promise of the block tree *)

\* The blocks that the promise knows are the stored ones.
LEMMA KnownIsStored == Promise!Known = Stored(db)
BY DEF Promise!Known, Stored

\* A step that extends the tree is a step of its growth.
LEMMA ExtendsGrows ==
    ASSUME IInv, IInv', Opened(db), Extends(db, db')
    PROVE  Promise!Grow
<1>1. Opened(db')
  <2>1. Genesis \in Stored(db) /\ db.header[Genesis] # None
    BY DEF Opened, Tree, Stored
  <2>2. db'.header[Genesis] # None
    BY <2>1 DEF Extends
  <2>3. Stored(EmptyDB) = {} /\ EmptyDB.header[Genesis] = None
    BY GenesisAssumption DEF Stored, EmptyDB
  <2> QED BY <2>2, <2>3 DEF IInv
<1>2. /\ Promise!Known = {b \in Blocks : db.header[b] # None}
      /\ Promise!Known' = {b \in Blocks : db'.header[b] # None}
      /\ Stored(db) = {b \in Blocks : db.header[b] # None}
      /\ Stored(db') = {b \in Blocks : db'.header[b] # None}
  BY DEF Promise!Known, Stored
<1>3. Promise!Known # {}
  BY <1>2 DEF Opened, Tree
<1>4. /\ db'.header \in [Blocks -> Blocks \cup {Zero, None}]
      /\ db'.height \in [Blocks -> Nat]
      /\ db.height \in [Blocks -> Nat]
      /\ db.headHeight \in Nat /\ db'.headHeight \in Nat
  <2>1. db \in States /\ db' \in States
    BY DEF IInv, TypeOK
  <2>2. /\ db'.header \in [Blocks -> Blocks \cup {Zero, None}]
        /\ db'.height \in [Blocks -> 0..MaxHeight] /\ db'.headHeight \in 0..MaxHeight
    BY <2>1 DEF States
  <2>3. db.height \in [Blocks -> 0..MaxHeight] /\ db.headHeight \in 0..MaxHeight
    BY <2>1 DEF States
  <2> QED BY <2>2, <2>3, BoundAssumption
<1>5. Genesis \in Stored(db)
  BY DEF Opened, Tree
<1>6. HeightsFollowPrev(db')
  BY <1>1 DEF Opened, Tree
<1>7. \A b \in Stored(db') \ Stored(db) : /\ db'.header[b] \in Stored(db')
                                          /\ db'.height[b] = db'.height[db'.header[b]] + 1
  BY <1>5, <1>6 DEF HeightsFollowPrev
<1>8. Promise!Extended
  BY <1>2, <1>7 DEF Promise!Extended, Extends
<1>9. /\ db.head \in Stored(db) /\ db.height[db.head] = db.headHeight
      /\ db'.head \in Stored(db') /\ db'.height[db'.head] = db'.headHeight
      /\ \A b \in Stored(db') : db'.height[b] <= db'.headHeight
  BY <1>1 DEF Opened, FrontsFollowPrev, Highest
<1>10. Promise!TipMoves
  BY <1>2, <1>9 DEF Promise!TipMoves, Extends
<1> QED BY <1>3, <1>4, <1>8, <1>10 DEF Promise!Grow

\* Every step of the record keeper, a failure or a crash included, leaves the
\* promised tree alone, founds it, or lets it grow.
THEOREM BlockTreeImplemented == Spec => ImplementsBlockTree
<1>1. Init => Promise!Init
  BY DEF Init, Promise!Init, EmptyDB
<1>2. IInv /\ IInv' /\ [Next]_vars => [Promise!Next]_Promise!treeVars
  <2> SUFFICES ASSUME IInv, IInv', [Next]_vars
               PROVE  [Promise!Next]_Promise!treeVars
    OBVIOUS
  <2>1. CASE db' = db
    BY <2>1 DEF Promise!treeVars
  <2>2. CASE /\ db = EmptyDB /\ db'.head = Genesis
             /\ db'.header = [b \in Blocks |-> IF b = Genesis THEN Zero ELSE None]
             /\ db'.height = [b \in Blocks |-> IF b = Genesis THEN 1 ELSE 0]
    <3>1. Promise!Known = {}
      BY <2>2, EmptyReads, KnownIsStored
    <3> QED BY <2>2, <3>1 DEF Promise!Next, Promise!Found
  <2>3. CASE Opened(db) /\ Extends(db, db')
    BY <2>3, ExtendsGrows DEF Promise!Next
  <2> QED BY <2>1, <2>2, <2>3, StepExtends
<1> QED BY <1>1, <1>2, Invariance, PTL DEF Spec, ImplementsBlockTree, Promise!Spec

-----------------------------------------------------------------------------
(* What the listeners hear *)

\* The chain of a block is the same in a database with more blocks.
LEMMA PathStable ==
    ASSUME NEW s, NEW t, Tree(s), Tree(t), Extends(s, t), NEW b \in Stored(s)
    PROVE  b \in Stored(t) /\ t.height[b] = s.height[b] /\ Path(t, b) = Path(s, b)
<1> DEFINE f == Path(s, b)
<1>1. /\ f \in [1..s.height[b] -> Stored(s)] /\ f[s.height[b]] = b /\ s.header[f[1]] = Zero
      /\ \A h \in 2..s.height[b] : s.header[f[h]] = f[h - 1]
  BY PathFacts DEF Tree, PathSet, IsPath
<1>2. Stored(s) \subseteq Stored(t)
  BY DEF Extends, Stored
<1>3. \A c \in Stored(s) : t.header[c] = s.header[c] /\ t.height[c] = s.height[c]
  BY DEF Extends
<1>4. s.height[b] \in Nat /\ s.height[b] >= 1
  BY TreeFacts, BoundAssumption DEF Heights
<1> HIDE DEF f
<1>5. \A h \in 1..s.height[b] : t.header[f[h]] = s.header[f[h]]
  BY <1>1, <1>3
<1>6. t.header[f[1]] = Zero /\ \A h \in 2..s.height[b] : t.header[f[h]] = f[h - 1]
  BY <1>1, <1>4, <1>5
<1>7. f \in PathSet(t, b)
  BY <1>1, <1>2, <1>3, <1>6 DEF PathSet, IsPath
<1> QED BY <1>2, <1>3, <1>7, PathFacts DEF Tree, f

\* Two chains that have the same block at a height have the same ones below it,
\* down to genesis: they share what lies below their fork.
LEMMA SharedFacts ==
    ASSUME NEW s, Tree(s), NEW a \in Stored(s), NEW b \in Stored(s)
    PROVE  \E m \in Nat : /\ m >= 1 /\ m <= s.height[a] /\ m <= s.height[b]
                          /\ Shared(s, a, b) = 1..m
<1> DEFINE S == Shared(s, a, b)
           f == Path(s, a)
           g == Path(s, b)
<1>1. /\ f \in [1..s.height[a] -> Stored(s)] /\ g \in [1..s.height[b] -> Stored(s)]
      /\ \A h \in 2..s.height[a] : s.header[f[h]] = f[h - 1]
      /\ \A h \in 2..s.height[b] : s.header[g[h]] = g[h - 1]
      /\ \A h \in 1..s.height[a] : s.height[f[h]] = h
      /\ \A h \in 1..s.height[b] : s.height[g[h]] = h
  BY PathFacts DEF Tree, PathSet, IsPath
<1>2. /\ s.height[a] \in Nat /\ s.height[a] >= 1 /\ s.height[a] <= MaxHeight
      /\ s.height[b] \in Nat /\ s.height[b] >= 1 /\ MaxHeight \in Nat
  BY TreeFacts, BoundAssumption DEF Heights
<1>3. \A h : h \in S <=> h \in Nat /\ 1 <= h /\ h <= s.height[a] /\ h <= s.height[b] /\ f[h] = g[h]
  BY <1>2 DEF Shared, Heights
<1>4. f[1] = Genesis /\ g[1] = Genesis
  <2>1. f[1] \in Stored(s) /\ g[1] \in Stored(s) /\ s.height[f[1]] = 1 /\ s.height[g[1]] = 1
    BY <1>1, <1>2
  <2> QED BY <2>1, TreeFacts
<1> HIDE DEF S, f, g
<1>5. 1 \in S
  BY <1>2, <1>3, <1>4
<1>6. ASSUME NEW h \in S, h # 1
      PROVE  h - 1 \in S
  <2>1. h \in 2..s.height[a] /\ h \in 2..s.height[b] /\ f[h] = g[h]
    BY <1>2, <1>3, <1>6
  <2>2. f[h - 1] = g[h - 1]
    BY <1>1, <2>1
  <2> QED BY <1>2, <1>3, <2>1, <2>2
<1>7. PICK m \in S : \A h \in S : h <= m
  <2> DEFINE R == {k \in Nat : \E h \in S : k = MaxHeight - h}
  <2>1. \A h \in S : MaxHeight - h \in R
    BY <1>2, <1>3
  <2>2. R \subseteq Nat /\ R # {}
    BY <1>5, <2>1
  <2>3. PICK x \in R : \A y \in R : x <= y
    BY <2>2, LeastElement
  <2>4. PICK m \in S : x = MaxHeight - m
    BY <2>3
  <2>5. \A h \in S : x <= MaxHeight - h
    BY <2>1, <2>3
  <2>6. \A h \in S : h <= m
    BY <1>2, <1>3, <2>4, <2>5
  <2> QED BY <2>6
<1> DEFINE T == {k \in Nat : k < m => m - k \in S}
<1>8. 0 \in T
  BY <1>3
<1>9. ASSUME NEW k \in Nat, k \in T PROVE k + 1 \in T
  <2> SUFFICES ASSUME k + 1 < m PROVE m - (k + 1) \in S
    OBVIOUS
  <2>1. m \in Nat /\ m - k \in S /\ m - k # 1
    BY <1>3, <1>9
  <2>2. (m - k) - 1 \in S
    BY <1>6, <2>1
  <2> QED BY <2>1, <2>2
<1>10. \A k \in Nat : k \in T
  <2> HIDE DEF T
  <2> QED BY <1>8, <1>9, SetInduction
<1>11. ASSUME NEW h \in 1..m PROVE h \in S
  <2>1. m \in Nat /\ h \in Nat /\ m - h \in Nat /\ m - h < m /\ m - (m - h) = h
    BY <1>3
  <2> QED BY <1>10, <2>1
<1>12. S = 1..m
  <2>1. m \in Nat
    BY <1>3
  <2>2. \A h \in S : h \in Nat /\ 1 <= h /\ h <= m
    BY <1>3, <1>7
  <2>3. \A h \in S : h \in 1..m
    BY <2>1, <2>2
  <2> HIDE DEF T
  <2> QED BY <1>11, <2>3
<1> QED BY <1>3, <1>5, <1>7, <1>12 DEF S

\* What stays of the current chain is what the old head and the new one share.
LEMMA KeptFacts ==
    ASSUME Opened(db), Opened(st), Extends(db, st), db' = st
    PROVE  \E m \in Nat : /\ m >= 1 /\ m <= db.headHeight /\ Kept = 1..m
                          /\ Invalidated = db.headHeight - m
                          /\ st.head = db.head => m = db.headHeight
<1>1. /\ Tree(db) /\ Tree(st) /\ FrontsFollowPrev(db) /\ FrontsFollowPrev(st)
      /\ db.head \in Stored(db) /\ st.head \in Stored(st)
      /\ db.height[db.head] = db.headHeight /\ st.height[st.head] = st.headHeight
  BY DEF Opened, FrontsFollowPrev
<1>2. db.head \in Stored(st) /\ st.height[db.head] = db.headHeight /\ Path(st, db.head) = Path(db, db.head)
  BY <1>1, PathStable
<1>3. PICK m \in Nat : /\ m >= 1 /\ m <= st.height[db.head] /\ m <= st.height[st.head]
                       /\ Shared(st, db.head, st.head) = 1..m
  BY <1>1, <1>2, SharedFacts
<1>4. db.headHeight \in Heights /\ st.headHeight \in Heights
  BY <1>1, TreeFacts
<1>5. /\ \A h \in 1..db.headHeight : CurrentChain(db)[h] = Path(st, db.head)[h]
      /\ \A h \in 1..st.headHeight : CurrentChain(db')[h] = Path(st, st.head)[h]
  <2>1. /\ \A h \in 1..db.headHeight : db.byHeight[h][1] = Path(db, db.head)[h]
        /\ \A h \in 1..st.headHeight : st.byHeight[h][1] = Path(st, st.head)[h]
    BY <1>1, FrontsArePath
  <2> QED BY <1>2, <2>1 DEF CurrentChain, get_current_block_of_height
<1>6. Kept = Shared(st, db.head, st.head)
  <2>1. \A h : h \in Kept <=> /\ h \in 1..db.headHeight /\ h \in 1..st.headHeight
                              /\ Path(st, db.head)[h] = Path(st, st.head)[h]
    BY <1>4, <1>5, BoundAssumption DEF Kept, Heights
  <2>2. \A h : h \in Shared(st, db.head, st.head) <=>
                 /\ h \in 1..db.headHeight /\ h \in 1..st.headHeight
                 /\ Path(st, db.head)[h] = Path(st, st.head)[h]
    BY <1>1, <1>2, <1>4, BoundAssumption DEF Shared, Heights
  <2> QED BY <2>1, <2>2
<1>7. Invalidated = db.headHeight - m
  <2>1. db.headHeight \in Nat /\ m <= db.headHeight
    BY <1>2, <1>3, <1>4, BoundAssumption DEF Heights
  <2>2. Down(st, db.head, st.head) = (m + 1)..db.headHeight
    BY <1>2, <1>3, <2>1 DEF Down
  <2>3. Cardinality((m + 1)..db.headHeight) = db.headHeight - m
    BY <2>1, FS_Interval
  <2> QED BY <2>2, <2>3 DEF Invalidated
<1>8. ASSUME st.head = db.head PROVE m = db.headHeight
  <2>1. st.height[db.head] \in Shared(st, db.head, db.head)
    BY <1>2, <1>4, BoundAssumption DEF Shared, Heights
  <2>2. db.headHeight \in 1..m
    BY <1>2, <1>3, <1>8, <2>1
  <2> QED BY <1>2, <1>3, <1>4, <2>2, BoundAssumption DEF Heights
<1> QED BY <1>2, <1>3, <1>6, <1>7, <1>8

\* What a commit tells: the reorganisation, if there is one, and blocks.
LEMMA InvalidatedEventFacts ==
    ASSUME NEW m \in Nat, db.headHeight \in Nat, m <= db.headHeight, Invalidated = db.headHeight - m
    PROVE  /\ m = db.headHeight => InvalidatedEvent = <<>>
           /\ m # db.headHeight => InvalidatedEvent =
                 <<[type |-> "StateInvalidated", new_height |-> st.headHeight, after_height |-> m]>>
<1>1. Invalidated = 0 <=> m = db.headHeight
  OBVIOUS
<1>2. db.headHeight - Invalidated = m
  OBVIOUS
<1> QED BY <1>1, <1>2 DEF InvalidatedEvent

\* The events that are reorganisations, when blocks were told of before.
LEMMA ReorgsFacts ==
    ASSUME NEW news, NEW n \in Nat, news \in [1..n -> NewBlockEvents], NEW e, e.type = "StateInvalidated"
    PROVE  /\ Reorgs(news \o <<>>) = {} /\ Reorgs(news \o <<e>>) = {n + 1}
           /\ Len(news \o <<e>>) = n + 1 /\ (news \o <<e>>)[n + 1] = e
<1>1. \A b \in NewBlockEvents : b.type # "StateInvalidated"
  BY DEF NewBlockEvents
<1> DEFINE E == NewBlockEvents \cup {e}
<1>2. e \in E /\ NewBlockEvents \subseteq E
  OBVIOUS
<1> HIDE DEF E
<1>3. news \in Seq(E) /\ Len(news) = n /\ \A i \in 1..n : news[i] \in NewBlockEvents
  <2>1. news \in [1..n -> E]
    BY <1>2
  <2> QED BY <2>1
<1>4. Reorgs(news \o <<>>) = {}
  <2>1. news \o <<>> = news
    BY <1>3
  <2> QED BY <1>1, <1>3, <2>1 DEF Reorgs
<1>5. /\ Len(news \o <<e>>) = n + 1 /\ (news \o <<e>>)[n + 1] = e
      /\ \A i \in 1..n : (news \o <<e>>)[i] = news[i]
  BY <1>2, <1>3
<1>6. Reorgs(news \o <<e>>) = {n + 1}
  <2> DEFINE all == news \o <<e>>
  <2>1. \A i \in 1..n + 1 : i = n + 1 \/ i \in 1..n
    OBVIOUS
  <2>2. Len(all) = n + 1 /\ all[n + 1] = e /\ \A i \in 1..n : all[i] \in NewBlockEvents
    BY <1>3, <1>5
  <2> HIDE DEF all
  <2>3. Reorgs(all) = {n + 1}
    BY <1>1, <2>1, <2>2 DEF Reorgs
  <2> QED BY <2>3 DEF all
<1> QED BY <1>4, <1>5, <1>6

\* The same when one block is told of last.
LEMMA AddEventsFacts ==
    ASSUME NEW b \in NewBlockEvents, NEW e, e.type = "StateInvalidated"
    PROVE  /\ Reorgs(Append(<<>>, b)) = {} /\ Reorgs(Append(<<e>>, b)) = {1}
           /\ Len(Append(<<>>, b)) = 1 /\ Append(<<>>, b)[1] = b
           /\ Len(Append(<<e>>, b)) = 2 /\ Append(<<e>>, b)[1] = e /\ Append(<<e>>, b)[2] = b
<1> DEFINE E == NewBlockEvents \cup {e}
<1>1. b \in E /\ e \in E
  OBVIOUS
<1> HIDE DEF E
<1>2. b.type # "StateInvalidated"
  BY DEF NewBlockEvents
<1>3. /\ Len(Append(<<>>, b)) = 1 /\ Append(<<>>, b)[1] = b
      /\ Len(Append(<<e>>, b)) = 2 /\ Append(<<e>>, b)[1] = e /\ Append(<<e>>, b)[2] = b
  <2>1. <<>> \in Seq(E) /\ <<e>> \in Seq(E) /\ Len(<<>>) = 0 /\ Len(<<e>>) = 1
    BY <1>1
  <2> QED BY <1>1, <2>1
<1>4. Reorgs(Append(<<>>, b)) = {}
  BY <1>2, <1>3 DEF Reorgs
<1>5. Reorgs(Append(<<e>>, b)) = {1}
  BY <1>2, <1>3 DEF Reorgs
<1> QED BY <1>3, <1>4, <1>5

\* Only a commit changes the database once there is one.
LEMMA CommitSteps ==
    ASSUME IInv, [Next]_vars, db.head # Zero, db' # db
    PROVE  /\ CommitAdd \/ CommitImport
           /\ Opened(db) /\ Opened(st) /\ Extends(db, st) /\ db' = st
           /\ batch \in Seq(Blocks) /\ batch # <<>>
<1>1. CommitAdd \/ CommitImport
  <2>1. ~open
    BY EmptyReads DEF open
  <2> QED BY <2>1 DEF Next, vars, Begin, AddNew, SkipKnown, Fail, Crash
<1> QED BY <1>1 DEF CommitAdd, CommitImport, IInv, TypeOK

\* Listeners hear of a reorganisation exactly when blocks leave the current
\* chain, once, with the height of the last block that stays.
THEOREM ReorgAlwaysReported == Spec => ReorgReported
<1> DEFINE Told == IF Kept = 1..db.headHeight THEN Reorgs(events') = {}
                   ELSE \E i \in 1..Len(events') :
                          /\ Reorgs(events') = {i}
                          /\ events'[i].new_height = db'.headHeight
                          /\ events'[i].after_height \in Kept
                          /\ \A h \in Kept : h <= events'[i].after_height
<1>1. ASSUME IInv, [Next]_vars, db.head # Zero, db' # db
      PROVE  Told
  <2>1. /\ CommitAdd \/ CommitImport
        /\ Opened(db) /\ Opened(st) /\ Extends(db, st) /\ db' = st
        /\ batch \in Seq(Blocks) /\ batch # <<>>
    BY <1>1, CommitSteps
  <2>2. PICK m \in Nat : m >= 1 /\ m <= db.headHeight /\ Kept = 1..m /\ Invalidated = db.headHeight - m
    BY <2>1, KeptFacts
  <2>3. db.headHeight \in Nat
    BY <1>1, BoundAssumption DEF IInv, TypeOK, States
  <2> DEFINE e == [type |-> "StateInvalidated", new_height |-> st.headHeight, after_height |-> m]
             news == [i \in 1..Len(batch) |->
                        [type |-> "NewBlock", block |-> batch[i],
                         uncled |-> is_part_of_current_chain(st, batch[i])]]
             b == [type |-> "NewBlock", block |-> batch[1], uncled |-> batch[1] # st.head]
  <2>4. e.type = "StateInvalidated" /\ e.new_height = st.headHeight /\ e.after_height = m
    OBVIOUS
  <2>5. InvalidatedEvent = IF m = db.headHeight THEN <<>> ELSE <<e>>
    BY <2>2, <2>3, InvalidatedEventFacts
  <2>6. events' = Append(InvalidatedEvent, b) \/ events' = news \o InvalidatedEvent
    BY <2>1 DEF CommitAdd, CommitImport
  <2>7. Len(batch) \in Nat /\ news \in [1..Len(batch) -> NewBlockEvents] /\ b \in NewBlockEvents
    BY <2>1 DEF NewBlockEvents, is_part_of_current_chain
  <2>8. Kept = 1..db.headHeight <=> m = db.headHeight
    BY <2>2, <2>3
  <2> HIDE DEF e, news, b
  <2>9. CASE m = db.headHeight
    <3>1. events' = Append(<<>>, b) \/ events' = news \o <<>>
      BY <2>5, <2>6, <2>9
    <3>2. Reorgs(Append(<<>>, b)) = {} /\ Reorgs(news \o <<>>) = {}
      BY <2>4, <2>7, ReorgsFacts, AddEventsFacts
    <3>3. Reorgs(events') = {}
      BY <3>1, <3>2
    <3> QED BY <2>8, <2>9, <3>3
  <2>10. CASE m # db.headHeight
    <3>1. events' = Append(<<e>>, b) \/ events' = news \o <<e>>
      BY <2>5, <2>6, <2>10
    <3>2. PICK i \in 1..Len(events') : Reorgs(events') = {i} /\ events'[i] = e
      <4>1. CASE events' = Append(<<e>>, b)
        <5>1. /\ Len(Append(<<e>>, b)) = 2
              /\ Append(<<e>>, b)[1] = e /\ Append(<<e>>, b)[2] = b
          BY <2>4, <2>7, AddEventsFacts
        <5>2. Len(events') = 2 /\ events'[1] = e /\ events'[2] = b
          BY <4>1, <5>1
        <5>3. b.type # "StateInvalidated"
          BY <2>7 DEF NewBlockEvents
        <5>4. 1 \in 1..2 /\ \A i \in 1..2 : i = 1 \/ i = 2
          OBVIOUS
        <5>5. Reorgs(events') = {1}
          BY <2>4, <5>2, <5>3, <5>4 DEF Reorgs
        <5> QED BY <5>2, <5>4, <5>5
      <4>2. CASE events' = news \o <<e>>
        <5> DEFINE n == Len(batch) + 1
        <5>1. Reorgs(news \o <<e>>) = {n} /\ Len(news \o <<e>>) = n /\ (news \o <<e>>)[n] = e
          BY <2>4, <2>7, ReorgsFacts
        <5>2. n \in 1..n
          BY <2>7
        <5> QED BY <4>2, <5>1, <5>2
      <4> QED BY <3>1, <4>1, <4>2
    <3>3. m \in Kept /\ \A h \in Kept : h <= m
      BY <2>2
    <3> QED BY <2>1, <2>4, <2>8, <2>10, <3>2, <3>3
  <2> QED BY <2>9, <2>10
<1> HIDE DEF Told
<1>2. IInv /\ [Next]_vars => [db.head # Zero /\ db' # db => Told]_vars
  BY <1>1
<1> QED BY <1>2, Invariance, PTL DEF Spec, ReorgReported, Told
\* The overlay of a running add_block differs from the database by one block.
LEMMA AddOverlayInvariant == Spec => []AddOverlay
<1>1. Init => AddOverlay
  BY DEF Init, AddOverlay
<1>2. IInv /\ AddOverlay /\ [Next]_vars => AddOverlay'
  <2> SUFFICES ASSUME IInv, AddOverlay, [Next]_vars, op' = "add_block"
               PROVE  IF batch' = <<>> THEN st' = db'
                      ELSE /\ batch'[1] \in Stored(st') \ Stored(db')
                           /\ \/ st'.head = db'.head /\ st'.headHeight = db'.headHeight
                              \/ st'.head = batch'[1] /\ st'.headHeight > db'.headHeight
    BY DEF AddOverlay
  <2>1. CASE UNCHANGED vars
    BY <2>1 DEF vars, AddOverlay
  <2>2. CASE Begin("add_block")
    BY <2>2 DEF Begin
  <2>3. CASE \E b \in Blocks, p \in Blocks \cup {Zero} : AddNew(b, p)
    <3> PICK b \in Blocks, p \in Blocks \cup {Zero} : AddNew(b, p)
      BY <2>3
    <3>1. /\ op = "add_block" /\ batch = <<>> /\ b \notin Stored(st) /\ HasHeight(st, p)
          /\ get_block_height(st, p) < MaxHeight
          /\ st' = walk_to_head(add_block(st, b, p)) /\ batch' = Append(batch, b) /\ db' = db
      BY DEF AddNew
    <3>2. st = db /\ Opened(st)
      BY <3>1 DEF AddOverlay, IInv
    <3>3. /\ st'.header = [st.header EXCEPT ![b] = p]
          /\ \/ st'.head = st.head /\ st'.headHeight = st.headHeight
             \/ st'.head = b /\ st'.headHeight > st.headHeight
      BY <3>1, <3>2, AddAndWalk
    <3>4. batch' # <<>> /\ batch'[1] = b
      BY <3>1
    <3>5. st'.header[b] = p /\ p # None
      BY <3>2, <3>3, MarkerAssumption DEF Opened, Tree, States
    <3>6. b \in Stored(st') \ Stored(db')
      BY <3>1, <3>2, <3>5 DEF Stored
    <3> QED BY <3>1, <3>2, <3>3, <3>4, <3>6
  <2>4. CASE Begin("import_pkg") \/ open \/ (\E b \in Blocks : SkipKnown(b))
             \/ CommitAdd \/ CommitImport \/ Fail \/ Crash
    BY <2>4 DEF Begin, open, SkipKnown, CommitAdd, CommitImport, Fail, Crash
  <2> QED BY <2>1, <2>2, <2>3, <2>4 DEF Next
<1> QED BY <1>1, <1>2, Invariance, PTL DEF Spec

\* A block that did not become the head is not on the current chain: that chain
\* is still the path of the old head, which has old blocks only.
LEMMA UncledOffChain ==
    ASSUME Opened(db), Opened(st), Extends(db, st), NEW b \in Stored(st) \ Stored(db)
    PROVE  /\ b = st.head => is_part_of_current_chain(st, b)
           /\ st.head = db.head => ~is_part_of_current_chain(st, b)
<1>1. /\ Tree(db) /\ Tree(st) /\ FrontsFollowPrev(db) /\ FrontsFollowPrev(st) /\ Highest(st)
      /\ db.head \in Stored(db) /\ st.head \in Stored(st)
      /\ db.height[db.head] = db.headHeight /\ st.height[st.head] = st.headHeight
  BY DEF Opened, FrontsFollowPrev
<1>2. b = st.head => is_part_of_current_chain(st, b)
  BY <1>1 DEF is_part_of_current_chain, get_current_block_of_height, get_block_height,
              FrontsFollowPrev
<1>3. ASSUME st.head = db.head
      PROVE  ~is_part_of_current_chain(st, b)
  <2>1. b # st.head
    BY <1>1, <1>3
  <2>2. st.height[b] \in 1..st.headHeight
    <3>1. st.height[b] \in Heights /\ st.height[st.head] \in Heights /\ st.height[b] <= st.headHeight
      BY <1>1, TreeFacts DEF Highest
    <3> QED BY <1>1, <3>1, BoundAssumption DEF Heights
  <2>3. st.byHeight[st.height[b]][1] = Path(st, st.head)[st.height[b]]
    BY <1>1, <2>2, FrontsArePath
  <2>4. Path(st, db.head) = Path(db, db.head) /\ st.headHeight = db.headHeight
    BY <1>1, <1>3, PathStable
  <2>5. Path(db, db.head) \in [1..db.headHeight -> Stored(db)]
    BY <1>1, PathFacts DEF Tree, PathSet
  <2>6. st.byHeight[st.height[b]][1] \in Stored(db)
    BY <1>3, <2>2, <2>3, <2>4, <2>5
  <2> QED BY <2>1, <2>6 DEF is_part_of_current_chain, get_current_block_of_height, get_block_height
<1> QED BY <1>2, <1>3

\* The assertions that end add_block hold: an uncled block moved nothing, any
\* other one is the new, higher head, and uncled means off the current chain.
THEOREM AddBlockAssertsHold == Spec => AddBlockAsserts
<1> DEFINE Holds(i) ==
      /\ events'[i].type = "NewBlock"
      /\ events'[i].uncled <=> ~is_part_of_current_chain(db', events'[i].block)
      /\ events'[i].uncled => Len(events') = 1 /\ db'.headHeight = db.headHeight
      /\ ~events'[i].uncled => /\ Cardinality(Kept) > 0
                               /\ db.headHeight < db'.headHeight
<1>1. ASSUME IInv, AddOverlay, [Next]_vars, op = "add_block", db' # db
      PROVE  \E i \in 1..Len(events') : Holds(i)
  <2>1. db.head # Zero
    BY <1>1, MarkerAssumption DEF IInv, Opened, FrontsFollowPrev, Stored
  <2>2. /\ CommitAdd
        /\ Opened(db) /\ Opened(st) /\ Extends(db, st) /\ db' = st
        /\ batch \in Seq(Blocks) /\ batch # <<>>
    BY <1>1, <2>1, CommitSteps DEF CommitImport
  <2>3. /\ batch[1] \in Stored(st) \ Stored(db)
        /\ \/ st.head = db.head /\ st.headHeight = db.headHeight
           \/ st.head = batch[1] /\ st.headHeight > db.headHeight
    BY <1>1, <2>2 DEF AddOverlay
  <2>4. PICK m \in Nat : /\ m >= 1 /\ m <= db.headHeight /\ Kept = 1..m
                         /\ Invalidated = db.headHeight - m
                         /\ st.head = db.head => m = db.headHeight
    BY <2>2, KeptFacts
  <2>5. db.headHeight \in Nat /\ st.headHeight \in Nat /\ db.head \in Stored(db)
    BY <1>1, <2>2, BoundAssumption, SMTT(30) DEF IInv, TypeOK, States, Opened, FrontsFollowPrev
  <2> DEFINE e == [type |-> "StateInvalidated", new_height |-> st.headHeight, after_height |-> m]
             b == [type |-> "NewBlock", block |-> batch[1], uncled |-> batch[1] # st.head]
  <2>6. /\ e.type = "StateInvalidated" /\ b.type = "NewBlock" /\ b.block = batch[1]
        /\ b.uncled <=> batch[1] # st.head
    OBVIOUS
  <2>7. b \in NewBlockEvents
    BY <2>2 DEF NewBlockEvents
  <2>8. InvalidatedEvent = IF m = db.headHeight THEN <<>> ELSE <<e>>
    BY <2>4, <2>5, InvalidatedEventFacts
  <2>9. events' = Append(InvalidatedEvent, b)
    BY <2>2 DEF CommitAdd
  <2> HIDE DEF e, b
  <2>10. /\ Len(Append(<<>>, b)) = 1 /\ Append(<<>>, b)[1] = b
         /\ Len(Append(<<e>>, b)) = 2 /\ Append(<<e>>, b)[2] = b
    BY <2>6, <2>7, AddEventsFacts
  <2>11. PICK i \in 1..Len(events') : events'[i] = b /\ (m = db.headHeight => Len(events') = 1)
    <3>1. CASE m = db.headHeight
      BY <2>8, <2>9, <2>10, <3>1
    <3>2. CASE m # db.headHeight
      BY <2>8, <2>9, <2>10, <3>2
    <3> QED BY <3>1, <3>2
  <2>12. Cardinality(Kept) = m
    BY <2>4, FS_Interval
  <2>13. b.uncled <=> ~is_part_of_current_chain(db', b.block)
    BY <2>2, <2>3, <2>5, <2>6, UncledOffChain
  <2>14. batch[1] # st.head => Len(events') = 1 /\ db'.headHeight = db.headHeight
    BY <2>2, <2>3, <2>4, <2>11
  <2>15. batch[1] = st.head => Cardinality(Kept) > 0 /\ db.headHeight < db'.headHeight
    BY <2>2, <2>3, <2>4, <2>5, <2>12
  <2> QED BY <2>6, <2>11, <2>13, <2>14, <2>15
<1> HIDE DEF Holds
<1>2. IInv /\ AddOverlay /\ [Next]_vars
        => [op = "add_block" /\ db' # db => \E i \in 1..Len(events') : Holds(i)]_vars
  BY <1>1
<1> QED BY <1>2, Invariance, AddOverlayInvariant, PTL DEF Spec, AddBlockAsserts, Holds

-----------------------------------------------------------------------------
(* The searches over the tree *)

\* Reading a consistent database: the block at each height of the current
\* chain, and the path of any stored block.
LEMMA ReadFacts ==
    ASSUME NEW s, Opened(s)
    PROVE  /\ s.head \in Stored(s) /\ s.height[s.head] = s.headHeight /\ s.headHeight \in 1..MaxHeight
           /\ \A h \in 1..s.headHeight : get_current_block_of_height(s, h) = Path(s, s.head)[h]
           /\ \A b \in Stored(s) :
                /\ s.height[b] \in 1..s.headHeight
                /\ Path(s, b) \in [1..s.height[b] -> Stored(s)]
                /\ Path(s, b)[s.height[b]] = b
                /\ \A h \in 1..s.height[b] : s.height[Path(s, b)[h]] = h
                /\ \A h \in 2..s.height[b] : s.header[Path(s, b)[h]] = Path(s, b)[h - 1]
                /\ s.header[Path(s, b)[1]] = Zero
                /\ get_block_height(s, b) = s.height[b]
<1>1. /\ Tree(s) /\ FrontsFollowPrev(s) /\ Highest(s) /\ OnePath(s)
      /\ s.head \in Stored(s) /\ s.headHeight = s.height[s.head]
  BY DEF Opened, FrontsFollowPrev, Tree
<1>2. \A b \in Stored(s) : s.height[b] \in Heights /\ s.height[b] <= s.headHeight
  BY <1>1, TreeFacts DEF Highest
<1>3. s.headHeight \in 1..MaxHeight
  BY <1>1, <1>2 DEF Heights
<1>4. \A h \in 1..s.headHeight : get_current_block_of_height(s, h) = Path(s, s.head)[h]
  BY <1>1, FrontsArePath DEF get_current_block_of_height
<1>5. ASSUME NEW b \in Stored(s)
      PROVE  /\ s.height[b] \in 1..s.headHeight
             /\ Path(s, b) \in [1..s.height[b] -> Stored(s)]
             /\ Path(s, b)[s.height[b]] = b
             /\ \A h \in 1..s.height[b] : s.height[Path(s, b)[h]] = h
             /\ \A h \in 2..s.height[b] : s.header[Path(s, b)[h]] = Path(s, b)[h - 1]
             /\ s.header[Path(s, b)[1]] = Zero
             /\ get_block_height(s, b) = s.height[b]
  <2>1. s.height[b] \in 1..s.headHeight
    BY <1>2, <1>3, BoundAssumption DEF Heights
  <2>2. Path(s, b) \in PathSet(s, b) /\ \A h \in 1..s.height[b] : s.height[Path(s, b)[h]] = h
    BY <1>1, PathFacts
  <2>3. get_block_height(s, b) = s.height[b]
    BY <1>1 DEF get_block_height
  <2> QED BY <2>1, <2>2, <2>3 DEF PathSet, IsPath
<1> QED BY <1>1, <1>3, <1>4, <1>5

\* A block of a path is on the current chain where the two chains are the same.
LEMMA OnCurrentChain ==
    ASSUME NEW s, Opened(s), NEW b \in Stored(s), NEW h \in 1..s.height[b]
    PROVE  is_part_of_current_chain(s, Path(s, b)[h]) <=> h \in Shared(s, s.head, b)
<1> DEFINE x == Path(s, b)[h]
<1>1. x \in Stored(s) /\ s.height[x] = h /\ get_block_height(s, x) = h
  <2>1. x \in Stored(s) /\ s.height[x] = h
    BY ReadFacts
  <2> HIDE DEF x
  <2> QED BY <2>1, ReadFacts
<1>2. h \in 1..s.headHeight
  <2> HIDE DEF x
  <2> QED BY <1>1, ReadFacts
<1>3. is_part_of_current_chain(s, x) <=> x = Path(s, s.head)[h]
  BY <1>1, <1>2, ReadFacts DEF is_part_of_current_chain
<1>4. h \in Heights /\ h <= s.height[b] /\ h <= s.height[s.head]
  BY <1>2, ReadFacts, BoundAssumption DEF Heights
<1> QED BY <1>3, <1>4 DEF Shared

\* The highest number of an interval that starts with 1.
LEMMA TopOfInterval ==
    ASSUME NEW m \in Nat, m >= 1
    PROVE  (CHOOSE h \in 1..m : \A k \in 1..m : k <= h) = m
<1> DEFINE P(h) == h \in 1..m /\ \A k \in 1..m : k <= h
<1>1. P(m) /\ \A h : P(h) => h = m
  OBVIOUS
<1> QED BY <1>1

\* The search along the current chain ends at the highest block of both chains.
LEMMA AncestorFacts ==
    ASSUME NEW s, Opened(s), NEW b \in Stored(s)
    PROVE  \E m \in Nat :
             /\ m >= 1 /\ m <= s.height[b] /\ m <= s.headHeight /\ Shared(s, s.head, b) = 1..m
             /\ latest_common_ancestor_with_current_chain(s, b) = Path(s, b)[m]
             /\ get_block_height(s, latest_common_ancestor_with_current_chain(s, b)) = m
             /\ s.height[latest_common_ancestor_with_current_chain(s, b)] = m
<1>1. PICK m \in Nat : /\ m >= 1 /\ m <= s.height[s.head] /\ m <= s.height[b]
                       /\ Shared(s, s.head, b) = 1..m
  BY ReadFacts, SharedFacts DEF Opened
<1> DEFINE f == Path(s, b)
           on == {h \in DOMAIN f : is_part_of_current_chain(s, f[h])}
<1>2. /\ DOMAIN f = 1..s.height[b] /\ s.height[b] \in Nat
      /\ \A h \in 1..s.height[b] : f[h] \in Stored(s) /\ s.height[f[h]] = h
  BY ReadFacts
<1>3. on = 1..m
  BY <1>1, <1>2, OnCurrentChain
<1>4. (CHOOSE h \in on : \A k \in on : k <= h) = m
  BY <1>1, <1>3, TopOfInterval
<1>5. latest_common_ancestor_with_current_chain(s, b) = f[m]
  BY <1>4 DEF latest_common_ancestor_with_current_chain
<1>6. m \in 1..s.height[b]
  BY <1>1, <1>2
<1> HIDE DEF f
<1>7. get_block_height(s, f[m]) = m /\ s.height[f[m]] = m
  BY <1>2, <1>6, ReadFacts
<1> QED BY <1>1, <1>5, <1>7, ReadFacts DEF f

\* The search along the current chain finds the ancestor that the comparison of
\* the two whole chains gives.
THEOREM AncestorAlwaysExact == Spec => []AncestorExact
<1>1. IInv => AncestorExact
  <2> SUFFICES ASSUME IInv, db.head # Zero, NEW b \in Stored(db)
               PROVE  LET anc == latest_common_ancestor_with_current_chain(db, b) IN
                      /\ db.height[anc] \in Shared(db, db.head, b)
                      /\ \A h \in Shared(db, db.head, b) : h <= db.height[anc]
    BY DEF AncestorExact
  <2>1. Opened(db)
    BY EmptyReads DEF IInv
  <2>2. PICK m \in Nat : /\ m >= 1 /\ Shared(db, db.head, b) = 1..m
                         /\ db.height[latest_common_ancestor_with_current_chain(db, b)] = m
    BY <2>1, AncestorFacts
  <2> QED BY <2>2
<1> QED BY <1>1, Invariance, PTL
-----------------------------------------------------------------------------
(* The blocks served to a peer *)

\* n blocks of the chain of b above height m.
Above(s, b, m, n) == [i \in 1..n |-> Path(s, b)[m + i]]

\* get_blocks_after gives the current chain above the ancestor: up to the
\* target when the limit allows, else as many blocks as the limit allows.
LEMMA AfterFacts ==
    ASSUME NEW s, Opened(s), NEW last_known \in Stored(s), NEW target, NEW limit \in Nat,
           NEW m \in Nat, m >= 1, Shared(s, s.head, last_known) = 1..m
    PROVE  m <= s.headHeight /\
           \E n \in 0..(s.headHeight - m) :
             /\ get_blocks_after(s, last_known, target, limit) = Above(s, s.head, m, n)
             /\ \/ n >= 1 /\ Path(s, s.head)[m + n] = target
                \/ /\ n = Smaller(s.headHeight - m, limit)
                   /\ \A i \in 1..n : Path(s, s.head)[m + i] # target
<1> DEFINE C == Path(s, s.head)
           H == s.headHeight
           anc == latest_common_ancestor_with_current_chain(s, last_known)
           iter == iter_up(s, get_block_height(s, anc))
           above == Tail(iter)
           last == Smaller(Len(above), limit)
           hit == {i \in 1..last : above[i] = target}
           size == IF hit = {} THEN last ELSE CHOOSE i \in hit : TRUE
<1>1. m <= H /\ get_block_height(s, anc) = m
  <2>1. PICK k \in Nat : /\ k >= 1 /\ k <= H /\ Shared(s, s.head, last_known) = 1..k
                         /\ get_block_height(s, anc) = k
    BY AncestorFacts
  <2>2. k = m
    <3>1. 1..k = 1..m
      BY <2>1
    <3>2. k \in 1..m /\ m \in 1..k
      BY <2>1, <3>1
    <3> QED BY <3>2
  <2> QED BY <2>1, <2>2
<1>2. H \in Nat /\ C \in [1..H -> Stored(s)] /\ \A h \in 1..H : get_current_block_of_height(s, h) = C[h]
  BY ReadFacts
<1>3. get_blocks_after(s, last_known, target, limit) = SubSeq(above, 1, size)
  BY DEF get_blocks_after
<1> HIDE DEF C, H, anc
<1>4. iter = [i \in 1..(H - m + 1) |-> C[m + i - 1]]
  <2>1. iter = [i \in 1..(H - m + 1) |-> get_current_block_of_height(s, m + i - 1)]
    BY <1>1 DEF iter_up, H
  <2>2. \A i \in 1..(H - m + 1) : m + i - 1 \in 1..H
    BY <1>1, <1>2
  <2> HIDE DEF iter
  <2> QED BY <1>2, <2>1, <2>2
<1> DEFINE d == H - m
<1>5. d \in Nat
  BY <1>1, <1>2
<1>6. iter \in Seq(Stored(s)) /\ Len(iter) = d + 1
  <2>1. \A i \in 1..(d + 1) : m + i - 1 \in 1..H
    BY <1>1, <1>2
  <2>2. iter \in [1..(d + 1) -> Stored(s)]
    BY <1>2, <1>4, <2>1
  <2> HIDE DEF iter, d
  <2> QED BY <1>5, <2>2
<1>7. /\ above \in Seq(Stored(s)) /\ Len(above) = d
      /\ \A i \in 1..d : above[i] = C[m + i]
  <2>1. above \in Seq(Stored(s)) /\ Len(above) = d /\ \A i \in 1..d : above[i] = iter[i + 1]
    <3> HIDE DEF iter, d
    <3> QED BY <1>5, <1>6
  <2>2. ASSUME NEW i \in 1..d PROVE iter[i + 1] = C[m + i]
    <3>1. i + 1 \in 1..(H - m + 1) /\ m + (i + 1) - 1 = m + i
      BY <1>1, <1>2
    <3> HIDE DEF iter
    <3> QED BY <1>4, <3>1
  <2> QED BY <2>1, <2>2
<1> HIDE DEF above, iter
<1>8. last \in 0..d /\ last = Smaller(d, limit)
  BY <1>5, <1>7 DEF Smaller
<1> HIDE DEF d
<1>9. /\ size \in 0..last
      /\ \/ size >= 1 /\ above[size] = target
         \/ size = last /\ \A i \in 1..last : above[i] # target
  <2>1. CASE hit = {}
    BY <1>5, <1>8, <2>1
  <2>2. CASE hit # {}
    <3>1. size \in hit
      BY <2>2
    <3> HIDE DEF size, last
    <3> QED BY <1>5, <1>8, <3>1
  <2> QED BY <2>1, <2>2
<1> HIDE DEF size, last, hit
<1>10. size \in 0..d /\ size \in Nat
  BY <1>5, <1>8, <1>9
<1>11. SubSeq(above, 1, size) = [i \in 1..size |-> C[m + i]]
  <2>1. SubSeq(above, 1, size) = [i \in 1..size |-> above[i]]
    BY <1>7, <1>10
  <2>2. \A i \in 1..size : i \in 1..d
    BY <1>5, <1>10
  <2> QED BY <1>7, <2>1, <2>2
<1>12. size >= 1 => size \in 1..d
  BY <1>5, <1>10
<1>13. \A i \in 1..last : i \in 1..d
  BY <1>5, <1>8
<1>14. \/ size >= 1 /\ C[m + size] = target
       \/ size = last /\ \A i \in 1..size : C[m + i] # target
  BY <1>7, <1>9, <1>12, <1>13
<1>15. SubSeq(above, 1, size) = Above(s, s.head, m, size)
  BY <1>11 DEF Above, C
<1> QED BY <1>1, <1>3, <1>8, <1>10, <1>14, <1>15 DEF C, H, d

\* The current chain above the ancestor can be added block by block.
LEMMA ChainImportable ==
    ASSUME NEW s, Opened(s), NEW last_known \in Stored(s),
           NEW m \in Nat, m >= 1, m <= s.headHeight, Shared(s, s.head, last_known) = 1..m,
           NEW i \in Nat, i >= 1, i <= s.headHeight - m
    PROVE  IF i = 1 THEN s.header[Path(s, s.head)[m + i]] \in Members(Path(s, last_known))
           ELSE s.header[Path(s, s.head)[m + i]] = Path(s, s.head)[m + (i - 1)]
<1> DEFINE C == Path(s, s.head)
           F == Path(s, last_known)
<1>1. /\ s.headHeight \in Nat /\ s.height[last_known] \in Nat
      /\ \A h \in 2..s.headHeight : s.header[C[h]] = C[h - 1]
      /\ F \in [1..s.height[last_known] -> Stored(s)]
  BY ReadFacts
<1>2. m <= s.height[last_known] /\ F[m] = C[m]
  <2>1. m \in Shared(s, s.head, last_known)
    OBVIOUS
  <2> QED BY <2>1 DEF Shared
<1>3. m + i \in 2..s.headHeight /\ m + i - 1 = m + (i - 1)
  BY <1>1
<1>4. s.header[C[m + i]] = C[m + (i - 1)]
  BY <1>1, <1>3
<1>5. F[m] \in Members(F)
  <2>1. m \in 1..s.height[last_known]
    BY <1>1, <1>2
  <2> HIDE DEF F
  <2>2. Len(F) = s.height[last_known]
    BY <1>1
  <2> QED BY <2>1, <2>2 DEF Members
<1> QED BY <1>2, <1>4, <1>5

\* Each block of a list follows a known one or one before it.
Chained(s, known, list) ==
    \A i \in 1..Len(list) : s.header[list[i]] \in known \cup {list[j] : j \in 1..(i - 1)}

\* The same of the list of those blocks, for a peer that has the chain of
\* last_known.
LEMMA ListImportable ==
    ASSUME NEW s, Opened(s), NEW last_known \in Stored(s),
           NEW m \in Nat, m >= 1, m <= s.headHeight, Shared(s, s.head, last_known) = 1..m,
           NEW n \in Nat, n <= s.headHeight - m,
           NEW list, list = Above(s, s.head, m, n)
    PROVE  /\ list \in Seq(Stored(s)) /\ Len(list) = n
           /\ \A i \in 1..n : list[i] = Path(s, s.head)[m + i] /\ list[i] \in Members(list)
           /\ Chained(s, Members(Path(s, last_known)), list)
<1> DEFINE C == Path(s, s.head)
           known == Members(Path(s, last_known))
<1>1. s.headHeight \in Nat /\ C \in [1..s.headHeight -> Stored(s)]
  BY ReadFacts
<1>2. \A i \in 1..n : m + i \in 1..s.headHeight
  BY <1>1
<1>3. list \in [1..n -> Stored(s)]
  BY <1>1, <1>2 DEF Above
<1>4. list \in Seq(Stored(s)) /\ Len(list) = n
  BY <1>3
<1>5. \A i \in 1..n : list[i] = C[m + i] /\ list[i] \in Members(list)
  BY <1>4 DEF Members, Above
<1>6. ASSUME NEW i \in 1..n
      PROVE  s.header[list[i]] \in known \cup {list[j] : j \in 1..(i - 1)}
  <2>1. i \in Nat /\ i >= 1 /\ i <= s.headHeight - m
    BY <1>1
  <2>2. IF i = 1 THEN s.header[C[m + i]] \in known ELSE s.header[C[m + i]] = C[m + (i - 1)]
    BY <2>1, ChainImportable
  <2>3. list[i] = C[m + i]
    BY <1>5
  <2> HIDE DEF C, known
  <2>4. CASE i = 1
    BY <2>2, <2>3, <2>4
  <2>5. CASE i # 1
    <3>1. i - 1 \in 1..n /\ i - 1 \in 1..(i - 1)
      BY <2>1, <2>5
    <3>2. list[i - 1] = C[m + (i - 1)]
      BY <1>5, <3>1
    <3> QED BY <2>2, <2>3, <2>5, <3>1, <3>2
  <2> QED BY <2>4, <2>5
<1>7. Chained(s, known, list)
  BY <1>4, <1>6 DEF Chained
<1> QED BY <1>4, <1>5, <1>7

\* What a peer that has the chain of last_known knows.
LEMMA KnownFacts ==
    ASSUME NEW s, Opened(s), NEW last_known \in Stored(s)
    PROVE  /\ Members(Path(s, last_known)) = {Path(s, last_known)[h] : h \in 1..s.height[last_known]}
           /\ last_known \in Members(Path(s, last_known))
           /\ \A h \in Shared(s, s.head, last_known) :
                Path(s, s.head)[h] \in Members(Path(s, last_known))
<1> DEFINE F == Path(s, last_known)
<1>1. /\ s.height[last_known] \in Nat /\ s.height[last_known] >= 1
      /\ F \in [1..s.height[last_known] -> Stored(s)] /\ F[s.height[last_known]] = last_known
  BY ReadFacts
<1> HIDE DEF F
<1>2. Len(F) = s.height[last_known]
  BY <1>1
<1>3. Members(F) = {F[h] : h \in 1..s.height[last_known]}
  BY <1>2 DEF Members
<1>4. last_known \in Members(F)
  BY <1>1, <1>3
<1>5. ASSUME NEW h \in Shared(s, s.head, last_known)
      PROVE  Path(s, s.head)[h] \in Members(F)
  <2>1. h \in 1..s.height[last_known] /\ Path(s, s.head)[h] = F[h]
    BY <1>1, BoundAssumption DEF Shared, Heights, F
  <2> QED BY <1>3, <2>1
<1> QED BY <1>3, <1>4, <1>5 DEF F

\* A request for a block of the current chain is answered with blocks that can
\* be added one after another, and with at least one when the peer needs any.
THEOREM CutSyncAlwaysImportable == Spec => []CutSyncIsImportable
<1>1. IInv => CutSyncIsImportable
  <2> SUFFICES ASSUME IInv, NEW last_known \in Stored(db), NEW target \in Stored(db), NEW limit \in Limits,
                      is_part_of_current_chain(db, target)
               PROVE  LET list == get_blocks_between(db, last_known, target, limit)
                          known == Members(Path(db, last_known))
                      IN /\ ImportableBy(known, list, target) \/ ImportableBy(known, list, list[Len(list)])
                         /\ target \notin known => list # <<>>
    BY DEF CutSyncIsImportable
  <2>1. Opened(db)
    BY EmptyReads DEF IInv
  <2> DEFINE C == Path(db, db.head)
             F == Path(db, last_known)
             H == db.headHeight
             known == Members(F)
             list == get_blocks_between(db, last_known, target, limit)
  <2>2. limit \in Nat /\ limit >= 1
    BY LimitsAssumption
  <2>3. PICK m \in Nat : m >= 1 /\ m <= H /\ Shared(db, db.head, last_known) = 1..m
    BY <2>1, AncestorFacts
  <2>4. PICK n \in 0..(H - m) :
          /\ list = Above(db, db.head, m, n)
          /\ \/ n >= 1 /\ C[m + n] = target
             \/ n = Smaller(H - m, limit)
    BY <2>1, <2>2, <2>3, AfterFacts DEF get_blocks_between
  <2>5. /\ H \in Nat /\ C \in [1..H -> Stored(db)] /\ db.height[last_known] \in Nat
        /\ F \in [1..db.height[last_known] -> Stored(db)]
    BY <2>1, ReadFacts
  <2>6. n \in Nat /\ n <= H - m
    BY <2>3, <2>4, <2>5
  <2> HIDE DEF list
  <2>7. /\ list \in Seq(Stored(db)) /\ Len(list) = n /\ \A i \in 1..n : list[i] \in Members(list)
        /\ Chained(db, known, list)
    BY <2>1, <2>3, <2>4, <2>6, ListImportable
  <2>8. list = <<>> <=> n = 0
    BY <2>7
  <2>9. \A x : x \in known \cup Members(list) => ImportableBy(known, list, x)
    BY <2>7 DEF Chained, ImportableBy
  <2>10. target \notin known => n >= 1
    <3> SUFFICES ASSUME n = 0 PROVE target \in known
      BY <2>6
    <3>1. H = m
      BY <2>2, <2>3, <2>4, <2>5 DEF Smaller
    <3>2. target = C[db.height[target]] /\ db.height[target] \in 1..H
      BY <2>1, ReadFacts DEF is_part_of_current_chain
    <3>3. db.height[target] \in Shared(db, db.head, last_known)
      BY <2>3, <3>1, <3>2
    <3> QED BY <2>1, <3>2, <3>3, KnownFacts
  <2>11. CASE n = 0
    <3>1. target \in known
      BY <2>10, <2>11
    <3> QED BY <2>9, <3>1 DEF list
  <2>12. CASE n # 0
    <3>1. list[Len(list)] \in Members(list)
      <4>1. n \in 1..n
        BY <2>6, <2>12
      <4> QED BY <2>7, <4>1
    <3> QED BY <2>8, <2>9, <2>12, <3>1 DEF list
  <2> QED BY <2>11, <2>12
<1> QED BY <1>1, Invariance, PTL
\* get_blocks_before, when the limit allows, gives the chain of the target above
\* the first block, going down, that is last_known or on the current chain.
LEMMA BeforeFacts ==
    ASSUME NEW s, Opened(s), NEW last_known, NEW target \in Stored(s),
           NEW limit \in Nat, s.height[target] <= limit
    PROVE  \E p \in 1..s.height[target] :
             /\ get_blocks_before(s, target, last_known, limit)
                  = Above(s, target, p, s.height[target] - p)
             /\ Path(s, target)[p] = last_known \/ is_part_of_current_chain(s, Path(s, target)[p])
             /\ \A h \in (p + 1)..s.height[target] : /\ Path(s, target)[h] # last_known
                                                     /\ ~is_part_of_current_chain(s, Path(s, target)[h])
<1> DEFINE f == Path(s, target)
           top == s.height[target]
           Ends(h) == f[h] = last_known \/ is_part_of_current_chain(s, f[h])
           stop == {h \in 1..top : f[h] = last_known \/ is_part_of_current_chain(s, f[h])}
           p == CHOOSE h \in stop : \A k \in stop : k <= h
<1>1. top \in Nat /\ top >= 1
  BY ReadFacts
<1>2. 1 \in stop
  <2>1. PICK m \in Nat : m >= 1 /\ Shared(s, s.head, target) = 1..m
    BY AncestorFacts
  <2>2. 1 \in Shared(s, s.head, target) /\ 1 \in 1..s.height[target]
    BY <1>1, <2>1
  <2>3. is_part_of_current_chain(s, Path(s, target)[1])
    BY <2>2, OnCurrentChain
  <2> QED BY <1>1, <2>3
<1>3. get_blocks_before(s, target, last_known, limit) = Slice(f, Larger(1 + p, top - limit + 1), top)
  BY DEF get_blocks_before
<1>4. p \in stop /\ \A k \in stop : k <= p
  <2>1. \E h \in stop : \A k \in stop : k <= h
    <3> DEFINE T == {top - h : h \in stop}
    <3>1. T \subseteq Nat /\ T # {}
      BY <1>1, <1>2
    <3> HIDE DEF T
    <3>2. PICK x \in T : \A y \in T : x <= y
      BY <3>1, LeastElement
    <3>3. PICK h \in stop : x = top - h
      BY DEF T
    <3>4. ASSUME NEW k \in stop PROVE k <= h
      <4>1. top - k \in T
        BY DEF T
      <4>2. top - h <= top - k
        BY <3>2, <3>3, <4>1
      <4>3. k \in Int /\ h \in Int
        OBVIOUS
      <4> QED BY <1>1, <4>2, <4>3
    <3> QED BY <3>4
  <2> HIDE DEF stop
  <2> QED BY <2>1
<1>5. p \in 1..top /\ Ends(p) /\ \A h \in 1..top : Ends(h) => h <= p
  BY <1>4
<1> HIDE DEF p, stop
<1>6. ASSUME NEW h \in (p + 1)..top PROVE ~Ends(h)
  <2>1. h \in 1..top /\ ~(h <= p)
    BY <1>1, <1>5
  <2> QED BY <1>5, <2>1
<1> HIDE DEF Ends
<1>7. Larger(1 + p, top - limit + 1) = p + 1
  BY <1>1, <1>5 DEF Larger
<1>8. Slice(f, p + 1, top) = [i \in 1..(top - p) |-> f[p + i]]
  <2>1. top - (p + 1) + 1 = top - p /\ \A i \in 1..(top - p) : (p + 1) + i - 1 = p + i
    BY <1>1, <1>5
  <2> HIDE DEF f
  <2> QED BY <2>1 DEF Slice
<1>9. get_blocks_before(s, target, last_known, limit) = Above(s, target, p, top - p)
  BY <1>3, <1>7, <1>8 DEF Above
<1> QED BY <1>5, <1>6, <1>9 DEF Ends

\* Two lists one after the other.
LEMMA ConcatFacts ==
    ASSUME NEW S, NEW a \in Seq(S), NEW b \in Seq(S)
    PROVE  /\ a \o b \in Seq(S) /\ Len(a \o b) = Len(a) + Len(b)
           /\ \A i \in 1..(Len(a) + Len(b)) :
                (a \o b)[i] = IF i <= Len(a) THEN a[i] ELSE b[i - Len(a)]
OBVIOUS

\* Each block of the current chain passes the test for it.
LEMMA ChainOnChain ==
    ASSUME NEW s, Opened(s), NEW h \in 1..s.headHeight
    PROVE  is_part_of_current_chain(s, Path(s, s.head)[h])
<1>1. s.head \in Stored(s) /\ s.height[s.head] = s.headHeight /\ s.headHeight \in 1..MaxHeight
  BY ReadFacts
<1>2. h \in 1..s.height[s.head] /\ h \in Heights
  BY <1>1, BoundAssumption DEF Heights
<1>3. h \in Shared(s, s.head, s.head)
  BY <1>1, <1>2 DEF Shared
<1> QED BY <1>1, <1>2, <1>3, OnCurrentChain

\* An answer that the limit does not cut, for a target on the current chain.
LEMMA SyncOnChain ==
    ASSUME Opened(db), NEW last_known \in Stored(db), NEW target \in Stored(db),
           is_part_of_current_chain(db, target), NEW limit \in Nat, limit >= MaxHeight
    PROVE  ImportableBy(Members(Path(db, last_known)),
                        get_blocks_between(db, last_known, target, limit), target)
<1> DEFINE C == Path(db, db.head)
           H == db.headHeight
           known == Members(Path(db, last_known))
           list == get_blocks_between(db, last_known, target, limit)
<1>1. PICK m \in Nat : m >= 1 /\ m <= H /\ Shared(db, db.head, last_known) = 1..m
  BY AncestorFacts
<1>2. PICK n \in 0..(H - m) : /\ list = Above(db, db.head, m, n)
                              /\ \/ n >= 1 /\ C[m + n] = target
                                 \/ n = Smaller(H - m, limit)
  BY <1>1, AfterFacts DEF get_blocks_between
<1>3. H \in Nat /\ H <= MaxHeight /\ n \in Nat /\ n <= H - m
  BY <1>1, <1>2, ReadFacts, BoundAssumption
<1> HIDE DEF list
<1>4. /\ \A i \in 1..n : list[i] = C[m + i] /\ list[i] \in Members(list)
      /\ Chained(db, known, list)
  BY <1>1, <1>2, <1>3, ListImportable
<1>5. target = C[db.height[target]] /\ db.height[target] \in 1..H
  BY ReadFacts DEF is_part_of_current_chain
<1>6. target \in known \cup Members(list)
  <2>1. CASE db.height[target] <= m
    <3>1. db.height[target] \in Shared(db, db.head, last_known)
      BY <1>1, <1>3, <1>5, <2>1
    <3> QED BY <1>5, <3>1, KnownFacts
  <2>2. CASE n >= 1 /\ C[m + n] = target
    <3>1. n \in 1..n
      BY <1>3, <2>2
    <3> QED BY <1>4, <2>2, <3>1
  <2>3. CASE db.height[target] > m /\ n = Smaller(H - m, limit)
    <3> DEFINE i == db.height[target] - m
    <3>1. n = H - m
      BY <1>1, <1>3, <2>3, BoundAssumption DEF Smaller
    <3>2. i \in 1..n /\ m + i = db.height[target]
      BY <1>1, <1>3, <1>5, <2>3, <3>1
    <3> HIDE DEF i
    <3> QED BY <1>4, <1>5, <3>2
  <2> QED BY <1>1, <1>2, <1>3, <1>5, <2>1, <2>2, <2>3
<1> QED BY <1>4, <1>6 DEF Chained, ImportableBy, list

\* A function on 1..n is a sequence of length n.
LEMMA ListOfLength ==
    ASSUME NEW S, NEW n \in Nat, NEW f \in [1..n -> S]
    PROVE  f \in Seq(S) /\ Len(f) = n
OBVIOUS

\* The same for a target that is an uncle: the current chain above what the peer
\* shares with it, then the blocks that lead to the target.
LEMMA SyncOffChain ==
    ASSUME Opened(db), NEW last_known \in Stored(db), NEW target \in Stored(db),
           ~is_part_of_current_chain(db, target), NEW limit \in Nat, limit >= 2 * MaxHeight
    PROVE  ImportableBy(Members(Path(db, last_known)),
                        get_blocks_between(db, last_known, target, limit), target)
<1> DEFINE C == Path(db, db.head)
           H == db.headHeight
           G == Path(db, target)
           top == db.height[target]
           known == Members(Path(db, last_known))
           uncles == get_blocks_before(db, target, last_known, limit)
           mc_target == IF uncles = <<>> THEN target ELSE uncles[1]
           list == get_blocks_between(db, last_known, target, limit)
<1>1. /\ H \in Nat /\ H <= MaxHeight /\ top \in Nat /\ top >= 1 /\ top <= MaxHeight
      /\ MaxHeight \in Nat
  BY ReadFacts, BoundAssumption
<1>2. PICK m \in Nat : m >= 1 /\ m <= H /\ Shared(db, db.head, last_known) = 1..m
  BY AncestorFacts
<1>3. PICK p \in 1..top :
        /\ uncles = Above(db, target, p, top - p)
        /\ G[p] = last_known \/ is_part_of_current_chain(db, G[p])
        /\ \A h \in (p + 1)..top : G[h] # last_known /\ ~is_part_of_current_chain(db, G[h])
  <2>1. top <= limit
    BY <1>1
  <2> QED BY <2>1, BeforeFacts
<1> DEFINE q == top - p
           d == H - m
<1>4. q \in Nat /\ d \in Nat /\ top = p + q /\ H = m + d
  BY <1>1, <1>2
<1>5. /\ G \in [1..top -> Stored(db)] /\ G[top] = target
      /\ \A h \in 2..top : db.header[G[h]] = G[h - 1]
  BY ReadFacts
<1> HIDE DEF uncles
<1>6. /\ uncles \in Seq(Stored(db)) /\ Len(uncles) = q /\ \A i \in 1..q : uncles[i] = G[p + i]
  <2>1. \A i \in 1..q : p + i \in 1..top
    BY <1>1
  <2>2. uncles \in [1..q -> Stored(db)] /\ \A i \in 1..q : uncles[i] = G[p + i]
    BY <1>3, <1>5, <2>1 DEF Above
  <2> HIDE DEF q, G
  <2>3. uncles \in Seq(Stored(db)) /\ Len(uncles) = q
    BY <1>4, <2>2, ListOfLength, Zenon
  <2> QED BY <2>2, <2>3
<1>7. ~is_part_of_current_chain(db, mc_target)
  <2>1. CASE uncles = <<>>
    BY <2>1
  <2>2. CASE uncles # <<>>
    <3>1. q # 0
      BY <1>6, <2>2
    <3>2. 1 \in 1..q /\ p + 1 \in (p + 1)..top
      BY <1>1, <1>4, <3>1
    <3>3. uncles[1] = G[p + 1]
      BY <1>6, <3>2
    <3> QED BY <1>3, <2>2, <3>2, <3>3
  <2> QED BY <2>1, <2>2
<1>8. list = get_blocks_after(db, last_known, mc_target, limit - q) \o uncles
  BY <1>6 DEF get_blocks_between, uncles
<1> HIDE DEF mc_target, list
<1> DEFINE A == get_blocks_after(db, last_known, mc_target, limit - q)
<1>9. A = Above(db, db.head, m, d)
  <2>1. limit - q \in Nat /\ limit - q >= d
    <3>1. q <= MaxHeight /\ d <= MaxHeight
      BY <1>1, <1>2, <1>4, SMTT(30)
    <3> HIDE DEF q, d
    <3> QED BY <1>1, <1>4, <3>1
  <2>2. PICK n \in 0..d : /\ A = Above(db, db.head, m, n)
                          /\ \/ n >= 1 /\ C[m + n] = mc_target
                             \/ n = Smaller(d, limit - q)
    BY <1>2, <2>1, AfterFacts, SMTT(30)
  <2>3. ~(n >= 1 /\ C[m + n] = mc_target)
    <3>1. SUFFICES ASSUME n >= 1 PROVE C[m + n] # mc_target
      OBVIOUS
    <3>2. m + n \in 1..H
      BY <1>1, <1>2, <1>4, <3>1
    <3>3. is_part_of_current_chain(db, C[m + n])
      BY <3>2, ChainOnChain
    <3> QED BY <1>7, <3>3
  <2>4. n = d
    BY <1>4, <2>1, <2>2, <2>3 DEF Smaller
  <2> QED BY <2>2, <2>4
<1> HIDE DEF A
<1>10. /\ A \in Seq(Stored(db)) /\ Len(A) = d
       /\ \A i \in 1..d : A[i] = C[m + i] /\ A[i] \in Members(A)
       /\ Chained(db, known, A)
  <2>1. d <= db.headHeight - m
    BY <1>1, <1>2
  <2>2. d \in Nat /\ m <= db.headHeight
    BY <1>2, <1>4
  <2> HIDE DEF d
  <2> QED BY <1>2, <1>9, <2>1, <2>2, ListImportable, SMTT(30)
<1> HIDE DEF q, d, C, G, H, top, known
<1>11. /\ list \in Seq(Stored(db)) /\ Len(list) = d + q
       /\ \A i \in 1..d : list[i] = A[i]
       /\ \A i \in 1..q : list[d + i] = uncles[i]
  <2>1. list = A \o uncles
    BY <1>8 DEF A
  <2>2. /\ d \in Nat /\ q \in Nat /\ A \in Seq(Stored(db)) /\ Len(A) = d
        /\ uncles \in Seq(Stored(db)) /\ Len(uncles) = q
    BY <1>4, <1>6, <1>10
  <2>3. /\ A \o uncles \in Seq(Stored(db)) /\ Len(A \o uncles) = Len(A) + Len(uncles)
        /\ \A i \in 1..(Len(A) + Len(uncles)) :
             (A \o uncles)[i] = IF i <= Len(A) THEN A[i] ELSE uncles[i - Len(A)]
    BY <2>2, ConcatFacts, Zenon
  <2>4. /\ list \in Seq(Stored(db)) /\ Len(list) = d + q
        /\ \A i \in 1..(d + q) : list[i] = IF i <= d THEN A[i] ELSE uncles[i - d]
    BY <2>1, <2>2, <2>3, Zenon
  <2>5. ASSUME NEW i \in 1..q PROVE list[d + i] = uncles[i]
    <3>1. d + i \in 1..(d + q) /\ ~(d + i <= d) /\ (d + i) - d = i
      BY <2>2
    <3> QED BY <2>4, <3>1
  <2>6. \A i \in 1..d : i \in 1..(d + q) /\ i <= d
    BY <2>2
  <2> QED BY <2>4, <2>5, <2>6
<1>12. ASSUME NEW i \in 1..(d + q)
       PROVE  db.header[list[i]] \in known \cup {list[j] : j \in 1..(i - 1)}
  <2>1. CASE i <= d
    <3>1. i \in 1..d /\ \A j \in 1..(i - 1) : j \in 1..d
      BY <1>4, <2>1
    <3>2. db.header[A[i]] \in known \cup {A[j] : j \in 1..(i - 1)}
      BY <1>10, <3>1 DEF Chained
    <3>3. list[i] = A[i] /\ \A j \in 1..(i - 1) : list[j] = A[j]
      BY <1>11, <3>1
    <3> QED BY <3>2, <3>3
  <2>2. CASE i = d + 1
    <3>1. 1 \in 1..q /\ p + 1 \in 2..top /\ (p + 1) - 1 = p
      BY <1>4, <2>2
    <3>2. list[i] = G[p + 1]
      BY <1>6, <1>11, <2>2, <3>1
    <3>3. db.header[list[i]] = G[p]
      BY <1>5, <3>1, <3>2
    <3>4. CASE G[p] = last_known
      BY <3>3, <3>4, KnownFacts DEF known
    <3>5. CASE is_part_of_current_chain(db, G[p])
      <4>1. p \in Shared(db, db.head, target)
        BY <3>5, OnCurrentChain DEF G, top
      <4>2. G[p] = C[p] /\ p <= H
        BY <4>1, ReadFacts DEF Shared, G, C, H
      <4>3. CASE p <= m
        <5>1. p \in Shared(db, db.head, last_known)
          BY <1>2, <1>4, <4>3
        <5> QED BY <3>3, <4>2, <5>1, KnownFacts DEF known, C
      <4>4. CASE p > m
        <5> DEFINE j == p - m
        <5>1. j \in 1..d /\ m + j = p /\ j \in 1..(i - 1)
          BY <1>2, <1>4, <2>2, <4>2, <4>4
        <5> HIDE DEF j
        <5> QED BY <1>10, <1>11, <3>3, <4>2, <5>1
      <4> QED BY <1>2, <4>3, <4>4
    <3> QED BY <1>3, <3>4, <3>5
  <2>3. CASE i > d + 1
    <3> DEFINE k == i - d
    <3>1. /\ k \in 1..q /\ k - 1 \in 1..q /\ d + k = i /\ d + (k - 1) = i - 1
          /\ i - 1 \in 1..(i - 1) /\ p + k \in 2..top /\ (p + k) - 1 = p + (k - 1)
      BY <1>4, <2>3
    <3> HIDE DEF k
    <3>2. list[i] = G[p + k] /\ list[i - 1] = G[p + (k - 1)]
      BY <1>6, <1>11, <3>1
    <3> QED BY <1>5, <3>1, <3>2
  <2> QED BY <1>4, <2>1, <2>2, <2>3
<1>13. target \in known \cup Members(list)
  <2>1. CASE q = 0
    <3>1. G[p] = target
      BY <1>4, <1>5, <2>1
    <3>2. target = last_known
      BY <1>3, <3>1
    <3> QED BY <3>2, KnownFacts DEF known
  <2>2. CASE q # 0
    <3>1. q \in 1..q /\ d + q \in 1..(d + q)
      BY <1>4, <2>2
    <3>2. list[d + q] = target
      BY <1>4, <1>5, <1>6, <1>11, <3>1
    <3> QED BY <1>11, <3>1, <3>2 DEF Members
  <2> QED BY <2>1, <2>2
<1> QED BY <1>11, <1>12, <1>13 DEF ImportableBy, list, known

\* An answer that the limit does not cut brings the peer from any block it knows
\* to any target, each block after its prev.
THEOREM SyncAlwaysReachesTarget == Spec => []SyncReachesTarget
<1>1. IInv => SyncReachesTarget
  <2> SUFFICES ASSUME IInv, NEW last_known \in Stored(db), NEW target \in Stored(db)
               PROVE  ImportableBy(Members(Path(db, last_known)),
                                   get_blocks_between(db, last_known, target, 2 * MaxHeight), target)
    BY DEF SyncReachesTarget
  <2>1. Opened(db)
    BY EmptyReads DEF IInv
  <2>2. 2 * MaxHeight \in Nat /\ 2 * MaxHeight >= MaxHeight /\ 2 * MaxHeight >= 2 * MaxHeight
    BY BoundAssumption
  <2> QED BY <2>1, <2>2, SyncOnChain, SyncOffChain
<1> QED BY <1>1, Invariance, PTL
-----------------------------------------------------------------------------
(* The two-ended search *)

\* The hash at a height of the chain of c, the zero hash below genesis, and the
\* height at which a hash can be.
At(s, c, h) == IF h = 0 THEN Zero ELSE Path(s, c)[h]
Level(s, z) == IF z = Zero THEN 0 ELSE s.height[z]

\* What the search from c has met after n steps down.
Searched(s, c, n) ==
    [dist |-> [z \in {At(s, c, h) : h \in (s.height[c] - n)..s.height[c]} |-> s.height[c] - Level(s, z)],
     last |-> At(s, c, s.height[c] - n)]

\* Every hash of a chain is at its height.
LEMMA AtFacts ==
    ASSUME NEW s, Opened(s), NEW c \in Stored(s)
    PROVE  /\ s.height[c] \in Nat /\ s.height[c] >= 1 /\ s.height[c] <= MaxHeight
           /\ At(s, c, s.height[c]) = c
           /\ \A h \in 0..s.height[c] : Level(s, At(s, c, h)) = h /\ (At(s, c, h) = Zero <=> h = 0)
           /\ \A h \in 1..s.height[c] : /\ At(s, c, h) = Path(s, c)[h]
                                        /\ s.header[At(s, c, h)] = At(s, c, h - 1)
<1> DEFINE f == Path(s, c)
           K == s.height[c]
<1>1. /\ K \in Nat /\ K >= 1 /\ K <= MaxHeight
      /\ f \in [1..K -> Stored(s)] /\ f[K] = c /\ s.header[f[1]] = Zero
      /\ \A h \in 1..K : s.height[f[h]] = h
      /\ \A h \in 2..K : s.header[f[h]] = f[h - 1]
  BY ReadFacts, BoundAssumption
<1> HIDE DEF f, K
<1>2. \A h \in 1..K : h # 0 /\ At(s, c, h) = f[h] /\ f[h] # Zero
  <2>1. \A h \in 1..K : f[h] # Zero
    BY <1>1, MarkerAssumption DEF Stored
  <2> QED BY <1>1, <2>1 DEF At, f
<1>3. At(s, c, 0) = Zero
  BY DEF At
<1>4. ASSUME NEW h \in 0..K PROVE Level(s, At(s, c, h)) = h /\ (At(s, c, h) = Zero <=> h = 0)
  <2>1. CASE h = 0
    BY <1>3, <2>1 DEF Level
  <2>2. CASE h # 0
    <3>1. h \in 1..K
      BY <1>1, <2>2
    <3> QED BY <1>1, <1>2, <2>2, <3>1 DEF Level
  <2> QED BY <2>1, <2>2
<1>5. ASSUME NEW h \in 1..K PROVE s.header[At(s, c, h)] = At(s, c, h - 1)
  <2>1. CASE h = 1
    BY <1>1, <1>2, <1>3, <2>1
  <2>2. CASE h # 1
    <3>1. h \in 2..K /\ h - 1 \in 1..K
      BY <1>1, <2>2
    <3> QED BY <1>1, <1>2, <3>1
  <2> QED BY <2>1, <2>2
<1>6. At(s, c, K) = c
  BY <1>1, <1>2
<1> QED BY <1>1, <1>2, <1>4, <1>5, <1>6 DEF f, K

\* What a search has, and how it goes on.
LEMMA SearchedFacts ==
    ASSUME NEW s, Opened(s), NEW c \in Stored(s), NEW n \in 0..s.height[c]
    PROVE  /\ Searched(s, c, n).last = At(s, c, s.height[c] - n)
           /\ \A z : z \in DOMAIN Searched(s, c, n).dist
                       <=> \E h \in (s.height[c] - n)..s.height[c] : z = At(s, c, h)
           /\ \A h \in (s.height[c] - n)..s.height[c] :
                Searched(s, c, n).dist[At(s, c, h)] = s.height[c] - h
           /\ \A z \in DOMAIN Searched(s, c, n).dist :
                Searched(s, c, n).dist[z] = s.height[c] - Level(s, z)
<1> DEFINE K == s.height[c]
           D == {At(s, c, h) : h \in (K - n)..K}
           dist == [z \in D |-> K - Level(s, z)]
<1>1. Searched(s, c, n) = [dist |-> dist, last |-> At(s, c, K - n)]
  BY DEF Searched
<1>2. Searched(s, c, n).last = At(s, c, K - n) /\ Searched(s, c, n).dist = dist
  BY <1>1
<1>3. K \in Nat /\ \A h \in 0..K : Level(s, At(s, c, h)) = h
  BY AtFacts
<1>4. ASSUME NEW h \in (K - n)..K PROVE dist[At(s, c, h)] = K - h
  <2>1. h \in 0..K /\ At(s, c, h) \in D
    BY <1>3
  <2> QED BY <1>3, <2>1
<1>5. /\ DOMAIN dist = D
      /\ \A z \in D : dist[z] = K - Level(s, z)
  OBVIOUS
<1>6. \A z : z \in D <=> \E h \in (K - n)..K : z = At(s, c, h)
  OBVIOUS
<1> HIDE DEF dist, D
<1> QED BY <1>2, <1>4, <1>5, <1>6
\* A search begins with its block, goes on one block down, and stays at zero.
LEMMA ExtendFacts ==
    ASSUME NEW s, Opened(s), NEW c \in Stored(s)
    PROVE  /\ SearchFrom(c) = Searched(s, c, 0)
           /\ \A n \in 0..s.height[c], d \in Nat :
                /\ n = s.height[c] => Extend(s, Searched(s, c, n), d) = Searched(s, c, n)
                /\ n < s.height[c] /\ d = n + 1 => Extend(s, Searched(s, c, n), d) = Searched(s, c, n + 1)
<1> DEFINE K == s.height[c]
<1>1. /\ K \in Nat /\ K >= 1 /\ At(s, c, K) = c
      /\ \A h \in 0..K : Level(s, At(s, c, h)) = h /\ (At(s, c, h) = Zero <=> h = 0)
      /\ \A h \in 1..K : s.header[At(s, c, h)] = At(s, c, h - 1)
  BY AtFacts
<1> HIDE DEF K
<1>2. SearchFrom(c) = Searched(s, c, 0)
  <2>1. (K - 0)..K = {K} /\ K - 0 = K /\ K \in 0..K /\ K - K = 0
    BY <1>1
  <2>2. {At(s, c, h) : h \in (K - 0)..K} = {c}
    BY <1>1, <2>1
  <2>3. K - Level(s, c) = 0
    BY <1>1, <2>1
  <2>4. [z \in {c} |-> K - Level(s, z)] = [z \in {c} |-> 0]
    BY <2>3
  <2>5. Searched(s, c, 0) = [dist |-> [z \in {c} |-> K - Level(s, z)], last |-> c]
    BY <1>1, <2>1, <2>2 DEF Searched, K
  <2> QED BY <2>4, <2>5 DEF SearchFrom
<1>3. ASSUME NEW n \in 0..K, NEW d \in Nat, n = K
      PROVE  Extend(s, Searched(s, c, n), d) = Searched(s, c, n)
  <2>1. Searched(s, c, n).last = At(s, c, K - n)
    BY SearchedFacts DEF K
  <2>2. K - n = 0 /\ 0 \in 0..K
    BY <1>1, <1>3
  <2> QED BY <1>1, <2>1, <2>2 DEF Extend
<1>4. ASSUME NEW n \in 0..K, NEW d \in Nat, n < K, d = n + 1
      PROVE  Extend(s, Searched(s, c, n), d) = Searched(s, c, n + 1)
  <2> DEFINE a == Searched(s, c, n)
             p == At(s, c, K - (n + 1))
             D == {At(s, c, h) : h \in (K - n)..K}
             E == {At(s, c, h) : h \in (K - (n + 1))..K}
             F == [x \in DOMAIN a.dist \cup {p} |-> IF x = p THEN d ELSE a.dist[x]]
             G == [z \in E |-> K - Level(s, z)]
  <2>1. /\ a.last = At(s, c, K - n) /\ DOMAIN a.dist = D
        /\ \A z \in D : a.dist[z] = K - Level(s, z)
    BY DEF Searched, K
  <2>2. /\ K - n \in 1..K /\ K - n # 0 /\ (K - n) - 1 = K - (n + 1) /\ K - (n + 1) \in 0..K
        /\ K - n \in 0..K /\ K - (K - (n + 1)) = n + 1
    BY <1>1, <1>4
  <2>3. a.last # Zero /\ s.header[a.last] = p
    BY <1>1, <2>1, <2>2
  <2>4. Extend(s, a, d) = [dist |-> F, last |-> p]
    BY <2>3 DEF Extend
  <2>5. Searched(s, c, n + 1) = [dist |-> G, last |-> p]
    BY DEF Searched, K
  <2>6. D \cup {p} = E
    <3>1. (K - (n + 1))..K = ((K - n)..K) \cup {K - (n + 1)}
      BY <1>1, <1>4
    <3> QED BY <3>1
  <2>7. K - Level(s, p) = d
    BY <1>1, <1>4, <2>2
  <2> HIDE DEF a, p, D, E
  <2>8. F = G
    BY <2>1, <2>6, <2>7
  <2> QED BY <2>4, <2>5, <2>8 DEF a
<1> QED BY <1>2, <1>3, <1>4 DEF K

\* Two chains that have the same hashes up to height m and no other one.
Meet(s, x, y, m) ==
    /\ m \in Nat /\ m >= 1 /\ m <= s.height[x] /\ m <= s.height[y]
    /\ \A h \in 0..m : At(s, x, h) = At(s, y, h)
    /\ \A h \in 0..s.height[x], k \in 0..s.height[y] : At(s, x, h) = At(s, y, k) => h = k /\ h <= m

\* Any two chains do.
LEMMA MeetFacts ==
    ASSUME NEW s, Opened(s), NEW x \in Stored(s), NEW y \in Stored(s),
           NEW m \in Nat, m >= 1, m <= s.height[x], m <= s.height[y], Shared(s, x, y) = 1..m
    PROVE  Meet(s, x, y, m) /\ Meet(s, y, x, m)
<1> DEFINE X == s.height[x]
           Y == s.height[y]
<1>1. /\ X \in Nat /\ X >= 1 /\ X <= MaxHeight
      /\ \A h \in 0..X : Level(s, At(s, x, h)) = h /\ (At(s, x, h) = Zero <=> h = 0)
      /\ \A h \in 1..X : At(s, x, h) = Path(s, x)[h]
  BY AtFacts
<1>2. /\ Y \in Nat /\ Y >= 1 /\ Y <= MaxHeight
      /\ \A h \in 0..Y : Level(s, At(s, y, h)) = h /\ (At(s, y, h) = Zero <=> h = 0)
      /\ \A h \in 1..Y : At(s, y, h) = Path(s, y)[h]
  BY AtFacts
<1>3. m <= X /\ m <= Y
  OBVIOUS
<1>4. \A h : h \in 1..m <=> h \in Heights /\ h <= X /\ h <= Y /\ Path(s, x)[h] = Path(s, y)[h]
  BY DEF Shared
<1> HIDE DEF X, Y
<1>5. ASSUME NEW h \in 0..m PROVE At(s, x, h) = At(s, y, h)
  <2>1. CASE h = 0
    BY <2>1 DEF At
  <2>2. CASE h # 0
    <3>1. h \in 1..m /\ h \in 1..X /\ h \in 1..Y
      BY <1>1, <1>2, <1>3, <2>2
    <3> QED BY <1>1, <1>2, <1>4, <3>1
  <2> QED BY <2>1, <2>2
<1>6. ASSUME NEW h \in 0..X, NEW k \in 0..Y, At(s, x, h) = At(s, y, k)
      PROVE  h = k /\ h <= m
  <2>1. h = k
    BY <1>1, <1>2, <1>6
  <2>2. CASE h = 0
    BY <2>1, <2>2
  <2>3. CASE h # 0
    <3>1. h \in 1..X /\ h \in 1..Y /\ h \in Heights
      BY <1>1, <1>2, <2>1, <2>3, BoundAssumption DEF Heights
    <3>2. h <= X /\ h <= Y /\ Path(s, x)[h] = Path(s, y)[h]
      BY <1>1, <1>2, <1>6, <2>1, <3>1
    <3>3. h \in 1..m
      BY <1>4, <3>1, <3>2
    <3> QED BY <2>1, <3>3
  <2> QED BY <2>2, <2>3
<1>7. Meet(s, x, y, m)
  BY <1>3, <1>5, <1>6 DEF Meet, X, Y
<1>8. Meet(s, y, x, m)
  <2>1. ASSUME NEW h \in 0..Y, NEW k \in 0..X, At(s, y, h) = At(s, x, k)
        PROVE  h = k /\ h <= m
    BY <1>6, <2>1
  <2> QED BY <1>3, <1>5, <2>1 DEF Meet, X, Y
<1> QED BY <1>7, <1>8

\* Where the last hash of one search is met by the other.
LEMMA LastMet ==
    ASSUME NEW s, Opened(s), NEW x \in Stored(s), NEW y \in Stored(s), NEW m, Meet(s, x, y, m),
           NEW i \in 0..s.height[x], NEW j \in 0..s.height[y]
    PROVE  Searched(s, y, j).last \in DOMAIN Searched(s, x, i).dist
             <=> s.height[y] - j >= s.height[x] - i /\ s.height[y] - j <= m
<1> DEFINE X == s.height[x]
           Y == s.height[y]
           k == Y - j
<1>1. X \in Nat /\ Y \in Nat
  BY AtFacts
<1>2. /\ m \in Nat /\ m <= X /\ m <= Y
      /\ \A h \in 0..m : At(s, x, h) = At(s, y, h)
      /\ \A g \in 0..X, h \in 0..Y : At(s, x, g) = At(s, y, h) => g = h /\ g <= m
  BY DEF Meet
<1>3. Searched(s, y, j).last = At(s, y, k)
  BY SearchedFacts
<1>4. At(s, y, k) \in DOMAIN Searched(s, x, i).dist <=> \E h \in (X - i)..X : At(s, y, k) = At(s, x, h)
  BY SearchedFacts
<1>5. k \in 0..Y /\ \A h \in (X - i)..X : h \in 0..X
  BY <1>1
<1> HIDE DEF X, Y, k
<1>6. ASSUME NEW h \in (X - i)..X, At(s, y, k) = At(s, x, h)
      PROVE  k >= X - i /\ k <= m
  <2>1. h \in 0..X
    BY <1>5
  <2>2. h = k /\ h <= m
    BY <1>2, <1>5, <1>6, <2>1
  <2> QED BY <1>1, <1>6, <2>2 DEF X
<1>7. ASSUME k >= X - i, k <= m
      PROVE  \E h \in (X - i)..X : At(s, y, k) = At(s, x, h)
  <2>1. k \in (X - i)..X /\ k \in 0..m
    BY <1>1, <1>2, <1>5, <1>7 DEF X
  <2> QED BY <1>2, <2>1
<1>8. (\E h \in (X - i)..X : At(s, y, k) = At(s, x, h)) <=> k >= X - i /\ k <= m
  BY <1>6, <1>7
<1> QED BY <1>3, <1>4, <1>8 DEF X, Y, k
\* The searches have found each other when both are at most at height m.
LEMMA FoundFacts ==
    ASSUME NEW s, Opened(s), NEW x \in Stored(s), NEW y \in Stored(s), NEW m,
           Meet(s, x, y, m), Meet(s, y, x, m),
           NEW i \in 0..s.height[x], NEW j \in 0..s.height[y]
    PROVE  Found(Searched(s, x, i), Searched(s, y, j))
             <=> s.height[x] - i <= m /\ s.height[y] - j <= m
<1> DEFINE a == Searched(s, x, i)
           b == Searched(s, y, j)
           g == s.height[x] - i
           h == s.height[y] - j
<1>1. g \in Nat /\ h \in Nat /\ g \in 0..s.height[x] /\ h \in 0..s.height[y]
  BY AtFacts
<1>2. b.last \in DOMAIN a.dist <=> h >= g /\ h <= m
  BY LastMet
<1>3. a.last \in DOMAIN b.dist <=> g >= h /\ g <= m
  BY LastMet
<1>4. (a.last = Zero <=> g = 0) /\ (b.last = Zero <=> h = 0)
  <2>1. a.last = At(s, x, g) /\ b.last = At(s, y, h)
    BY SearchedFacts
  <2> HIDE DEF g, h
  <2> QED BY <1>1, <2>1, AtFacts
<1>5. m \in Nat
  BY DEF Meet
<1>6. Found(a, b) <=> \/ b.last \in DOMAIN a.dist
                      \/ a.last \in DOMAIN b.dist
                      \/ a.last = Zero /\ b.last = Zero
  BY DEF Found
<1> HIDE DEF a, b, g, h
<1>7. Found(a, b) <=> g <= m /\ h <= m
  BY <1>1, <1>2, <1>3, <1>4, <1>5, <1>6
<1> QED BY <1>7 DEF a, b, g, h

\* The distance to where the searches met is that to height m.
LEMMA IntersectFacts ==
    ASSUME NEW s, Opened(s), NEW x \in Stored(s), NEW y \in Stored(s), NEW m, Meet(s, x, y, m),
           NEW i \in 0..s.height[x], NEW j \in 0..s.height[y],
           s.height[x] - i <= m, s.height[y] - j <= m,
           s.height[x] - i = m \/ s.height[y] - j = m
    PROVE  intersect_dist(Searched(s, x, i), Searched(s, y, j)) = s.height[x] - m
<1> DEFINE a == Searched(s, x, i)
           b == Searched(s, y, j)
           X == s.height[x]
           Y == s.height[y]
<1>1. X \in Nat /\ Y \in Nat /\ m \in Nat /\ m <= X /\ m <= Y
  BY AtFacts DEF Meet
<1>2. b.last \in DOMAIN a.dist <=> Y - j >= X - i /\ Y - j <= m
  BY LastMet
<1>3. a.last = At(s, x, X - i) /\ b.last = At(s, y, Y - j)
  BY SearchedFacts
<1>4. \A h \in (X - i)..X : a.dist[At(s, x, h)] = X - h
  BY SearchedFacts
<1>5. At(s, x, m) = At(s, y, m)
  BY <1>1 DEF Meet
<1>6. intersect_dist(a, b) = IF b.last \in DOMAIN a.dist THEN a.dist[b.last] ELSE a.dist[a.last]
  BY DEF intersect_dist
<1>7. X - i <= m /\ Y - j <= m /\ (X - i = m \/ Y - j = m) /\ X - i \in Nat /\ Y - j \in Nat
  BY <1>1
<1>8. m \in (X - i)..X
  BY <1>1, <1>7
<1>9. a.dist[At(s, x, m)] = X - m
  BY <1>4, <1>8
<1> HIDE DEF a, b, X, Y
<1>10. CASE b.last \in DOMAIN a.dist
  <2>1. Y - j = m
    BY <1>1, <1>2, <1>7, <1>10
  <2> QED BY <1>3, <1>5, <1>6, <1>9, <1>10, <2>1 DEF a, b, X
<1>11. CASE b.last \notin DOMAIN a.dist
  <2>1. X - i = m
    BY <1>1, <1>2, <1>7, <1>11
  <2> QED BY <1>3, <1>6, <1>9, <1>11, <2>1 DEF a, b, X
<1> QED BY <1>10, <1>11

\* The blocks of a search above height m, with their heights.
LEMMA HeightsFacts ==
    ASSUME NEW s, Opened(s), NEW x \in Stored(s), NEW m \in Nat, m >= 1, m <= s.height[x],
           NEW i \in 0..s.height[x], s.height[x] - i <= m
    PROVE  {<<s.height[x] - Searched(s, x, i).dist[k], k>> :
               k \in {k \in DOMAIN Searched(s, x, i).dist :
                        Searched(s, x, i).dist[k] < s.height[x] - m}}
             = {<<h, Path(s, x)[h]>> : h \in (1..s.height[x]) \ (1..m)}
<1> DEFINE X == s.height[x]
           dist == Searched(s, x, i).dist
           L == {<<X - dist[k], k>> : k \in {k \in DOMAIN dist : dist[k] < X - m}}
           R == {<<h, Path(s, x)[h]>> : h \in (1..X) \ (1..m)}
<1>1. X \in Nat /\ \A h \in 1..X : At(s, x, h) = Path(s, x)[h]
  BY AtFacts
<1>2. /\ \A z : z \in DOMAIN dist <=> \E h \in (X - i)..X : z = At(s, x, h)
      /\ \A h \in (X - i)..X : dist[At(s, x, h)] = X - h
  BY SearchedFacts
<1>3. X - i <= m /\ X - i \in Nat
  BY <1>1
<1> HIDE DEF X, dist
<1>4. ASSUME NEW k \in DOMAIN dist, dist[k] < X - m
      PROVE  <<X - dist[k], k>> \in R
  <2>1. PICK h \in (X - i)..X : k = At(s, x, h)
    BY <1>2
  <2>2. dist[k] = X - h
    BY <1>2, <2>1
  <2>3. h \in Int /\ h <= X /\ X - h < X - m
    BY <1>1, <1>3, <1>4, <2>1, <2>2
  <2>4. h \in (1..X) \ (1..m) /\ h \in 1..X /\ X - dist[k] = h
    BY <1>1, <2>2, <2>3
  <2>5. k = Path(s, x)[h]
    BY <1>1, <2>1, <2>4
  <2> QED BY <2>4, <2>5
<1>5. ASSUME NEW h \in (1..X) \ (1..m)
      PROVE  <<h, Path(s, x)[h]>> \in L
  <2> DEFINE k == At(s, x, h)
  <2>1. h \in 1..X /\ h > m /\ h \in (X - i)..X /\ X - (X - h) = h /\ X - h < X - m
    BY <1>1, <1>3
  <2>2. k \in DOMAIN dist /\ dist[k] = X - h /\ k = Path(s, x)[h]
    BY <1>1, <1>2, <2>1
  <2> HIDE DEF k
  <2> QED BY <2>1, <2>2
<1>6. L = R
  BY <1>4, <1>5
<1> QED BY <1>6 DEF X, dist

\* The rounds of the search, one closed form for all: they go down together and
\* stop at the first distance from which both are at most at height m.
LEMMA SearchEnds ==
    ASSUME NEW s, Opened(s), NEW x \in Stored(s), NEW y \in Stored(s), NEW m,
           Meet(s, x, y, m), Meet(s, y, x, m)
    PROVE  \E i \in 0..s.height[x], j \in 0..s.height[y] :
             /\ latest_common_ancestor(s, x, y) = <<Searched(s, x, i), Searched(s, y, j)>>
             /\ s.height[x] - i <= m /\ s.height[y] - j <= m
             /\ s.height[x] - i = m \/ s.height[y] - j = m
<1> DEFINE X == s.height[x]
           Y == s.height[y]
           D == Larger(X, Y) - m
           I(d) == Smaller(Smaller(d, D), X)
           J(d) == Smaller(Smaller(d, D), Y)
           At2(i, j) == <<Searched(s, x, i), Searched(s, y, j)>>
           Step(r, d) == IF Found(r[1], r[2]) THEN r ELSE <<Extend(s, r[1], d), Extend(s, r[2], d)>>
           start == <<SearchFrom(x), SearchFrom(y)>>
           f == [d \in 0..MaxHeight |-> At2(I(d), J(d))]
           round[d \in 0..MaxHeight] ==
              IF d = 0 THEN <<SearchFrom(x), SearchFrom(y)>>
              ELSE LET r == round[d - 1] IN
                   IF Found(r[1], r[2]) THEN r
                   ELSE <<Extend(s, r[1], d), Extend(s, r[2], d)>>
<1>1. /\ X \in Nat /\ Y \in Nat /\ X <= MaxHeight /\ Y <= MaxHeight /\ MaxHeight \in Nat
      /\ m \in Nat /\ m >= 1 /\ m <= X /\ m <= Y
  BY AtFacts, BoundAssumption DEF Meet
<1>2. latest_common_ancestor(s, x, y) = round[MaxHeight]
  BY Zenon DEF latest_common_ancestor
<1> HIDE DEF X, Y
<1>3. D \in Nat /\ D <= MaxHeight
  BY <1>1 DEF Larger
<1>4. ASSUME NEW d \in Nat
      PROVE  I(d) \in 0..X /\ J(d) \in 0..Y /\ I(d) \in Nat /\ J(d) \in Nat
  BY <1>1, <1>3 DEF Smaller
<1>5. ASSUME NEW d \in Nat
      PROVE  X - I(d) <= m /\ Y - J(d) <= m <=> d >= D
  BY <1>1, <1>3 DEF Smaller, Larger
<1>6. X - I(MaxHeight) = m \/ Y - J(MaxHeight) = m
  BY <1>1, <1>3 DEF Smaller, Larger
<1>7. I(0) = 0 /\ J(0) = 0
  BY <1>1, <1>3 DEF Smaller
<1>8. ASSUME NEW d \in Nat, d >= 1
      PROVE  /\ d - 1 >= D => I(d) = I(d - 1) /\ J(d) = J(d - 1)
             /\ d - 1 < D => /\ I(d - 1) = X => I(d) = X
                             /\ I(d - 1) # X => I(d - 1) = d - 1 /\ I(d) = d /\ I(d - 1) < X
                             /\ J(d - 1) = Y => J(d) = Y
                             /\ J(d - 1) # Y => J(d - 1) = d - 1 /\ J(d) = d /\ J(d - 1) < Y
  BY <1>1, <1>3, <1>8 DEF Smaller
<1>9. /\ SearchFrom(x) = Searched(s, x, 0)
      /\ \A n \in 0..X, d \in Nat :
           /\ n = X => Extend(s, Searched(s, x, n), d) = Searched(s, x, n)
           /\ n < X /\ d = n + 1 => Extend(s, Searched(s, x, n), d) = Searched(s, x, n + 1)
  BY ExtendFacts DEF X
<1>10. /\ SearchFrom(y) = Searched(s, y, 0)
       /\ \A n \in 0..Y, d \in Nat :
            /\ n = Y => Extend(s, Searched(s, y, n), d) = Searched(s, y, n)
            /\ n < Y /\ d = n + 1 => Extend(s, Searched(s, y, n), d) = Searched(s, y, n + 1)
  BY ExtendFacts DEF Y
<1> HIDE DEF D, I, J
<1>11. ASSUME NEW d \in Nat, d >= 1
       PROVE  At2(I(d), J(d)) = Step(At2(I(d - 1), J(d - 1)), d)
  <2> DEFINE e == d - 1
  <2>1. e \in Nat /\ d = e + 1
    BY <1>11
  <2>2. Found(Searched(s, x, I(e)), Searched(s, y, J(e))) <=> e >= D
    <3>1. I(e) \in 0..X /\ J(e) \in 0..Y
      BY <1>4, <2>1
    <3>2. Found(Searched(s, x, I(e)), Searched(s, y, J(e))) <=> X - I(e) <= m /\ Y - J(e) <= m
      BY <3>1, FoundFacts DEF X, Y
    <3> QED BY <1>5, <2>1, <3>2
  <2>3. CASE e >= D
    BY <1>8, <1>11, <2>2, <2>3
  <2>4. CASE ~(e >= D)
    <3>1. e < D /\ I(e) \in 0..X /\ J(e) \in 0..Y
      BY <1>3, <1>4, <2>1, <2>4
    <3>2. Extend(s, Searched(s, x, I(e)), d) = Searched(s, x, I(d))
      BY <1>8, <1>9, <1>11, <2>1, <3>1
    <3>3. Extend(s, Searched(s, y, J(e)), d) = Searched(s, y, J(d))
      BY <1>8, <1>10, <1>11, <2>1, <3>1
    <3> QED BY <2>2, <2>4, <3>2, <3>3
  <2> QED BY <2>3, <2>4
<1>12. At2(I(0), J(0)) = start
  BY <1>7, <1>9, <1>10
<1>13. \A d \in 0..MaxHeight : f[d] = At2(I(d), J(d))
  OBVIOUS
<1> HIDE DEF At2, f
<1>14. ASSUME NEW d \in 0..MaxHeight
       PROVE  f[d] = IF d = 0 THEN start ELSE Step(f[d - 1], d)
  <2>1. CASE d = 0
    BY <1>1, <1>12, <1>13, <2>1
  <2>2. CASE d # 0
    <3>1. d \in Nat /\ d >= 1 /\ d - 1 \in 0..MaxHeight
      BY <1>1, <2>2
    <3>2. At2(I(d), J(d)) = Step(At2(I(d - 1), J(d - 1)), d)
      BY <1>11, <3>1
    <3> HIDE DEF Step
    <3> QED BY <1>13, <2>2, <3>1, <3>2
  <2> QED BY <2>1, <2>2
<1>15. f = [d \in 0..MaxHeight |-> IF d = 0 THEN start ELSE Step(f[d - 1], d)]
  <2> HIDE DEF start, Step
  <2> QED BY <1>14 DEF f
<1>16. round = [d \in 0..MaxHeight |-> IF d = 0 THEN start ELSE Step(round[d - 1], d)]
  BY <1>15, Zenon
<1> HIDE DEF round, start, Step
<1> DEFINE T == {d \in Nat : d <= MaxHeight => round[d] = f[d]}
<1>17. 0 \in T
  BY <1>1, <1>14, <1>16
<1>18. ASSUME NEW d \in Nat, d \in T PROVE d + 1 \in T
  <2> SUFFICES ASSUME d + 1 <= MaxHeight PROVE round[d + 1] = f[d + 1]
    OBVIOUS
  <2>1. d + 1 \in 0..MaxHeight /\ d + 1 # 0 /\ (d + 1) - 1 = d /\ d <= MaxHeight
    BY <1>1
  <2>2. round[d] = f[d]
    BY <1>18, <2>1
  <2> QED BY <1>14, <1>16, <2>1, <2>2
<1> HIDE DEF T
<1>19. MaxHeight \in T
  BY <1>1, <1>17, <1>18, SetInduction
<1>20. round[MaxHeight] = At2(I(MaxHeight), J(MaxHeight))
  BY <1>1, <1>13, <1>19 DEF T
<1>21. /\ I(MaxHeight) \in 0..X /\ J(MaxHeight) \in 0..Y
       /\ X - I(MaxHeight) <= m /\ Y - J(MaxHeight) <= m
  BY <1>1, <1>3, <1>4, <1>5
<1> QED BY <1>2, <1>6, <1>20, <1>21 DEF At2, X, Y
\* The search from both ends and its arithmetic on distances give exactly the
\* blocks by which the two chains differ, with their heights, never genesis.
THEOREM BlockPathAlwaysExact == Spec => []BlockPathExact
<1>1. IInv => BlockPathExact
  <2> SUFFICES ASSUME IInv, db.head # Zero, NEW b \in Stored(db)
               PROVE  LET path == calculate_block_path(db, db.head, b) IN
                      /\ path[1] = {<<h, Path(db, db.head)[h]>> : h \in Down(db, db.head, b)}
                      /\ path[2] = {<<h, Path(db, b)[h]>> : h \in Up(db, db.head, b)}
                      /\ \A e \in path[1] \cup path[2] : e[1] > 1
    BY DEF BlockPathExact
  <2> DEFINE x == db.head
             H == db.headHeight
             B == db.height[b]
             r == latest_common_ancestor(db, x, b)
             a_dist == intersect_dist(r[1], r[2])
             b_dist == intersect_dist(r[2], r[1])
             b_height == H - a_dist + b_dist
             heights(a, top, d) ==
                {<<top - a.dist[k], k>> : k \in {k \in DOMAIN a.dist : a.dist[k] < d}}
             path == calculate_block_path(db, x, b)
  <2>1. Opened(db)
    BY EmptyReads DEF IInv
  <2>2. /\ x \in Stored(db) /\ db.height[x] = H /\ H \in Nat /\ B \in Nat
    BY <2>1, ReadFacts, AtFacts
  <2>3. PICK m \in Nat : m >= 1 /\ m <= H /\ m <= B /\ Shared(db, x, b) = 1..m
    BY <2>1, AncestorFacts
  <2>4. Meet(db, x, b, m) /\ Meet(db, b, x, m)
    BY <2>1, <2>2, <2>3, MeetFacts
  <2>5. PICK i \in 0..H, j \in 0..B :
          /\ r = <<Searched(db, x, i), Searched(db, b, j)>>
          /\ H - i <= m /\ B - j <= m /\ (H - i = m \/ B - j = m)
    BY <2>1, <2>2, <2>4, SearchEnds
  <2>6. path = <<heights(r[1], H, a_dist), heights(r[2], b_height, b_dist)>>
    BY Zenon DEF calculate_block_path
  <2> HIDE DEF r, path
  <2>7. r[1] = Searched(db, x, i) /\ r[2] = Searched(db, b, j)
    BY <2>5
  <2>8. a_dist = H - m /\ b_dist = B - m
    <3>1. intersect_dist(Searched(db, x, i), Searched(db, b, j)) = db.height[x] - m
      BY <2>1, <2>2, <2>4, <2>5, IntersectFacts
    <3>2. intersect_dist(Searched(db, b, j), Searched(db, x, i)) = db.height[b] - m
      BY <2>1, <2>2, <2>4, <2>5, IntersectFacts
    <3> QED BY <2>2, <2>7, <3>1, <3>2
  <2>9. b_height = B
    BY <2>2, <2>3, <2>8
  <2>10. heights(r[1], H, a_dist) = {<<h, Path(db, x)[h]>> : h \in (1..H) \ (1..m)}
    <3>1. heights(Searched(db, x, i), db.height[x], db.height[x] - m)
            = {<<h, Path(db, x)[h]>> : h \in (1..db.height[x]) \ (1..m)}
      BY <2>1, <2>2, <2>3, <2>5, HeightsFacts, SMTT(30)
    <3> QED BY <2>2, <2>7, <2>8, <3>1
  <2>11. heights(r[2], b_height, b_dist) = {<<h, Path(db, b)[h]>> : h \in (1..B) \ (1..m)}
    <3>1. heights(Searched(db, b, j), db.height[b], db.height[b] - m)
            = {<<h, Path(db, b)[h]>> : h \in (1..db.height[b]) \ (1..m)}
      BY <2>1, <2>2, <2>3, <2>5, HeightsFacts
    <3> QED BY <2>7, <2>8, <2>9, <3>1
  <2>12. Down(db, x, b) = (1..H) \ (1..m) /\ Up(db, x, b) = (1..B) \ (1..m)
    BY <2>2, <2>3 DEF Down, Up
  <2> HIDE DEF heights, a_dist, b_dist, b_height, H, B
  <2>13. /\ path[1] = {<<h, Path(db, x)[h]>> : h \in (1..H) \ (1..m)}
         /\ path[2] = {<<h, Path(db, b)[h]>> : h \in (1..B) \ (1..m)}
    BY <2>6, <2>10, <2>11
  <2>14. \A e \in path[1] \cup path[2] : e[1] > 1
    <3>1. ASSUME NEW h \in ((1..H) \ (1..m)) \cup ((1..B) \ (1..m)) PROVE h > 1
      BY <2>2, <2>3
    <3>2. ASSUME NEW e \in path[1] \cup path[2]
          PROVE  \E h \in ((1..H) \ (1..m)) \cup ((1..B) \ (1..m)) : e[1] = h
      BY <2>13
    <3> QED BY <3>1, <3>2
  <2>15. /\ path[1] = {<<h, Path(db, x)[h]>> : h \in Down(db, x, b)}
         /\ path[2] = {<<h, Path(db, b)[h]>> : h \in Up(db, x, b)}
    BY <2>12, <2>13, Zenon
  <2> QED BY <2>14, <2>15, Zenon DEF path
<1> QED BY <1>1, Invariance, PTL
=============================================================================
