---------------------------- MODULE CheckersProofs --------------------------
(* The loop over the jumps of a play does what the whole play should do, on
   boards of every size and for chains of every length; the rules keep every
   branch in turn, and on one chain the cached boards are those of its moves. *)
EXTENDS BoardPlay, Game, InductionFacts, FiniteSetTheorems, TLAPS

-----------------------------------------------------------------------------
(* Squares, directions and pieces *)

\* A step changes row and column by one; north and south are what the row does.
LEMMA DirFacts ==
    /\ Directions = {"NW", "NE", "SE", "SW"}
    /\ \A d \in Directions : /\ dir_vec[d][1] \in {-1, 1} /\ dir_vec[d][2] \in {-1, 1}
                             /\ dir_vec[d][1] = -1 <=> d \in {"NE", "NW"}
                             /\ dir_vec[d][1] = 1 <=> d \in {"SE", "SW"}
BY DEF Directions, dir_vec

\* What upgrade and is_other_player make of the pieces of a player.
LEMMA PieceFacts ==
    ASSUME NEW player \in {"Red", "Black"}
    PROVE  /\ PiecesOf("Red") = {"Red", "RedKing"} /\ PiecesOf("Black") = {"Black", "BlackKing"}
           /\ PiecesOf(player) \subseteq Tiles \ {"None"}
           /\ \A t \in Tiles : upgrade(t) \in Tiles
           /\ \A t \in PiecesOf(player) : t # player => upgrade(t) = t
           /\ upgrade("None") = "None"
           /\ ~is_other_player("None", player)
<1>1. /\ upgrade("Red") = "RedKing" /\ upgrade("Black") = "BlackKing"
      /\ upgrade("RedKing") = "RedKing" /\ upgrade("BlackKing") = "BlackKing" /\ upgrade("None") = "None"
  BY DEF upgrade
<1> QED BY <1>1 DEF PiecesOf, Tiles, is_other_player

\* A square is a pair of a row and a column of the board.
LEMMA SquareFacts ==
    /\ LastRow \in Int /\ LastRow = Size - 1
    /\ \A s \in Squares : /\ s[1] \in 0..LastRow /\ s[2] \in 0..LastRow
                          /\ s = <<s[1], s[2]>>
    /\ \A x, y : <<x, y>> \in Squares <=> x \in 0..LastRow /\ y \in 0..LastRow
    /\ \A x, y : <<x, y>>[1] = x /\ <<x, y>>[2] = y
BY BoardAssumption DEF Squares, LastRow

\* The index of a square is that of a square of the board.
LEMMA IdxFacts ==
    ASSUME NEW idx \in Nat, idx < Size * Size
    PROVE  idx_to_rc(idx) \in Squares
<1> DEFINE S == Size
           q == idx \div S
           r == idx % S
<1>1. S \in Nat
  BY BoardAssumption
<1>2. S # 0
  BY <1>1
<1> HIDE DEF S
<1>3. q \in Nat /\ r \in 0..(S - 1) /\ idx = S * q + r
  BY <1>1, <1>2
<1> HIDE DEF q, r
<1>4. q < S
  <2> SUFFICES ASSUME q >= S PROVE FALSE
    BY <1>1, <1>3
  <2> DEFINE d == q - S
  <2>1. d \in Nat /\ q = S + d
    BY <1>1, <1>3
  <2> HIDE DEF d
  <2>2. S * q = S * S + S * d /\ S * d \in Nat /\ S * S \in Nat
    BY <1>1, <2>1
  <2>3. idx < S * S
    BY DEF S
  <2> QED BY <1>3, <2>2, <2>3
<1>5. idx_to_rc(idx) = <<q, r>>
  BY DEF idx_to_rc, q, r, S
<1>6. q \in 0..LastRow /\ r \in 0..LastRow
  BY <1>1, <1>3, <1>4, SquareFacts DEF S
<1> QED BY <1>5, <1>6, SquareFacts

-----------------------------------------------------------------------------
(* The squares that a play stops at *)

\* How many of the first n steps are among those of K.
Count(K, n) == Cardinality({k \in 1..n : k \in K})

\* Counting members of K among 1..n, one number at a time.
LEMMA CountFacts ==
    ASSUME NEW K
    PROVE  /\ Count(K, 0) = 0
           /\ \A n \in Nat : /\ Count(K, n) \in Nat
                             /\ n + 1 \in K => Count(K, n + 1) = Count(K, n) + 1
                             /\ n + 1 \notin K => Count(K, n + 1) = Count(K, n)
<1> DEFINE S(n) == {k \in 1..n : k \in K}
<1>1. \A n \in Nat : IsFiniteSet(S(n)) /\ Cardinality(S(n)) \in Nat
  <2> SUFFICES ASSUME NEW n \in Nat PROVE IsFiniteSet(S(n)) /\ Cardinality(S(n)) \in Nat
    OBVIOUS
  <2>1. IsFiniteSet(1..n)
    BY FS_Interval
  <2>2. S(n) \in SUBSET (1..n)
    OBVIOUS
  <2> QED BY <2>1, <2>2, FS_Subset, FS_CardinalityType
<1>2. S(0) = {}
  OBVIOUS
<1>3. ASSUME NEW n \in Nat, n + 1 \in K PROVE Cardinality(S(n + 1)) = Cardinality(S(n)) + 1
  <2>1. S(n + 1) = S(n) \cup {n + 1} /\ n + 1 \notin S(n)
    BY <1>3
  <2> HIDE DEF S
  <2> QED BY <1>1, <2>1, FS_AddElement
<1>4. ASSUME NEW n \in Nat, n + 1 \notin K PROVE S(n + 1) = S(n)
  BY <1>4
<1>5. \A n : Count(K, n) = Cardinality(S(n))
  BY DEF Count
<1> HIDE DEF S
<1> QED BY <1>1, <1>2, <1>3, <1>4, <1>5, FS_EmptySet

\* The steps of a path that go up, or down, along coordinate i, and how far they
\* lead after n of them.
Ups(path, i) == {k \in Nat : dir_vec[path[k]][i] = 1}
Downs(path, i) == {k \in Nat : dir_vec[path[k]][i] = -1}

Way(path, n, i) == Count(Ups(path, i), n) - Count(Downs(path, i), n)

\* The rows or columns passed after n steps are those after n - 1 and the last one.
LEMMA WayFacts ==
    ASSUME NEW N \in Nat, NEW path \in [1..N -> Directions], NEW i \in {1, 2}
    PROVE  /\ Way(path, 0, i) = 0
           /\ \A n \in Nat : Way(path, n, i) \in Int
           /\ \A n \in 1..N : Way(path, n, i) = Way(path, n - 1, i) + dir_vec[path[n]][i]
<1> DEFINE U == Ups(path, i)
           D == Downs(path, i)
<1>1. /\ Count(U, 0) = 0
      /\ \A n \in Nat : /\ Count(U, n) \in Nat
                        /\ n + 1 \in U => Count(U, n + 1) = Count(U, n) + 1
                        /\ n + 1 \notin U => Count(U, n + 1) = Count(U, n)
  <2> HIDE DEF U
  <2> QED BY CountFacts
<1>2. /\ Count(D, 0) = 0
      /\ \A n \in Nat : /\ Count(D, n) \in Nat
                        /\ n + 1 \in D => Count(D, n + 1) = Count(D, n) + 1
                        /\ n + 1 \notin D => Count(D, n + 1) = Count(D, n)
  <2> HIDE DEF D
  <2> QED BY CountFacts
<1>3. \A n \in 1..N : /\ n \in U <=> dir_vec[path[n]][i] = 1
                      /\ n \in D <=> dir_vec[path[n]][i] = -1
  BY DEF Ups, Downs
<1>4. \A n : Way(path, n, i) = Count(U, n) - Count(D, n)
  BY DEF Way
<1> HIDE DEF U, D
<1>5. ASSUME NEW n \in 1..N PROVE Way(path, n, i) = Way(path, n - 1, i) + dir_vec[path[n]][i]
  <2> DEFINE k == n - 1
             x == dir_vec[path[n]][i]
  <2>1. k \in Nat /\ k + 1 = n /\ path[n] \in Directions
    OBVIOUS
  <2>2. x = -1 \/ x = 1
    BY <2>1, DirFacts
  <2>3. (n \in U <=> x = 1) /\ (n \in D <=> x = -1)
    BY <1>3
  <2> HIDE DEF k, x
  <2>4. Count(U, k) \in Nat /\ Count(D, k) \in Nat
    BY <1>1, <1>2, <2>1
  <2>5. /\ n \in U => Count(U, n) = Count(U, k) + 1
        /\ n \notin U => Count(U, n) = Count(U, k)
        /\ n \in D => Count(D, n) = Count(D, k) + 1
        /\ n \notin D => Count(D, n) = Count(D, k)
    BY <1>1, <1>2, <2>1
  <2>6. Count(U, n) - Count(D, n) = Count(U, k) - Count(D, k) + x
    BY <2>2, <2>3, <2>4, <2>5
  <2> QED BY <1>4, <2>6 DEF k, x
<1>6. Way(path, 0, i) = 0
  <2>1. Way(path, 0, i) = 0 - 0
    BY <1>1, <1>2, <1>4
  <2> QED BY <2>1
<1>7. ASSUME NEW n \in Nat PROVE Way(path, n, i) \in Int
  <2>1. Count(U, n) \in Nat /\ Count(D, n) \in Nat
    BY <1>1, <1>2
  <2> QED BY <1>4, <2>1
<1> QED BY <1>5, <1>6, <1>7

\* Where a path of steps of one length leads, step by step.
LEMMA AfterFacts ==
    ASSUME NEW from \in Squares, NEW N \in Nat, NEW path \in [1..N -> Directions], NEW length \in {1, 2}
    PROVE  /\ After(from, path, 0, length) = from
           /\ \A n \in 0..N : /\ Way(path, n, 1) \in Int /\ Way(path, n, 2) \in Int
                              /\ After(from, path, n, length)
                                   = <<from[1] + length * Way(path, n, 1), from[2] + length * Way(path, n, 2)>>
           /\ \A n \in 1..N : \A i \in {1, 2} :
                After(from, path, n, length)[i]
                  = After(from, path, n - 1, length)[i] + length * dir_vec[path[n]][i]
<1>1. from[1] \in Int /\ from[2] \in Int /\ from = <<from[1], from[2]>>
  BY SquareFacts
<1>2. \A K : \A n \in Nat : Count(K, n) \in Nat
  BY CountFacts
<1>3. ASSUME NEW n \in 0..N
      PROVE  /\ Way(path, n, 1) \in Int /\ Way(path, n, 2) \in Int
             /\ After(from, path, n, length)
                  = <<from[1] + length * Way(path, n, 1), from[2] + length * Way(path, n, 2)>>
  <2>1. \A i : Count(Ups(path, i), n) \in Int /\ Count(Downs(path, i), n) \in Int
    BY <1>2
  <2>2. \A i : /\ Way(path, n, i) \in Int
               /\ length * Count(Ups(path, i), n) - length * Count(Downs(path, i), n) = length * Way(path, n, i)
    BY <2>1 DEF Way
  <2>3. \A i : /\ Count(Ups(path, i), n) = Cardinality({k \in 1..n : dir_vec[path[k]][i] = 1})
               /\ Count(Downs(path, i), n) = Cardinality({k \in 1..n : dir_vec[path[k]][i] = -1})
    <3> SUFFICES ASSUME NEW i
                 PROVE  /\ {k \in 1..n : k \in Ups(path, i)} = {k \in 1..n : dir_vec[path[k]][i] = 1}
                        /\ {k \in 1..n : k \in Downs(path, i)} = {k \in 1..n : dir_vec[path[k]][i] = -1}
      BY DEF Count
    <3> QED BY DEF Ups, Downs
  <2>4. After(from, path, n, length)
          = <<from[1] + (length * Count(Ups(path, 1), n) - length * Count(Downs(path, 1), n)),
              from[2] + (length * Count(Ups(path, 2), n) - length * Count(Downs(path, 2), n))>>
    BY <2>3 DEF After
  <2> QED BY <2>2, <2>4
<1>4. Way(path, 0, 1) = 0 /\ Way(path, 0, 2) = 0
  BY WayFacts
<1>5. After(from, path, 0, length) = from
  <2>1. 0 \in 0..N /\ length * 0 = 0
    OBVIOUS
  <2>2. After(from, path, 0, length) = <<from[1] + length * 0, from[2] + length * 0>>
    BY <1>3, <1>4, <2>1
  <2> QED BY <1>1, <2>1, <2>2
<1>6. ASSUME NEW n \in 1..N, NEW i \in {1, 2}
      PROVE  Way(path, n, i) = Way(path, n - 1, i) + dir_vec[path[n]][i]
  BY WayFacts
<1>7. ASSUME NEW n \in 1..N, NEW i \in {1, 2}
      PROVE  After(from, path, n, length)[i]
               = After(from, path, n - 1, length)[i] + length * dir_vec[path[n]][i]
  <2> DEFINE x == dir_vec[path[n]][i]
             w == Way(path, n - 1, i)
  <2>1. n \in 0..N /\ n - 1 \in 0..N /\ path[n] \in Directions
    OBVIOUS
  <2>2. x \in Int
    BY <2>1, DirFacts
  <2>3. w \in Int /\ Way(path, n, i) = w + x
    BY <1>3, <1>6, <2>1
  <2>4. /\ After(from, path, n, length)[i] = from[i] + length * Way(path, n, i)
        /\ After(from, path, n - 1, length)[i] = from[i] + length * w
    <3>1. CASE i = 1
      BY <1>3, <2>1, <3>1
    <3>2. CASE i = 2
      BY <1>3, <2>1, <3>2
    <3> QED BY <3>1, <3>2
  <2> HIDE DEF x, w
  <2>5. from[i] \in Int /\ length * (w + x) = length * w + length * x
    BY <1>1, <2>2, <2>3
  <2>6. length * w \in Int /\ length * x \in Int
    BY <2>2, <2>3
  <2>7. After(from, path, n, length)[i] = After(from, path, n - 1, length)[i] + length * x
    BY <2>3, <2>4, <2>5, <2>6
  <2> QED BY <2>7 DEF x
<1> QED BY <1>3, <1>5, <1>7

-----------------------------------------------------------------------------
(* Chains of jumps *)

\* Where a chain is after n jumps, and what its n-th jump goes over.
Stop(from, path, n) == After(from, path, n, 2)
Over(from, path, n) == move_in_dir(path[n], Stop(from, path, n - 1))

\* A chain stops on every other row, and takes on the rows between.
LEMMA JumpSquares ==
    ASSUME NEW from \in Squares, NEW N \in Nat, NEW path \in [1..N -> Directions]
    PROVE  /\ Stop(from, path, 0) = from
           /\ \A n \in 1..N : /\ Stop(from, path, n) = jump_in_dir(path[n], Stop(from, path, n - 1))
                              /\ Stop(from, path, n) # Stop(from, path, n - 1)
           /\ \A n \in 1..N : \A j \in 0..N : Over(from, path, n) # Stop(from, path, j)
           /\ \A n \in 1..N : Stop(from, path, n - 1) \in Squares /\ Stop(from, path, n) \in Squares
                                => Over(from, path, n) \in Squares
<1> DEFINE S(n) == Stop(from, path, n)
           W(n) == Way(path, n, 1)
<1>1. /\ S(0) = from
      /\ \A n \in 0..N : /\ W(n) \in Int /\ Way(path, n, 2) \in Int
                         /\ S(n) = <<from[1] + 2 * W(n), from[2] + 2 * Way(path, n, 2)>>
      /\ \A n \in 1..N : \A i \in {1, 2} : S(n)[i] = S(n - 1)[i] + 2 * dir_vec[path[n]][i]
  BY AfterFacts DEF Stop
<1>2. from[1] \in Int /\ from[2] \in Int
  BY SquareFacts
<1>3. \A n \in 0..N : /\ S(n)[1] = from[1] + 2 * W(n) /\ S(n)[1] \in Int
                      /\ S(n)[2] \in Int /\ S(n) = <<S(n)[1], S(n)[2]>>
  <2> SUFFICES ASSUME NEW n \in 0..N
               PROVE  /\ S(n)[1] = from[1] + 2 * W(n) /\ S(n)[1] \in Int
                      /\ S(n)[2] \in Int /\ S(n) = <<S(n)[1], S(n)[2]>>
    OBVIOUS
  <2> DEFINE x == from[1] + 2 * W(n)
             y == from[2] + 2 * Way(path, n, 2)
  <2>1. W(n) \in Int /\ Way(path, n, 2) \in Int
    BY <1>1
  <2>2. x \in Int /\ y \in Int
    <3> HIDE DEF W
    <3> QED BY <1>2, <2>1
  <2>3. x \in Int /\ y \in Int /\ S(n) = <<x, y>>
    BY <1>1, <2>2
  <2>4. x = from[1] + 2 * W(n)
    OBVIOUS
  <2> HIDE DEF x, y, S, W
  <2> QED BY <2>3, <2>4
<1> HIDE DEF S, W
<1>4. ASSUME NEW n \in 1..N
      PROVE  \E dx, dy \in {-1, 1} :
                /\ S(n) = <<S(n - 1)[1] + 2 * dx, S(n - 1)[2] + 2 * dy>>
                /\ S(n) = jump_in_dir(path[n], S(n - 1))
                /\ Over(from, path, n) = <<S(n - 1)[1] + dx, S(n - 1)[2] + dy>>
  <2> DEFINE dx == dir_vec[path[n]][1]
             dy == dir_vec[path[n]][2]
  <2>1. n \in 0..N /\ n - 1 \in 0..N /\ path[n] \in Directions
    OBVIOUS
  <2>2. dx \in {-1, 1} /\ dy \in {-1, 1}
    BY <2>1, DirFacts
  <2>3. S(n)[1] = S(n - 1)[1] + 2 * dx /\ S(n)[2] = S(n - 1)[2] + 2 * dy
    BY <1>1
  <2>4. S(n) = <<S(n - 1)[1] + 2 * dx, S(n - 1)[2] + 2 * dy>>
    BY <1>3, <2>1, <2>3
  <2>5. jump_in_dir(path[n], S(n - 1)) = <<S(n - 1)[1] + 2 * dx, S(n - 1)[2] + 2 * dy>>
    BY DEF jump_in_dir
  <2>6. Over(from, path, n) = <<S(n - 1)[1] + dx, S(n - 1)[2] + dy>>
    BY DEF Over, move_in_dir, S
  <2> HIDE DEF dx, dy
  <2> QED BY <2>2, <2>4, <2>5, <2>6
<1>5. ASSUME NEW n \in 1..N
      PROVE  S(n) = jump_in_dir(path[n], S(n - 1)) /\ S(n) # S(n - 1)
  <2>1. PICK dx, dy \in {-1, 1} :
                /\ S(n) = <<S(n - 1)[1] + 2 * dx, S(n - 1)[2] + 2 * dy>>
                /\ S(n) = jump_in_dir(path[n], S(n - 1))
    BY <1>4
  <2>2. n - 1 \in 0..N /\ S(n)[1] = S(n - 1)[1] + 2 * dx
    BY <2>1
  <2>3. S(n - 1)[1] \in Int
    BY <1>3, <2>2
  <2>4. S(n)[1] # S(n - 1)[1]
    BY <2>2, <2>3
  <2> QED BY <2>1, <2>4
<1>6. ASSUME NEW n \in 1..N, NEW j \in 0..N
      PROVE  Over(from, path, n) # S(j)
  <2>1. PICK dx, dy \in {-1, 1} : Over(from, path, n) = <<S(n - 1)[1] + dx, S(n - 1)[2] + dy>>
    BY <1>4
  <2>2. n - 1 \in 0..N /\ Over(from, path, n)[1] = S(n - 1)[1] + dx
    BY <2>1
  <2>3. S(n - 1)[1] = from[1] + 2 * W(n - 1) /\ S(j)[1] = from[1] + 2 * W(j)
    BY <1>3, <2>2
  <2>4. W(n - 1) \in Int /\ W(j) \in Int
    BY <1>1, <2>2
  <2>5. from[1] + 2 * W(n - 1) + dx # from[1] + 2 * W(j)
    BY <1>2, <2>4
  <2>6. Over(from, path, n)[1] # S(j)[1]
    BY <2>2, <2>3, <2>5
  <2> QED BY <2>6
<1>7. ASSUME NEW n \in 1..N, S(n - 1) \in Squares, S(n) \in Squares
      PROVE  Over(from, path, n) \in Squares
  <2> DEFINE x == S(n - 1)[1]
             y == S(n - 1)[2]
  <2>1. PICK dx, dy \in {-1, 1} : /\ S(n) = <<x + 2 * dx, y + 2 * dy>>
                                  /\ Over(from, path, n) = <<x + dx, y + dy>>
    BY <1>4
  <2>2. x \in 0..LastRow /\ y \in 0..LastRow
    BY <1>7, SquareFacts
  <2> HIDE DEF x, y
  <2>3. x + 2 * dx \in 0..LastRow /\ y + 2 * dy \in 0..LastRow
    BY <1>7, <2>1, SquareFacts
  <2>4. x + dx \in 0..LastRow /\ y + dy \in 0..LastRow
    <3>1. LastRow \in Int
      BY SquareFacts
    <3>2. x + dx \in 0..LastRow
      BY <2>2, <2>3, <3>1
    <3>3. y + dy \in 0..LastRow
      BY <2>2, <2>3, <3>1
    <3> QED BY <3>2, <3>3
  <2> QED BY <2>1, <2>4, SquareFacts
<1> QED BY <1>1, <1>5, <1>6, <1>7 DEF S

\* The k-th jump of a chain is allowed on the board before the chain, after the
\* jumps before it.
Jumps(b, from, path, k, player) ==
    /\ valid_direction(b[from], path[k])
    /\ Stop(from, path, k) = from \/ (Stop(from, path, k) \in Squares /\ b[Stop(from, path, k)] = "None")
    /\ is_other_player(b[Over(from, path, k)], player)
    /\ \A j \in 1..(k - 1) : Over(from, path, j) # Over(from, path, k)

AllJump(b, from, path, n, player) == \A k \in 1..n : Jumps(b, from, path, k, player)

\* The board after n jumps that are allowed.
Left(b, from, path, n) ==
    [s \in Squares |->
        IF s = Stop(from, path, n) THEN b[from]
        ELSE IF s = from \/ (\E k \in 1..n : Over(from, path, k) = s) THEN "None"
        ELSE b[s]]

\* Moving and crowning a piece gives a board.
LEMMA CarriedFacts ==
    ASSUME NEW b \in Boards, NEW from \in Squares, NEW over, NEW to \in Squares
    PROVE  /\ Carried(b, from, over, to) \in Boards
           /\ Crowned(b, to) \in Boards
<1>1. \A s \in Squares : b[s] \in Tiles /\ upgrade(b[s]) \in Tiles
  BY PieceFacts DEF Boards
<1>2. "None" \in Tiles
  BY DEF Tiles
<1>3. Carried(b, from, over, to) \in Boards
  BY <1>1, <1>2 DEF Carried, Boards
<1>4. Crowned(b, to) \in Boards
  BY <1>1 DEF Crowned, Boards
<1> QED BY <1>3, <1>4

Results == [ok : BOOLEAN, board : Boards]

Chains == [ok : BOOLEAN, board : Boards, at : Squares]

\* A hop keeps the type of a chain of jumps, and a chain that failed stays failed.
LEMMA HopType ==
    ASSUME NEW chain \in Chains, NEW dir, NEW player
    PROVE  /\ Hop(chain, dir, player) \in Chains
           /\ ~chain.ok => ~Hop(chain, dir, player).ok
<1> DEFINE to == jump_in_dir(dir, chain.at)
           passed == move_in_dir(dir, chain.at)
           C == Carried(chain.board, chain.at, {passed}, to)
           can == /\ chain.ok
                  /\ valid_direction(chain.board[chain.at], dir)
                  /\ to \in Squares
                  /\ chain.board[to] = "None"
                  /\ is_other_player(chain.board[passed], player)
<1>1. Hop(chain, dir, player) = IF can THEN [ok |-> TRUE, board |-> C, at |-> to] ELSE [chain EXCEPT !.ok = FALSE]
  BY DEF Hop
<1>2. chain.board \in Boards /\ chain.at \in Squares
  BY DEF Chains
<1>3. can => to \in Squares /\ chain.ok
  OBVIOUS
<1> HIDE DEF to, passed, can
<1>4. CASE can
  <2>1. C \in Boards
    BY <1>2, <1>3, <1>4, CarriedFacts
  <2> HIDE DEF C
  <2> QED BY <1>1, <1>3, <1>4, <2>1 DEF Chains
<1>5. CASE ~can
  BY <1>1, <1>5 DEF Chains
<1> QED BY <1>4, <1>5

\* A jump of the loop goes on exactly when it is allowed on the board before the
\* chain, and leaves what the jumps so far should leave.
LEMMA HopFacts ==
    ASSUME NEW b \in Boards, NEW from \in Squares, NEW N \in Nat, NEW path \in [1..N -> Directions],
           NEW player \in {"Red", "Black"}, NEW n \in 1..N,
           AllJump(b, from, path, n - 1, player), Stop(from, path, n - 1) \in Squares,
           NEW chain, chain = [ok |-> TRUE, board |-> Left(b, from, path, n - 1), at |-> Stop(from, path, n - 1)]
    PROVE  /\ Jumps(b, from, path, n, player) =>
                /\ Stop(from, path, n) \in Squares
                /\ Hop(chain, path[n], player)
                     = [ok |-> TRUE, board |-> Left(b, from, path, n), at |-> Stop(from, path, n)]
           /\ ~Jumps(b, from, path, n, player) => ~Hop(chain, path[n], player).ok
<1> DEFINE at == Stop(from, path, n - 1)
           to == Stop(from, path, n)
           passed == Over(from, path, n)
           B == Left(b, from, path, n - 1)
           O(s) == \E k \in 1..(n - 1) : Over(from, path, k) = s
           can == /\ valid_direction(B[at], path[n])
                  /\ to \in Squares
                  /\ B[to] = "None"
                  /\ is_other_player(B[passed], player)
<1>1. n \in 0..N /\ n - 1 \in 0..N /\ 0 \in 0..N /\ \A k \in 1..(n - 1) : k \in 1..N
  OBVIOUS
<1>2. /\ to = jump_in_dir(path[n], at) /\ to # at
      /\ passed = move_in_dir(path[n], at)
      /\ at \in Squares /\ to \in Squares => passed \in Squares
  BY JumpSquares DEF Over
<1>3. /\ passed # at /\ passed # to /\ passed # from
      /\ \A k \in 1..(n - 1) : Over(from, path, k) # to /\ Over(from, path, k) # at /\ Over(from, path, k) # from
  BY <1>1, JumpSquares
<1>4. at \in Squares /\ chain.ok /\ chain.board = B /\ chain.at = at
  OBVIOUS
<1>5. at = from \/ b[at] = "None"
  <2>1. CASE n = 1
    <3>1. n - 1 = 0
      BY <2>1
    <3> QED BY <3>1, JumpSquares
  <2>2. CASE n # 1
    <3>1. n - 1 \in 1..(n - 1)
      BY <2>2
    <3> QED BY <3>1 DEF AllJump, Jumps
  <2> QED BY <2>1, <2>2
<1>6. ~O(to) /\ ~O(at) /\ ~O(from)
  BY <1>3
<1>7. B = [s \in Squares |-> IF s = at THEN b[from] ELSE IF s = from \/ O(s) THEN "None" ELSE b[s]]
  BY DEF Left
<1>8. Left(b, from, path, n) = [s \in Squares |-> IF s = to THEN b[from]
                                 ELSE IF s = from \/ O(s) \/ s = passed THEN "None" ELSE b[s]]
  <2>1. \A s : (\E k \in 1..n : Over(from, path, k) = s) <=> O(s) \/ s = passed
    <3>1. \A k : k \in 1..n <=> k \in 1..(n - 1) \/ k = n
      OBVIOUS
    <3> QED BY <3>1
  <2> HIDE DEF O, passed
  <2> QED BY <2>1 DEF Left
<1>9. Jumps(b, from, path, n, player) <=>
        /\ valid_direction(b[from], path[n])
        /\ to = from \/ (to \in Squares /\ b[to] = "None")
        /\ is_other_player(b[passed], player)
        /\ ~O(passed)
  BY DEF Jumps
<1>10. Hop(chain, path[n], player) = IF can THEN [ok |-> TRUE, board |-> Carried(B, at, {passed}, to), at |-> to]
                                     ELSE [chain EXCEPT !.ok = FALSE]
  <2> HIDE DEF B, at, to, passed
  <2> QED BY <1>2, <1>4 DEF Hop
<1>11. Carried(B, at, {passed}, to) = [s \in Squares |-> IF s = to THEN B[at]
                                         ELSE IF s = passed \/ s = at THEN "None" ELSE B[s]]
  <2> HIDE DEF B, at, to, passed
  <2> QED BY DEF Carried
<1>12. can <=> /\ valid_direction(B[at], path[n])
               /\ to \in Squares
               /\ B[to] = "None"
               /\ is_other_player(B[passed], player)
  OBVIOUS
<1>13. ~is_other_player("None", player)
  BY PieceFacts
<1> HIDE DEF at, to, passed, B, O, can
<1>14. B[at] = b[from]
  BY <1>4, <1>7
<1>15. to \in Squares => (B[to] = "None" <=> to = from \/ b[to] = "None")
  BY <1>2, <1>6, <1>7
<1>16. passed \in Squares => B[passed] = IF O(passed) THEN "None" ELSE b[passed]
  BY <1>3, <1>7
<1>17. can <=> Jumps(b, from, path, n, player)
  <2>1. CASE to \in Squares
    <3>1. is_other_player(B[passed], player) <=> is_other_player(b[passed], player) /\ ~O(passed)
      <4>1. passed \in Squares
        BY <1>2, <1>4, <2>1
      <4>2. CASE O(passed)
        BY <1>13, <1>16, <4>1, <4>2
      <4>3. CASE ~O(passed)
        BY <1>16, <4>1, <4>3
      <4> QED BY <4>2, <4>3
    <3> QED BY <1>9, <1>12, <1>14, <1>15, <2>1, <3>1
  <2>2. CASE to \notin Squares
    BY <1>9, <1>12, <2>2
  <2> QED BY <2>1, <2>2
<1>18. Carried(B, at, {passed}, to) = Left(b, from, path, n)
  <2>1. ASSUME NEW s \in Squares
        PROVE  (IF s = to THEN B[at] ELSE IF s = passed \/ s = at THEN "None" ELSE B[s])
                 = (IF s = to THEN b[from] ELSE IF s = from \/ O(s) \/ s = passed THEN "None" ELSE b[s])
    <3>1. CASE s = to \/ s = passed
      BY <1>14, <3>1
    <3>2. CASE s # to /\ s # passed /\ s = at
      BY <1>5, <3>2
    <3>3. CASE s # to /\ s # passed /\ s # at
      <4>1. B[s] = IF s = from \/ O(s) THEN "None" ELSE b[s]
        BY <1>7, <3>3
      <4> QED BY <3>3, <4>1
    <3> QED BY <3>1, <3>2, <3>3
  <2> QED BY <1>8, <1>11, <2>1, Zenon
<1>19. can => to \in Squares
  BY <1>12
<1>20. ~can => ~Hop(chain, path[n], player).ok
  BY <1>10
<1> QED BY <1>10, <1>17, <1>18, <1>19, <1>20 DEF to

\* The loop goes through exactly when every jump is allowed on the board before
\* the chain. It always ends with a board of tiles.
LEMMA JumpFacts ==
    ASSUME NEW b \in Boards, NEW from \in Squares, NEW N \in Nat, NEW path \in [1..N -> Directions],
           NEW player \in {"Red", "Black"}, Len(path) = N
    PROVE  /\ AllJump(b, from, path, N, player) =>
                /\ Stop(from, path, N) \in Squares
                /\ Jump(b, from, path, player)
                     = [ok |-> TRUE, board |-> Crowned(Left(b, from, path, N), Stop(from, path, N))]
           /\ ~AllJump(b, from, path, N, player) => Jump(b, from, path, player) = Refused(b)
           /\ Jump(b, from, path, player) \in Results
<1> DEFINE start == [ok |-> TRUE, board |-> b, at |-> from]
           F == [k \in 1..N |-> [q \in Chains |-> Hop(q, path[k], player)]]
           hops[k \in 0..N] == IF k = 0 THEN start ELSE Hop(hops[k - 1], path[k], player)
<1>1. start \in Chains
  BY DEF Chains
<1>2. ASSUME NEW q \in Chains, NEW k \in 1..N PROVE Hop(q, path[k], player) \in Chains
  BY HopType
<1>3. F \in [1..N -> [Chains -> Chains]]
  BY <1>2
<1>4. PICK f : IsRun(f, Chains, start, F, N)
  <2> HIDE DEF F, start
  <2> QED BY <1>1, <1>3, RunExists
<1>5. f \in [0..N -> Chains] /\ f[0] = start /\ \A k \in 1..N : f[k] = F[k][f[k - 1]]
  <2> HIDE DEF F, start
  <2> QED BY <1>4 DEF IsRun
<1> HIDE DEF start
<1>6. \A k \in 1..N : f[k - 1] \in Chains
  <2>1. \A k \in 1..N : k - 1 \in 0..N
    OBVIOUS
  <2> QED BY <1>5, <2>1
<1>7. \A k \in 1..N : f[k] = Hop(f[k - 1], path[k], player)
  BY <1>5, <1>6
<1>8. f = [k \in 0..N |-> IF k = 0 THEN start ELSE Hop(f[k - 1], path[k], player)]
  <2> HIDE DEF F
  <2> QED BY <1>5, <1>7
<1>9. hops = [k \in 0..N |-> IF k = 0 THEN start ELSE Hop(hops[k - 1], path[k], player)]
  BY <1>8, Zenon
<1>10. Jump(b, from, path, player) = IF hops[N].ok THEN [ok |-> TRUE, board |-> Crowned(hops[N].board, hops[N].at)]
                                     ELSE Refused(b)
  BY Zenon DEF Jump, start
<1> HIDE DEF hops, F
<1>11. hops[0] = start /\ \A k \in 1..N : hops[k] = Hop(hops[k - 1], path[k], player)
  <2>1. 0 \in 0..N /\ \A k \in 1..N : k \in 0..N /\ k # 0
    OBVIOUS
  <2> QED BY <1>9, <2>1, Zenon
<1> DEFINE Good(k) == /\ hops[k] \in Chains
                      /\ AllJump(b, from, path, k, player) =>
                            /\ Stop(from, path, k) \in Squares
                            /\ hops[k] = [ok |-> TRUE, board |-> Left(b, from, path, k),
                                          at |-> Stop(from, path, k)]
                      /\ ~AllJump(b, from, path, k, player) => ~hops[k].ok
           T == {k \in Nat : k <= N => Good(k)}
<1>12. 0 \in T
  <2>1. AllJump(b, from, path, 0, player)
    BY DEF AllJump
  <2>2. Stop(from, path, 0) = from
    BY JumpSquares
  <2>3. Left(b, from, path, 0) = b
    BY <2>2 DEF Left, Boards
  <2> QED BY <1>1, <1>11, <2>1, <2>2, <2>3 DEF start
<1>13. ASSUME NEW k \in Nat, k \in T PROVE k + 1 \in T
  <2> SUFFICES ASSUME k + 1 <= N PROVE Good(k + 1)
    OBVIOUS
  <2> DEFINE n == k + 1
  <2>1. n \in 1..N /\ n - 1 = k /\ k <= N
    OBVIOUS
  <2>2. Good(n - 1)
    BY <1>13, <2>1
  <2>3. hops[n] = Hop(hops[n - 1], path[n], player)
    BY <1>11, <2>1
  <2>4. AllJump(b, from, path, n, player) <=> AllJump(b, from, path, n - 1, player) /\ Jumps(b, from, path, n, player)
    <3>1. \A j : j \in 1..n <=> j \in 1..(n - 1) \/ j = n
      BY <2>1
    <3> HIDE DEF n
    <3> QED BY <3>1 DEF AllJump
  <2> HIDE DEF n
  <2>5. hops[n] \in Chains
    BY <2>2, <2>3, HopType
  <2>6. CASE AllJump(b, from, path, n - 1, player)
    <3> DEFINE chain == hops[n - 1]
    <3>1. /\ Stop(from, path, n - 1) \in Squares
          /\ chain = [ok |-> TRUE, board |-> Left(b, from, path, n - 1), at |-> Stop(from, path, n - 1)]
      BY <2>2, <2>6
    <3>2. hops[n] = Hop(chain, path[n], player)
      BY <2>3
    <3> HIDE DEF chain
    <3>3. /\ Jumps(b, from, path, n, player) =>
                /\ Stop(from, path, n) \in Squares
                /\ Hop(chain, path[n], player)
                     = [ok |-> TRUE, board |-> Left(b, from, path, n), at |-> Stop(from, path, n)]
          /\ ~Jumps(b, from, path, n, player) => ~Hop(chain, path[n], player).ok
      <4> HIDE DEF Good, T
      <4>1. n \in 1..N
        BY <2>1
      <4> QED BY <2>6, <3>1, <4>1, HopFacts, SMTT(30)
    <3>4. Good(n)
      BY <2>4, <2>5, <2>6, <3>2, <3>3
    <3> QED BY <3>4 DEF n
  <2>7. CASE ~AllJump(b, from, path, n - 1, player)
    <3>1. hops[n - 1] \in Chains /\ ~hops[n - 1].ok
      BY <2>2, <2>7
    <3>2. ~hops[n].ok
      BY <2>3, <3>1, HopType
    <3>3. Good(n)
      BY <2>4, <2>5, <2>7, <3>2
    <3> QED BY <3>3 DEF n
  <2> QED BY <2>6, <2>7
<1> HIDE DEF T
<1>14. Nat \subseteq T
  BY <1>12, <1>13, SetInduction
<1>15. Good(N)
  BY <1>14 DEF T
<1>16. Crowned(hops[N].board, hops[N].at) \in Boards
  <2>1. hops[N].board \in Boards /\ hops[N].at \in Squares
    BY <1>15 DEF Chains
  <2> HIDE DEF Good
  <2> QED BY <2>1, CarriedFacts
<1>17. CASE hops[N].ok
  <2>1. Jump(b, from, path, player) = [ok |-> TRUE, board |-> Crowned(hops[N].board, hops[N].at)]
    BY <1>10, <1>17
  <2>2. AllJump(b, from, path, N, player)
    BY <1>15, <1>17
  <2>3. /\ Stop(from, path, N) \in Squares
        /\ hops[N].board = Left(b, from, path, N) /\ hops[N].at = Stop(from, path, N)
    BY <1>15, <2>2
  <2>4. Jump(b, from, path, player) \in Results
    BY <1>16, <2>1 DEF Results
  <2> HIDE DEF Good
  <2> QED BY <2>1, <2>2, <2>3, <2>4
<1>18. CASE ~hops[N].ok
  <2>1. Jump(b, from, path, player) = Refused(b)
    BY <1>10, <1>18
  <2>2. Refused(b) \in Results
    BY DEF Refused, Results
  <2> QED BY <1>15, <1>18, <2>1, <2>2
<1> QED BY <1>17, <1>18

-----------------------------------------------------------------------------
(* Whole plays *)

\* The code makes a king of a piece that ends on either outer row. A man never
\* comes to the near one, so that is the far row of its player.
LEMMA CrownFacts ==
    ASSUME NEW player \in {"Red", "Black"}, NEW x \in PiecesOf(player), NEW d \in Directions,
           valid_direction(x, d), NEW s \in Squares, NEW to \in Squares, NEW length \in {1, 2},
           to[1] = s[1] + length * dir_vec[d][1]
    PROVE  (IF to[1] \in {0, LastRow} THEN upgrade(x) ELSE x)
             = (IF to[1] = FarRow[player] THEN upgrade(x) ELSE x)
<1> DEFINE i == s[1]
           j == to[1]
           v == dir_vec[d][1]
<1>1. i \in 0..LastRow /\ j \in 0..LastRow /\ LastRow \in Int /\ j = i + length * v
  BY SquareFacts
<1>2. /\ v = -1 \/ v = 1
      /\ d \in {"NE", "NW"} => v = -1
      /\ d \in {"SE", "SW"} => v = 1
  BY DirFacts
<1>3. x # player => upgrade(x) = x
  BY PieceFacts
<1>4. FarRow[player] \in {0, LastRow} /\ FarRow["Red"] = 0 /\ FarRow["Black"] = LastRow
  BY DEF FarRow
<1>5. /\ x = "Red" => d \in {"NE", "NW"}
      /\ x = "Black" => d \in {"SE", "SW"}
  BY DEF valid_direction
<1> HIDE DEF i, j, v
<1>6. CASE x # player
  BY <1>3, <1>6
<1>7. CASE x = "Red" /\ player = "Red"
  <2>1. j # LastRow
    BY <1>1, <1>2, <1>5, <1>7
  <2> QED BY <1>4, <1>7, <2>1 DEF j
<1>8. CASE x = "Black" /\ player = "Black"
  <2>1. j # 0
    BY <1>1, <1>2, <1>5, <1>8
  <2> QED BY <1>4, <1>8, <2>1 DEF j
<1> QED BY <1>6, <1>7, <1>8

\* What a play should do to a board.
Exact(b, event, player) ==
    play(b, event, player) =
        IF Allowed(b, event, player)
        THEN [ok |-> TRUE, board |-> Outcome(b, event, player)]
        ELSE Refused(b)

\* A play of kind Move is accepted and done as Allowed and Outcome say.
LEMMA MoveExact ==
    ASSUME NEW b \in Boards, NEW player \in {"Red", "Black"}, NEW event, event.kind = "Move",
           NEW N \in Nat, N = 1, event.path \in [1..N -> Directions], Len(event.path) = N,
           event.idx < Size * Size, NEW from \in Squares, from = idx_to_rc(event.idx),
           b[from] \in PiecesOf(player)
    PROVE  /\ Move(b, from, event.path[1])
                = IF Allowed(b, event, player) THEN [ok |-> TRUE, board |-> Outcome(b, event, player)]
                  ELSE Refused(b)
           /\ Move(b, from, event.path[1]) \in Results
<1> DEFINE path == event.path
           d == path[1]
           to == move_in_dir(d, from)
           stops == Stops(from, event)
           x == b[from]
           can == valid_direction(x, d) /\ to \in Squares /\ b[to] = "None"
           crown == IF to[1] = FarRow[player] THEN upgrade(x) ELSE x
<1>1. d \in Directions /\ DOMAIN path = {1} /\ Len(path) = 1
  OBVIOUS
<1>2. from[1] \in Int /\ from[2] \in Int /\ from = <<from[1], from[2]>>
  BY SquareFacts
<1>3. dir_vec[d][1] \in {-1, 1} /\ dir_vec[d][2] \in {-1, 1}
  BY <1>1, DirFacts
<1>4. to[1] = from[1] + dir_vec[d][1] /\ to = <<from[1] + dir_vec[d][1], from[2] + dir_vec[d][2]>>
  BY DEF move_in_dir
<1>5. to # from
  <2>1. to[1] # from[1]
    BY <1>2, <1>3, <1>4
  <2> QED BY <2>1
<1>6. After(from, path, 0, 1) = from /\ After(from, path, 1, 1) = to
  <2>1. /\ After(from, path, 0, 1) = from
        /\ \A n \in 0..N : /\ Way(path, n, 1) \in Int /\ Way(path, n, 2) \in Int
                           /\ After(from, path, n, 1)
                                = <<from[1] + 1 * Way(path, n, 1), from[2] + 1 * Way(path, n, 2)>>
        /\ \A n \in 1..N : \A i \in {1, 2} :
             After(from, path, n, 1)[i] = After(from, path, n - 1, 1)[i] + 1 * dir_vec[path[n]][i]
    BY AfterFacts
  <2> DEFINE a == After(from, path, 1, 1)
  <2>2. 1 \in 1..N /\ 1 \in 0..N /\ 1 - 1 = 0
    OBVIOUS
  <2>3. a[1] = from[1] + 1 * dir_vec[d][1] /\ a[2] = from[2] + 1 * dir_vec[d][2]
    BY <2>1, <2>2
  <2>4. a = <<a[1], a[2]>>
    BY <2>1, <2>2
  <2>5. 1 * dir_vec[d][1] = dir_vec[d][1] /\ 1 * dir_vec[d][2] = dir_vec[d][2]
    BY <1>3
  <2> HIDE DEF a
  <2>6. a = to
    BY <1>4, <2>3, <2>4, <2>5
  <2> QED BY <2>1, <2>6 DEF a
<1>7. stops = [n \in 0..1 |-> After(from, path, n, 1)]
  BY <1>1 DEF Stops, Reach
<1>8. DOMAIN stops = {0, 1} /\ stops[0] = from /\ stops[1] = to
  BY <1>6, <1>7
<1>9. Taken(from, event) = <<>> /\ DOMAIN Taken(from, event) = {} /\ Injective(Taken(from, event))
  BY DEF Taken, Injective
<1>10. x \in PiecesOf(player)
  OBVIOUS
<1>11. Allowed(b, event, player) <=>
         /\ x \in PiecesOf(player)
         /\ \A n \in DOMAIN path : valid_direction(x, path[n])
         /\ \A n \in DOMAIN stops : stops[n] = from \/ (stops[n] \in Squares /\ b[stops[n]] = "None")
         /\ \A n \in DOMAIN Taken(from, event) : is_other_player(b[Taken(from, event)[n]], player)
         /\ Injective(Taken(from, event))
  BY DEF Allowed
<1>12. Outcome(b, event, player) = [s \in Squares |-> IF s = stops[1] THEN IF stops[1][1] = FarRow[player] THEN upgrade(x) ELSE x
                                        ELSE IF s = from \/ (\E n \in DOMAIN Taken(from, event) : Taken(from, event)[n] = s) THEN "None"
                                        ELSE b[s]]
  BY <1>1 DEF Outcome
<1>13. Move(b, from, d) = IF can THEN [ok |-> TRUE, board |-> Crowned(Carried(b, from, {}, to), to)] ELSE Refused(b)
  BY DEF Move
<1>14. can => crown = IF to[1] \in {0, LastRow} THEN upgrade(x) ELSE x
  <2> HAVE can
  <2>1. valid_direction(x, d) /\ to \in Squares /\ to[1] = from[1] + 1 * dir_vec[d][1]
    BY <1>3, <1>4
  <2> HIDE DEF to, d, x
  <2> QED BY <1>1, <1>10, <2>1, CrownFacts
<1>15. can <=> valid_direction(x, d) /\ to \in Squares /\ b[to] = "None"
  OBVIOUS
<1>16. crown = IF to[1] = FarRow[player] THEN upgrade(x) ELSE x
  OBVIOUS
<1>17. d = path[1] /\ x = b[from]
  OBVIOUS
<1> HIDE DEF path, d, to, stops, x, can, crown
<1>18. Allowed(b, event, player) <=> can
  BY <1>1, <1>5, <1>8, <1>9, <1>10, <1>11, <1>15, <1>17
<1>19. Outcome(b, event, player) = [s \in Squares |-> IF s = to THEN crown ELSE IF s = from THEN "None" ELSE b[s]]
  BY <1>8, <1>9, <1>12, <1>16
<1>20. ASSUME can PROVE Crowned(Carried(b, from, {}, to), to) = Outcome(b, event, player)
  <2> DEFINE C == Carried(b, from, {}, to)
  <2>1. C = [s \in Squares |-> IF s = to THEN x ELSE IF s = from THEN "None" ELSE b[s]]
    BY <1>17 DEF Carried
  <2>2. to \in Squares /\ C[to] = x
    BY <1>15, <1>20, <2>1
  <2> HIDE DEF C
  <2>3. Crowned(C, to) = [s \in Squares |-> IF s = to THEN crown ELSE C[s]]
    BY <1>14, <1>20, <2>2 DEF Crowned
  <2>4. Crowned(C, to) = [s \in Squares |-> IF s = to THEN crown ELSE IF s = from THEN "None" ELSE b[s]]
    BY <2>1, <2>3
  <2> QED BY <1>19, <2>4 DEF C
<1>21. can => Crowned(Carried(b, from, {}, to), to) \in Boards
  BY <1>15, CarriedFacts
<1>22. Move(b, from, d) \in Results
  BY <1>13, <1>21 DEF Refused, Results
<1> QED BY <1>13, <1>18, <1>20, <1>22 DEF d, path

\* So is a play of kind Jump, with any number of hops.
LEMMA JumpExact ==
    ASSUME NEW b \in Boards, NEW player \in {"Red", "Black"}, NEW event, event.kind = "Jump",
           NEW N \in Nat, N >= 1, event.path \in [1..N -> Directions], Len(event.path) = N,
           event.idx < Size * Size, NEW from \in Squares, from = idx_to_rc(event.idx),
           b[from] \in PiecesOf(player)
    PROVE  Jump(b, from, event.path, player)
             = IF Allowed(b, event, player) THEN [ok |-> TRUE, board |-> Outcome(b, event, player)]
               ELSE Refused(b)
<1> DEFINE path == event.path
           S(n) == Stop(from, path, n)
           O(n) == Over(from, path, n)
           stops == Stops(from, event)
           taken == Taken(from, event)
           x == b[from]
           to == S(N)
           L == Left(b, from, path, N)
<1>1. DOMAIN path = 1..N /\ path \in [1..N -> Directions] /\ Len(path) = N
  OBVIOUS
<1>2. stops = [n \in 0..N |-> S(n)]
  BY <1>1 DEF Stops, Reach, Stop
<1>3. DOMAIN stops = 0..N /\ \A n \in 0..N : stops[n] = S(n)
  BY <1>2
<1>4. taken = [n \in 1..N |-> O(n)]
  <2>1. taken = [n \in 1..N |-> move_in_dir(path[n], stops[n - 1])]
    BY <1>1 DEF Taken
  <2>2. \A n \in 1..N : n - 1 \in 0..N
    OBVIOUS
  <2>3. \A n \in 1..N : O(n) = move_in_dir(path[n], stops[n - 1])
    BY <1>3, <2>2 DEF Over
  <2> HIDE DEF stops, taken, O
  <2> QED BY <2>1, <2>3
<1>5. DOMAIN taken = 1..N /\ \A n \in 1..N : taken[n] = O(n)
  BY <1>4
<1>6. Allowed(b, event, player) <=>
         /\ x \in PiecesOf(player)
         /\ \A n \in DOMAIN path : valid_direction(x, path[n])
         /\ \A n \in DOMAIN stops : stops[n] = from \/ (stops[n] \in Squares /\ b[stops[n]] = "None")
         /\ \A n \in DOMAIN taken : is_other_player(b[taken[n]], player)
         /\ Injective(taken)
  BY DEF Allowed
<1>7. Outcome(b, event, player) = [s \in Squares |-> IF s = stops[N] THEN IF stops[N][1] = FarRow[player] THEN upgrade(x) ELSE x
                                        ELSE IF s = from \/ (\E n \in DOMAIN taken : taken[n] = s) THEN "None"
                                        ELSE b[s]]
  BY <1>1 DEF Outcome
<1>8. /\ AllJump(b, from, path, N, player) =>
            S(N) \in Squares /\ Jump(b, from, path, player) = [ok |-> TRUE, board |-> Crowned(L, S(N))]
      /\ ~AllJump(b, from, path, N, player) => Jump(b, from, path, player) = Refused(b)
  <2> HIDE DEF path
  <2> QED BY <1>1, JumpFacts
<1>9. AllJump(b, from, path, N, player) <=>
        \A k \in 1..N : /\ valid_direction(x, path[k])
                        /\ S(k) = from \/ (S(k) \in Squares /\ b[S(k)] = "None")
                        /\ is_other_player(b[O(k)], player)
                        /\ \A j \in 1..(k - 1) : O(j) # O(k)
  BY DEF AllJump, Jumps
<1>10. S(0) = from /\ S(N) = jump_in_dir(path[N], S(N - 1))
  <2> HIDE DEF path
  <2> QED BY <1>1, JumpSquares
<1>11. L = [s \in Squares |-> IF s = to THEN x ELSE IF s = from \/ (\E k \in 1..N : O(k) = s) THEN "None" ELSE b[s]]
  BY DEF Left
<1>12. x \in PiecesOf(player) /\ x = b[from] /\ to = S(N)
  OBVIOUS
<1> HIDE DEF path, S, O, stops, taken, x, to, L
<1>13. Injective(taken) <=> \A k \in 1..N : \A j \in 1..(k - 1) : O(j) # O(k)
  <2>1. ASSUME Injective(taken), NEW k \in 1..N, NEW j \in 1..(k - 1) PROVE O(j) # O(k)
    <3>1. j \in 1..N /\ j # k
      OBVIOUS
    <3> QED BY <1>5, <2>1, <3>1 DEF Injective
  <2>2. ASSUME \A k \in 1..N : \A j \in 1..(k - 1) : O(j) # O(k), NEW i \in 1..N, NEW j \in 1..N, taken[i] = taken[j]
        PROVE  i = j
    <3>1. O(i) = O(j)
      BY <1>5, <2>2
    <3>2. ~(i < j) /\ ~(j < i)
      <4>1. i < j => i \in 1..(j - 1)
        OBVIOUS
      <4>2. j < i => j \in 1..(i - 1)
        OBVIOUS
      <4> QED BY <2>2, <3>1, <4>1, <4>2
    <3> QED BY <3>2
  <2> QED BY <1>5, <2>1, <2>2 DEF Injective
<1>14. Allowed(b, event, player) <=> AllJump(b, from, path, N, player)
  <2>1. \A n \in DOMAIN path : n \in 1..N
    BY <1>1
  <2>2. (\A n \in DOMAIN stops : stops[n] = from \/ (stops[n] \in Squares /\ b[stops[n]] = "None"))
          <=> \A n \in 1..N : S(n) = from \/ (S(n) \in Squares /\ b[S(n)] = "None")
    <3>1. \A n : n \in 0..N <=> n = 0 \/ n \in 1..N
      OBVIOUS
    <3> QED BY <1>3, <1>10, <3>1
  <2>3. (\A n \in DOMAIN taken : is_other_player(b[taken[n]], player))
          <=> \A n \in 1..N : is_other_player(b[O(n)], player)
    BY <1>5
  <2> QED BY <1>1, <1>6, <1>9, <1>12, <1>13, <2>2, <2>3
<1>15. ASSUME AllJump(b, from, path, N, player)
       PROVE  Crowned(L, S(N)) = Outcome(b, event, player)
  <2> DEFINE crown == IF to[1] = FarRow[player] THEN upgrade(x) ELSE x
             near == S(N - 1)
  <2>1. N \in 1..N /\ N \in 0..N /\ path[N] \in Directions /\ valid_direction(x, path[N]) /\ to \in Squares
    BY <1>1, <1>8, <1>9, <1>12, <1>15
  <2>2. near \in Squares
    <3>1. CASE N = 1
      <4>1. N - 1 = 0
        BY <3>1
      <4> QED BY <1>10, <4>1
    <3>2. CASE N # 1
      <4>1. N - 1 \in 1..N
        BY <3>2
      <4> QED BY <1>9, <1>15, <4>1
    <3> QED BY <3>1, <3>2
  <2>3. to[1] = near[1] + 2 * dir_vec[path[N]][1]
    BY <1>10, <1>12 DEF jump_in_dir
  <2> HIDE DEF near
  <2>4. crown = IF to[1] \in {0, LastRow} THEN upgrade(x) ELSE x
    BY <1>12, <2>1, <2>2, <2>3, CrownFacts
  <2>5. L[to] = x
    BY <1>11, <2>1
  <2>6. Outcome(b, event, player) = [s \in Squares |-> IF s = to THEN crown
                                        ELSE IF s = from \/ (\E k \in 1..N : O(k) = s) THEN "None" ELSE b[s]]
    <3>1. stops[N] = to
      BY <1>3, <1>12, <2>1
    <3>2. \A s : (\E n \in DOMAIN taken : taken[n] = s) <=> \E k \in 1..N : O(k) = s
      BY <1>5
    <3> QED BY <1>7, <3>1, <3>2
  <2> HIDE DEF crown
  <2>7. Crowned(L, to) = [s \in Squares |-> IF s = to THEN crown ELSE L[s]]
    BY <2>4, <2>5 DEF Crowned
  <2>8. Crowned(L, to) = [s \in Squares |-> IF s = to THEN crown
                             ELSE IF s = from \/ (\E k \in 1..N : O(k) = s) THEN "None" ELSE b[s]]
    BY <1>11, <2>7
  <2> QED BY <1>12, <2>6, <2>8
<1> QED BY <1>8, <1>14, <1>15 DEF path

\* The path of a play is a list of directions, and not empty unless it is the
\* path of a chain of no jumps.
LEMMA PathFacts ==
    ASSUME NEW event, IsPlay(event)
    PROVE  \E N \in Nat : /\ event.path \in [1..N -> Directions] /\ Len(event.path) = N
                          /\ event.kind = "Move" => N = 1
                          /\ event.path # <<>> => N >= 1
<1> DEFINE path == event.path
           N == Len(path)
<1>1. path \in Seq(Directions) /\ (event.kind = "Move" => N = 1)
  BY DEF IsPlay
<1> HIDE DEF path
<1>2. N \in Nat /\ path \in [1..N -> Directions]
  BY <1>1
<1>3. N = 0 => path = <<>>
  BY <1>1
<1> HIDE DEF N
<1>4. path # <<>> => N >= 1
  BY <1>2, <1>3
<1> QED BY <1>1, <1>2, <1>4 DEF path, N

\* The plays of the model are plays.
LEMMA PlaysFacts ==
    ASSUME NEW event \in Plays(MaxPath)
    PROVE  IsPlay(event)
<1>1. Size * Size \in Nat
  BY BoardAssumption
<1>2. event.kind \in {"Move", "Jump"} /\ event.idx \in Nat
  BY <1>1 DEF Plays
<1>3. CASE event \in [kind : {"Move"}, idx : 0..(Size * Size), path : [{1} -> Directions]]
  <2>1. {1} = 1..1 /\ 1 \in Nat
    OBVIOUS
  <2>2. event.path \in [1..1 -> Directions]
    BY <1>3, <2>1
  <2>3. event.path \in Seq(Directions) /\ Len(event.path) = 1
    <3>1. \A N \in Nat : \A p \in [1..N -> Directions] : p \in Seq(Directions) /\ Len(p) = N
      OBVIOUS
    <3> QED BY <2>1, <2>2, <3>1
  <2> QED BY <1>2, <2>3 DEF IsPlay
<1>4. CASE event \in [kind : {"Jump"}, idx : 0..(Size * Size),
                      path : UNION {[1..n -> Directions] : n \in 0..MaxPath}]
  <2>1. event.kind = "Jump" /\ \E n \in 0..MaxPath : event.path \in [1..n -> Directions]
    BY <1>4
  <2>2. PICK n \in 0..MaxPath : event.path \in [1..n -> Directions]
    BY <2>1
  <2>3. n \in Nat
    BY PlayAssumption
  <2>4. event.path \in Seq(Directions)
    BY <2>2, <2>3
  <2> QED BY <1>2, <2>1, <2>4 DEF IsPlay
<1> QED BY <1>3, <1>4 DEF Plays

\* play gives a board, and does what its definition says unless the path is empty.
LEMMA PlayFacts ==
    ASSUME NEW b \in Boards, NEW player \in {"Red", "Black"}, NEW event, IsPlay(event)
    PROVE  /\ play(b, event, player) \in Results
           /\ event.path # <<>> => Exact(b, event, player)
<1> DEFINE from == idx_to_rc(event.idx)
           path == event.path
<1>1. event.kind \in {"Move", "Jump"} /\ event.idx \in Nat
  BY DEF IsPlay
<1>2. PICK N \in Nat : /\ path \in [1..N -> Directions] /\ Len(path) = N
                       /\ event.kind = "Move" => N = 1
                       /\ path # <<>> => N >= 1
  BY PathFacts
<1>3. Refused(b) \in Results
  BY DEF Refused, Results
<1>4. CASE ~Owned(b, event.idx, player)
  <2>1. play(b, event, player) = Refused(b)
    BY <1>4 DEF play
  <2>2. ~Allowed(b, event, player)
    BY <1>4 DEF Owned, is_this_player, Allowed
  <2> QED BY <1>3, <2>1, <2>2 DEF Exact
<1>5. CASE Owned(b, event.idx, player)
  <2>1. event.idx < Size * Size /\ b[from] \in PiecesOf(player)
    BY <1>5 DEF Owned, is_this_player
  <2>2. from \in Squares
    BY <1>1, <2>1, IdxFacts
  <2>3. from = idx_to_rc(event.idx)
    OBVIOUS
  <2>4. CASE event.kind = "Move"
    <3>1. play(b, event, player) = Move(b, from, path[1])
      BY <1>5, <2>4 DEF play
    <3> HIDE DEF from
    <3>2. /\ Move(b, from, event.path[1])
                = IF Allowed(b, event, player) THEN [ok |-> TRUE, board |-> Outcome(b, event, player)]
                  ELSE Refused(b)
          /\ Move(b, from, event.path[1]) \in Results
      BY <1>2, <2>1, <2>2, <2>3, <2>4, MoveExact
    <3> QED BY <3>1, <3>2 DEF Exact
  <2>5. CASE event.kind = "Jump"
    <3>1. play(b, event, player) = Jump(b, from, path, player)
      BY <1>5, <2>5 DEF play
    <3> HIDE DEF from
    <3>2. Jump(b, from, path, player) \in Results
      <4> HIDE DEF path
      <4> QED BY <1>2, <2>2, JumpFacts
    <3>3. path # <<>> => Jump(b, from, event.path, player)
             = IF Allowed(b, event, player) THEN [ok |-> TRUE, board |-> Outcome(b, event, player)]
               ELSE Refused(b)
      BY <1>2, <2>1, <2>2, <2>3, <2>5, JumpExact
    <3> QED BY <3>1, <3>2, <3>3 DEF Exact
  <2> QED BY <1>1, <2>4, <2>5
<1> QED BY <1>4, <1>5

-----------------------------------------------------------------------------
(* The game *)

PlayInv == board \in Boards /\ turn \in Nat

\* Every square of the board holds a tile, whatever is played (checkers.rs play).
THEOREM PlayInvariance == BoardSpec => []PlayInv
<1>1. BoardInit => PlayInv
  <2>1. default \in Boards
    BY DEF default, Boards, Tiles
  <2> QED BY <2>1 DEF BoardInit, PlayInv
<1>2. PlayInv /\ [BoardNext]_gameVars => PlayInv'
  <2> SUFFICES ASSUME PlayInv, [BoardNext]_gameVars PROVE PlayInv'
    OBVIOUS
  <2>1. CASE PlayTurn
    <3>1. PICK event \in Plays(MaxPath) : board' = play(board, event, from_turn(turn)).board /\ turn' = turn + 1
      BY <2>1 DEF PlayTurn
    <3>2. from_turn(turn) \in {"Red", "Black"}
      BY DEF from_turn
    <3>3. play(board, event, from_turn(turn)) \in Results
      BY <3>1, <3>2, PlaysFacts, PlayFacts DEF PlayInv
    <3>4. board' \in Boards
      BY <3>1, <3>3 DEF Results
    <3> QED BY <3>1, <3>4 DEF PlayInv
  <2>2. CASE UNCHANGED gameVars
    BY <2>2 DEF PlayInv, gameVars
  <2> QED BY <2>1, <2>2 DEF BoardNext
<1> QED BY <1>1, <1>2, PTL DEF BoardSpec

\* The loop over the jumps accepts exactly the plays whose stops and captures are
\* allowed on the board before the play, and leaves the board that the whole play
\* should leave (checkers.rs play), on a board of any size, for a chain of any
\* length and in any turn.
THEOREM PlayAlwaysExact == BoardSpec => []PlayExact
<1>1. PlayInv => PlayExact
  <2> SUFFICES ASSUME PlayInv, NEW event \in Plays(MaxPath), event.path # <<>>
               PROVE  Exact(board, event, from_turn(turn))
    BY DEF PlayExact, Exact
  <2>1. from_turn(turn) \in {"Red", "Black"}
    BY DEF from_turn
  <2> QED BY <2>1, PlaysFacts, PlayFacts DEF PlayInv
<1> QED BY <1>1, PlayInvariance, PTL

-----------------------------------------------------------------------------
(* Transactions in the order of their ticks *)

Ticked(txns) == \A t \in txns : t.tick \in Nat

\* Of transactions with ticks there is an earliest one.
LEMMA EarliestFacts ==
    ASSUME NEW txns, txns # {}, Ticked(txns)
    PROVE  /\ Earliest(txns) \in txns
           /\ \A u \in txns : Earliest(txns).tick <= u.tick
<1> DEFINE T == {t.tick : t \in txns}
<1>1. T \subseteq Nat /\ T # {}
  BY DEF Ticked
<1>2. PICK x \in T : \A y \in T : x <= y
  <2> HIDE DEF T
  <2> QED BY <1>1, LeastElement
<1>3. PICK t \in txns : t.tick = x
  BY <1>2
<1>4. \A u \in txns : t.tick <= u.tick
  BY <1>2, <1>3
<1> QED BY <1>3, <1>4 DEF Earliest

\* What is left of the transactions after n of them, in get_events.
IsLater(later, txns) ==
    LET N == Cardinality(txns)
    IN  /\ later \in [0..N -> SUBSET txns]
        /\ later[0] = txns
        /\ \A k \in 1..N : later[k] = later[k - 1] \ {Earliest(later[k - 1])}
        /\ \A k \in 0..N : IsFiniteSet(later[k]) /\ Cardinality(later[k]) = N - k
        /\ get_events(txns) = [n \in 1..N |-> Earliest(later[n - 1])]

\* Taking away the earliest again and again empties a finite set of transactions.
LEMMA LaterExists ==
    ASSUME NEW txns, IsFiniteSet(txns), Ticked(txns)
    PROVE  Cardinality(txns) \in Nat /\ \E later : IsLater(later, txns)
<1> DEFINE N == Cardinality(txns)
           S == SUBSET txns
           F == [k \in 1..N |-> [X \in S |-> X \ {Earliest(X)}]]
           later[n \in 0..N] == IF n = 0 THEN txns ELSE later[n - 1] \ {Earliest(later[n - 1])}
<1>1. N \in Nat
  BY FS_CardinalityType
<1>2. txns \in S
  OBVIOUS
<1>3. F \in [1..N -> [S -> S]]
  OBVIOUS
<1>4. get_events(txns) = [n \in 1..N |-> Earliest(later[n - 1])]
  BY DEF get_events
<1>5. N = Cardinality(txns)
  OBVIOUS
<1> HIDE DEF N
<1>6. PICK f : IsRun(f, S, txns, F, N)
  <2> HIDE DEF F, S
  <2> QED BY <1>1, <1>2, <1>3, RunExists
<1>7. f \in [0..N -> S] /\ f[0] = txns /\ \A k \in 1..N : f[k] = F[k][f[k - 1]]
  <2> HIDE DEF F, S
  <2> QED BY <1>6 DEF IsRun
<1>8. \A k \in 1..N : f[k - 1] \in S
  <2>1. \A k \in 1..N : k - 1 \in 0..N
    BY <1>1
  <2> QED BY <1>7, <2>1
<1>9. \A k \in 1..N : f[k] = f[k - 1] \ {Earliest(f[k - 1])}
  BY <1>7, <1>8
<1>10. f = [k \in 0..N |-> IF k = 0 THEN txns ELSE f[k - 1] \ {Earliest(f[k - 1])}]
  <2> HIDE DEF F
  <2> QED BY <1>1, <1>7, <1>9
<1>11. later = [k \in 0..N |-> IF k = 0 THEN txns ELSE later[k - 1] \ {Earliest(later[k - 1])}]
  BY <1>10, Zenon
<1> HIDE DEF later, F
<1>12. later[0] = txns /\ \A k \in 1..N : later[k] = later[k - 1] \ {Earliest(later[k - 1])}
  <2>1. 0 \in 0..N /\ \A k \in 1..N : k \in 0..N /\ k # 0
    BY <1>1
  <2> QED BY <1>11, <2>1, Zenon
<1> DEFINE Good(k) == later[k] \subseteq txns /\ IsFiniteSet(later[k]) /\ Cardinality(later[k]) = N - k
           T == {k \in Nat : k <= N => Good(k)}
<1>13. 0 \in T
  BY <1>1, <1>5, <1>12
<1>14. ASSUME NEW k \in Nat, k \in T PROVE k + 1 \in T
  <2> SUFFICES ASSUME k + 1 <= N PROVE Good(k + 1)
    OBVIOUS
  <2> DEFINE X == later[k]
             e == Earliest(X)
  <2>1. k + 1 \in 1..N /\ (k + 1) - 1 = k /\ k <= N
    BY <1>1
  <2>2. X \subseteq txns /\ IsFiniteSet(X) /\ Cardinality(X) = N - k
    BY <1>14, <2>1
  <2>3. later[k + 1] = X \ {e}
    BY <1>12, <2>1
  <2> HIDE DEF X
  <2>4. Cardinality(X) # 0
    BY <1>1, <2>2
  <2>5. X # {}
    BY <2>4, FS_EmptySet
  <2>6. e \in X
    BY <2>2, <2>5, EarliestFacts DEF Ticked
  <2> HIDE DEF e
  <2>7. IsFiniteSet(X \ {e}) /\ Cardinality(X \ {e}) = Cardinality(X) - 1
    BY <2>2, <2>6, FS_RemoveElement
  <2>8. (N - k) - 1 = N - (k + 1)
    BY <1>1
  <2> QED BY <2>2, <2>3, <2>7, <2>8
<1> HIDE DEF T
<1>15. Nat \subseteq T
  BY <1>13, <1>14, SetInduction
<1>16. \A k \in 0..N : Good(k)
  BY <1>1, <1>15 DEF T
<1>17. later \in [0..N -> SUBSET txns]
  <2>1. \A k \in 0..N : later[k] \in SUBSET txns
    BY <1>16
  <2>2. DOMAIN later = 0..N /\ later = [k \in 0..N |-> later[k]]
    BY <1>11, Zenon
  <2> QED BY <2>1, <2>2
<1>18. IsLater(later, txns)
  BY <1>4, <1>5, <1>12, <1>16, <1>17 DEF IsLater
<1> QED BY <1>1, <1>5, <1>18

\* get_events lists every transaction once, sorted by tick.
IsListing(events, txns) ==
    LET N == Cardinality(txns)
    IN  /\ N \in Nat
        /\ events \in [1..N -> txns] /\ Len(events) = N
        /\ \A t \in txns : \E k \in 1..N : events[k] = t
        /\ \A i, j \in 1..N : i < j => events[i] # events[j] /\ events[i].tick <= events[j].tick

\* get_events lists each transaction once, by tick.
LEMMA EventsFacts ==
    ASSUME NEW txns, IsFiniteSet(txns), Ticked(txns)
    PROVE  IsListing(get_events(txns), txns)
<1> DEFINE N == Cardinality(txns)
           ev == get_events(txns)
<1>1. PICK later : IsLater(later, txns)
  BY LaterExists
<1>2. N \in Nat
  BY LaterExists
<1>3. /\ later \in [0..N -> SUBSET txns]
      /\ later[0] = txns
      /\ \A k \in 1..N : later[k] = later[k - 1] \ {Earliest(later[k - 1])}
      /\ \A k \in 0..N : IsFiniteSet(later[k]) /\ Cardinality(later[k]) = N - k
      /\ ev = [n \in 1..N |-> Earliest(later[n - 1])]
  BY <1>1 DEF IsLater
<1> HIDE DEF N, ev
<1>4. ASSUME NEW k \in 1..N
      PROVE  /\ ev[k] \in later[k - 1] /\ later[k - 1] \subseteq txns
             /\ \A u \in later[k - 1] : ev[k].tick <= u.tick
             /\ later[k] = later[k - 1] \ {ev[k]}
  <2> DEFINE X == later[k - 1]
  <2>1. k - 1 \in 0..N /\ N - (k - 1) # 0
    BY <1>2
  <2>2. X \subseteq txns /\ IsFiniteSet(X) /\ Cardinality(X) # 0
    BY <1>3, <2>1
  <2>3. ev[k] = Earliest(X) /\ later[k] = X \ {Earliest(X)}
    BY <1>3
  <2> HIDE DEF X
  <2>4. X # {}
    BY <2>2, FS_EmptySet
  <2>5. Earliest(X) \in X /\ \A u \in X : Earliest(X).tick <= u.tick
    BY <2>2, <2>4, EarliestFacts DEF Ticked
  <2> QED BY <2>2, <2>3, <2>5 DEF X
<1>5. ev \in [1..N -> txns]
  <2>1. \A k \in 1..N : ev[k] \in txns
    BY <1>4
  <2> QED BY <1>3, <2>1
<1>6. Len(ev) = N
  BY <1>2, <1>5
<1>7. ASSUME NEW i \in 1..N PROVE \A j \in i..N : later[j] \subseteq later[i]
  <2> DEFINE T == {d \in Nat : i + d <= N => later[i + d] \subseteq later[i]}
  <2>1. 0 \in T
    OBVIOUS
  <2>2. ASSUME NEW d \in Nat, d \in T PROVE d + 1 \in T
    <3> SUFFICES ASSUME i + (d + 1) <= N PROVE later[i + (d + 1)] \subseteq later[i]
      OBVIOUS
    <3> DEFINE k == i + (d + 1)
    <3>1. k \in 1..N /\ k - 1 = i + d /\ i + d <= N
      BY <1>2
    <3>2. later[k] = later[k - 1] \ {ev[k]}
      BY <1>4, <3>1
    <3> QED BY <2>2, <3>1, <3>2
  <2> HIDE DEF T
  <2>3. Nat \subseteq T
    BY <2>1, <2>2, SetInduction
  <2> SUFFICES ASSUME NEW j \in i..N PROVE later[j] \subseteq later[i]
    OBVIOUS
  <2>4. j - i \in Nat /\ i + (j - i) = j /\ j <= N
    BY <1>2
  <2> QED BY <2>3, <2>4 DEF T
<1>8. ASSUME NEW i \in 1..N, NEW j \in 1..N, i < j
      PROVE  ev[i] # ev[j] /\ ev[i].tick <= ev[j].tick
  <2>1. j - 1 \in i..N
    BY <1>2, <1>8
  <2>2. ev[j] \in later[i]
    BY <1>4, <1>7, <2>1
  <2>3. ev[j] \in later[i - 1] /\ ev[j] # ev[i]
    BY <1>4, <2>2
  <2> QED BY <1>4, <2>3
<1>9. ASSUME NEW t \in txns PROVE \E k \in 1..N : ev[k] = t
  <2> SUFFICES ASSUME \A k \in 1..N : ev[k] # t PROVE FALSE
    OBVIOUS
  <2> DEFINE T == {k \in Nat : k <= N => t \in later[k]}
  <2>1. 0 \in T
    BY <1>3
  <2>2. ASSUME NEW k \in Nat, k \in T PROVE k + 1 \in T
    <3> SUFFICES ASSUME k + 1 <= N PROVE t \in later[k + 1]
      OBVIOUS
    <3>1. k + 1 \in 1..N /\ (k + 1) - 1 = k /\ k <= N
      BY <1>2
    <3>2. later[k + 1] = later[k] \ {ev[k + 1]}
      BY <1>4, <3>1
    <3> QED BY <2>2, <3>1, <3>2
  <2> HIDE DEF T
  <2>3. N \in T
    BY <1>2, <2>1, <2>2, SetInduction
  <2>4. t \in later[N] /\ N \in 0..N
    BY <1>2, <2>3 DEF T
  <2>5. IsFiniteSet(later[N]) /\ Cardinality(later[N]) = 0
    BY <1>2, <1>3, <2>4
  <2> QED BY <2>4, <2>5, FS_EmptySet
<1> QED BY <1>2, <1>5, <1>6, <1>8, <1>9 DEF IsListing, N, ev

\* A finite set of transactions has a latest one.
LEMMA LatestExists ==
    ASSUME NEW txns, IsFiniteSet(txns), Ticked(txns), txns # {}
    PROVE  \E m \in txns : \A t \in txns : t.tick <= m.tick
<1> DEFINE ev == get_events(txns)
           N == Cardinality(txns)
<1>1. IsListing(ev, txns)
  BY EventsFacts
<1>2. /\ N \in Nat /\ ev \in [1..N -> txns] /\ \A t \in txns : \E k \in 1..N : ev[k] = t
      /\ \A i, j \in 1..N : i < j => ev[i].tick <= ev[j].tick
  BY <1>1 DEF IsListing
<1> HIDE DEF N, ev
<1>3. N \in 1..N /\ ev[N] \in txns /\ ev[N].tick \in Nat
  BY <1>2 DEF Ticked
<1>4. ASSUME NEW t \in txns PROVE t.tick <= ev[N].tick
  <2>1. PICK k \in 1..N : ev[k] = t
    BY <1>2
  <2>2. k < N \/ k = N
    BY <1>2
  <2> QED BY <1>2, <1>3, <2>1, <2>2
<1> QED BY <1>3, <1>4

SingleTicks(txns) == \A t, u \in txns : t.tick = u.tick => t = u

\* A transaction that is later than all others comes last.
LEMMA EventsAppend ==
    ASSUME NEW txns, IsFiniteSet(txns), Ticked(txns), SingleTicks(txns),
           NEW t, t.tick \in Nat, \A u \in txns : u.tick < t.tick
    PROVE  LET N == Cardinality(txns)
               ev == get_events(txns)
               new == get_events(txns \cup {t})
           IN  /\ N \in Nat /\ Len(ev) = N /\ Len(new) = N + 1
               /\ \A k \in 1..N : new[k] = ev[k]
               /\ new[N + 1] = t
<1> DEFINE N == Cardinality(txns)
           more == txns \cup {t}
           ev == get_events(txns)
           new == get_events(more)
<1>1. t \notin txns
  <2>1. ~(t.tick < t.tick)
    OBVIOUS
  <2> QED BY <2>1
<1>2. Ticked(more)
  BY DEF Ticked
<1>3. IsFiniteSet(more) /\ Cardinality(more) = N + 1
  BY <1>1, FS_AddElement
<1>4. /\ N \in Nat /\ ev \in [1..N -> txns] /\ Len(ev) = N
  <2>1. IsListing(ev, txns)
    BY EventsFacts
  <2> QED BY <2>1 DEF IsListing
<1>5. Len(new) = N + 1
  <2> HIDE DEF more
  <2>1. IsListing(new, more)
    BY <1>2, <1>3, EventsFacts
  <2> QED BY <1>3, <2>1 DEF IsListing
<1>6. PICK a : IsLater(a, txns)
  BY LaterExists
<1>7. PICK b : IsLater(b, more)
  <2> HIDE DEF more
  <2> QED BY <1>2, <1>3, LaterExists
<1>8. /\ a \in [0..N -> SUBSET txns] /\ a[0] = txns
      /\ \A k \in 1..N : a[k] = a[k - 1] \ {Earliest(a[k - 1])}
      /\ \A k \in 0..N : IsFiniteSet(a[k]) /\ Cardinality(a[k]) = N - k
      /\ ev = [n \in 1..N |-> Earliest(a[n - 1])]
  BY <1>6 DEF IsLater
<1>9. /\ b[0] = more
      /\ \A k \in 1..N + 1 : b[k] = b[k - 1] \ {Earliest(b[k - 1])}
      /\ new = [n \in 1..N + 1 |-> Earliest(b[n - 1])]
  BY <1>3, <1>7 DEF IsLater
<1>10. more = txns \cup {t}
  OBVIOUS
<1> HIDE DEF N, more, ev, new
<1>11. ASSUME NEW X, X \subseteq txns, X # {}
       PROVE  /\ Earliest(X \cup {t}) = Earliest(X) /\ Earliest(X) \in txns
  <2> DEFINE e == Earliest(X)
             Y == X \cup {t}
             g == Earliest(Y)
  <2>1. e \in X /\ \A u \in X : e.tick <= u.tick
    BY <1>11, EarliestFacts DEF Ticked
  <2>2. Y # {} /\ Ticked(Y)
    BY <1>11 DEF Ticked
  <2>3. g \in Y /\ \A u \in Y : g.tick <= u.tick
    <3> HIDE DEF Y
    <3> QED BY <2>2, EarliestFacts
  <2>4. e \in Y /\ e \in txns /\ e.tick < t.tick /\ e.tick \in Nat
    BY <1>11, <2>1 DEF Ticked
  <2> HIDE DEF e, g
  <2>5. g # t
    <3>1. g.tick <= e.tick
      BY <2>3, <2>4
    <3> QED BY <2>4, <3>1
  <2>6. g \in X /\ g \in txns /\ g.tick \in Nat
    BY <1>11, <2>3, <2>5 DEF Ticked
  <2>7. g.tick <= e.tick /\ e.tick <= g.tick
    BY <2>1, <2>3, <2>4, <2>6
  <2>8. g = e
    BY <2>4, <2>6, <2>7 DEF SingleTicks
  <2> QED BY <2>4, <2>8 DEF e, g
<1>12. ASSUME NEW k \in 0..N - 1 PROVE a[k] \subseteq txns /\ a[k] # {}
  <2>1. k \in 0..N /\ N - k # 0
    BY <1>4
  <2> QED BY <1>8, <2>1, FS_EmptySet
<1> DEFINE T == {k \in Nat : k <= N => b[k] = a[k] \cup {t}}
<1>13. 0 \in T
  BY <1>8, <1>9, <1>10
<1>14. ASSUME NEW k \in Nat, k \in T PROVE k + 1 \in T
  <2> SUFFICES ASSUME k + 1 <= N PROVE b[k + 1] = a[k + 1] \cup {t}
    OBVIOUS
  <2>1. k + 1 \in 1..N /\ k + 1 \in 1..N + 1 /\ (k + 1) - 1 = k /\ k <= N /\ k \in 0..N - 1
    BY <1>4
  <2>2. b[k] = a[k] \cup {t}
    BY <1>14, <2>1
  <2>3. Earliest(b[k]) = Earliest(a[k]) /\ Earliest(a[k]) # t
    BY <1>1, <1>11, <1>12, <2>1, <2>2
  <2>4. b[k + 1] = b[k] \ {Earliest(b[k])} /\ a[k + 1] = a[k] \ {Earliest(a[k])}
    BY <1>8, <1>9, <2>1
  <2> QED BY <2>2, <2>3, <2>4
<1> HIDE DEF T
<1>15. Nat \subseteq T
  BY <1>13, <1>14, SetInduction
<1>16. \A k \in 0..N : b[k] = a[k] \cup {t}
  BY <1>4, <1>15 DEF T
<1>17. ASSUME NEW k \in 1..N PROVE new[k] = ev[k]
  <2>1. k \in 1..N + 1 /\ k - 1 \in 0..N - 1 /\ k - 1 \in 0..N
    BY <1>4
  <2> QED BY <1>8, <1>9, <1>11, <1>12, <1>16, <2>1
<1>18. new[N + 1] = t
  <2>1. N + 1 \in 1..N + 1 /\ (N + 1) - 1 = N /\ N \in 0..N
    BY <1>4
  <2>2. IsFiniteSet(a[N]) /\ Cardinality(a[N]) = 0
    BY <1>4, <1>8, <2>1
  <2>3. a[N] = {}
    BY <2>2, FS_EmptySet
  <2>4. b[N] = {t}
    BY <1>16, <2>1, <2>3
  <2>5. new[N + 1] = Earliest({t})
    BY <1>9, <2>1, <2>4
  <2>6. Earliest({t}) \in {t}
    BY EarliestFacts DEF Ticked
  <2> QED BY <2>5, <2>6
<1> QED BY <1>4, <1>5, <1>17, <1>18 DEF N, ev, new, more

-----------------------------------------------------------------------------
(* Who plays, and when *)

AnyTxns == [creator : Players, tick : {0}, event : StartEvents]
      \cup [creator : Players, tick : {1}, event : JoinEvents]
      \cup [creator : Players, tick : Nat \ {0, 1}, event : Moves]

Slots == Players \cup {Zero}

\* What a transaction of tick 0, 1 or later carries.
LEMMA TxnFacts ==
    ASSUME NEW t \in AnyTxns
    PROVE  /\ t.tick \in Nat /\ t.creator \in Players
           /\ t.tick = 0 => t.event.players \in Slots \X Slots
           /\ t.tick = 1 => t.event.player \in Players
           /\ t.tick # 0 /\ t.tick # 1 => t.event \in Moves
<1>1. CASE t \in [creator : Players, tick : {0}, event : StartEvents]
  <2>1. t.tick = 0 /\ t.creator \in Players /\ t.event \in StartEvents
    BY <1>1
  <2>2. t.event.players \in Starts
    BY <2>1 DEF StartEvents
  <2> QED BY <2>1, <2>2, GameAssumption DEF Slots
<1>2. CASE t \in [creator : Players, tick : {1}, event : JoinEvents]
  <2>1. t.tick = 1 /\ t.creator \in Players /\ t.event \in JoinEvents
    BY <1>2
  <2> QED BY <2>1 DEF JoinEvents
<1>3. CASE t \in [creator : Players, tick : Nat \ {0, 1}, event : Moves]
  BY <1>3
<1> QED BY <1>1, <1>2, <1>3 DEF AnyTxns

Setup(hist, tick) == {t \in hist : t.tick = tick}

\* The players of a game are told by its Start and its Join.
LEMMA SetupFacts ==
    ASSUME NEW G, NEW H, Setup(G, 0) = Setup(H, 0), Setup(G, 1) = Setup(H, 1)
    PROVE  get_players(G) = get_players(H)
<1>1. (HasTick(G, 0) <=> HasTick(H, 0)) /\ (HasTick(G, 1) <=> HasTick(H, 1))
  BY DEF HasTick, Setup
<1>2. EventAt(G, 0) = EventAt(H, 0) /\ EventAt(G, 1) = EventAt(H, 1)
  BY DEF EventAt, Setup
<1> QED BY <1>1, <1>2 DEF get_players

NoOpenStart(hist) == \A t \in hist : t.tick = 0 => t.event.players # <<Zero, Zero>>

\* A join takes the seat that is free.
LEMMA SeatedFacts ==
    ASSUME NEW p \in Slots \X Slots, NEW j \in Players
    PROVE  /\ Seated(p, j) \in Slots \X Slots
           /\ p # <<Zero, Zero>> => Full(Seated(p, j))
           /\ ~Full(<<Zero, Zero>>)
<1>1. p = <<p[1], p[2]>> /\ p[1] \in Slots /\ p[2] \in Slots /\ j \in Slots /\ j # Zero
  BY GameAssumption DEF Slots
<1> QED BY <1>1 DEF Seated, Full

\* The event at a tick is that of some transaction of this tick.
LEMMA EventAtFacts ==
    ASSUME NEW G, G \subseteq AnyTxns, NEW k, HasTick(G, k)
    PROVE  \E t \in G : t.tick = k /\ EventAt(G, k) = t.event
<1> DEFINE S == {t \in G : t.tick = k}
<1>1. S # {}
  BY DEF HasTick
<1>2. Ticked(S)
  BY TxnFacts DEF Ticked
<1>3. Earliest(S) \in S
  <2> HIDE DEF S
  <2> QED BY <1>1, <1>2, EarliestFacts
<1> QED BY <1>3 DEF EventAt

\* get_players knows both players once an open start was joined.
LEMMA PlayersFacts ==
    ASSUME NEW G, G \subseteq AnyTxns
    PROVE  /\ get_players(G) \in Slots \X Slots
           /\ ~HasTick(G, 0) => get_players(G) = <<Zero, Zero>>
           /\ Full(get_players(G)) => HasTick(G, 0)
           /\ NoOpenStart(G) /\ HasTick(G, 0) /\ HasTick(G, 1) => Full(get_players(G))
<1>1. ~HasTick(G, 0) => get_players(G) = <<Zero, Zero>>
  BY DEF get_players
<1>2. <<Zero, Zero>> \in Slots \X Slots /\ ~Full(<<Zero, Zero>>)
  BY DEF Slots, Full
<1>3. CASE ~HasTick(G, 0)
  BY <1>1, <1>2, <1>3
<1>4. CASE HasTick(G, 0) /\ ~HasTick(G, 1)
  <2>1. PICK t \in G : t.tick = 0 /\ EventAt(G, 0) = t.event
    BY <1>4, EventAtFacts
  <2>2. get_players(G) = t.event.players
    BY <1>4, <2>1 DEF get_players
  <2>3. t.event.players \in Slots \X Slots
    BY <2>1, TxnFacts
  <2> QED BY <1>4, <2>2, <2>3
<1>5. CASE HasTick(G, 0) /\ HasTick(G, 1)
  <2>1. PICK t \in G : t.tick = 0 /\ EventAt(G, 0) = t.event
    BY <1>5, EventAtFacts
  <2>2. PICK u \in G : u.tick = 1 /\ EventAt(G, 1) = u.event
    BY <1>5, EventAtFacts
  <2> DEFINE p == t.event.players
             j == u.event.player
  <2>3. get_players(G) = Seated(p, j)
    BY <1>5, <2>1, <2>2 DEF get_players
  <2>4. p \in Slots \X Slots /\ j \in Players
    BY <2>1, <2>2, TxnFacts
  <2>5. NoOpenStart(G) => p # <<Zero, Zero>>
    BY <2>1 DEF NoOpenStart
  <2> HIDE DEF p, j
  <2> QED BY <1>5, <2>3, <2>4, <2>5, SeatedFacts
<1> QED BY <1>3, <1>4, <1>5

Seats == [ok : BOOLEAN, players : Slots \X Slots, last : Int]

\* The players that Turns goes by before an event, and when it lets it pass.
Party(hist, s) == IF s.last >= 0 THEN s.players ELSE get_players(hist)

Passes(hist, s, t) ==
    IF t.tick = 0 THEN hist = {} /\ t.creator \in {t.event.players[1], t.event.players[2]}
    ELSE IF t.tick = 1 THEN /\ s.last >= 0 \/ (HasTick(hist, 0) /\ ~HasTick(hist, 1))
                            /\ ~Full(Party(hist, s))
    ELSE IF s.last >= 0 THEN s.last + 1 = t.tick
    ELSE /\ HasTick(hist, 0)
         /\ t.tick = 2 \/ HasTick(hist, t.tick - 1)
         /\ ~HasTick(hist, t.tick)

PartyAfter(hist, s, t) ==
    IF t.tick = 0 THEN t.event.players
    ELSE IF t.tick = 1 THEN Seated(Party(hist, s), t.event.player)
    ELSE Party(hist, s)

\* What Turns checks of one event, and what it remembers after it.
LEMMA TurnFacts ==
    ASSUME NEW hist, hist \subseteq AnyTxns, NEW s \in Seats, NEW t \in AnyTxns
    PROVE  /\ Turn(hist, s, t) = [ok |-> s.ok /\ Passes(hist, s, t),
                                  players |-> PartyAfter(hist, s, t), last |-> t.tick]
           /\ Turn(hist, s, t) \in Seats
<1> DEFINE p == Party(hist, s)
           a == PartyAfter(hist, s, t)
<1>1. p \in Slots \X Slots /\ s.ok \in BOOLEAN /\ s.last \in Int
  BY PlayersFacts DEF Seats, Party
<1>2. t.tick \in Nat
  BY TxnFacts
<1>3. /\ Passes(hist, s, t) \in BOOLEAN
      /\ Turn(hist, s, t) = [ok |-> s.ok /\ Passes(hist, s, t), players |-> a, last |-> t.tick]
  <2>1. CASE t.tick = 0
    <3>1. t.tick # 1 /\ ~(t.tick > 1)
      BY <2>1
    <3> QED BY <2>1, <3>1 DEF Turn, Passes, PartyAfter
  <2>2. CASE t.tick = 1
    <3>1. t.tick # 0 /\ ~(t.tick > 1)
      BY <2>2
    <3> QED BY <2>2, <3>1 DEF Turn, Passes, PartyAfter, Party
  <2>3. CASE t.tick > 1
    <3>1. t.tick # 0 /\ t.tick # 1
      BY <1>2, <2>3
    <3> QED BY <2>3, <3>1 DEF Turn, Passes, PartyAfter, Party
  <2> QED BY <1>2, <2>1, <2>2, <2>3
<1>4. a \in Slots \X Slots
  <2> HIDE DEF p
  <2>1. CASE t.tick = 0
    BY <2>1, TxnFacts DEF PartyAfter
  <2>2. CASE t.tick = 1
    <3>1. t.event.player \in Players
      BY <2>2, TxnFacts
    <3>2. Seated(p, t.event.player) \in Slots \X Slots
      BY <1>1, <3>1, SeatedFacts
    <3> QED BY <2>2, <3>2 DEF PartyAfter, p
  <2>3. CASE t.tick # 0 /\ t.tick # 1
    BY <1>1, <2>3 DEF PartyAfter, p
  <2> QED BY <2>1, <2>2, <2>3
<1> HIDE DEF a, p
<1>5. Turn(hist, s, t) \in Seats
  BY <1>1, <1>2, <1>3, <1>4 DEF Seats
<1> QED BY <1>3, <1>5 DEF a

-----------------------------------------------------------------------------
(* A game that goes turn by turn *)

\* No move is skipped, and none is there twice.
Closed(hist) == \A t \in MovesOf(hist) : \A k \in 2..t.tick : HasTick(hist, k)

SingleMoves(hist) == SingleTicks(MovesOf(hist))

OneStart(hist) == SingleTicks(Setup(hist, 0))

OneJoin(hist) == SingleTicks(Setup(hist, 1))

\* What holds on every branch, also with several Starts in its first block: a
\* game begins with a Start that names its creator, and has both players before
\* the first move.
Ordered(hist) ==
    /\ hist # {} => HasTick(hist, 0)
    /\ NoOpenStart(hist)
    /\ Closed(hist) /\ SingleMoves(hist)
    /\ MovesOf(hist) # {} => Full(get_players(hist))

InTurn(hist) ==
    OneStart(hist) =>
        /\ SingleTicks(hist)
        /\ \A t \in hist : t.tick > 0 => /\ Full(get_players(hist))
                                         /\ t.creator = get_players(hist)[1 + (t.tick % 2)]

HistInv(hist) == hist \subseteq AnyTxns /\ Ordered(hist) /\ InTurn(hist)

\* What Turns has made sure of when it remembers s, with the events of the chain
\* and of the mutation so far in G.
SeatInv(hist, G, s) ==
    /\ HasTick(G, 0) /\ NoOpenStart(G)
    /\ Closed(G) /\ SingleMoves(G)
    /\ s.last \in Nat /\ HasTick(G, s.last)
    /\ \A t \in G : t.tick <= s.last
    /\ s.last >= 2 => HasTick(G, 1) \/ s.players = get_players(G)
    /\ OneStart(G) => s.players = get_players(G) /\ OneJoin(G)
    /\ Full(get_players(hist)) => s.last >= 2 /\ \A t \in G : t.tick < 2 => t \in hist

Before(hist, G, s, e) == \/ G = hist /\ s.last < 0
                         \/ SeatInv(hist, G, s) /\ s.last <= e.tick

\* A Start that Turns lets pass keeps what it has made sure of.
LEMMA StartStep ==
    ASSUME NEW hist, HistInv(hist), NEW G, G \subseteq AnyTxns, hist \subseteq G, NEW s \in Seats,
           NEW e \in AnyTxns, e.tick = 0, Before(hist, G, s, e), Passes(hist, s, e),
           NEW r, r.players = PartyAfter(hist, s, e), r.last = e.tick
    PROVE  SeatInv(hist, G \cup {e}, r)
<1> DEFINE N == G \cup {e}
           p == e.event.players
<1>1. hist = {} /\ e.creator \in {p[1], p[2]} /\ r.players = p
  BY DEF Passes, PartyAfter
<1>2. p # <<Zero, Zero>>
  BY <1>1, TxnFacts, GameAssumption
<1>3. \A t \in G : t.tick = 0 /\ t.event.players # <<Zero, Zero>>
  <2>1. CASE G = hist
    BY <1>1, <2>1
  <2>2. CASE SeatInv(hist, G, s) /\ s.last <= e.tick
    <3>1. \A t \in G : t.tick \in Nat
      BY TxnFacts
    <3>2. \A t \in G : t.tick <= s.last /\ s.last <= 0 /\ s.last \in Nat
      BY <2>2 DEF SeatInv
    <3> QED BY <2>2, <3>1, <3>2 DEF SeatInv, NoOpenStart
  <2> QED BY <2>1, <2>2 DEF Before
<1>4. \A t \in N : t.tick = 0 /\ t.event.players # <<Zero, Zero>>
  BY <1>2, <1>3
<1>5. e \in N
  OBVIOUS
<1>6. HasTick(N, 0) /\ NoOpenStart(N) /\ MovesOf(N) = {} /\ ~HasTick(N, 1)
  BY <1>4, <1>5 DEF HasTick, NoOpenStart, MovesOf
<1>7. Closed(N) /\ SingleMoves(N) /\ OneJoin(N)
  BY <1>4, <1>6 DEF Closed, SingleMoves, OneJoin, SingleTicks, Setup
<1>8. ASSUME OneStart(N) PROVE r.players = get_players(N)
  <2>1. \A t \in N : t = e
    BY <1>4, <1>5, <1>8 DEF OneStart, SingleTicks, Setup
  <2>2. N \subseteq AnyTxns
    OBVIOUS
  <2> HIDE DEF N
  <2>3. PICK t \in N : EventAt(N, 0) = t.event
    BY <1>6, <2>2, EventAtFacts
  <2>4. get_players(N) = p
    BY <1>6, <2>1, <2>3 DEF get_players
  <2> QED BY <1>1, <2>4
<1>9. ~Full(get_players(hist))
  BY <1>1 DEF get_players, HasTick, Full
<1> HIDE DEF N
<1>10. r.last = 0
  OBVIOUS
<1> QED BY <1>4, <1>6, <1>7, <1>8, <1>9, <1>10 DEF SeatInv, N

\* So does a Join.
LEMMA JoinStep ==
    ASSUME NEW hist, HistInv(hist), NEW G, G \subseteq AnyTxns, hist \subseteq G, NEW s \in Seats,
           NEW e \in AnyTxns, e.tick = 1, Before(hist, G, s, e), Passes(hist, s, e),
           NEW r, r.players = PartyAfter(hist, s, e), r.last = e.tick
    PROVE  SeatInv(hist, G \cup {e}, r)
<1> DEFINE N == G \cup {e}
           p == Party(hist, s)
           j == e.event.player
<1>1. ~Full(p) /\ r.players = Seated(p, j) /\ r.last = 1
  BY DEF Passes, PartyAfter
<1>2. s.last < 0 => HasTick(hist, 0) /\ ~HasTick(hist, 1) /\ p = get_players(hist)
  BY DEF Passes, Party, Seats
<1>3. SeatInv(hist, G, s) => p = s.players
  BY DEF SeatInv, Party
<1>4. \A t \in G : t.tick \in Nat
  BY TxnFacts
<1>5. /\ HasTick(G, 0) /\ NoOpenStart(G) /\ \A t \in G : t.tick <= 1
      /\ OneStart(G) => p = get_players(G)
      /\ ~Full(get_players(hist))
  <2>1. CASE G = hist /\ s.last < 0
    <3>1. MovesOf(hist) = {} /\ NoOpenStart(hist)
      BY <1>1, <1>2, <2>1 DEF HistInv, Ordered
    <3>2. \A t \in G : ~(t.tick >= 2)
      BY <2>1, <3>1 DEF MovesOf
    <3>3. \A t \in G : t.tick <= 1
      BY <1>4, <3>2
    <3> QED BY <1>1, <1>2, <2>1, <3>1, <3>3
  <2>2. CASE SeatInv(hist, G, s) /\ s.last <= e.tick
    <3>1. s.last \in Nat /\ s.last <= 1 /\ \A t \in G : t.tick <= s.last
      BY <2>2 DEF SeatInv
    <3>2. \A t \in G : t.tick <= 1
      BY <1>4, <3>1
    <3>3. ~(s.last >= 2)
      BY <3>1
    <3> QED BY <1>3, <2>2, <3>2, <3>3 DEF SeatInv
  <2> QED BY <2>1, <2>2 DEF Before
<1>6. e \in N /\ N \subseteq AnyTxns /\ j \in Players /\ \A t \in N : t \in G \/ t = e
  BY TxnFacts
<1>7. \A t \in N : t.tick <= 1
  BY <1>5
<1>8. HasTick(N, 0) /\ NoOpenStart(N) /\ HasTick(N, 1)
  BY <1>5 DEF HasTick, NoOpenStart
<1>9. MovesOf(N) = {}
  <2>1. \A t \in N : ~(t.tick >= 2)
    BY <1>4, <1>7
  <2> QED BY <2>1 DEF MovesOf
<1>10. Closed(N) /\ SingleMoves(N)
  BY <1>9 DEF Closed, SingleMoves, SingleTicks
<1>11. ASSUME OneStart(N) PROVE r.players = get_players(N) /\ OneJoin(N)
  <2>1. OneStart(G)
    BY <1>11 DEF OneStart, SingleTicks, Setup
  <2>2. ~HasTick(G, 1)
    BY <1>1, <1>5, <2>1, PlayersFacts
  <2>3. \A t \in N : t.tick = 1 => t = e
    BY <1>6, <2>2 DEF HasTick
  <2>4. OneJoin(N)
    BY <2>3 DEF OneJoin, SingleTicks, Setup
  <2>5. get_players(G) = EventAt(G, 0).players
    BY <1>5, <2>2 DEF get_players
  <2>6. {t \in N : t.tick = 0} = {t \in G : t.tick = 0}
    OBVIOUS
  <2>7. EventAt(N, 0) = EventAt(G, 0)
    <3> HIDE DEF N
    <3> QED BY <2>6 DEF EventAt
  <2> HIDE DEF N, p, j
  <2>8. PICK u \in N : u.tick = 1 /\ EventAt(N, 1) = u.event
    BY <1>6, <1>8, EventAtFacts
  <2>9. EventAt(N, 1).player = j
    BY <2>3, <2>8 DEF j
  <2>10. get_players(N) = Seated(EventAt(N, 0).players, EventAt(N, 1).player)
    BY <1>8 DEF get_players
  <2> QED BY <1>1, <1>5, <2>1, <2>4, <2>5, <2>7, <2>9, <2>10
<1> HIDE DEF N
<1> QED BY <1>1, <1>5, <1>7, <1>8, <1>10, <1>11 DEF SeatInv, N

\* So does a move, which moreover comes after all that was before.
LEMMA MoveStep ==
    ASSUME NEW hist, HistInv(hist), NEW G, G \subseteq AnyTxns, hist \subseteq G, NEW s \in Seats,
           NEW e \in AnyTxns, e.tick > 1, Before(hist, G, s, e), Passes(hist, s, e),
           NEW r, r.players = PartyAfter(hist, s, e), r.last = e.tick
    PROVE  SeatInv(hist, G \cup {e}, r) /\ \A t \in G : t.tick < e.tick
<1> DEFINE N == G \cup {e}
           p == Party(hist, s)
<1>1. e.tick \in Nat /\ e.tick # 0 /\ e.tick # 1 /\ e.tick >= 2 /\ \A t \in G : t.tick \in Nat
  BY TxnFacts
<1>2. r.players = p
  BY <1>1 DEF PartyAfter
<1>3. \A t : t \in N <=> t \in G \/ t = e
  OBVIOUS
<1>4. Setup(N, 0) = Setup(G, 0) /\ Setup(N, 1) = Setup(G, 1)
  BY <1>1, <1>3 DEF Setup
<1>5. get_players(N) = get_players(G)
  BY <1>4, SetupFacts
<1>6. (OneStart(N) <=> OneStart(G)) /\ (OneJoin(N) <=> OneJoin(G))
  BY <1>4 DEF OneStart, OneJoin
<1>7. /\ HasTick(G, 0) /\ NoOpenStart(G) /\ Closed(G) /\ SingleMoves(G)
      /\ \A t \in G : t.tick < e.tick
      /\ \A k \in 2..e.tick - 1 : HasTick(G, k)
      /\ HasTick(G, 1) \/ p = get_players(G)
      /\ OneStart(G) => p = get_players(G) /\ OneJoin(G)
      /\ Full(get_players(hist)) => \A t \in G : t.tick < 2 => t \in hist
  <2>1. CASE G = hist /\ s.last < 0
    <3>1. /\ HasTick(hist, 0) /\ (e.tick = 2 \/ HasTick(hist, e.tick - 1)) /\ ~HasTick(hist, e.tick)
          /\ p = get_players(hist)
      BY <1>1, <2>1 DEF Passes, Party, Seats
    <3>2. NoOpenStart(hist) /\ Closed(hist) /\ SingleMoves(hist)
      BY DEF HistInv, Ordered
    <3>3. ASSUME NEW t \in hist PROVE t.tick < e.tick
      <4> SUFFICES ASSUME t.tick >= e.tick PROVE FALSE
        BY <1>1, <2>1
      <4>1. t \in MovesOf(hist) /\ e.tick \in 2..t.tick
        BY <1>1, <2>1 DEF MovesOf
      <4> QED BY <3>1, <3>2, <4>1 DEF Closed
    <3>4. ASSUME NEW k \in 2..e.tick - 1 PROVE HasTick(hist, k)
      <4>1. e.tick # 2
        BY <1>1
      <4>2. PICK t \in hist : t.tick = e.tick - 1
        BY <3>1, <4>1 DEF HasTick
      <4>3. t \in MovesOf(hist) /\ k \in 2..t.tick
        BY <1>1, <4>2 DEF MovesOf
      <4> QED BY <3>2, <4>3 DEF Closed
    <3>5. OneStart(hist) => OneJoin(hist)
      BY DEF HistInv, InTurn, SingleTicks, OneJoin, Setup
    <3> QED BY <2>1, <3>1, <3>2, <3>3, <3>4, <3>5
  <2>2. CASE SeatInv(hist, G, s) /\ s.last <= e.tick
    <3>1. s.last \in Nat /\ HasTick(G, s.last) /\ \A t \in G : t.tick <= s.last
      BY <2>2 DEF SeatInv
    <3>2. s.last + 1 = e.tick /\ p = s.players
      BY <1>1, <3>1 DEF Passes, Party
    <3>3. \A t \in G : t.tick < e.tick
      BY <1>1, <3>1, <3>2
    <3>4. ASSUME NEW k \in 2..e.tick - 1 PROVE HasTick(G, k)
      <4>1. PICK t \in G : t.tick = s.last
        BY <3>1 DEF HasTick
      <4>2. t \in MovesOf(G) /\ k \in 2..t.tick
        BY <1>1, <3>1, <3>2, <4>1 DEF MovesOf
      <4> QED BY <2>2, <4>2 DEF Closed, SeatInv
    <3>5. HasTick(G, 1) \/ p = get_players(G)
      <4>1. CASE s.last >= 2
        BY <2>2, <3>2, <4>1 DEF SeatInv
      <4>2. CASE ~(s.last >= 2)
        <5>1. s.last = 1
          BY <1>1, <3>1, <3>2, <4>2
        <5> QED BY <3>1, <5>1
      <4> QED BY <4>1, <4>2
    <3> QED BY <2>2, <3>2, <3>3, <3>4, <3>5 DEF SeatInv
  <2> QED BY <2>1, <2>2 DEF Before
<1>8. HasTick(N, 0) /\ HasTick(N, e.tick) /\ (HasTick(G, 1) => HasTick(N, 1)) /\ NoOpenStart(N)
  BY <1>1, <1>3, <1>7 DEF HasTick, NoOpenStart
<1>9. \A t \in N : t.tick <= e.tick
  BY <1>1, <1>3, <1>7
<1>10. Closed(N)
  <2> SUFFICES ASSUME NEW t \in MovesOf(N), NEW k \in 2..t.tick PROVE HasTick(N, k)
    BY DEF Closed
  <2>1. t \in N /\ t.tick <= e.tick /\ t.tick \in Nat
    BY <1>1, <1>3, <1>9 DEF MovesOf
  <2>2. k = e.tick \/ k \in 2..e.tick - 1
    BY <1>1, <2>1
  <2>3. HasTick(G, k) => HasTick(N, k)
    BY <1>3 DEF HasTick
  <2> QED BY <1>7, <1>8, <2>2, <2>3
<1>11. SingleMoves(N)
  <2> SUFFICES ASSUME NEW t \in N, NEW u \in N, t.tick >= 2, u.tick >= 2, t.tick = u.tick PROVE t = u
    BY DEF SingleMoves, SingleTicks, MovesOf
  <2>1. CASE t \in G /\ u \in G
    BY <1>7, <2>1 DEF SingleMoves, SingleTicks, MovesOf
  <2>2. CASE t = e \/ u = e
    <3>1. t.tick = e.tick /\ u.tick = e.tick
      BY <2>2
    <3>2. t \notin G /\ u \notin G
      BY <1>1, <1>7, <3>1
    <3> QED BY <1>3, <3>2
  <2> QED BY <1>3, <2>1, <2>2
<1>12. Full(get_players(hist)) => \A t \in N : t.tick < 2 => t \in hist
  BY <1>1, <1>3, <1>7
<1> HIDE DEF N, p
<1>13. SeatInv(hist, N, r)
  BY <1>1, <1>2, <1>5, <1>6, <1>7, <1>8, <1>9, <1>10, <1>11, <1>12 DEF SeatInv
<1> QED BY <1>7, <1>13 DEF N

\* So does any event.
LEMMA TurnStep ==
    ASSUME NEW hist, HistInv(hist), NEW G, G \subseteq AnyTxns, hist \subseteq G, NEW s \in Seats,
           NEW e \in AnyTxns, Before(hist, G, s, e), Turn(hist, s, e).ok
    PROVE  SeatInv(hist, G \cup {e}, Turn(hist, s, e)) /\ s.ok
<1> DEFINE r == Turn(hist, s, e)
<1>1. hist \subseteq AnyTxns
  BY DEF HistInv
<1>2. r = [ok |-> s.ok /\ Passes(hist, s, e), players |-> PartyAfter(hist, s, e), last |-> e.tick]
  BY <1>1, TurnFacts
<1>3. r.players = PartyAfter(hist, s, e) /\ r.last = e.tick
  <2> HIDE DEF r
  <2> QED BY <1>2
<1>4. Passes(hist, s, e) /\ s.ok
  <2>1. r.ok
    OBVIOUS
  <2>2. r.ok = (s.ok /\ Passes(hist, s, e))
    <3> HIDE DEF r
    <3> QED BY <1>2
  <2> HIDE DEF r
  <2> QED BY <2>1, <2>2
<1>5. e.tick \in Nat
  BY TxnFacts
<1> HIDE DEF r
<1>6. CASE e.tick = 0
  BY <1>3, <1>4, <1>6, StartStep DEF r
<1>7. CASE e.tick = 1
  BY <1>3, <1>4, <1>7, JoinStep DEF r
<1>8. CASE e.tick > 1
  BY <1>3, <1>4, <1>8, MoveStep DEF r
<1> QED BY <1>5, <1>6, <1>7, <1>8

\* The events of the chain and the first k of a mutation.
Upto(hist, events, k) == hist \cup {events[j] : j \in 1..k}

\* The history with the first k events of a list.
LEMMA UptoFacts ==
    ASSUME NEW hist, NEW txns, NEW events, IsListing(events, txns)
    PROVE  LET N == Cardinality(txns) IN
           /\ Upto(hist, events, 0) = hist
           /\ Upto(hist, events, N) = hist \cup txns
           /\ \A k \in 1..N : Upto(hist, events, k) = Upto(hist, events, k - 1) \cup {events[k]}
           /\ \A k \in 0..N : hist \subseteq Upto(hist, events, k) /\ Upto(hist, events, k) \subseteq hist \cup txns
<1> DEFINE N == Cardinality(txns)
<1>1. N \in Nat /\ events \in [1..N -> txns] /\ \A t \in txns : \E k \in 1..N : events[k] = t
  BY DEF IsListing
<1> HIDE DEF N
<1>2. Upto(hist, events, 0) = hist
  BY DEF Upto
<1>3. Upto(hist, events, N) = hist \cup txns
  BY <1>1 DEF Upto
<1>4. ASSUME NEW k \in 1..N PROVE Upto(hist, events, k) = Upto(hist, events, k - 1) \cup {events[k]}
  <2>1. \A j : j \in 1..k <=> j \in 1..k - 1 \/ j = k
    BY <1>1
  <2> QED BY <2>1 DEF Upto
<1>5. ASSUME NEW k \in 0..N PROVE hist \subseteq Upto(hist, events, k) /\ Upto(hist, events, k) \subseteq hist \cup txns
  <2>1. \A j \in 1..k : j \in 1..N
    BY <1>1
  <2> QED BY <1>1, <2>1 DEF Upto
<1> QED BY <1>2, <1>3, <1>4, <1>5 DEF N

\* What Turns remembers after each event.
IsSeating(seats, hist, events, N) ==
    /\ seats \in [0..N -> Seats]
    /\ seats[0] = NoSeat
    /\ \A k \in 1..N : seats[k] = Turn(hist, seats[k - 1], events[k])
    /\ Seat(hist, events) = seats[N]

\* The states of Turns while it goes through a list.
LEMMA SeatingExists ==
    ASSUME NEW hist, hist \subseteq AnyTxns, NEW N \in Nat, NEW events \in [1..N -> AnyTxns], Len(events) = N
    PROVE  \E seats : IsSeating(seats, hist, events, N)
<1> DEFINE F == [k \in 1..N |-> [q \in Seats |-> Turn(hist, q, events[k])]]
           seats[k \in 0..N] == IF k = 0 THEN NoSeat ELSE Turn(hist, seats[k - 1], events[k])
<1>1. NoSeat \in Seats
  BY DEF NoSeat, Seats, Slots
<1>2. ASSUME NEW q \in Seats, NEW k \in 1..N PROVE Turn(hist, q, events[k]) \in Seats
  <2>1. events[k] \in AnyTxns
    OBVIOUS
  <2> QED BY <2>1, TurnFacts
<1>3. F \in [1..N -> [Seats -> Seats]]
  BY <1>2
<1>4. PICK f : IsRun(f, Seats, NoSeat, F, N)
  <2> HIDE DEF F
  <2> QED BY <1>1, <1>3, RunExists
<1>5. f \in [0..N -> Seats] /\ f[0] = NoSeat /\ \A k \in 1..N : f[k] = F[k][f[k - 1]]
  <2> HIDE DEF F
  <2> QED BY <1>4 DEF IsRun
<1>6. \A k \in 1..N : f[k - 1] \in Seats
  <2>1. \A k \in 1..N : k - 1 \in 0..N
    OBVIOUS
  <2> QED BY <1>5, <2>1
<1>7. \A k \in 1..N : f[k] = Turn(hist, f[k - 1], events[k])
  BY <1>5, <1>6
<1>8. f = [k \in 0..N |-> IF k = 0 THEN NoSeat ELSE Turn(hist, f[k - 1], events[k])]
  <2> HIDE DEF F
  <2> QED BY <1>5, <1>7
<1>9. seats = [k \in 0..N |-> IF k = 0 THEN NoSeat ELSE Turn(hist, seats[k - 1], events[k])]
  BY <1>8, Zenon
<1>10. Seat(hist, events) = seats[N]
  BY Zenon DEF Seat
<1> HIDE DEF seats, F
<1>11. seats[0] = NoSeat /\ \A k \in 1..N : seats[k] = Turn(hist, seats[k - 1], events[k])
  <2>1. 0 \in 0..N /\ \A k \in 1..N : k \in 0..N /\ k # 0
    OBVIOUS
  <2> QED BY <1>9, <2>1, Zenon
<1> DEFINE T == {k \in Nat : k <= N => seats[k] \in Seats}
<1>12. 0 \in T
  BY <1>1, <1>11
<1>13. ASSUME NEW k \in Nat, k \in T PROVE k + 1 \in T
  <2> SUFFICES ASSUME k + 1 <= N PROVE seats[k + 1] \in Seats
    OBVIOUS
  <2>1. k + 1 \in 1..N /\ (k + 1) - 1 = k /\ k <= N
    OBVIOUS
  <2>2. seats[k + 1] = Turn(hist, seats[k], events[k + 1])
    BY <1>11, <2>1
  <2> QED BY <1>2, <1>13, <2>1, <2>2
<1> HIDE DEF T
<1>14. Nat \subseteq T
  BY <1>12, <1>13, SetInduction
<1>15. \A k \in 0..N : seats[k] \in Seats
  BY <1>14 DEF T
<1>16. seats \in [0..N -> Seats]
  <2>1. seats = [k \in 0..N |-> seats[k]]
    BY <1>9, Zenon
  <2> QED BY <1>15, <2>1
<1>17. IsSeating(seats, hist, events, N)
  BY <1>10, <1>11, <1>16 DEF IsSeating
<1> QED BY <1>17

\* A mutation that Turns accepts has gone well after each of its events.
WellSeated(hist, txns) ==
    LET N == Cardinality(txns)
        events == get_events(txns)
    IN  \A k \in 1..N : \E s \in Seats : /\ SeatInv(hist, Upto(hist, events, k), s) /\ s.last = events[k].tick
                                         /\ k = N => s = Seat(hist, events)

\* A list that Turns accepts keeps the history in order.
LEMMA SeatFacts ==
    ASSUME NEW hist, HistInv(hist), NEW txns, txns \subseteq AnyTxns, IsFiniteSet(txns),
           Seat(hist, get_events(txns)).ok
    PROVE  WellSeated(hist, txns)
<1> DEFINE N == Cardinality(txns)
           ev == get_events(txns)
           G(k) == Upto(hist, ev, k)
<1>1. hist \subseteq AnyTxns
  BY DEF HistInv
<1>2. IsListing(ev, txns)
  <2>1. Ticked(txns)
    BY TxnFacts DEF Ticked
  <2> QED BY <2>1, EventsFacts
<1>3. /\ N \in Nat /\ ev \in [1..N -> txns] /\ Len(ev) = N
      /\ \A i, j \in 1..N : i < j => ev[i] # ev[j] /\ ev[i].tick <= ev[j].tick
  BY <1>2 DEF IsListing
<1>4. /\ G(0) = hist
      /\ G(N) = hist \cup txns
      /\ \A k \in 1..N : G(k) = G(k - 1) \cup {ev[k]}
      /\ \A k \in 0..N : hist \subseteq G(k) /\ G(k) \subseteq hist \cup txns
  <2> HIDE DEF ev
  <2> QED BY <1>2, UptoFacts
<1>5. Seat(hist, ev).ok
  OBVIOUS
<1>6. WellSeated(hist, txns) <=>
        \A k \in 1..N : \E s \in Seats : /\ SeatInv(hist, G(k), s) /\ s.last = ev[k].tick
                                         /\ k = N => s = Seat(hist, ev)
  BY DEF WellSeated
<1> HIDE DEF N, ev, G
<1>7. ev \in [1..N -> AnyTxns] /\ \A k \in 1..N : ev[k] \in AnyTxns
  BY <1>3
<1>8. PICK seats : IsSeating(seats, hist, ev, N)
  BY <1>1, <1>3, <1>7, SeatingExists
<1>9. /\ seats \in [0..N -> Seats] /\ seats[0] = NoSeat
      /\ \A k \in 1..N : seats[k] = Turn(hist, seats[k - 1], ev[k])
      /\ Seat(hist, ev) = seats[N]
  BY <1>8 DEF IsSeating
<1>10. \A k \in 1..N : seats[k - 1] \in Seats /\ seats[k].last = ev[k].tick /\ (seats[k].ok => seats[k - 1].ok)
  <2> SUFFICES ASSUME NEW k \in 1..N
               PROVE  seats[k - 1] \in Seats /\ seats[k].last = ev[k].tick /\ (seats[k].ok => seats[k - 1].ok)
    OBVIOUS
  <2> DEFINE q == seats[k - 1]
  <2>1. k - 1 \in 0..N
    BY <1>3
  <2>2. q \in Seats /\ seats[k] = Turn(hist, q, ev[k]) /\ ev[k] \in AnyTxns
    BY <1>7, <1>9, <2>1
  <2> HIDE DEF q
  <2>3. Turn(hist, q, ev[k]) = [ok |-> q.ok /\ Passes(hist, q, ev[k]),
                                players |-> PartyAfter(hist, q, ev[k]), last |-> ev[k].tick]
    BY <1>1, <2>2, TurnFacts
  <2>4. seats[k].last = ev[k].tick /\ seats[k].ok = (q.ok /\ Passes(hist, q, ev[k]))
    BY <2>2, <2>3
  <2> QED BY <2>2, <2>4 DEF q
<1> DEFINE Good(k) == seats[k].ok /\ k >= 1 => SeatInv(hist, G(k), seats[k])
           T == {k \in Nat : k <= N => Good(k)}
<1>11. 0 \in T
  OBVIOUS
<1>12. ASSUME NEW k \in Nat, k \in T PROVE k + 1 \in T
  <2> SUFFICES ASSUME k + 1 <= N, seats[k + 1].ok PROVE SeatInv(hist, G(k + 1), seats[k + 1])
    OBVIOUS
  <2> DEFINE q == seats[k]
             e == ev[k + 1]
  <2>1. k + 1 \in 1..N /\ (k + 1) - 1 = k /\ k <= N /\ k \in 0..N
    BY <1>3
  <2>2. q \in Seats /\ q.ok /\ seats[k + 1] = Turn(hist, q, e) /\ G(k + 1) = G(k) \cup {e} /\ e \in AnyTxns
    BY <1>4, <1>7, <1>9, <1>10, <2>1
  <2>3. G(k) \subseteq AnyTxns /\ hist \subseteq G(k)
    BY <1>1, <1>4, <2>1
  <2>4. Before(hist, G(k), q, e)
    <3>1. CASE k = 0
      BY <1>4, <1>9, <3>1 DEF Before, NoSeat
    <3>2. CASE k # 0
      <4>1. k \in 1..N /\ k >= 1 /\ k < k + 1
        BY <2>1, <3>2
      <4>2. SeatInv(hist, G(k), q)
        BY <1>12, <2>1, <2>2, <4>1
      <4>3. q.last <= e.tick
        BY <1>3, <1>10, <2>1, <4>1
      <4> QED BY <4>2, <4>3 DEF Before
    <3> QED BY <3>1, <3>2
  <2> HIDE DEF q, e
  <2>5. Turn(hist, q, e).ok
    BY <2>2
  <2> QED BY <2>2, <2>3, <2>4, <2>5, TurnStep
<1> HIDE DEF T
<1>13. Nat \subseteq T
  BY <1>11, <1>12, SetInduction
<1>14. \A k \in 0..N : seats[k].ok
  <2> DEFINE U == {d \in Nat : d <= N => seats[N - d].ok}
  <2>1. 0 \in U
    BY <1>3, <1>5, <1>9
  <2>2. ASSUME NEW d \in Nat, d \in U PROVE d + 1 \in U
    <3> SUFFICES ASSUME d + 1 <= N PROVE seats[N - (d + 1)].ok
      OBVIOUS
    <3>1. N - d \in 1..N /\ (N - d) - 1 = N - (d + 1) /\ d <= N
      BY <1>3
    <3> QED BY <1>10, <2>2, <3>1
  <2> HIDE DEF U
  <2>3. Nat \subseteq U
    BY <2>1, <2>2, SetInduction
  <2> SUFFICES ASSUME NEW k \in 0..N PROVE seats[k].ok
    OBVIOUS
  <2>4. N - k \in Nat /\ N - k <= N /\ N - (N - k) = k
    BY <1>3
  <2> QED BY <2>3, <2>4 DEF U
<1>15. ASSUME NEW k \in 1..N
       PROVE  \E s \in Seats : /\ SeatInv(hist, G(k), s) /\ s.last = ev[k].tick
                               /\ k = N => s = Seat(hist, ev)
  <2>1. k \in Nat /\ k <= N /\ k >= 1 /\ k \in 0..N
    BY <1>3
  <2>2. SeatInv(hist, G(k), seats[k])
    BY <1>13, <1>14, <2>1 DEF T
  <2>3. seats[k] \in Seats
    BY <1>9, <2>1
  <2> QED BY <1>9, <1>10, <2>2, <2>3
<1> QED BY <1>6, <1>15

\* Transactions that Turns accepts extend an ordered history to an ordered one.
LEMMA TurnsFacts ==
    ASSUME NEW hist, HistInv(hist), NEW txns, txns \subseteq AnyTxns, IsFiniteSet(txns), Turns(hist, txns)
    PROVE  HistInv(hist \cup txns) /\ WellSeated(hist, txns)
<1> DEFINE N == Cardinality(txns)
           ev == get_events(txns)
           G == hist \cup txns
           s == Seat(hist, ev)
<1>1. /\ s.ok
      /\ \A t \in txns : t.tick > 0 => Full(s.players) /\ t.creator = s.players[1 + (t.tick % 2)]
  BY DEF Turns
<1>2. WellSeated(hist, txns)
  BY <1>1, SeatFacts
<1>3. IsListing(ev, txns)
  <2>1. Ticked(txns)
    BY TxnFacts DEF Ticked
  <2> QED BY <2>1, EventsFacts
<1>4. N \in Nat /\ ev \in [1..N -> txns] /\ \A t \in txns : \E k \in 1..N : ev[k] = t
  BY <1>3 DEF IsListing
<1>5. Upto(hist, ev, N) = G
  <2>1. /\ Upto(hist, ev, 0) = hist
        /\ Upto(hist, ev, N) = hist \cup txns
        /\ \A k \in 1..N : Upto(hist, ev, k) = Upto(hist, ev, k - 1) \cup {ev[k]}
        /\ \A k \in 0..N : hist \subseteq Upto(hist, ev, k) /\ Upto(hist, ev, k) \subseteq hist \cup txns
    <3> HIDE DEF ev
    <3> QED BY <1>3, UptoFacts
  <2> QED BY <2>1
<1>6. hist \subseteq AnyTxns /\ G \subseteq AnyTxns /\ Ordered(hist) /\ InTurn(hist)
  BY DEF HistInv
<1>7. N # 0 => SeatInv(hist, G, s) /\ s.last = ev[N].tick
  <2> HAVE N # 0
  <2>1. N \in 1..N
    BY <1>4
  <2>2. PICK q \in Seats : SeatInv(hist, Upto(hist, ev, N), q) /\ q.last = ev[N].tick /\ q = s
    BY <1>2, <2>1 DEF WellSeated
  <2> QED BY <1>5, <2>2
<1> HIDE DEF N, ev, s
<1>8. CASE N = 0
  <2>1. txns = {}
    BY <1>4, <1>8
  <2>2. G = hist
    BY <2>1
  <2> QED BY <1>2, <2>2
<1>9. CASE N # 0
  <2>1. SeatInv(hist, G, s) /\ s.last = ev[N].tick /\ ev[N] \in txns
    <3>1. N \in 1..N
      BY <1>4, <1>9
    <3> QED BY <1>4, <1>7, <1>9, <3>1
  <2>2. \A t \in G : t.tick \in Nat
    BY <1>6, TxnFacts
  <2> DEFINE p == get_players(G)
  <2>3. ASSUME MovesOf(G) # {} PROVE Full(p)
    <3>1. PICK t \in G : t.tick >= 2
      BY <2>3 DEF MovesOf
    <3>2. s.last \in Nat /\ s.last >= 2
      BY <2>1, <2>2, <3>1 DEF SeatInv
    <3>3. CASE HasTick(G, 1)
      BY <1>6, <2>1, <3>3, PlayersFacts DEF SeatInv
    <3>4. CASE s.players = p
      <4>1. ev[N].tick > 0
        BY <2>1, <3>2
      <4> QED BY <1>1, <2>1, <3>4, <4>1
    <3> QED BY <2>1, <3>2, <3>3, <3>4 DEF SeatInv
  <2>4. Ordered(G)
    BY <2>1, <2>3 DEF Ordered, SeatInv
  <2>5. ASSUME OneStart(G)
        PROVE  /\ SingleTicks(G)
               /\ \A t \in G : t.tick > 0 => Full(p) /\ t.creator = p[1 + (t.tick % 2)]
    <3>1. s.players = p /\ OneJoin(G) /\ SingleMoves(G)
      BY <2>1, <2>5 DEF SeatInv
    <3>2. SingleTicks(G)
      <4> SUFFICES ASSUME NEW t \in G, NEW u \in G, t.tick = u.tick PROVE t = u
        BY DEF SingleTicks
      <4>1. t.tick = 0 \/ t.tick = 1 \/ (t.tick >= 2 /\ u.tick >= 2)
        BY <2>2
      <4> HIDE DEF G
      <4> QED BY <2>5, <3>1, <4>1 DEF OneStart, OneJoin, SingleMoves, SingleTicks, Setup, MovesOf
    <3>3. ASSUME NEW t \in txns, t.tick > 0 PROVE Full(p) /\ t.creator = p[1 + (t.tick % 2)]
      BY <1>1, <3>1, <3>3
    <3>4. ASSUME NEW t \in hist, t.tick > 0 PROVE Full(p) /\ t.creator = p[1 + (t.tick % 2)]
      <4>1. OneStart(hist)
        BY <2>5 DEF OneStart, SingleTicks, Setup
      <4>2. Full(get_players(hist)) /\ t.creator = get_players(hist)[1 + (t.tick % 2)]
        BY <1>6, <3>4, <4>1 DEF InTurn
      <4>3. \A u \in G : u.tick < 2 => u \in hist
        BY <2>1, <4>2 DEF SeatInv
      <4>4. Setup(G, 0) = Setup(hist, 0) /\ Setup(G, 1) = Setup(hist, 1)
        BY <4>3 DEF Setup
      <4>5. get_players(G) = get_players(hist)
        <5> HIDE DEF G
        <5> QED BY <4>4, SetupFacts
      <4> QED BY <4>2, <4>5
    <3> QED BY <3>2, <3>3, <3>4
  <2>6. InTurn(G)
    <3> HIDE DEF G
    <3> QED BY <2>5 DEF InTurn
  <2> QED BY <1>2, <1>6, <2>4, <2>6 DEF HistInv
<1> QED BY <1>8, <1>9

\* The ticks of moves that are not skipped.
LEMMA TicksFacts ==
    ASSUME NEW hist, hist \subseteq AnyTxns, IsFiniteSet(hist), Closed(hist)
    PROVE  LET ticks == {t.tick : t \in MovesOf(hist)}
           IN  ticks = 2..(1 + Cardinality(ticks))
<1> DEFINE ticks == {t.tick : t \in MovesOf(hist)}
<1>1. \A t \in MovesOf(hist) : t \in hist /\ t.tick \in Nat /\ t.tick >= 2
  BY TxnFacts DEF MovesOf
<1>2. ASSUME ticks # {} PROVE \E m \in ticks : \A x \in ticks : x <= m
  <2> DEFINE M == MovesOf(hist)
  <2>1. M \in SUBSET hist /\ M # {}
    BY <1>2 DEF MovesOf
  <2>2. IsFiniteSet(M) /\ Ticked(M)
    BY <1>1, <2>1, FS_Subset DEF Ticked
  <2>3. ticks = {t.tick : t \in M}
    OBVIOUS
  <2> HIDE DEF M
  <2>4. PICK m \in M : \A t \in M : t.tick <= m.tick
    BY <2>1, <2>2, LatestExists
  <2> QED BY <2>3, <2>4
<1>3. \A x \in ticks : x \in Nat /\ x >= 2
  BY <1>1
<1>4. \A x \in ticks : \A k \in 2..x : k \in ticks
  <2> SUFFICES ASSUME NEW t \in MovesOf(hist), NEW k \in 2..t.tick PROVE k \in ticks
    OBVIOUS
  <2>1. PICK u \in hist : u.tick = k
    BY DEF Closed, HasTick
  <2>2. u \in MovesOf(hist)
    BY <1>1, <2>1 DEF MovesOf
  <2> QED BY <2>1, <2>2
<1> HIDE DEF ticks
<1>5. CASE ticks = {}
  <2>1. Cardinality(ticks) = 0
    BY <1>5, FS_EmptySet
  <2>2. 2..(1 + 0) = {}
    OBVIOUS
  <2> QED BY <1>5, <2>1, <2>2 DEF ticks
<1>6. CASE ticks # {}
  <2>1. PICK m \in ticks : \A x \in ticks : x <= m
    BY <1>2, <1>6
  <2>2. m \in Nat /\ m >= 2
    BY <1>3
  <2>3. ticks = 2..m
    <3>1. ASSUME NEW x \in ticks PROVE x \in 2..m
      BY <1>3, <2>1, <2>2
    <3>2. ASSUME NEW x \in 2..m PROVE x \in ticks
      BY <1>4, <2>1
    <3> QED BY <3>1, <3>2
  <2>4. Cardinality(2..m) = m - 2 + 1
    BY <2>2, FS_Interval
  <2>5. 1 + (m - 2 + 1) = m
    BY <2>2
  <2> QED BY <2>3, <2>4, <2>5 DEF ticks
<1> QED BY <1>5, <1>6

\* A branch of the invariant goes turn by turn.
LEMMA HistoryFacts ==
    ASSUME NEW hist, HistInv(hist), IsFiniteSet(hist), Cardinality({t \in hist : t.tick = 0}) <= 1
    PROVE  LET ticks == {t.tick : t \in MovesOf(hist)}
           IN  /\ \A t, u \in hist : t.tick = u.tick => t = u
               /\ ticks = 2..(1 + Cardinality(ticks))
               /\ \A t \in hist : t.tick > 0 =>
                   /\ Full(get_players(hist))
                   /\ t.creator = get_players(hist)[1 + (t.tick % 2)]
<1> DEFINE ticks == {t.tick : t \in MovesOf(hist)}
           S == Setup(hist, 0)
<1>1. hist \subseteq AnyTxns /\ Ordered(hist) /\ InTurn(hist)
  BY DEF HistInv
<1>2. S = {t \in hist : t.tick = 0} /\ S \in SUBSET hist
  BY DEF Setup
<1>3. Cardinality(S) <= 1
  BY <1>2
<1> HIDE DEF S
<1>4. IsFiniteSet(S)
  BY <1>2, FS_Subset
<1>5. Cardinality(S) = 0 \/ Cardinality(S) = 1
  BY <1>3, <1>4, FS_CardinalityType
<1>6. SingleTicks(S)
  <2>1. CASE Cardinality(S) = 0
    <3>1. S = {}
      BY <1>4, <2>1, FS_EmptySet
    <3> QED BY <3>1 DEF SingleTicks
  <2>2. CASE Cardinality(S) = 1
    <3>1. PICK x : S = {x}
      BY <1>4, <2>2, FS_Singleton
    <3> QED BY <3>1 DEF SingleTicks
  <2> QED BY <1>5, <2>1, <2>2
<1>7. OneStart(hist)
  BY <1>6 DEF OneStart, S
<1>8. /\ SingleTicks(hist)
      /\ \A t \in hist : t.tick > 0 => /\ Full(get_players(hist))
                                       /\ t.creator = get_players(hist)[1 + (t.tick % 2)]
  BY <1>1, <1>7 DEF InTurn
<1>9. ticks = 2..(1 + Cardinality(ticks))
  BY <1>1, TicksFacts DEF Ordered
<1> HIDE DEF ticks
<1>10. \A t, u \in hist : t.tick = u.tick => t = u
  BY <1>8 DEF SingleTicks
<1> QED BY <1>8, <1>9, <1>10 DEF ticks

-----------------------------------------------------------------------------
(* The blocks of the node *)

\* Blocks hold transactions, and every branch goes turn by turn.
ChainInv ==
    /\ blocks \subseteq Seq(SUBSET AnyTxns) /\ head \in blocks
    /\ IsFiniteSet(Stored)
    /\ pending \subseteq AnyTxns /\ IsFiniteSet(pending)
    /\ \A block \in blocks : HistInv(TxnsOn(block))

\* A block on top of a branch adds its transactions.
LEMMA AppendFacts ==
    ASSUME NEW prev \in Seq(SUBSET AnyTxns), NEW txns \in SUBSET AnyTxns
    PROVE  /\ Append(prev, txns) \in Seq(SUBSET AnyTxns)
           /\ TxnsOn(Append(prev, txns)) = TxnsOn(prev) \cup txns
           /\ Len(Append(prev, txns)) > Len(prev)
<1> DEFINE b == Append(prev, txns)
           n == Len(prev)
<1>1. /\ b \in Seq(SUBSET AnyTxns) /\ n \in Nat /\ DOMAIN prev = 1..n /\ DOMAIN b = 1..n + 1
      /\ Len(b) = n + 1 /\ b[n + 1] = txns /\ \A i \in 1..n : b[i] = prev[i]
  OBVIOUS
<1> HIDE DEF b, n
<1>2. \A i : i \in 1..n + 1 <=> i \in 1..n \/ i = n + 1
  BY <1>1
<1>3. TxnsOn(b) = TxnsOn(prev) \cup txns
  <2>1. ASSUME NEW t \in TxnsOn(b) PROVE t \in TxnsOn(prev) \cup txns
    BY <1>1, <1>2, <2>1 DEF TxnsOn
  <2>2. ASSUME NEW t \in TxnsOn(prev) PROVE t \in TxnsOn(b)
    BY <1>1, <1>2, <2>2 DEF TxnsOn
  <2>3. ASSUME NEW t \in txns PROVE t \in TxnsOn(b)
    BY <1>1, <1>2, <2>3 DEF TxnsOn
  <2> QED BY <2>1, <2>2, <2>3
<1> QED BY <1>1, <1>3 DEF b, n

\* The transactions of a branch are stored and finitely many.
LEMMA StoredFacts ==
    ASSUME ChainInv, NEW block \in blocks
    PROVE  TxnsOn(block) \subseteq Stored /\ IsFiniteSet(TxnsOn(block))
<1>1. TxnsOn(block) \in SUBSET Stored
  BY DEF Stored
<1> QED BY <1>1, FS_Subset DEF ChainInv

\* The rules that come first accept nothing that Turns does not.
LEMMA ValidTurns ==
    ASSUME NEW hist, NEW txns, NEW c, is_valid(hist, txns, c).verdict = "ok"
    PROVE  Turns(hist, txns) /\ ~Duplicated(hist, txns)
<1> SUFFICES ASSUME Duplicated(hist, txns) \/ ~Turns(hist, txns) PROVE FALSE
  OBVIOUS
<1>1. is_valid(hist, txns, c) = [verdict |-> "invalid", cache |-> c]
  BY DEF is_valid
<1> QED BY <1>1

\* A block of valid transactions keeps the invariant.
LEMMA StoreStep ==
    ASSUME ChainInv, NEW prev \in blocks, NEW txns, txns \subseteq AnyTxns, IsFiniteSet(txns),
           NEW c, is_valid(TxnsOn(prev), txns, c).verdict = "ok",
           Store(Append(prev, txns)), pending' \subseteq AnyTxns, IsFiniteSet(pending')
    PROVE  ChainInv'
<1> DEFINE b == Append(prev, txns)
           hist == TxnsOn(prev)
<1>1. HistInv(hist) /\ prev \in Seq(SUBSET AnyTxns)
  BY DEF ChainInv
<1>2. Turns(hist, txns)
  BY ValidTurns
<1>3. HistInv(hist \cup txns)
  <2> HIDE DEF hist
  <2> QED BY <1>1, <1>2, TurnsFacts
<1>4. b \in Seq(SUBSET AnyTxns) /\ TxnsOn(b) = hist \cup txns
  BY <1>1, AppendFacts
<1>5. blocks' = blocks \cup {b} /\ head' \in {b, head}
  BY DEF Store, HeadWith
<1> HIDE DEF b, hist
<1>6. Stored' = Stored \cup txns
  <2>1. hist \subseteq Stored
    BY DEF Stored, hist
  <2>2. Stored' = UNION {TxnsOn(x) : x \in blocks \cup {b}}
    BY <1>5 DEF Stored
  <2> QED BY <1>4, <2>1, <2>2 DEF Stored
<1>7. IsFiniteSet(Stored')
  BY <1>6, FS_Union DEF ChainInv
<1>8. \A x \in blocks' : HistInv(TxnsOn(x))
  BY <1>3, <1>4, <1>5 DEF ChainInv
<1>9. blocks' \subseteq Seq(SUBSET AnyTxns) /\ head' \in blocks'
  BY <1>4, <1>5 DEF ChainInv
<1> QED BY <1>7, <1>8, <1>9 DEF ChainInv

-----------------------------------------------------------------------------
(* Boards and caches of boards *)

\* A tick belongs to one of the two colours.
LEMMA FromTurn == \A tick : from_turn(tick) \in {"Red", "Black"}
BY DEF from_turn

\* A transaction of tick 2 or later is a play.
LEMMA MoveFacts ==
    ASSUME NEW t \in AnyTxns, t.tick >= 2
    PROVE  IsPlay(t.event) /\ t.tick \in Nat
<1>1. t.tick \in Nat /\ t.tick # 0 /\ t.tick # 1
  BY TxnFacts
<1> QED BY <1>1, TxnFacts, GameAssumption

\* Playing the next move keeps the type of the result.
LEMMA PlayNextType ==
    ASSUME NEW r \in Results, NEW t \in AnyTxns, t.tick >= 2
    PROVE  PlayNext(r, t) \in Results
<1>1. r.board \in Boards
  BY DEF Results
<1>2. play(r.board, t.event, from_turn(t.tick)) \in Results
  BY <1>1, MoveFacts, FromTurn, PlayFacts
<1> QED BY <1>2 DEF PlayNext

\* What the moves played so far have led to, in PlayOn.
IsPlaying(played, b, moves, N) ==
    /\ played \in [0..N -> Results]
    /\ played[0] = [ok |-> TRUE, board |-> b]
    /\ \A k \in 1..N : played[k] = PlayNext(played[k - 1], moves[k])

OnlyMoves(txns) == txns \subseteq AnyTxns /\ \A t \in txns : t.tick >= 2

\* The boards while a set of moves is played in the order of the ticks.
LEMMA PlayingExists ==
    ASSUME NEW b \in Boards, NEW txns, OnlyMoves(txns), IsFiniteSet(txns)
    PROVE  LET N == Cardinality(txns)
               moves == get_events(txns)
           IN  /\ IsListing(moves, txns)
               /\ \E played : IsPlaying(played, b, moves, N) /\ PlayOn(b, txns) = played[N]
<1> DEFINE N == Cardinality(txns)
           moves == get_events(txns)
           start == [ok |-> TRUE, board |-> b]
           F == [k \in 1..N |-> [q \in Results |-> PlayNext(q, moves[k])]]
           played[k \in 0..N] == IF k = 0 THEN start ELSE PlayNext(played[k - 1], moves[k])
<1>1. IsListing(moves, txns)
  <2>1. Ticked(txns)
    BY TxnFacts DEF Ticked, OnlyMoves
  <2> QED BY <2>1, EventsFacts
<1>2. N \in Nat /\ moves \in [1..N -> txns] /\ Len(moves) = N
  BY <1>1 DEF IsListing
<1>3. moves = get_events(txns)
  OBVIOUS
<1> HIDE DEF N, moves
<1>4. ASSUME NEW q \in Results, NEW k \in 1..N PROVE PlayNext(q, moves[k]) \in Results
  <2>1. moves[k] \in AnyTxns /\ moves[k].tick >= 2
    BY <1>2 DEF OnlyMoves
  <2> QED BY <2>1, PlayNextType
<1>5. start \in Results
  BY DEF Results
<1>6. F \in [1..N -> [Results -> Results]]
  BY <1>4
<1> HIDE DEF start
<1>7. PICK f : IsRun(f, Results, start, F, N)
  <2> HIDE DEF F
  <2> QED BY <1>2, <1>5, <1>6, RunExists
<1>8. f \in [0..N -> Results] /\ f[0] = start /\ \A k \in 1..N : f[k] = F[k][f[k - 1]]
  <2> HIDE DEF F
  <2> QED BY <1>7 DEF IsRun
<1>9. \A k \in 1..N : f[k - 1] \in Results
  <2>1. \A k \in 1..N : k - 1 \in 0..N
    BY <1>2
  <2> QED BY <1>8, <2>1
<1>10. \A k \in 1..N : f[k] = PlayNext(f[k - 1], moves[k])
  BY <1>8, <1>9
<1>11. f = [k \in 0..N |-> IF k = 0 THEN start ELSE PlayNext(f[k - 1], moves[k])]
  <2> HIDE DEF F
  <2> QED BY <1>2, <1>8, <1>10
<1>12. played = [k \in 0..N |-> IF k = 0 THEN start ELSE PlayNext(played[k - 1], moves[k])]
  BY <1>11, Zenon
<1>13. PlayOn(b, txns) = played[N]
  BY <1>2, <1>3, Zenon DEF PlayOn, start
<1> HIDE DEF played, F
<1>14. played[0] = start /\ \A k \in 1..N : played[k] = PlayNext(played[k - 1], moves[k])
  <2>1. 0 \in 0..N /\ \A k \in 1..N : k \in 0..N /\ k # 0
    BY <1>2
  <2> QED BY <1>12, <2>1, Zenon
<1> DEFINE T == {k \in Nat : k <= N => played[k] \in Results}
<1>15. 0 \in T
  BY <1>5, <1>14
<1>16. ASSUME NEW k \in Nat, k \in T PROVE k + 1 \in T
  <2> SUFFICES ASSUME k + 1 <= N PROVE played[k + 1] \in Results
    OBVIOUS
  <2>1. k + 1 \in 1..N /\ (k + 1) - 1 = k /\ k <= N
    BY <1>2
  <2>2. played[k + 1] = PlayNext(played[k], moves[k + 1])
    BY <1>14, <2>1
  <2> QED BY <1>4, <1>16, <2>1, <2>2
<1> HIDE DEF T
<1>17. Nat \subseteq T
  BY <1>15, <1>16, SetInduction
<1>18. \A k \in 0..N : played[k] \in Results
  BY <1>2, <1>17 DEF T
<1>19. played \in [0..N -> Results]
  <2>1. played = [k \in 0..N |-> played[k]]
    BY <1>12, Zenon
  <2> QED BY <1>18, <2>1
<1>20. IsPlaying(played, b, moves, N)
  BY <1>14, <1>19 DEF IsPlaying, start
<1> QED BY <1>1, <1>13, <1>20 DEF N, moves

\* A move that is later than all others is played last.
LEMMA PlayOnNext ==
    ASSUME NEW b \in Boards, NEW txns, OnlyMoves(txns), IsFiniteSet(txns), SingleTicks(txns),
           NEW t \in AnyTxns, t.tick >= 2, \A u \in txns : u.tick < t.tick
    PROVE  /\ PlayOn(b, txns) \in Results
           /\ PlayOn(b, txns \cup {t}) = PlayNext(PlayOn(b, txns), t)
<1> DEFINE more == txns \cup {t}
           N == Cardinality(txns)
           ev == get_events(txns)
           new == get_events(more)
<1>1. Ticked(txns) /\ t.tick \in Nat
  BY TxnFacts DEF Ticked, OnlyMoves
<1>2. /\ N \in Nat /\ Len(ev) = N /\ Len(new) = N + 1
      /\ \A k \in 1..N : new[k] = ev[k]
      /\ new[N + 1] = t
  BY <1>1, EventsAppend
<1>3. t \notin txns
  <2>1. ~(t.tick < t.tick)
    BY <1>1
  <2> QED BY <2>1
<1>4. IsFiniteSet(more) /\ Cardinality(more) = N + 1 /\ OnlyMoves(more)
  BY <1>3, FS_AddElement DEF OnlyMoves
<1>5. PICK p : IsPlaying(p, b, ev, N) /\ PlayOn(b, txns) = p[N]
  BY PlayingExists
<1> HIDE DEF more
<1>6. PICK q : IsPlaying(q, b, new, Cardinality(more)) /\ PlayOn(b, more) = q[Cardinality(more)]
  BY <1>4, PlayingExists
<1>7. IsPlaying(q, b, new, N + 1) /\ PlayOn(b, more) = q[N + 1]
  BY <1>4, <1>6
<1> HIDE DEF N, ev, new
<1> DEFINE T == {k \in Nat : k <= N => q[k] = p[k]}
<1>8. 0 \in T
  BY <1>5, <1>7 DEF IsPlaying
<1>9. ASSUME NEW k \in Nat, k \in T PROVE k + 1 \in T
  <2> SUFFICES ASSUME k + 1 <= N PROVE q[k + 1] = p[k + 1]
    OBVIOUS
  <2>1. k + 1 \in 1..N /\ k + 1 \in 1..N + 1 /\ (k + 1) - 1 = k /\ k <= N
    BY <1>2
  <2>2. q[k + 1] = PlayNext(q[k], new[k + 1]) /\ p[k + 1] = PlayNext(p[k], ev[k + 1])
    BY <1>5, <1>7, <2>1 DEF IsPlaying
  <2> QED BY <1>2, <1>9, <2>1, <2>2
<1> HIDE DEF T
<1>10. N \in T
  BY <1>2, <1>8, <1>9, SetInduction
<1>11. q[N] = p[N]
  BY <1>2, <1>10 DEF T
<1>12. N + 1 \in 1..N + 1 /\ (N + 1) - 1 = N /\ N \in 0..N
  BY <1>2
<1>13. q[N + 1] = PlayNext(q[N], new[N + 1]) /\ p[N] \in Results
  BY <1>5, <1>7, <1>12 DEF IsPlaying
<1> QED BY <1>2, <1>5, <1>7, <1>11, <1>13 DEF more

BoardMaps == UNION {[D -> Boards] : D \in SUBSET Nat}

\* Only boards of moves are cached, the last one for the latest tick.
Caches ==
    {c \in [states : BoardMaps, latest : Nat] :
        /\ \A k \in DOMAIN c.states : k >= 2 /\ k <= c.latest
        /\ c.latest # 0 => c.latest \in DOMAIN c.states}

\* The parts of a cache.
LEMMA CachesFacts ==
    ASSUME NEW c \in Caches
    PROVE  /\ c.latest \in Nat /\ DOMAIN c.states \subseteq Nat /\ c.states \in [DOMAIN c.states -> Boards]
           /\ \A k \in DOMAIN c.states : k >= 2 /\ k <= c.latest /\ c.states[k] \in Boards
           /\ c.latest # 0 => c.latest \in DOMAIN c.states
<1>1. /\ c.states \in BoardMaps /\ c.latest \in Nat
      /\ \A k \in DOMAIN c.states : k >= 2 /\ k <= c.latest
      /\ c.latest # 0 => c.latest \in DOMAIN c.states
  BY DEF Caches
<1>2. PICK D \in SUBSET Nat : c.states \in [D -> Boards]
  BY <1>1 DEF BoardMaps
<1> QED BY <1>1, <1>2

\* Caching a board keeps the boards of earlier ticks.
LEMMA CacheFacts ==
    ASSUME NEW c \in Caches, NEW tick \in Nat, tick >= 2, NEW b \in Boards
    PROVE  /\ cache(c, tick, b) \in Caches
           /\ tick \in DOMAIN cache(c, tick, b).states
           /\ cache(c, tick, b).states[tick] = b
           /\ \A k \in DOMAIN c.states : k < tick => /\ k \in DOMAIN cache(c, tick, b).states
                                                     /\ cache(c, tick, b).states[k] = c.states[k]
<1> DEFINE D == (IF c.latest > tick THEN Until(c.states, tick) ELSE DOMAIN c.states) \cup {tick}
           st == [t \in D |-> IF t = tick THEN b ELSE c.states[t]]
           r == cache(c, tick, b)
<1>1. r = [states |-> st, latest |-> tick]
  BY DEF cache
<1>2. /\ c.latest \in Nat /\ DOMAIN c.states \subseteq Nat
      /\ \A k \in DOMAIN c.states : k >= 2 /\ k <= c.latest /\ c.states[k] \in Boards
  BY CachesFacts
<1>3. \A k \in D : k \in Nat /\ k >= 2 /\ k <= tick /\ (k # tick => k \in DOMAIN c.states)
  <2>1. CASE c.latest > tick
    BY <1>2, <2>1 DEF Until
  <2>2. CASE ~(c.latest > tick)
    BY <1>2, <2>2
  <2> QED BY <2>1, <2>2
<1>4. tick \in D /\ \A k \in DOMAIN c.states : k < tick => k \in D
  <2>1. CASE c.latest > tick
    BY <1>2, <2>1 DEF Until
  <2>2. CASE ~(c.latest > tick)
    BY <1>2, <2>2
  <2> QED BY <2>1, <2>2
<1> HIDE DEF D
<1>5. st \in [D -> Boards] /\ D \in SUBSET Nat
  BY <1>2, <1>3
<1>6. st[tick] = b /\ \A k \in DOMAIN c.states : k < tick => k \in D /\ st[k] = c.states[k]
  BY <1>2, <1>4
<1>7. st \in BoardMaps /\ DOMAIN st = D
  BY <1>5 DEF BoardMaps
<1> HIDE DEF st, r
<1>8. r.states = st /\ r.latest = tick
  BY <1>1
<1>9. r \in [states : BoardMaps, latest : Nat]
  BY <1>1, <1>7
<1>10. r \in Caches
  BY <1>3, <1>4, <1>7, <1>8, <1>9 DEF Caches
<1> QED BY <1>4, <1>6, <1>7, <1>8, <1>10 DEF r

\* The latest cached tick up to a tick is that tick if it is cached.
LEMMA LatestFacts ==
    ASSUME NEW c \in Caches, NEW tick \in Nat
    PROVE  /\ LatestTicks(c, tick) \subseteq DOMAIN c.states
           /\ tick \in DOMAIN c.states => LatestTicks(c, tick) = {tick}
           /\ tick < 2 => LatestTicks(c, tick) = {}
<1> DEFINE U == Until(c.states, tick)
<1>1. /\ c.latest \in Nat /\ DOMAIN c.states \subseteq Nat
      /\ \A k \in DOMAIN c.states : k >= 2 /\ k <= c.latest
      /\ c.latest # 0 => c.latest \in DOMAIN c.states
  BY CachesFacts
<1>2. U = {t \in DOMAIN c.states : t <= tick}
  BY DEF Until
<1>3. LatestTicks(c, tick) = IF c.latest = 0 THEN {}
                             ELSE IF c.latest <= tick THEN {c.latest}
                             ELSE {t \in U : \A u \in U : u <= t}
  BY DEF LatestTicks
<1> HIDE DEF U
<1>4. LatestTicks(c, tick) \subseteq DOMAIN c.states
  BY <1>1, <1>2, <1>3
<1>5. ASSUME tick \in DOMAIN c.states PROVE LatestTicks(c, tick) = {tick}
  <2>1. c.latest # 0 /\ tick <= c.latest
    BY <1>1, <1>5
  <2>2. CASE c.latest <= tick
    BY <1>1, <1>3, <2>1, <2>2
  <2>3. CASE ~(c.latest <= tick)
    <3>1. tick \in U /\ \A u \in U : u <= tick /\ u \in Nat
      BY <1>1, <1>2, <1>5
    <3>2. \A t \in U : (\A u \in U : u <= t) => t = tick
      <4> SUFFICES ASSUME NEW t \in U, \A u \in U : u <= t PROVE t = tick
        OBVIOUS
      <4>1. tick <= t /\ t <= tick /\ t \in Nat
        BY <3>1
      <4> QED BY <4>1
    <3>3. {t \in U : \A u \in U : u <= t} = {tick}
      BY <3>1, <3>2
    <3> QED BY <1>3, <2>1, <2>3, <3>3
  <2> QED BY <2>2, <2>3
<1>6. ASSUME tick < 2 PROVE LatestTicks(c, tick) = {}
  <2>1. U = {}
    BY <1>1, <1>2, <1>6
  <2>2. c.latest # 0 => ~(c.latest <= tick)
    BY <1>1, <1>6
  <2> QED BY <1>3, <2>1, <2>2
<1> QED BY <1>4, <1>5, <1>6

\* The starting board is a board.
LEMMA DefaultBoard == default \in Boards
BY DEF default, Boards, Tiles

\* The board before a move is the starting one, the cached one or a replayed one.
LEMMA BeforeFacts ==
    ASSUME NEW hist, hist \subseteq AnyTxns, IsFiniteSet(hist), NEW c \in Caches, NEW tick \in Nat, tick >= 2
    PROVE  /\ BoardBefore(hist, c, tick) \in Results
           /\ tick = 2 => BoardBefore(hist, c, tick) = [ok |-> TRUE, board |-> default]
           /\ tick - 1 \in DOMAIN c.states =>
                BoardBefore(hist, c, tick) = [ok |-> TRUE, board |-> c.states[tick - 1]]
<1> DEFINE found == LatestTicks(c, tick - 1)
           start == IF found = {} THEN 2 ELSE CHOOSE t \in found : TRUE
           b == IF found = {} THEN default ELSE c.states[start]
           later == {t \in hist : t.tick > start}
<1>1. BoardBefore(hist, c, tick) = IF start + 1 < tick THEN PlayOn(b, later) ELSE [ok |-> TRUE, board |-> b]
  BY DEF BoardBefore
<1>2. tick - 1 \in Nat
  OBVIOUS
<1>3. /\ found \subseteq DOMAIN c.states
      /\ tick - 1 \in DOMAIN c.states => found = {tick - 1}
      /\ tick - 1 < 2 => found = {}
  BY <1>2, LatestFacts
<1>4. DOMAIN c.states \subseteq Nat /\ \A k \in DOMAIN c.states : k >= 2 /\ c.states[k] \in Boards
  BY CachesFacts
<1> HIDE DEF found
<1>5. start \in Nat /\ start >= 2 /\ b \in Boards
  <2>1. CASE found = {}
    BY <2>1, DefaultBoard
  <2>2. CASE found # {}
    <3>1. start \in found
      BY <2>2
    <3> QED BY <1>3, <1>4, <2>2, <3>1
  <2> QED BY <2>1, <2>2
<1>6. found = {} => start = 2 /\ b = default
  OBVIOUS
<1>7. ASSUME NEW x, found = {x} PROVE start = x /\ b = c.states[x]
  <2>1. found # {} /\ \A t \in found : t = x
    BY <1>7
  <2>2. start = CHOOSE t \in found : TRUE
    BY <2>1
  <2>3. start \in found
    BY <2>1, <2>2
  <2> QED BY <2>1, <2>3
<1> HIDE DEF start, b
<1>8. PlayOn(b, later) \in Results
  <2>1. later \in SUBSET hist
    OBVIOUS
  <2>2. \A t \in hist : t.tick \in Nat
    BY TxnFacts
  <2>3. OnlyMoves(later)
    BY <1>5, <2>2 DEF OnlyMoves
  <2>4. IsFiniteSet(later)
    BY <2>1, FS_Subset
  <2> HIDE DEF later
  <2>5. PICK p : IsPlaying(p, b, get_events(later), Cardinality(later)) /\ PlayOn(b, later) = p[Cardinality(later)]
    BY <1>5, <2>3, <2>4, PlayingExists
  <2>6. Cardinality(later) \in Nat
    BY <2>4, FS_CardinalityType
  <2> QED BY <2>5, <2>6 DEF IsPlaying
<1> HIDE DEF later
<1>9. BoardBefore(hist, c, tick) \in Results
  <2>1. [ok |-> TRUE, board |-> b] \in Results
    BY <1>5 DEF Results
  <2> QED BY <1>1, <1>8, <2>1
<1>10. ASSUME tick = 2 PROVE BoardBefore(hist, c, tick) = [ok |-> TRUE, board |-> default]
  <2>1. tick - 1 < 2
    BY <1>10
  <2>2. start = 2 /\ b = default
    BY <1>3, <1>6, <2>1
  <2>3. ~(start + 1 < tick)
    BY <1>10, <2>2
  <2> QED BY <1>1, <2>2, <2>3
<1>11. ASSUME tick - 1 \in DOMAIN c.states
       PROVE  BoardBefore(hist, c, tick) = [ok |-> TRUE, board |-> c.states[tick - 1]]
  <2>1. start = tick - 1 /\ b = c.states[tick - 1]
    BY <1>3, <1>7, <1>11
  <2>2. ~(start + 1 < tick)
    BY <2>1
  <2> QED BY <1>1, <2>1, <2>2
<1> QED BY <1>9, <1>10, <1>11

-----------------------------------------------------------------------------
(* The Game rule *)

Verdicts == [verdict : {"ok", "invalid", "panic"}, cache : Caches]

\* What the game rule does with one event.
LEMMA JudgedFacts ==
    ASSUME NEW hist, hist \subseteq AnyTxns, IsFiniteSet(hist), NEW v \in Verdicts, NEW t \in AnyTxns
    PROVE  LET r == Judged(hist, v, t)
               before == BoardBefore(hist, v.cache, t.tick)
               after == play(before.board, t.event, from_turn(t.tick))
           IN  /\ r \in Verdicts
               /\ v.verdict # "ok" \/ t.tick < 2 => r = v
               /\ v.verdict = "ok" /\ ~(t.tick < 2) /\ before.ok =>
                    IF after.ok THEN r.verdict = "ok" /\ r.cache = cache(v.cache, t.tick, after.board)
                    ELSE r.verdict = "invalid" /\ r.cache = v.cache
<1> DEFINE r == Judged(hist, v, t)
           before == BoardBefore(hist, v.cache, t.tick)
           after == play(before.board, t.event, from_turn(t.tick))
<1>1. v.verdict \in {"ok", "invalid", "panic"} /\ v.cache \in Caches
  BY DEF Verdicts
<1>2. t.tick \in Nat
  BY TxnFacts
<1>3. CASE v.verdict # "ok" \/ t.tick < 2
  <2>1. r = v
    BY <1>3 DEF Judged
  <2> QED BY <1>3, <2>1
<1>4. CASE ~(v.verdict # "ok" \/ t.tick < 2)
  <2>1. t.tick >= 2
    BY <1>2, <1>4
  <2>2. before \in Results
    BY <1>1, <1>2, <2>1, BeforeFacts
  <2>3. before.board \in Boards /\ before.ok \in BOOLEAN
    BY <2>2 DEF Results
  <2>4. after \in Results
    <3> HIDE DEF before
    <3> QED BY <2>1, <2>3, MoveFacts, FromTurn, PlayFacts
  <2>5. after.board \in Boards /\ after.ok \in BOOLEAN
    BY <2>4 DEF Results
  <2>6. r = IF ~before.ok THEN [v EXCEPT !.verdict = "panic"]
            ELSE IF ~after.ok THEN [v EXCEPT !.verdict = "invalid"]
            ELSE [v EXCEPT !.cache = cache(@, t.tick, after.board)]
    BY <1>4 DEF Judged
  <2> HIDE DEF before, after, r
  <2>7. cache(v.cache, t.tick, after.board) \in Caches
    BY <1>1, <1>2, <2>1, <2>5, CacheFacts
  <2>8. CASE ~before.ok
    BY <1>1, <1>4, <2>6, <2>8 DEF Verdicts, r, before, after
  <2>9. CASE before.ok /\ ~after.ok
    <3>1. r = [v EXCEPT !.verdict = "invalid"]
      BY <2>6, <2>9
    <3>2. r \in Verdicts /\ r.verdict = "invalid" /\ r.cache = v.cache
      BY <1>1, <3>1 DEF Verdicts
    <3> QED BY <1>4, <2>9, <3>2 DEF r, before, after
  <2>10. CASE before.ok /\ after.ok
    <3>1. r = [v EXCEPT !.cache = cache(v.cache, t.tick, after.board)]
      BY <2>6, <2>10
    <3> DEFINE c == cache(v.cache, t.tick, after.board)
    <3> HIDE DEF c
    <3>2. r = [v EXCEPT !.cache = c] /\ c \in Caches
      BY <2>7, <3>1 DEF c
    <3>3. r \in Verdicts /\ r.verdict = v.verdict /\ r.cache = c
      BY <1>1, <3>2 DEF Verdicts
    <3> QED BY <1>4, <2>10, <3>3 DEF r, before, after, c
  <2> QED BY <2>8, <2>9, <2>10
<1> QED BY <1>3, <1>4

\* The verdict after each event.
IsJudging(v, hist, events, c, N) ==
    /\ v \in [0..N -> Verdicts]
    /\ v[0] = [verdict |-> "ok", cache |-> c]
    /\ \A k \in 1..N : v[k] = Judged(hist, v[k - 1], events[k])
    /\ Verdict(hist, events, c) = v[N]

\* The verdicts of the game rule while it goes through a list.
LEMMA JudgingExists ==
    ASSUME NEW hist, hist \subseteq AnyTxns, IsFiniteSet(hist), NEW c \in Caches,
           NEW N \in Nat, NEW events \in [1..N -> AnyTxns], Len(events) = N
    PROVE  \E v : IsJudging(v, hist, events, c, N)
<1> DEFINE start == [verdict |-> "ok", cache |-> c]
           F == [k \in 1..N |-> [q \in Verdicts |-> Judged(hist, q, events[k])]]
           verdicts[k \in 0..N] == IF k = 0 THEN start ELSE Judged(hist, verdicts[k - 1], events[k])
<1>1. start \in Verdicts
  BY DEF Verdicts
<1>2. ASSUME NEW q \in Verdicts, NEW k \in 1..N PROVE Judged(hist, q, events[k]) \in Verdicts
  <2>1. events[k] \in AnyTxns
    OBVIOUS
  <2> QED BY <2>1, JudgedFacts
<1>3. F \in [1..N -> [Verdicts -> Verdicts]]
  BY <1>2
<1> HIDE DEF start
<1>4. PICK f : IsRun(f, Verdicts, start, F, N)
  <2> HIDE DEF F
  <2> QED BY <1>1, <1>3, RunExists
<1>5. f \in [0..N -> Verdicts] /\ f[0] = start /\ \A k \in 1..N : f[k] = F[k][f[k - 1]]
  <2> HIDE DEF F
  <2> QED BY <1>4 DEF IsRun
<1>6. \A k \in 1..N : f[k - 1] \in Verdicts
  <2>1. \A k \in 1..N : k - 1 \in 0..N
    OBVIOUS
  <2> QED BY <1>5, <2>1
<1>7. \A k \in 1..N : f[k] = Judged(hist, f[k - 1], events[k])
  BY <1>5, <1>6
<1>8. f = [k \in 0..N |-> IF k = 0 THEN start ELSE Judged(hist, f[k - 1], events[k])]
  <2> HIDE DEF F
  <2> QED BY <1>5, <1>7
<1>9. verdicts = [k \in 0..N |-> IF k = 0 THEN start ELSE Judged(hist, verdicts[k - 1], events[k])]
  BY <1>8, Zenon
<1>10. Verdict(hist, events, c) = verdicts[N]
  BY Zenon DEF Verdict, start
<1> HIDE DEF verdicts, F
<1>11. verdicts[0] = start /\ \A k \in 1..N : verdicts[k] = Judged(hist, verdicts[k - 1], events[k])
  <2>1. 0 \in 0..N /\ \A k \in 1..N : k \in 0..N /\ k # 0
    OBVIOUS
  <2> QED BY <1>9, <2>1, Zenon
<1> DEFINE T == {k \in Nat : k <= N => verdicts[k] \in Verdicts}
<1>12. 0 \in T
  BY <1>1, <1>11
<1>13. ASSUME NEW k \in Nat, k \in T PROVE k + 1 \in T
  <2> SUFFICES ASSUME k + 1 <= N PROVE verdicts[k + 1] \in Verdicts
    OBVIOUS
  <2>1. k + 1 \in 1..N /\ (k + 1) - 1 = k /\ k <= N
    OBVIOUS
  <2>2. verdicts[k] \in Verdicts
    BY <1>13, <2>1
  <2> QED BY <1>2, <1>11, <2>1, <2>2
<1> HIDE DEF T
<1>14. Nat \subseteq T
  BY <1>12, <1>13, SetInduction
<1>15. \A k \in 0..N : verdicts[k] \in Verdicts
  BY <1>14 DEF T
<1>16. verdicts \in [0..N -> Verdicts]
  BY <1>9, <1>15
<1>17. IsJudging(verdicts, hist, events, c, N)
  BY <1>10, <1>11, <1>16 DEF IsJudging, start
<1> QED BY <1>17

\* The moves of a history play, and the board after each of them is cached.
Legal(G) == PlayOn(default, MovesOf(G)).ok

UpTo(G, tick) == {u \in MovesOf(G) : u.tick <= tick}

Cached(G, c) ==
    \A t \in MovesOf(G) : /\ t.tick \in DOMAIN c.states
                          /\ c.states[t.tick] = PlayOn(default, UpTo(G, t.tick)).board

\* A board cached for a later tick leaves the cache true to the moves before.
LEMMA CachedKeeps ==
    ASSUME NEW G, G \subseteq AnyTxns, NEW c \in Caches, Cached(G, c), NEW tick \in Nat, tick >= 2,
           NEW b \in Boards, \A u \in MovesOf(G) : u.tick < tick
    PROVE  Cached(G, cache(c, tick, b))
<1> SUFFICES ASSUME NEW t \in MovesOf(G)
             PROVE  /\ t.tick \in DOMAIN cache(c, tick, b).states
                    /\ cache(c, tick, b).states[t.tick] = PlayOn(default, UpTo(G, t.tick)).board
  BY DEF Cached
<1>1. /\ t.tick \in DOMAIN c.states /\ t.tick < tick
      /\ c.states[t.tick] = PlayOn(default, UpTo(G, t.tick)).board
  BY DEF Cached
<1>2. /\ t.tick \in DOMAIN cache(c, tick, b).states
      /\ cache(c, tick, b).states[t.tick] = c.states[t.tick]
  BY <1>1, CacheFacts
<1> QED BY <1>1, <1>2

\* Without moves the board stays as it is.
LEMMA NothingPlayed ==
    ASSUME NEW b \in Boards
    PROVE  PlayOn(b, {}) = [ok |-> TRUE, board |-> b]
<1>1. OnlyMoves({}) /\ IsFiniteSet({}) /\ Cardinality({}) = 0
  BY FS_EmptySet DEF OnlyMoves
<1>2. PICK p : IsPlaying(p, b, get_events({}), Cardinality({})) /\ PlayOn(b, {}) = p[Cardinality({})]
  BY <1>1, PlayingExists
<1> QED BY <1>1, <1>2 DEF IsPlaying

\* G is what was judged so far, with a cache that follows it.
Follows(G, c) == Cached(G, c) /\ Legal(G)

\* An event is judged on the board that the moves before it lead to.
LEMMA JudgedStep ==
    ASSUME NEW hist, hist \subseteq AnyTxns, IsFiniteSet(hist),
           NEW G, hist \subseteq G, G \subseteq AnyTxns, IsFiniteSet(G), SingleMoves(G),
           NEW t \in AnyTxns, Closed(G \cup {t}), t.tick >= 2 => \A u \in G : u.tick < t.tick,
           NEW v \in Verdicts, v.verdict = "ok", Follows(G, v.cache), Cached(hist, v.cache)
    PROVE  LET r == Judged(hist, v, t)
           IN  /\ r \in Verdicts /\ r.verdict # "panic"
               /\ Cached(hist, r.cache)
               /\ r.verdict = "ok" => Follows(G \cup {t}, r.cache)
<1> DEFINE r == Judged(hist, v, t)
           M == MovesOf(G)
           c == v.cache
           before == BoardBefore(hist, c, t.tick)
           after == play(before.board, t.event, from_turn(t.tick))
<1>1. c \in Caches
  BY DEF Verdicts
<1>2. t.tick \in Nat /\ \A u \in G : u.tick \in Nat
  BY TxnFacts
<1>3. /\ r \in Verdicts
      /\ v.verdict # "ok" \/ t.tick < 2 => r = v
      /\ v.verdict = "ok" /\ ~(t.tick < 2) /\ before.ok =>
                    IF after.ok THEN r.verdict = "ok" /\ r.cache = cache(v.cache, t.tick, after.board)
                    ELSE r.verdict = "invalid" /\ r.cache = v.cache
  BY JudgedFacts
<1>4. CASE t.tick < 2
  <2>1. r = v
    BY <1>3, <1>4
  <2>2. MovesOf(G \cup {t}) = MovesOf(G)
    BY <1>2, <1>4 DEF MovesOf
  <2>3. \A k : UpTo(G \cup {t}, k) = UpTo(G, k)
    BY <2>2 DEF UpTo
  <2>4. Follows(G \cup {t}, v.cache)
    BY <2>2, <2>3 DEF Follows, Cached, Legal
  <2> QED BY <1>3, <2>1, <2>4
<1>5. CASE ~(t.tick < 2)
  <2>1. t.tick >= 2 /\ \A u \in G : u.tick < t.tick
    BY <1>2, <1>5
  <2>2. M \subseteq G /\ OnlyMoves(M) /\ SingleTicks(M) /\ \A u \in M : u.tick < t.tick /\ u.tick >= 2
    BY <2>1 DEF MovesOf, OnlyMoves, SingleMoves
  <2>3. IsFiniteSet(M)
    BY <2>2, FS_Subset
  <2>4. MovesOf(G \cup {t}) = M \cup {t}
    BY <2>1 DEF MovesOf
  <2>5. PlayOn(default, M).ok
    BY DEF Follows, Legal
  <2>6. /\ PlayOn(default, M) \in Results
        /\ PlayOn(default, M \cup {t}) = PlayNext(PlayOn(default, M), t)
    <3> HIDE DEF M
    <3> QED BY <2>1, <2>2, <2>3, PlayOnNext, DefaultBoard
  <2>7. /\ before \in Results
        /\ t.tick = 2 => before = [ok |-> TRUE, board |-> default]
        /\ t.tick - 1 \in DOMAIN c.states => before = [ok |-> TRUE, board |-> c.states[t.tick - 1]]
    BY <1>1, <1>2, <2>1, BeforeFacts
  <2>8. before = [ok |-> TRUE, board |-> PlayOn(default, M).board]
    <3>1. CASE t.tick = 2
      <4>1. M = {}
        BY <1>2, <2>2, <3>1
      <4>2. PlayOn(default, M) = [ok |-> TRUE, board |-> default]
        BY <4>1, NothingPlayed, DefaultBoard
      <4> HIDE DEF M, before
      <4> QED BY <2>7, <3>1, <4>2
    <3>2. CASE t.tick # 2
      <4>1. t \in MovesOf(G \cup {t}) /\ t.tick - 1 \in 2..t.tick /\ t.tick - 1 # t.tick
        <5>1. t \in MovesOf(G \cup {t})
          BY <2>1 DEF MovesOf
        <5>2. t.tick - 1 \in 2..t.tick /\ t.tick - 1 # t.tick
          BY <1>2, <2>1, <3>2
        <5> QED BY <5>1, <5>2
      <4>2. PICK w \in G \cup {t} : w.tick = t.tick - 1
        BY <4>1 DEF Closed, HasTick
      <4>3. w \in M
        BY <1>2, <2>1, <3>2, <4>1, <4>2 DEF MovesOf
      <4>4. t.tick - 1 \in DOMAIN c.states /\ c.states[t.tick - 1] = PlayOn(default, UpTo(G, t.tick - 1)).board
        BY <4>2, <4>3 DEF Follows, Cached
      <4>5. UpTo(G, t.tick - 1) = M
        BY <1>2, <2>2 DEF UpTo
      <4> HIDE DEF M, before, c
      <4> QED BY <2>7, <4>4, <4>5
    <3> QED BY <3>1, <3>2
  <2>9. PlayNext(PlayOn(default, M), t) = after
    <3>1. PlayNext(PlayOn(default, M), t) = play(PlayOn(default, M).board, t.event, from_turn(t.tick))
      BY <2>5 DEF PlayNext
    <3>2. before.board = PlayOn(default, M).board
      BY <2>8
    <3> QED BY <3>1, <3>2
  <2>10. after \in Results /\ PlayOn(default, M \cup {t}) = after
    <3>1. PlayNext(PlayOn(default, M), t) \in Results
      <4> HIDE DEF M
      <4> QED BY <2>1, <2>6, PlayNextType
    <3> HIDE DEF M, after
    <3> QED BY <2>6, <2>9, <3>1
  <2>11. before.ok
    <3> HIDE DEF before
    <3> QED BY <2>8
  <2>12. r.verdict \in {"ok", "invalid"}
    <3> HIDE DEF before, after, r
    <3> QED BY <1>3, <1>5, <2>11
  <2>13. CASE ~after.ok
    <3> HIDE DEF before, after, r
    <3>1. r.verdict = "invalid" /\ r.cache = v.cache
      BY <1>3, <1>5, <2>11, <2>13
    <3> QED BY <1>3, <3>1 DEF r
  <2>14. CASE after.ok
    <3> DEFINE d == cache(c, t.tick, after.board)
    <3>1. r.verdict = "ok" /\ r.cache = d
      <4> HIDE DEF before, after, r
      <4> QED BY <1>3, <1>5, <2>11, <2>14
    <3>2. after.board \in Boards
      BY <2>10 DEF Results
    <3>3. Cached(hist, d) /\ Cached(G, d)
      <4> HIDE DEF after, c
      <4>1. \A u \in MovesOf(G) : u.tick < t.tick
        BY <2>2
      <4>2. \A u \in MovesOf(hist) : u.tick < t.tick
        BY <4>1 DEF MovesOf
      <4>3. Cached(G, c) /\ Cached(hist, c)
        BY DEF Follows, c
      <4> QED BY <1>1, <1>2, <2>1, <3>2, <4>1, <4>2, <4>3, CachedKeeps
    <3>4. t.tick \in DOMAIN d.states /\ d.states[t.tick] = after.board
      <4> HIDE DEF after, c
      <4> QED BY <1>1, <1>2, <2>1, <3>2, CacheFacts
    <3> HIDE DEF d, after, before, r, c
    <3>5. Cached(G \cup {t}, d)
      <4> SUFFICES ASSUME NEW u \in MovesOf(G \cup {t})
                   PROVE  /\ u.tick \in DOMAIN d.states
                          /\ d.states[u.tick] = PlayOn(default, UpTo(G \cup {t}, u.tick)).board
        BY DEF Cached
      <4>1. CASE u = t
        <5>1. \A x \in M \cup {t} : x.tick <= t.tick
          BY <1>2, <2>2
        <5> HIDE DEF M
        <5>2. UpTo(G \cup {t}, t.tick) = M \cup {t}
          BY <2>4, <5>1 DEF UpTo
        <5> QED BY <2>10, <3>4, <4>1, <5>2
      <4>2. CASE u # t
        <5>1. u \in M
          BY <2>4, <4>2
        <5>2. u.tick < t.tick /\ u.tick \in Nat
          BY <1>2, <2>2, <5>1
        <5>3. UpTo(G \cup {t}, u.tick) = UpTo(G, u.tick)
          BY <1>2, <2>4, <5>2, SMTT(30) DEF UpTo
        <5> QED BY <3>3, <5>1, <5>3 DEF Cached
      <4> QED BY <4>1, <4>2
    <3>6. Legal(G \cup {t})
      BY <2>4, <2>10, <2>14 DEF Legal
    <3>7. Cached(hist, r.cache) /\ Follows(G \cup {t}, r.cache)
      BY <3>1, <3>3, <3>5, <3>6 DEF Follows
    <3> QED BY <1>3, <2>12, <3>7 DEF r
  <2> QED BY <2>13, <2>14
<1> QED BY <1>4, <1>5

\* Whatever the verdict of the rules, it leaves a cache.
LEMMA ValidType ==
    ASSUME NEW hist, hist \subseteq AnyTxns, IsFiniteSet(hist),
           NEW txns, txns \subseteq AnyTxns, IsFiniteSet(txns), NEW c \in Caches
    PROVE  is_valid(hist, txns, c) \in Verdicts
<1> DEFINE ev == get_events(txns)
           N == Cardinality(txns)
<1>1. IsListing(ev, txns)
  <2>1. Ticked(txns)
    BY TxnFacts DEF Ticked
  <2> QED BY <2>1, EventsFacts
<1>2. N \in Nat /\ ev \in [1..N -> AnyTxns] /\ Len(ev) = N
  BY <1>1 DEF IsListing
<1> HIDE DEF ev, N
<1>3. PICK v : IsJudging(v, hist, ev, c, N)
  BY <1>2, JudgingExists
<1>4. Verdict(hist, ev, c) \in Verdicts
  BY <1>2, <1>3 DEF IsJudging
<1>5. [verdict |-> "invalid", cache |-> c] \in Verdicts
  BY DEF Verdicts
<1> QED BY <1>4, <1>5 DEF is_valid, ev

\* On a cache that follows the chain nothing is replayed, what is accepted
\* plays, and the boards of the chain stay, whatever the verdict.
LEMMA ValidFacts ==
    ASSUME NEW hist, HistInv(hist), IsFiniteSet(hist),
           NEW txns, txns \subseteq AnyTxns, IsFiniteSet(txns), NEW c \in Caches, Follows(hist, c)
    PROVE  LET v == is_valid(hist, txns, c)
           IN  /\ v.verdict # "panic"
               /\ Follows(hist, v.cache)
               /\ v.verdict = "ok" => Follows(hist \cup txns, v.cache)
<1> DEFINE r == is_valid(hist, txns, c)
           ev == get_events(txns)
           N == Cardinality(txns)
<1>1. IsListing(ev, txns)
  <2>1. Ticked(txns)
    BY TxnFacts DEF Ticked
  <2> QED BY <2>1, EventsFacts
<1>2. /\ N \in Nat /\ ev \in [1..N -> txns] /\ Len(ev) = N
      /\ \A i, j \in 1..N : i < j => ev[i] # ev[j]
  BY <1>1 DEF IsListing
<1>3. hist \subseteq AnyTxns
  BY DEF HistInv
<1>4. CASE Duplicated(hist, txns) \/ ~Turns(hist, txns)
  <2>1. r = [verdict |-> "invalid", cache |-> c]
    BY <1>4 DEF is_valid
  <2> QED BY <2>1
<1>5. CASE ~(Duplicated(hist, txns) \/ ~Turns(hist, txns))
  <2>1. r = Verdict(hist, ev, c) /\ WellSeated(hist, txns)
    BY <1>5, TurnsFacts DEF is_valid
  <2>2. /\ Upto(hist, ev, 0) = hist
        /\ Upto(hist, ev, N) = hist \cup txns
        /\ \A k \in 1..N : Upto(hist, ev, k) = Upto(hist, ev, k - 1) \cup {ev[k]}
        /\ \A k \in 0..N : hist \subseteq Upto(hist, ev, k) /\ Upto(hist, ev, k) \subseteq hist \cup txns
    BY <1>1, UptoFacts
  <2>3. \A k \in 1..N : \E s \in Seats : SeatInv(hist, Upto(hist, ev, k), s) /\ s.last = ev[k].tick
    BY <2>1 DEF WellSeated
  <2>4. \A t \in txns, u \in hist : ~(t.tick = u.tick /\ t.event = u.event)
    BY <1>5 DEF Duplicated
  <2> HIDE DEF ev, N, r
  <2>5. PICK v : IsJudging(v, hist, ev, c, N)
    BY <1>2, <1>3, JudgingExists
  <2>6. /\ v \in [0..N -> Verdicts] /\ v[0] = [verdict |-> "ok", cache |-> c]
        /\ \A k \in 1..N : v[k] = Judged(hist, v[k - 1], ev[k])
        /\ r = v[N]
    BY <2>1, <2>5 DEF IsJudging
  <2> DEFINE G(k) == Upto(hist, ev, k)
             Good(k) == /\ v[k].verdict # "panic" /\ Cached(hist, v[k].cache)
                        /\ v[k].verdict = "ok" => Follows(G(k), v[k].cache)
             T == {k \in Nat : k <= N => Good(k)}
  <2>7. 0 \in T
    BY <2>2, <2>6 DEF Follows
  <2>8. ASSUME NEW k \in Nat, k \in T PROVE k + 1 \in T
    <3> SUFFICES ASSUME k + 1 <= N PROVE Good(k + 1)
      OBVIOUS
    <3> DEFINE t == ev[k + 1]
    <3>1. k + 1 \in 1..N /\ (k + 1) - 1 = k /\ k \in 0..N /\ k <= N
      BY <1>2
    <3>2. Good(k) /\ v[k] \in Verdicts /\ t \in txns /\ t \in AnyTxns
      BY <1>2, <2>6, <2>8, <3>1
    <3>3. v[k + 1] = Judged(hist, v[k], t)
      BY <2>6, <3>1
    <3>4. G(k + 1) = G(k) \cup {t} /\ hist \subseteq G(k) /\ G(k) \subseteq hist \cup txns
      BY <2>2, <3>1
    <3>5. CASE v[k].verdict # "ok"
      <4>1. v[k + 1] = v[k]
        BY <1>3, <3>2, <3>3, <3>5, JudgedFacts
      <4> QED BY <3>2, <3>5, <4>1
    <3>6. CASE v[k].verdict = "ok"
      <4>1. PICK s \in Seats : SeatInv(hist, G(k + 1), s) /\ s.last = t.tick
        BY <2>3, <3>1
      <4>2. Closed(G(k + 1)) /\ SingleMoves(G(k + 1)) /\ \A u \in G(k + 1) : u.tick <= t.tick
        BY <4>1 DEF SeatInv
      <4>3. t \notin G(k)
        <5>1. t \notin hist
          BY <2>4, <3>2
        <5>2. \A j \in 1..k : j \in 1..N /\ k + 1 \in 1..N /\ j < k + 1
          BY <1>2, <3>1
        <5>3. \A j \in 1..k : ev[j] # t
          BY <1>2, <5>2
        <5> QED BY <5>1, <5>3 DEF Upto
      <4>4. G(k) \subseteq AnyTxns /\ G(k) \subseteq G(k + 1) /\ t \in G(k + 1)
        BY <1>3, <3>4
      <4>5. IsFiniteSet(G(k))
        BY <3>4, FS_Union, FS_Subset
      <4>6. SingleMoves(G(k))
        BY <4>2, <4>4 DEF SingleMoves, SingleTicks, MovesOf
      <4> HIDE DEF G
      <4>7. ASSUME t.tick >= 2, NEW u \in G(k) PROVE u.tick < t.tick
        <5>1. u.tick \in Nat /\ t.tick \in Nat /\ u.tick <= t.tick
          BY <3>2, <4>2, <4>4, TxnFacts
        <5>2. u.tick # t.tick
          <6> SUFFICES ASSUME u.tick = t.tick PROVE FALSE
            OBVIOUS
          <6>1. u \in MovesOf(G(k + 1)) /\ t \in MovesOf(G(k + 1))
            BY <4>4, <4>7 DEF MovesOf
          <6>2. u = t
            BY <4>2, <6>1 DEF SingleMoves, SingleTicks
          <6> QED BY <4>3, <6>2
        <5> QED BY <5>1, <5>2
      <4>8. Follows(G(k), v[k].cache) /\ Cached(hist, v[k].cache)
        BY <3>2, <3>6
      <4>9. Closed(G(k) \cup {t})
        BY <3>4, <4>2
      <4> HIDE DEF t
      <4>10. /\ Judged(hist, v[k], t) \in Verdicts /\ Judged(hist, v[k], t).verdict # "panic"
             /\ Cached(hist, Judged(hist, v[k], t).cache)
             /\ Judged(hist, v[k], t).verdict = "ok" => Follows(G(k) \cup {t}, Judged(hist, v[k], t).cache)
        BY <1>3, <3>2, <3>4, <3>6, <4>4, <4>5, <4>6, <4>7, <4>8, <4>9, JudgedStep
      <4> QED BY <3>3, <3>4, <4>10
    <3> QED BY <3>5, <3>6
  <2> HIDE DEF T
  <2>9. N \in T
    BY <1>2, <2>7, <2>8, SetInduction
  <2>10. Good(N)
    BY <1>2, <2>9 DEF T
  <2>11. Follows(hist, r.cache)
    BY <2>6, <2>10 DEF Follows
  <2> QED BY <2>2, <2>6, <2>10, <2>11 DEF r
<1> QED BY <1>4, <1>5

-----------------------------------------------------------------------------
(* The pool that is judged again *)

Pools(P) == [verdict : {"ok", "panic"}, pool : SUBSET P, cache : Caches]

\* Judging a pending transaction again keeps the pool legal and the cache true to the chain.
LEMMA RejudgedFacts ==
    ASSUME NEW hist, HistInv(hist), IsFiniteSet(hist), NEW P, P \subseteq AnyTxns, IsFiniteSet(P),
           NEW r \in Pools(P), NEW t \in P
    PROVE  LET q == Rejudged(hist, r, t)
           IN  /\ q \in Pools(P)
               /\ r.verdict # "panic" /\ Follows(hist, r.cache) /\ Legal(hist \cup r.pool) =>
                    q.verdict # "panic" /\ Follows(hist, q.cache) /\ Legal(hist \cup q.pool)
<1> DEFINE q == Rejudged(hist, r, t)
           txns == r.pool \cup {t}
           v == is_valid(hist, txns, r.cache)
<1>1. r.verdict \in {"ok", "panic"} /\ r.pool \in SUBSET P /\ r.cache \in Caches
  BY DEF Pools
<1>2. txns \in SUBSET P /\ txns \subseteq AnyTxns
  BY <1>1
<1>3. IsFiniteSet(txns) /\ hist \subseteq AnyTxns
  BY <1>2, FS_Subset DEF HistInv
<1>4. q = IF r.verdict = "panic" \/ v.verdict = "panic"
          THEN [r EXCEPT !.verdict = "panic"]
          ELSE [verdict |-> "ok", cache |-> v.cache, pool |-> IF v.verdict = "ok" THEN txns ELSE r.pool]
  BY DEF Rejudged, Repooled
<1> HIDE DEF txns
<1>5. v \in Verdicts
  BY <1>1, <1>2, <1>3, ValidType
<1>6. Follows(hist, r.cache) => /\ v.verdict # "panic"
                                /\ Follows(hist, v.cache)
                                /\ v.verdict = "ok" => Follows(hist \cup txns, v.cache)
  BY <1>1, <1>2, <1>3, ValidFacts
<1> HIDE DEF v, q
<1>7. v.cache \in Caches
  BY <1>5 DEF Verdicts
<1>8. CASE r.verdict = "panic" \/ v.verdict = "panic"
  <2>1. q = [r EXCEPT !.verdict = "panic"]
    BY <1>4, <1>8
  <2>2. q \in Pools(P)
    BY <1>1, <2>1 DEF Pools
  <2> QED BY <1>6, <1>8, <2>2 DEF q
<1>9. CASE ~(r.verdict = "panic" \/ v.verdict = "panic")
  <2> DEFINE pool == IF v.verdict = "ok" THEN txns ELSE r.pool
  <2>1. q = [verdict |-> "ok", cache |-> v.cache, pool |-> pool]
    BY <1>4, <1>9
  <2>2. pool \in SUBSET P
    BY <1>1, <1>2
  <2>3. Follows(hist, r.cache) /\ Legal(hist \cup r.pool) => Legal(hist \cup pool)
    BY <1>6 DEF Follows
  <2> HIDE DEF pool
  <2>4. q \in Pools(P) /\ q.verdict = "ok" /\ q.cache = v.cache /\ q.pool = pool
    BY <1>7, <2>1, <2>2 DEF Pools
  <2> QED BY <1>6, <2>3, <2>4 DEF q
<1> QED BY <1>8, <1>9

IsRejudging(p, hist, order, c, P, N) ==
    /\ p \in [0..N -> Pools(P)]
    /\ p[0] = [verdict |-> "ok", pool |-> {}, cache |-> c]
    /\ \A k \in 1..N : p[k] = Rejudged(hist, p[k - 1], order[k])
    /\ Revalidated(hist, order, c) = p[N]

\* The pool while its transactions are judged again in some order.
LEMMA RejudgingExists ==
    ASSUME NEW hist, HistInv(hist), IsFiniteSet(hist), NEW P, P \subseteq AnyTxns, IsFiniteSet(P),
           NEW c \in Caches, NEW N \in Nat, NEW order \in [1..N -> P], Len(order) = N
    PROVE  \E p : IsRejudging(p, hist, order, c, P, N)
<1> DEFINE start == [verdict |-> "ok", pool |-> {}, cache |-> c]
           F == [k \in 1..N |-> [q \in Pools(P) |-> Rejudged(hist, q, order[k])]]
           pools[k \in 0..N] == IF k = 0 THEN start ELSE Rejudged(hist, pools[k - 1], order[k])
<1>1. start \in Pools(P)
  BY DEF Pools
<1>2. ASSUME NEW q \in Pools(P), NEW k \in 1..N PROVE Rejudged(hist, q, order[k]) \in Pools(P)
  <2>1. order[k] \in P
    OBVIOUS
  <2> QED BY <2>1, RejudgedFacts
<1>3. F \in [1..N -> [Pools(P) -> Pools(P)]]
  BY <1>2
<1> HIDE DEF start
<1>4. PICK f : IsRun(f, Pools(P), start, F, N)
  <2> HIDE DEF F
  <2> QED BY <1>1, <1>3, RunExists
<1>5. f \in [0..N -> Pools(P)] /\ f[0] = start /\ \A k \in 1..N : f[k] = F[k][f[k - 1]]
  <2> HIDE DEF F
  <2> QED BY <1>4 DEF IsRun
<1>6. \A k \in 1..N : f[k - 1] \in Pools(P)
  <2>1. \A k \in 1..N : k - 1 \in 0..N
    OBVIOUS
  <2> QED BY <1>5, <2>1
<1>7. \A k \in 1..N : f[k] = Rejudged(hist, f[k - 1], order[k])
  BY <1>5, <1>6
<1>8. f = [k \in 0..N |-> IF k = 0 THEN start ELSE Rejudged(hist, f[k - 1], order[k])]
  <2> HIDE DEF F
  <2> QED BY <1>5, <1>7
<1>9. pools = [k \in 0..N |-> IF k = 0 THEN start ELSE Rejudged(hist, pools[k - 1], order[k])]
  BY <1>8, Zenon
<1>10. Revalidated(hist, order, c) = pools[N]
  BY Zenon DEF Revalidated, start
<1> HIDE DEF pools, F
<1>11. pools[0] = start /\ \A k \in 1..N : pools[k] = Rejudged(hist, pools[k - 1], order[k])
  <2>1. 0 \in 0..N /\ \A k \in 1..N : k \in 0..N /\ k # 0
    OBVIOUS
  <2> QED BY <1>9, <2>1, Zenon
<1> DEFINE T == {k \in Nat : k <= N => pools[k] \in Pools(P)}
<1>12. 0 \in T
  BY <1>1, <1>11
<1>13. ASSUME NEW k \in Nat, k \in T PROVE k + 1 \in T
  <2> SUFFICES ASSUME k + 1 <= N PROVE pools[k + 1] \in Pools(P)
    OBVIOUS
  <2>1. k + 1 \in 1..N /\ (k + 1) - 1 = k /\ k <= N
    OBVIOUS
  <2>2. pools[k] \in Pools(P)
    BY <1>13, <2>1
  <2> QED BY <1>2, <1>11, <2>1, <2>2
<1> HIDE DEF T
<1>14. Nat \subseteq T
  BY <1>12, <1>13, SetInduction
<1>15. \A k \in 0..N : pools[k] \in Pools(P)
  BY <1>14 DEF T
<1>16. pools \in [0..N -> Pools(P)]
  BY <1>9, <1>15
<1>17. IsRejudging(pools, hist, order, c, P, N)
  BY <1>10, <1>11, <1>16 DEF IsRejudging, start
<1> QED BY <1>17

\* In whatever order the pool is judged again, what stays of it plays.
LEMMA RevalidatedFacts ==
    ASSUME NEW hist, HistInv(hist), IsFiniteSet(hist), NEW P, P \subseteq AnyTxns, IsFiniteSet(P),
           NEW c \in Caches, NEW order \in Orders(P)
    PROVE  LET r == Revalidated(hist, order, c)
           IN  /\ r \in Pools(P)
               /\ Follows(hist, c) => r.verdict # "panic" /\ Follows(hist, r.cache) /\ Legal(hist \cup r.pool)
<1> DEFINE N == Cardinality(P)
<1>1. N \in Nat /\ order \in [1..N -> P]
  BY FS_CardinalityType DEF Orders
<1> HIDE DEF N
<1>2. order \in Seq(P) /\ DOMAIN order = 1..N
  BY <1>1
<1>3. Len(order) = N
  BY <1>1, <1>2
<1>4. PICK p : IsRejudging(p, hist, order, c, P, N)
  BY <1>1, <1>3, RejudgingExists
<1>5. /\ p \in [0..N -> Pools(P)] /\ p[0] = [verdict |-> "ok", pool |-> {}, cache |-> c]
      /\ \A k \in 1..N : p[k] = Rejudged(hist, p[k - 1], order[k])
      /\ Revalidated(hist, order, c) = p[N]
  BY <1>4 DEF IsRejudging
<1>6. ASSUME Follows(hist, c)
      PROVE  p[N].verdict # "panic" /\ Follows(hist, p[N].cache) /\ Legal(hist \cup p[N].pool)
  <2> DEFINE Good(r) == r.verdict # "panic" /\ Follows(hist, r.cache) /\ Legal(hist \cup r.pool)
             T == {k \in Nat : k <= N => Good(p[k])}
  <2>1. 0 \in T
    <3>1. hist \cup {} = hist
      OBVIOUS
    <3>2. p[0].verdict = "ok" /\ p[0].pool = {} /\ p[0].cache = c
      BY <1>5
    <3>3. Legal(hist)
      BY <1>6 DEF Follows
    <3> QED BY <1>6, <3>1, <3>2, <3>3
  <2>2. ASSUME NEW k \in Nat, k \in T PROVE k + 1 \in T
    <3> SUFFICES ASSUME k + 1 <= N PROVE Good(p[k + 1])
      OBVIOUS
    <3>1. k + 1 \in 1..N /\ (k + 1) - 1 = k /\ k \in 0..N /\ k <= N
      BY <1>1
    <3>2. Good(p[k]) /\ p[k] \in Pools(P) /\ order[k + 1] \in P
      BY <1>1, <1>5, <2>2, <3>1
    <3>3. p[k + 1] = Rejudged(hist, p[k], order[k + 1])
      BY <1>5, <3>1
    <3> QED BY <3>2, <3>3, RejudgedFacts
  <2> HIDE DEF T
  <2>3. N \in T
    BY <1>1, <2>1, <2>2, SetInduction
  <2> QED BY <1>1, <2>3 DEF T
<1> QED BY <1>1, <1>5, <1>6

-----------------------------------------------------------------------------
(* The steps of the node *)

\* With every block on one chain and the cache not lost, chain and pool are one
\* legal game and the cache follows the chain.
OneGame ==
    /\ ~panicked
    /\ Stored \subseteq TxnsOn(head)
    /\ Follows(TxnsOn(head), TheCache)
    /\ Legal(TxnsOn(head) \cup pending)

GameInv == ChainInv /\ TheCache \in Caches /\ (~astray => OneGame)

\* A validation leaves its cache behind, and panics if its verdict is a panic.
LEMMA CacheStep ==
    ASSUME NEW v, v.cache \in Caches, Validated(v)
    PROVE  TheCache' = v.cache /\ panicked' = (v.verdict = "panic")
<1>1. v.cache \in [states : BoardMaps, latest : Nat]
  BY DEF Caches
<1>2. v.cache = [states |-> v.cache.states, latest |-> v.cache.latest]
  BY <1>1
<1>3. TheCache' = [states |-> boards', latest |-> latest']
  BY DEF TheCache
<1> QED BY <1>2, <1>3 DEF Validated

\* The invariant holds at the start.
LEMMA GameInit ==
    ASSUME Init
    PROVE  GameInv
<1>1. blocks = {<<>>} /\ head = <<>> /\ pending = {} /\ ~panicked
  BY DEF Init
<1>2. TxnsOn(<<>>) = {}
  BY DEF TxnsOn
<1>3. Stored = {}
  BY <1>1, <1>2 DEF Stored
<1>4. HistInv({})
  BY DEF HistInv, Ordered, InTurn, NoOpenStart, Closed, SingleMoves, MovesOf, SingleTicks
<1>5. ChainInv
  BY <1>1, <1>2, <1>3, <1>4, FS_EmptySet DEF ChainInv
<1>6. TheCache = [states |-> <<>>, latest |-> 0]
  BY DEF Init, TheCache, NoBoards
<1>7. <<>> \in [{} -> Boards] /\ DOMAIN <<>> = {}
  OBVIOUS
<1>8. TheCache \in Caches
  BY <1>6, <1>7 DEF Caches, BoardMaps
<1>9. MovesOf({}) = {}
  BY DEF MovesOf
<1>10. Legal({})
  BY <1>9, NothingPlayed, DefaultBoard DEF Legal
<1>11. Cached({}, TheCache)
  BY <1>9 DEF Cached
<1> QED BY <1>1, <1>2, <1>3, <1>5, <1>8, <1>10, <1>11 DEF GameInv, OneGame, Follows

\* A transaction joins the pool.
LEMMA PendingStep ==
    ASSUME GameInv, NEW t \in AnyTxns, add_pending_txn(t)
    PROVE  GameInv'
<1> DEFINE hist == TxnsOn(head)
           txns == pending \cup {t}
           v == is_valid(hist, txns, TheCache)
<1>1. /\ Validated(v)
      /\ pending' = IF v.verdict = "ok" THEN txns ELSE pending
      /\ blocks' = blocks /\ head' = head /\ astray' = astray
  BY DEF add_pending_txn
<1>2. ChainInv /\ TheCache \in Caches /\ (~astray => OneGame)
  BY DEF GameInv
<1>3. /\ HistInv(hist) /\ hist \subseteq AnyTxns /\ head \in blocks
      /\ pending \subseteq AnyTxns /\ IsFiniteSet(pending)
  BY <1>2 DEF ChainInv, HistInv
<1>4. IsFiniteSet(hist)
  BY <1>2, <1>3, StoredFacts
<1>5. txns \subseteq AnyTxns /\ IsFiniteSet(txns)
  BY <1>3, FS_AddElement
<1>6. pending' \subseteq AnyTxns /\ IsFiniteSet(pending')
  BY <1>1, <1>3, <1>5
<1>7. TxnsOn(head') = hist /\ Stored' = Stored
  BY <1>1 DEF Stored, TxnsOn
<1> HIDE DEF hist, txns
<1>8. v \in Verdicts
  BY <1>2, <1>3, <1>4, <1>5, ValidType
<1>9. Follows(hist, TheCache) => /\ v.verdict # "panic"
                                 /\ Follows(hist, v.cache)
                                 /\ v.verdict = "ok" => Follows(hist \cup txns, v.cache)
  BY <1>2, <1>3, <1>4, <1>5, ValidFacts
<1> HIDE DEF v
<1>10. v.cache \in Caches
  BY <1>8 DEF Verdicts
<1>11. TheCache' = v.cache /\ panicked' = (v.verdict = "panic")
  BY <1>1, <1>10, CacheStep
<1>12. ChainInv'
  BY <1>1, <1>2, <1>6, <1>7 DEF ChainInv
<1>13. ASSUME ~astray' PROVE OneGame'
  <2>1. OneGame
    BY <1>1, <1>2, <1>13
  <2>2. Stored \subseteq hist /\ Follows(hist, TheCache) /\ Legal(hist \cup pending)
    BY <2>1 DEF OneGame, hist
  <2>3. Legal(hist \cup pending')
    BY <1>1, <1>9, <2>2 DEF Follows
  <2> QED BY <1>7, <1>9, <1>11, <2>2, <2>3 DEF OneGame
<1> QED BY <1>10, <1>11, <1>12, <1>13 DEF GameInv

\* The block that extends the head becomes the head.
LEMMA ExtendStep ==
    ASSUME ChainInv, NEW prev \in blocks, NEW txns, txns \subseteq AnyTxns, Meets(prev, txns),
           Store(Append(prev, txns))
    PROVE  /\ \/ head' = head /\ prev # head
              \/ head' = Append(prev, txns) /\ TxnsOn(head') = TxnsOn(prev) \cup txns
           /\ ~astray' => /\ ~astray /\ prev = head
                          /\ Stored \subseteq TxnsOn(head) => Stored' \subseteq TxnsOn(head')
<1> DEFINE b == Append(prev, txns)
<1>1. prev \in Seq(SUBSET AnyTxns) /\ head \in Seq(SUBSET AnyTxns)
  BY DEF ChainInv
<1>2. TxnsOn(b) = TxnsOn(prev) \cup txns /\ Len(b) > Len(prev)
  BY <1>1, AppendFacts
<1>3. blocks' = blocks \cup {b} /\ head' = IF Len(b) > Len(head) THEN b ELSE head
  BY DEF Store, HeadWith
<1>4. prev = head => head' = b
  BY <1>2, <1>3
<1>5. astray' = (astray \/ prev # head)
  BY DEF Meets
<1>6. TxnsOn(head') \in {TxnsOn(b), TxnsOn(head)} /\ (head' = b => TxnsOn(head') = TxnsOn(b))
  BY <1>3
<1>7. ASSUME prev = head, Stored \subseteq TxnsOn(head) PROVE Stored' \subseteq TxnsOn(head')
  <2>1. Stored' = UNION {TxnsOn(x) : x \in blocks \cup {b}}
    BY <1>3 DEF Stored
  <2>2. \A x \in blocks : TxnsOn(x) \subseteq Stored
    BY DEF Stored
  <2>3. TxnsOn(head') = TxnsOn(b)
    BY <1>4, <1>6, <1>7
  <2> HIDE DEF b
  <2>4. \A x \in blocks \cup {b} : TxnsOn(x) \subseteq TxnsOn(b)
    BY <1>2, <1>7, <2>2
  <2> QED BY <2>1, <2>3, <2>4
<1> QED BY <1>2, <1>3, <1>4, <1>5, <1>6, <1>7

\* What a validation of a block on a stored one comes to.
LEMMA BlockFacts ==
    ASSUME GameInv, NEW prev \in blocks, NEW txns, txns \subseteq AnyTxns, IsFiniteSet(txns)
    PROVE  LET v == is_valid(TxnsOn(prev), txns, TheCache)
           IN  /\ v \in Verdicts
               /\ ~astray /\ prev = head =>
                    /\ v.verdict # "panic"
                    /\ Follows(TxnsOn(prev), v.cache)
                    /\ v.verdict = "ok" => Follows(TxnsOn(prev) \cup txns, v.cache)
<1> DEFINE hist == TxnsOn(prev)
<1>1. ChainInv /\ TheCache \in Caches /\ (~astray => OneGame)
  BY DEF GameInv
<1>2. HistInv(hist) /\ hist \subseteq AnyTxns
  BY <1>1 DEF ChainInv, HistInv
<1>3. IsFiniteSet(hist)
  BY <1>1, StoredFacts
<1>4. ~astray /\ prev = head => Follows(hist, TheCache)
  BY <1>1 DEF OneGame
<1> HIDE DEF hist
<1>5. is_valid(hist, txns, TheCache) \in Verdicts
  BY <1>1, <1>2, <1>3, ValidType
<1>6. Follows(hist, TheCache) => /\ is_valid(hist, txns, TheCache).verdict # "panic"
                                 /\ Follows(hist, is_valid(hist, txns, TheCache).cache)
                                 /\ is_valid(hist, txns, TheCache).verdict = "ok" =>
                                      Follows(hist \cup txns, is_valid(hist, txns, TheCache).cache)
  BY <1>1, <1>2, <1>3, ValidFacts
<1> QED BY <1>4, <1>5, <1>6 DEF hist

\* A block that is not stored leaves only the cache behind.
LEMMA RefusedStep ==
    ASSUME GameInv, NEW prev \in blocks, NEW txns, txns \subseteq AnyTxns, IsFiniteSet(txns),
           Meets(prev, txns), Validated(is_valid(TxnsOn(prev), txns, TheCache)),
           UNCHANGED <<blocks, head, pending>>
    PROVE  GameInv'
<1> DEFINE v == is_valid(TxnsOn(prev), txns, TheCache)
<1>1. ChainInv /\ (~astray => OneGame)
  BY DEF GameInv
<1>2. /\ v \in Verdicts
      /\ ~astray /\ prev = head =>
            /\ v.verdict # "panic"
            /\ Follows(TxnsOn(prev), v.cache)
            /\ v.verdict = "ok" => Follows(TxnsOn(prev) \cup txns, v.cache)
  BY BlockFacts
<1>3. Validated(v)
  OBVIOUS
<1> HIDE DEF v
<1>4. v.cache \in Caches
  BY <1>2 DEF Verdicts
<1>5. TheCache' = v.cache /\ panicked' = (v.verdict = "panic")
  BY <1>3, <1>4, CacheStep
<1>6. TxnsOn(head') = TxnsOn(head) /\ Stored' = Stored
  BY DEF TxnsOn, Stored
<1>7. ChainInv'
  BY <1>1, <1>6 DEF ChainInv
<1>8. ~astray' => ~astray /\ prev = head
  BY DEF Meets
<1>9. ~astray' => OneGame'
  BY <1>1, <1>2, <1>5, <1>6, <1>8 DEF OneGame
<1> QED BY <1>4, <1>5, <1>7, <1>9 DEF GameInv

\* A block of transactions that the node knows.
LEMMA AddBlockStep ==
    ASSUME GameInv, NEW prev \in blocks, NEW txns \in SUBSET (pending \cup Stored), Meets(prev, txns),
           Validated(is_valid(TxnsOn(prev), txns, TheCache)),
           is_valid(TxnsOn(prev), txns, TheCache).verdict = "ok",
           Store(Append(prev, txns)), pending' = pending \ txns
    PROVE  GameInv'
<1> DEFINE v == is_valid(TxnsOn(prev), txns, TheCache)
<1>1. ChainInv /\ (~astray => OneGame)
  BY DEF GameInv
<1>2. /\ pending \subseteq AnyTxns /\ IsFiniteSet(pending) /\ IsFiniteSet(Stored)
      /\ \A block \in blocks : TxnsOn(block) \subseteq AnyTxns
  BY <1>1 DEF ChainInv, HistInv
<1>3. Stored \subseteq AnyTxns
  BY <1>2 DEF Stored
<1>4. txns \subseteq AnyTxns /\ IsFiniteSet(txns)
  <2>1. IsFiniteSet(pending \cup Stored)
    BY <1>2, FS_Union
  <2> QED BY <1>2, <1>3, <2>1, FS_Subset
<1>5. pending' \subseteq AnyTxns /\ IsFiniteSet(pending')
  BY <1>2, FS_Subset
<1>6. ChainInv'
  BY <1>1, <1>4, <1>5, StoreStep
<1>7. /\ v \in Verdicts
      /\ ~astray /\ prev = head =>
            /\ v.verdict # "panic"
            /\ Follows(TxnsOn(prev), v.cache)
            /\ v.verdict = "ok" => Follows(TxnsOn(prev) \cup txns, v.cache)
  BY <1>4, BlockFacts
<1>8. Validated(v) /\ v.verdict = "ok"
  OBVIOUS
<1> HIDE DEF v
<1>9. v.cache \in Caches
  BY <1>7 DEF Verdicts
<1>10. TheCache' = v.cache /\ panicked' = (v.verdict = "panic")
  BY <1>8, <1>9, CacheStep
<1>11. /\ \/ head' = head /\ prev # head
          \/ head' = Append(prev, txns) /\ TxnsOn(head') = TxnsOn(prev) \cup txns
       /\ ~astray' => /\ ~astray /\ prev = head
                      /\ Stored \subseteq TxnsOn(head) => Stored' \subseteq TxnsOn(head')
  BY <1>1, <1>4, ExtendStep
<1>12. ASSUME ~astray' PROVE OneGame'
  <2>1. ~astray /\ prev = head /\ TxnsOn(head') = TxnsOn(head) \cup txns
    BY <1>11, <1>12
  <2>2. Stored \subseteq TxnsOn(head) /\ Legal(TxnsOn(head) \cup pending)
    BY <1>1, <2>1 DEF OneGame
  <2>3. Stored' \subseteq TxnsOn(head')
    BY <1>11, <1>12, <2>2
  <2>4. TxnsOn(head') \cup pending' = TxnsOn(head) \cup pending
    BY <2>1, <2>2
  <2>5. Follows(TxnsOn(head'), v.cache) /\ v.verdict # "panic"
    BY <1>7, <1>8, <2>1
  <2> QED BY <1>10, <2>2, <2>3, <2>4, <2>5 DEF OneGame
<1> QED BY <1>6, <1>9, <1>10, <1>12 DEF GameInv

\* A package has finitely many transactions.
LEMMA PackageFacts ==
    ASSUME NEW txns \in Packages
    PROVE  txns \subseteq AnyTxns /\ IsFiniteSet(txns)
<1>1. Txns \subseteq AnyTxns
  <2>1. \A k \in 2..MAX_TURNS : k \in Nat \ {0, 1}
    BY GameAssumption
  <2> QED BY <2>1 DEF Txns, AnyTxns
<1>2. CASE txns = {}
  BY <1>2, FS_EmptySet
<1>3. CASE txns # {}
  <2>1. PICK t \in Txns, u \in Txns : txns = {t, u}
    BY <1>3 DEF Packages
  <2>2. IsFiniteSet({t}) /\ {t} \cup {u} = txns
    BY <2>1, FS_Singleton
  <2>3. IsFiniteSet(txns)
    BY <2>2, FS_AddElement
  <2> QED BY <1>1, <2>1, <2>3
<1> QED BY <1>2, <1>3

\* A package, after which the pool is judged again.
LEMMA PackageStep ==
    ASSUME GameInv, NEW prev \in blocks, NEW txns \in Packages, Meets(prev, txns),
           is_valid(TxnsOn(prev), txns, TheCache).verdict = "ok",
           Store(Append(prev, txns)), NEW order \in Orders(pending),
           NEW r, r = Revalidated(TxnsOn(head'), order, is_valid(TxnsOn(prev), txns, TheCache).cache),
           Validated(r), pending' = r.pool
    PROVE  GameInv'
<1> DEFINE v == is_valid(TxnsOn(prev), txns, TheCache)
           hist == TxnsOn(head')
<1>1. ChainInv /\ (~astray => OneGame)
  BY DEF GameInv
<1>2. pending \subseteq AnyTxns /\ IsFiniteSet(pending)
  BY <1>1 DEF ChainInv
<1>3. txns \subseteq AnyTxns /\ IsFiniteSet(txns)
  BY PackageFacts
<1>4. /\ v \in Verdicts
      /\ ~astray /\ prev = head =>
            /\ v.verdict # "panic"
            /\ Follows(TxnsOn(prev), v.cache)
            /\ v.verdict = "ok" => Follows(TxnsOn(prev) \cup txns, v.cache)
  BY <1>3, BlockFacts
<1>5. v.verdict = "ok" /\ Turns(TxnsOn(prev), txns)
  BY ValidTurns
<1>6. r = Revalidated(hist, order, v.cache)
  OBVIOUS
<1> HIDE DEF v
<1>7. v.cache \in Caches
  BY <1>4 DEF Verdicts
<1>8. /\ \/ head' = head /\ prev # head
         \/ head' = Append(prev, txns) /\ TxnsOn(head') = TxnsOn(prev) \cup txns
      /\ ~astray' => /\ ~astray /\ prev = head
                     /\ Stored \subseteq TxnsOn(head) => Stored' \subseteq TxnsOn(head')
  BY <1>1, <1>3, ExtendStep
<1>9. HistInv(hist) /\ IsFiniteSet(hist)
  <2>1. HistInv(TxnsOn(prev)) /\ HistInv(TxnsOn(head)) /\ head \in blocks
    BY <1>1 DEF ChainInv
  <2>2. HistInv(TxnsOn(prev) \cup txns)
    BY <1>3, <1>5, <2>1, TurnsFacts
  <2>3. IsFiniteSet(TxnsOn(prev)) /\ IsFiniteSet(TxnsOn(head))
    BY <1>1, <2>1, StoredFacts
  <2>4. IsFiniteSet(TxnsOn(prev) \cup txns)
    BY <1>3, <2>3, FS_Union
  <2>5. CASE head' = head
    BY <2>1, <2>3, <2>5 DEF TxnsOn
  <2>6. CASE TxnsOn(head') = TxnsOn(prev) \cup txns
    BY <2>2, <2>4, <2>6
  <2> QED BY <1>8, <2>5, <2>6
<1> HIDE DEF hist
<1>10. /\ r \in Pools(pending)
       /\ Follows(hist, v.cache) => r.verdict # "panic" /\ Follows(hist, r.cache) /\ Legal(hist \cup r.pool)
  BY <1>2, <1>6, <1>7, <1>9, RevalidatedFacts
<1>11. r.cache \in Caches /\ r.pool \subseteq pending
  BY <1>10 DEF Pools
<1>12. pending' \subseteq AnyTxns /\ IsFiniteSet(pending')
  BY <1>2, <1>11, FS_Subset
<1>13. TheCache' = r.cache /\ panicked' = (r.verdict = "panic")
  BY <1>11, CacheStep
<1>14. ChainInv'
  BY <1>1, <1>3, <1>12, StoreStep
<1>15. ASSUME ~astray' PROVE OneGame'
  <2>1. ~astray /\ prev = head /\ TxnsOn(head') = TxnsOn(prev) \cup txns
    BY <1>8, <1>15
  <2>2. Stored \subseteq TxnsOn(head)
    BY <1>1, <2>1 DEF OneGame
  <2>3. Stored' \subseteq hist /\ hist = TxnsOn(prev) \cup txns
    BY <1>8, <1>15, <2>1, <2>2 DEF hist
  <2>4. Follows(hist, v.cache)
    BY <1>4, <1>5, <2>1, <2>3
  <2> QED BY <1>10, <1>13, <2>3, <2>4 DEF OneGame, hist
<1> QED BY <1>11, <1>13, <1>14, <1>15 DEF GameInv

\* The moves that a player counts are finitely many.
LEMMA MovesFinite ==
    ASSUME ChainInv
    PROVE  Cardinality(get_moves) \in Nat
<1> DEFINE E == get_plot_events(2)
           M == {t.tick : t \in E}
<1>1. head \in blocks /\ pending \subseteq AnyTxns /\ IsFiniteSet(pending) /\ TxnsOn(head) \subseteq AnyTxns
  BY DEF ChainInv, HistInv
<1>2. IsFiniteSet(TxnsOn(head))
  BY <1>1, StoredFacts
<1>3. IsFiniteSet(TxnsOn(head) \cup pending) /\ E \subseteq TxnsOn(head) \cup pending
  BY <1>1, <1>2, FS_Union DEF get_plot_events
<1>4. IsFiniteSet(E) /\ Ticked(E)
  BY <1>1, <1>3, FS_Subset, TxnFacts DEF Ticked
<1>5. get_moves = M
  BY DEF get_moves
<1> HIDE DEF E
<1>6. CASE E = {}
  <2>1. M = {}
    BY <1>6
  <2> QED BY <1>5, <2>1, FS_EmptySet
<1>7. CASE E # {}
  <2>1. PICK m \in E : \A t \in E : t.tick <= m.tick
    BY <1>4, <1>7, LatestExists
  <2>2. m.tick \in Nat /\ M \subseteq 0..m.tick
    BY <1>4, <2>1 DEF Ticked
  <2>3. IsFiniteSet(0..m.tick)
    BY <2>2, FS_Interval
  <2>4. IsFiniteSet(M)
    BY <2>2, <2>3, FS_Subset
  <2> QED BY <1>5, <2>4, FS_CardinalityType
<1> QED BY <1>6, <1>7

\* What a player plays is of the tick that its kind asks for.
LEMMA PlayTypes ==
    ASSUME ChainInv, NEW player \in Players, NEW event \in StartEvents \cup JoinEvents \cup Moves
    PROVE  LET tick == CASE event.kind = "Start" -> 0
                         [] event.kind = "Join" -> 1
                         [] OTHER -> 2 + Cardinality(get_moves)
           IN  [creator |-> player, tick |-> tick, event |-> event] \in AnyTxns
<1> DEFINE n == Cardinality(get_moves)
           tick == CASE event.kind = "Start" -> 0 [] event.kind = "Join" -> 1 [] OTHER -> 2 + n
           t == [creator |-> player, tick |-> tick, event |-> event]
<1>1. n \in Nat
  BY MovesFinite
<1> HIDE DEF n
<1>2. CASE event \in StartEvents
  <2>1. event.kind = "Start"
    BY <1>2 DEF StartEvents
  <2>2. tick = 0
    BY <2>1
  <2> QED BY <1>2, <2>2 DEF AnyTxns, n
<1>3. CASE event \in JoinEvents
  <2>1. event.kind = "Join"
    BY <1>3 DEF JoinEvents
  <2>2. tick = 1
    BY <2>1
  <2> QED BY <1>3, <2>2 DEF AnyTxns, n
<1>4. CASE event \in Moves
  <2>1. event.kind = "Move" \/ event.kind = "Jump"
    BY <1>4, GameAssumption DEF IsPlay
  <2>2. event.kind # "Start" /\ event.kind # "Join"
    BY <2>1
  <2>3. tick = 2 + n
    BY <2>2
  <2>4. tick \in Nat \ {0, 1}
    BY <1>1, <2>3
  <2> HIDE DEF tick
  <2>5. t \in AnyTxns
    BY <1>4, <2>4 DEF AnyTxns
  <2> QED BY <2>5 DEF n, tick
<1> QED BY <1>2, <1>3, <1>4

\* Every step keeps the invariant.
LEMMA GameStep ==
    ASSUME GameInv, [Next]_vars
    PROVE  GameInv'
<1>0. ChainInv
  BY DEF GameInv
<1>1. CASE Play
  <2>1. PICK player \in Players, event \in StartEvents \cup JoinEvents \cup Moves :
            add_pending_txn([creator |-> player,
                             tick |-> CASE event.kind = "Start" -> 0
                                        [] event.kind = "Join" -> 1
                                        [] OTHER -> 2 + Cardinality(get_moves),
                             event |-> event])
    BY <1>1, Zenon DEF Play
  <2> DEFINE t == [creator |-> player,
                   tick |-> CASE event.kind = "Start" -> 0
                              [] event.kind = "Join" -> 1
                              [] OTHER -> 2 + Cardinality(get_moves),
                   event |-> event]
  <2>2. t \in AnyTxns
    BY <1>0, PlayTypes
  <2>3. add_pending_txn(t)
    BY <2>1
  <2> HIDE DEF t
  <2> QED BY <2>2, <2>3, PendingStep
<1>2. CASE ReceiveTxn
  <2>1. PICK t \in Txns : add_pending_txn(t)
    BY <1>2 DEF ReceiveTxn
  <2>2. {t, t} \in Packages
    BY DEF Packages
  <2>3. t \in AnyTxns
    BY <2>2, PackageFacts
  <2> QED BY <2>1, <2>3, PendingStep
<1>3. CASE add_block
  <2>1. PICK prev \in blocks, txns \in SUBSET (pending \cup Stored) :
            /\ Meets(prev, txns)
            /\ Validated(is_valid(TxnsOn(prev), txns, TheCache))
            /\ IF is_valid(TxnsOn(prev), txns, TheCache).verdict = "ok"
               THEN Store(Append(prev, txns)) /\ pending' = pending \ txns
               ELSE UNCHANGED <<blocks, head, pending>>
    BY <1>3 DEF add_block
  <2>2. CASE is_valid(TxnsOn(prev), txns, TheCache).verdict = "ok"
    BY <2>1, <2>2, AddBlockStep
  <2>3. CASE is_valid(TxnsOn(prev), txns, TheCache).verdict # "ok"
    <3>1. pending \subseteq AnyTxns /\ IsFiniteSet(pending) /\ IsFiniteSet(Stored) /\ Stored \subseteq AnyTxns
      BY <1>0 DEF ChainInv, HistInv, Stored
    <3>2. IsFiniteSet(pending \cup Stored)
      BY <3>1, FS_Union
    <3>3. txns \subseteq AnyTxns /\ IsFiniteSet(txns)
      BY <3>1, <3>2, FS_Subset
    <3> QED BY <2>1, <2>3, <3>3, RefusedStep
  <2> QED BY <2>2, <2>3
<1>4. CASE import_pkg
  <2>1. PICK prev \in blocks, txns \in Packages :
            /\ Meets(prev, txns)
            /\ IF is_valid(TxnsOn(prev), txns, TheCache).verdict # "ok"
               THEN /\ Validated(is_valid(TxnsOn(prev), txns, TheCache))
                    /\ UNCHANGED <<blocks, head, pending>>
               ELSE /\ Store(Append(prev, txns))
                    /\ \E order \in Orders(pending) :
                        LET r == Revalidated(TxnsOn(head'), order, is_valid(TxnsOn(prev), txns, TheCache).cache)
                        IN  Validated(r) /\ pending' = r.pool
    BY <1>4 DEF import_pkg, Store
  <2>2. CASE is_valid(TxnsOn(prev), txns, TheCache).verdict # "ok"
    BY <2>1, <2>2, PackageFacts, RefusedStep
  <2>3. CASE is_valid(TxnsOn(prev), txns, TheCache).verdict = "ok"
    <3> DEFINE rejudged(order) == Revalidated(TxnsOn(head'), order, is_valid(TxnsOn(prev), txns, TheCache).cache)
    <3>1. PICK order \in Orders(pending) : Validated(rejudged(order)) /\ pending' = rejudged(order).pool
      BY <2>1, <2>3
    <3>2. PICK r : r = rejudged(order)
      OBVIOUS
    <3>3. Validated(r) /\ pending' = r.pool
      BY <3>1, <3>2
    <3>4. Store(Append(prev, txns))
      BY <2>1, <2>3
    <3> QED BY <2>1, <2>3, <3>2, <3>3, <3>4, PackageStep
  <2> QED BY <2>2, <2>3
<1>5. CASE Restart
  <2>1. /\ blocks' = blocks /\ head' = head /\ pending' = {} /\ astray' = TRUE
        /\ boards' = <<>> /\ latest' = 0
    BY <1>5 DEF Restart, NoBoards
  <2>2. ChainInv'
    <3>1. Stored' = Stored
      BY <2>1 DEF Stored
    <3> QED BY <1>0, <2>1, <3>1, FS_EmptySet DEF ChainInv
  <2>3. TheCache' = [states |-> <<>>, latest |-> 0]
    BY <2>1 DEF TheCache
  <2>4. <<>> \in [{} -> Boards] /\ DOMAIN <<>> = {}
    OBVIOUS
  <2>5. TheCache' \in Caches
    BY <2>3, <2>4 DEF Caches, BoardMaps
  <2> QED BY <2>1, <2>2, <2>5 DEF GameInv
<1>6. CASE UNCHANGED vars
  BY <1>6 DEF GameInv, vars, ChainInv, Stored, TheCache, OneGame
<1> QED BY <1>1, <1>2, <1>3, <1>4, <1>5, <1>6 DEF Next

\* Blocks, pool and cache stay what the rules are meant to make of them, in
\* whatever order events are played, received, pooled, mined, forked or lost
\* (rules/turns.rs, rules/game.rs, game_state.rs).
THEOREM GameInvariance == Spec => []GameInv
<1>1. Init => GameInv
  BY GameInit
<1>2. GameInv /\ [Next]_vars => GameInv'
  BY GameStep
<1> QED BY <1>1, <1>2, PTL DEF Spec

\* On every stored branch with one Start the game goes turn by turn, whatever was
\* pooled, forked or lost in between (rules/turns.rs is_valid).
THEOREM HistoryAlwaysInTurn == Spec => []HistoryInTurn
<1>1. GameInv => HistoryInTurn
  <2> SUFFICES ASSUME ChainInv, NEW block \in blocks PROVE
        LET hist == TxnsOn(block)
            ticks == {t.tick : t \in MovesOf(hist)}
        IN  Cardinality({t \in hist : t.tick = 0}) <= 1 =>
                /\ \A t, u \in hist : t.tick = u.tick => t = u
                /\ ticks = 2..(1 + Cardinality(ticks))
                /\ \A t \in hist : t.tick > 0 =>
                    /\ Full(get_players(hist))
                    /\ t.creator = get_players(hist)[1 + (t.tick % 2)]
    BY DEF GameInv, HistoryInTurn
  <2>1. HistInv(TxnsOn(block)) /\ IsFiniteSet(TxnsOn(block))
    BY StoredFacts DEF ChainInv
  <2> QED BY <2>1, HistoryFacts
<1> QED BY <1>1, GameInvariance, PTL

\* While every block judged extends the head and the cache is not lost, chain
\* and pool are one legal game and the boards cached for moves of the chain are
\* those the moves lead to (rules/game.rs is_valid, game_state.rs cache).
THEOREM GameAlwaysLegal == Spec => []GameLegal
<1>1. GameInv => GameLegal
  <2> SUFFICES ASSUME OneGame
               PROVE  LET chain == MovesOf(TxnsOn(head))
                      IN  /\ PlayOn(default, chain \cup MovesOf(pending)).ok
                          /\ \A t \in chain : t.tick \in DOMAIN boards =>
                              boards[t.tick] = PlayOn(default, {u \in chain : u.tick <= t.tick}).board
    BY DEF GameInv, GameLegal
  <2>1. MovesOf(TxnsOn(head) \cup pending) = MovesOf(TxnsOn(head)) \cup MovesOf(pending)
    BY DEF MovesOf
  <2>2. PlayOn(default, MovesOf(TxnsOn(head) \cup pending)).ok
    BY DEF OneGame, Legal
  <2>3. TheCache.states = boards
    BY DEF TheCache
  <2> QED BY <2>1, <2>2, <2>3 DEF OneGame, Follows, Cached, UpTo
<1> QED BY <1>1, GameInvariance, PTL

\* A replay of accepted moves works as long as blocks only extend the head and
\* no cache was lost: the panic that a run finds needs a fork or a restart
\* (rules/game.rs is_valid).
ReplaysWorkOnOneChain == ~astray => ReplaysWork

\* On one chain with its cache the game rule never panics in a replay (rules/game.rs).
THEOREM ReplaysAlwaysWorkOnOneChain == Spec => []ReplaysWorkOnOneChain
<1>1. GameInv => ReplaysWorkOnOneChain
  BY DEF GameInv, OneGame, ReplaysWorkOnOneChain, ReplaysWork
<1> QED BY <1>1, GameInvariance, PTL

=============================================================================
