------------------------------- MODULE Board --------------------------------
(***************************************************************************)
(* The rules of a checkers board (checkers.rs): what a move or a chain of  *)
(* jumps does to it. A square is a pair of row and column, <<0, 0>> at the *)
(* top left. The code's board has Size 8 and MenRows 3.                    *)
(***************************************************************************)
EXTENDS Integers, Sequences

CONSTANTS Size,     \* rows and columns
          MenRows   \* rows of men that each player starts with

ASSUME BoardAssumption == Size \in Nat /\ MenRows \in Nat /\ 2 * MenRows <= Size

LastRow == Size - 1

Squares == (0..LastRow) \X (0..LastRow)

Tiles == {"None", "Red", "RedKing", "Black", "BlackKing"}

Boards == [Squares -> Tiles]

\* Men stand on every other square of their rows, Black at the top.
default ==
    [s \in Squares |->
        IF (s[1] + s[2]) % 2 # 0 THEN "None"
        ELSE IF s[1] < MenRows THEN "Black"
        ELSE IF s[1] > LastRow - MenRows THEN "Red"
        ELSE "None"]

from_turn(turn) == IF turn % 2 = 0 THEN "Red" ELSE "Black"

upgrade(t) == CASE t = "Red" -> "RedKing" [] t = "Black" -> "BlackKing" [] OTHER -> t

PiecesOf(player) == {player, upgrade(player)}

is_this_player(t, player) == t \in PiecesOf(player)

is_other_player(t, player) == t # "None" /\ t \notin PiecesOf(player)

-----------------------------------------------------------------------------
(* Directions *)

dir_vec == [NW |-> <<-1, -1>>, NE |-> <<-1, 1>>, SE |-> <<1, 1>>, SW |-> <<1, -1>>]

Directions == DOMAIN dir_vec

\* A coordinate below 0 wraps to one that is far off the board.
move_in_dir(dir, s) == <<s[1] + dir_vec[dir][1], s[2] + dir_vec[dir][2]>>

jump_in_dir(dir, s) == <<s[1] + 2 * dir_vec[dir][1], s[2] + 2 * dir_vec[dir][2]>>

valid_direction(t, dir) ==
    CASE t = "Red" -> dir \in {"NE", "NW"}
      [] t = "Black" -> dir \in {"SE", "SW"}
      [] t = "None" -> FALSE
      [] OTHER -> TRUE

-----------------------------------------------------------------------------
(* Plays: a piece by the index of its square, and its way *)

Plays(maxPath) ==
         [kind : {"Move"}, idx : 0..(Size * Size), path : [{1} -> Directions]]
    \cup [kind : {"Jump"}, idx : 0..(Size * Size),
          path : UNION {[1..n -> Directions] : n \in 0..maxPath}]

IsPlay(event) ==
    /\ event.kind \in {"Move", "Jump"}
    /\ event.idx \in Nat
    /\ event.path \in Seq(Directions)
    /\ event.kind = "Move" => Len(event.path) = 1

idx_to_rc(idx) == <<idx \div Size, idx % Size>>

Refused(board) == [ok |-> FALSE, board |-> board]

Owned(board, idx, player) ==
    idx < Size * Size /\ is_this_player(board[idx_to_rc(idx)], player)

\* The piece of one square on another, and nothing where it came from or went
\* over.
Carried(board, from, over, to) ==
    [s \in Squares |-> IF s = to THEN board[from]
                       ELSE IF s \in over \cup {from} THEN "None"
                       ELSE board[s]]

\* A piece that ends on either outer row becomes a king.
Crowned(board, at) ==
    [s \in Squares |-> IF s = at /\ s[1] \in {0, LastRow} THEN upgrade(board[s])
                       ELSE board[s]]

Move(board, from, dir) ==
    LET to == move_in_dir(dir, from)
    IN  IF /\ valid_direction(board[from], dir)
           /\ to \in Squares
           /\ board[to] = "None"
        THEN [ok |-> TRUE,
              board |-> Crowned(Carried(board, from, {}, to), to)]
        ELSE Refused(board)

\* Faulty variant: the man that was passed stays.
Hop_KeepsPassed(chain, dir, player) ==
    LET to == jump_in_dir(dir, chain.at)
    IN  IF chain.ok /\ valid_direction(chain.board[chain.at], dir) /\ to \in Squares
        THEN [ok |-> /\ chain.board[to] = "None"
                     /\ is_other_player(chain.board[move_in_dir(dir, chain.at)], player),
              board |-> Carried(chain.board, chain.at, {}, to),
              at |-> to]
        ELSE [chain EXCEPT !.ok = FALSE]

\* One jump of a chain; at is the square reached so far.
Hop(chain, dir, player) ==
    LET to == jump_in_dir(dir, chain.at)
        passed == move_in_dir(dir, chain.at)
    IN  IF /\ chain.ok
           /\ valid_direction(chain.board[chain.at], dir)
           /\ to \in Squares
           /\ chain.board[to] = "None"
           /\ is_other_player(chain.board[passed], player)
        THEN [ok |-> TRUE,
              board |-> Carried(chain.board, chain.at, {passed}, to),
              at |-> to]
        ELSE [chain EXCEPT !.ok = FALSE]

\* A jump that fails half-way takes the whole chain back.
Jump(board, from, path, player) ==
    LET hops[n \in 0..Len(path)] ==
            IF n = 0 THEN [ok |-> TRUE, board |-> board, at |-> from]
            ELSE Hop(hops[n - 1], path[n], player)
        chain == hops[Len(path)]
    IN  IF chain.ok
        THEN [ok |-> TRUE, board |-> Crowned(chain.board, chain.at)]
        ELSE Refused(board)

\* A game that has begun refuses Start and Join.
play(board, event, player) ==
    IF event.kind \notin {"Move", "Jump"} \/ ~Owned(board, event.idx, player)
    THEN Refused(board)
    ELSE IF event.kind = "Move"
         THEN Move(board, idx_to_rc(event.idx), event.path[1])
         ELSE Jump(board, idx_to_rc(event.idx), event.path, player)

=============================================================================
