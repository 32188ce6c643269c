----------------------------- MODULE BoardPlay ------------------------------
(***************************************************************************)
(* A game of checkers on one board, turn by turn, and what a play should   *)
(* do, defined without walking along its jumps one by one.                 *)
(***************************************************************************)
EXTENDS Board, FiniteSets

CONSTANTS MaxTurn,   \* the last turn that is played; the Turns rule allows 500
          MaxPath    \* the longest chain of jumps

ASSUME PlayAssumption == MaxTurn \in Nat /\ MaxPath \in Nat

VARIABLES board, turn

gameVars == <<board, turn>>

BoardInit == board = default /\ turn = 2

\* A play that is refused leaves the board and the turn alone.
PlayTurn ==
    /\ turn < MaxTurn
    /\ \E event \in Plays(MaxPath) :
        LET result == play(board, event, from_turn(turn))
        IN  /\ result.ok
            /\ board' = result.board
            /\ turn' = turn + 1

BoardNext == PlayTurn

BoardSpec == BoardInit /\ [][BoardNext]_gameVars

-----------------------------------------------------------------------------
(* What a play of at least one step should do *)

Reach == [Move |-> 1, Jump |-> 2]

\* The square after n steps of the given length.
After(from, path, n, length) ==
    LET along(i) == length * Cardinality({k \in 1..n : dir_vec[path[k]][i] = 1})
                  - length * Cardinality({k \in 1..n : dir_vec[path[k]][i] = -1})
    IN  <<from[1] + along(1), from[2] + along(2)>>

Stops(from, event) ==
    [n \in 0..Len(event.path) |-> After(from, event.path, n, Reach[event.kind])]

Taken(from, event) ==
    IF event.kind = "Move" THEN <<>>
    ELSE [n \in 1..Len(event.path) |->
            move_in_dir(event.path[n], Stops(from, event)[n - 1])]

Injective(f) == \A i, j \in DOMAIN f : f[i] = f[j] => i = j

\* Every direction suits the piece, it stops on empty squares or where it
\* came from, and takes rivals, each of them once.
Allowed(b, event, player) ==
    /\ event.idx < Size * Size
    /\ LET from == idx_to_rc(event.idx)
           stops == Stops(from, event)
           taken == Taken(from, event)
       IN  /\ b[from] \in PiecesOf(player)
           /\ \A n \in DOMAIN event.path : valid_direction(b[from], event.path[n])
           /\ \A n \in DOMAIN stops :
                stops[n] = from \/ (stops[n] \in Squares /\ b[stops[n]] = "None")
           /\ \A n \in DOMAIN taken : is_other_player(b[taken[n]], player)
           /\ Injective(taken)

FarRow == [Red |-> 0, Black |-> LastRow]

\* The piece is where it stopped last, a king if that is the far row of its
\* player, and what it took is gone.
Outcome(b, event, player) ==
    LET from == idx_to_rc(event.idx)
        to == Stops(from, event)[Len(event.path)]
        taken == Taken(from, event)
    IN  [s \in Squares |->
            IF s = to THEN IF to[1] = FarRow[player] THEN upgrade(b[from]) ELSE b[from]
            ELSE IF s = from \/ (\E n \in DOMAIN taken : taken[n] = s) THEN "None"
            ELSE b[s]]

\* The loop over the jumps of a chain, which changes the board as it goes and
\* takes it back on an error, accepts exactly the plays whose stops and
\* captures are allowed on the board before the play, and leaves the board
\* that the whole play should leave (checkers.rs play). Jumps that do not jump
\* are left out: the code takes them for a pass.
PlayExact ==
    \A event \in {e \in Plays(MaxPath) : e.path # <<>>} :
        play(board, event, from_turn(turn)) =
            IF Allowed(board, event, from_turn(turn))
            THEN [ok |-> TRUE, board |-> Outcome(board, event, from_turn(turn))]
            ELSE Refused(board)

=============================================================================
