------------------------------- MODULE MCGame -------------------------------
(* Game for TLC, on a board of three rows with two men for each player. *)
EXTENDS Game

CONSTANTS a, b

MCStarts == {<<a, b>>, <<a, Zero>>}

Way(kind, idx, path) == [kind |-> kind, idx |-> idx, path |-> path]

MCMoves == {Way("Move", 6, <<"NE">>),     \* a red man to the middle
            Way("Move", 8, <<"NW">>),     \* the other one
            Way("Jump", 2, <<"SW">>),     \* taken by a black man
            Way("Jump", 0, <<>>)}         \* a pass

=============================================================================
