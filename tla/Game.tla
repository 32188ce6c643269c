-------------------------------- MODULE Game --------------------------------
(***************************************************************************)
(* Checkers on one plot of the chain: the rules that judge its events      *)
(* (rules/turns.rs, rules/game.rs), the cache of boards they share with    *)
(* the application (game_state.rs), and the node that plays, pools and     *)
(* stores transactions under them. A block is the sequence of the sets of  *)
(* transactions of its branch, so that its prev is its front. The rules    *)
(* are called under the locks of the record keeper; RecordKeeper models    *)
(* the steps between which it holds none.                                  *)
(***************************************************************************)
EXTENDS Board, FiniteSets

CONSTANTS Players,     \* addresses
          Zero,        \* U160_ZERO, the open slot of a game
          Starts,      \* pairs of players that a game is started with
          Moves,       \* plays that are tried
          MAX_TURNS,   \* the last tick that Turns allows; 500 in the code
          MaxHeight,   \* blocks on a branch
          MaxBlocks    \* blocks stored

ASSUME GameAssumption ==
    /\ Zero \notin Players
    /\ Starts \subseteq (Players \cup {Zero}) \X (Players \cup {Zero})
    /\ \A m \in Moves : IsPlay(m)
    /\ MAX_TURNS \in Nat /\ MaxHeight \in Nat /\ MaxBlocks \in Nat

VARIABLES blocks,      \* stored blocks; genesis is <<>>
          head,
          pending,     \* transactions of the pool
          boards,      \* cached boards by tick
          latest,      \* the tick of the board cached last; 0 without one
          panicked,    \* whether a replay of accepted moves has panicked
          astray       \* history: a cache was lost, or a block judged that does
                       \* not extend the head

vars == <<blocks, head, pending, boards, latest, panicked, astray>>

StartEvents == {[kind |-> "Start", players |-> s] : s \in Starts}

JoinEvents == [kind : {"Join"}, player : Players]

Txns == [creator : Players, tick : {0}, event : StartEvents]
   \cup [creator : Players, tick : {1}, event : JoinEvents]
   \cup [creator : Players, tick : 2..MAX_TURNS, event : Moves]

TxnsOn(block) == UNION {block[i] : i \in DOMAIN block}

Stored == UNION {TxnsOn(b) : b \in blocks}

HasTick(hist, tick) == \E t \in hist : t.tick = tick

Earliest(txns) == CHOOSE t \in txns : \A u \in txns : t.tick <= u.tick

\* Sorted by tick. Events of one tick stay in the order of their hashes, which
\* may be any.
get_events(txns) ==
    LET later[n \in 0..Cardinality(txns)] ==
            IF n = 0 THEN txns ELSE later[n - 1] \ {Earliest(later[n - 1])}
    IN  [n \in 1..Cardinality(txns) |-> Earliest(later[n - 1])]

EventAt(hist, tick) == Earliest({t \in hist : t.tick = tick}).event

-----------------------------------------------------------------------------
(* Who plays, and when *)

Seated(players, joiner) ==
    IF players[1] = Zero THEN <<joiner, players[2]>> ELSE <<players[1], joiner>>

Full(players) == players[1] # Zero /\ players[2] # Zero

get_players(hist) ==
    IF ~HasTick(hist, 0) THEN <<Zero, Zero>>
    ELSE IF ~HasTick(hist, 1) THEN EventAt(hist, 0).players
    ELSE Seated(EventAt(hist, 0).players, EventAt(hist, 1).player)

\* The same event twice, in the mutation or in the state.
Duplicated(hist, txns) ==
    \/ \E t, u \in txns : t # u /\ t.tick = u.tick /\ t.event = u.event
    \/ \E t \in txns, u \in hist : t.tick = u.tick /\ t.event = u.event

\* One event of a mutation. seat is what Turns remembers of the plot: the
\* players and the last tick, below 0 until the plot was met.
Turn(hist, seat, t) ==
    LET met == seat.last >= 0
        players == IF met THEN seat.players ELSE get_players(hist)
        goes(ok, ps) == [ok |-> seat.ok /\ ok, players |-> ps, last |-> t.tick]
    IN  CASE t.tick = 0 ->
                goes(hist = {} /\ t.creator \in {t.event.players[1], t.event.players[2]},
                     t.event.players)
          [] t.tick = 1 ->
                goes(/\ met \/ (HasTick(hist, 0) /\ ~HasTick(hist, 1))
                     /\ ~Full(players),
                     Seated(players, t.event.player))
          [] t.tick > 1 ->
                goes(IF met THEN seat.last + 1 = t.tick
                     ELSE /\ HasTick(hist, 0)
                          /\ t.tick = 2 \/ HasTick(hist, t.tick - 1)
                          /\ ~HasTick(hist, t.tick),
                     players)

NoSeat == [ok |-> TRUE, players |-> <<Zero, Zero>>, last |-> -1]

\* What is remembered after all events.
Seat(hist, events) ==
    LET seats[n \in 0..Len(events)] ==
            IF n = 0 THEN NoSeat ELSE Turn(hist, seats[n - 1], events[n])
    IN  seats[Len(events)]

\* Faulty variant: either player has any turn.
Turns_AnyPlayer(hist, txns) ==
    LET seat == Seat(hist, get_events(txns))
    IN  /\ seat.ok
        /\ \A t \in txns : t.tick > 0 => /\ Full(seat.players)
                                         /\ \E i \in {1, 2} : t.creator = seat.players[i]

\* The first player has the even ticks, the second one the odd ones.
Turns(hist, txns) ==
    LET seat == Seat(hist, get_events(txns))
    IN  /\ seat.ok
        /\ \A t \in txns :
            /\ t.tick <= MAX_TURNS
            /\ t.tick > 0 => Full(seat.players) /\ t.creator = seat.players[1 + (t.tick % 2)]

-----------------------------------------------------------------------------
(* The cache of boards, and the rule that plays on them *)

NoBoards == [states |-> <<>>, latest |-> 0]

Until(states, tick) == {t \in DOMAIN states : t <= tick}

\* Faulty variant: a board that is there for the tick is kept.
cache_KeepsFirst(c, tick, board) ==
    [states |-> [t \in (IF c.latest > tick THEN Until(c.states, tick) ELSE DOMAIN c.states)
                        \cup {tick} |-> IF t \in DOMAIN c.states THEN c.states[t] ELSE board],
     latest |-> tick]

\* Boards of later ticks are dropped.
cache(c, tick, board) ==
    [states |-> [t \in (IF c.latest > tick THEN Until(c.states, tick) ELSE DOMAIN c.states)
                        \cup {tick} |-> IF t = tick THEN board ELSE c.states[t]],
     latest |-> tick]

\* The ticks that latest may answer with: at most one.
LatestTicks(c, tick) ==
    IF c.latest = 0 THEN {}
    ELSE IF c.latest <= tick THEN {c.latest}
    ELSE {t \in Until(c.states, tick) : \A u \in Until(c.states, tick) : u <= t}

\* One more move, unless one has failed.
PlayNext(played, t) ==
    IF played.ok THEN play(played.board, t.event, from_turn(t.tick)) ELSE played

\* Every move that is stored from a tick on, played on a board.
PlayOn(board, txns) ==
    LET moves == get_events(txns)
        played[n \in 0..Len(moves)] ==
            IF n = 0 THEN [ok |-> TRUE, board |-> board]
            ELSE PlayNext(played[n - 1], moves[n])
    IN  played[Len(moves)]

\* The board before a tick, as far as cache and state tell: without a cached
\* board the game is taken to stand at tick 2, with no move played.
BoardBefore(hist, c, tick) ==
    LET found == LatestTicks(c, tick - 1)
        start == IF found = {} THEN 2 ELSE CHOOSE t \in found : TRUE
        board == IF found = {} THEN default ELSE c.states[start]
    IN  IF start + 1 < tick
        THEN PlayOn(board, {t \in hist : t.tick > start})
        ELSE [ok |-> TRUE, board |-> board]

\* One event under the Game rule; v is the verdict so far, with the cache.
Judged(hist, v, t) ==
    IF v.verdict # "ok" \/ t.tick < 2 THEN v
    ELSE LET before == BoardBefore(hist, v.cache, t.tick)
             after == play(before.board, t.event, from_turn(t.tick))
         IN  IF ~before.ok THEN [v EXCEPT !.verdict = "panic"]
             ELSE IF ~after.ok THEN [v EXCEPT !.verdict = "invalid"]
             ELSE [v EXCEPT !.cache = cache(@, t.tick, after.board)]

Verdict(hist, events, c) ==
    LET verdicts[n \in 0..Len(events)] ==
            IF n = 0 THEN [verdict |-> "ok", cache |-> c]
            ELSE Judged(hist, verdicts[n - 1], events[n])
    IN  verdicts[Len(events)]

\* The rules in their order. What they cached stays, whatever the verdict.
is_valid(hist, txns, c) ==
    IF Duplicated(hist, txns) \/ ~Turns(hist, txns)
    THEN [verdict |-> "invalid", cache |-> c]
    ELSE Verdict(hist, get_events(txns), c)

-----------------------------------------------------------------------------
(* The node *)

TheCache == [states |-> boards, latest |-> latest]

Init ==
    /\ blocks = {<<>>} /\ head = <<>> /\ pending = {}
    /\ boards = NoBoards.states /\ latest = NoBoards.latest
    /\ panicked = FALSE /\ astray = FALSE

\* The cache after a validation; a panic ends the run.
Validated(v) ==
    /\ ~panicked
    /\ panicked' = (v.verdict = "panic")
    /\ boards' = v.cache.states /\ latest' = v.cache.latest

add_pending_txn(t) ==
    LET v == is_valid(TxnsOn(head), pending \cup {t}, TheCache)
    IN  /\ t \notin pending \cup Stored
        /\ Validated(v)
        /\ pending' = IF v.verdict = "ok" THEN pending \cup {t} ELSE pending
        /\ UNCHANGED <<blocks, head, astray>>

\* The events of the chain and of the pool from a tick on.
get_plot_events(from) == {t \in TxnsOn(head) \cup pending : t.tick >= from}

\* The ticks of the moves: there is one list of events for each.
get_moves == {t.tick : t \in get_plot_events(2)}

\* A play of this node's player.
Play ==
    \E player \in Players, event \in StartEvents \cup JoinEvents \cup Moves :
        LET tick == CASE event.kind = "Start" -> 0
                      [] event.kind = "Join" -> 1
                      [] OTHER -> 2 + Cardinality(get_moves)
        IN  /\ tick <= MAX_TURNS + 1
            /\ add_pending_txn([creator |-> player, tick |-> tick, event |-> event])

\* A transaction of another node, which may know another state.
ReceiveTxn == \E t \in Txns : add_pending_txn(t)

\* A block that the node does not have yet.
Meets(prev, txns) ==
    /\ Len(prev) < MaxHeight
    /\ Cardinality(blocks) < MaxBlocks
    /\ Append(prev, txns) \notin blocks
    /\ astray' = (astray \/ prev # head)

\* The first of the longest branches.
HeadWith(block) == IF Len(block) > Len(head) THEN block ELSE head

Store(block) ==
    /\ blocks' = blocks \cup {block}
    /\ head' = HeadWith(block)

\* A block of transactions that the node knows, forged here or received.
add_block ==
    \E prev \in blocks, txns \in SUBSET (pending \cup Stored) :
        LET v == is_valid(TxnsOn(prev), txns, TheCache)
        IN  /\ Meets(prev, txns)
            /\ Validated(v)
            /\ IF v.verdict = "ok"
               THEN Store(Append(prev, txns)) /\ pending' = pending \ txns
               ELSE UNCHANGED <<blocks, head, pending>>

\* A pending transaction that was judged again; r is the pool so far, with the
\* cache.
Repooled(r, t, v) ==
    IF r.verdict = "panic" \/ v.verdict = "panic"
    THEN [r EXCEPT !.verdict = "panic"]
    ELSE [verdict |-> "ok", cache |-> v.cache,
          pool |-> IF v.verdict = "ok" THEN r.pool \cup {t} ELSE r.pool]

Rejudged(hist, r, t) == Repooled(r, t, is_valid(hist, r.pool \cup {t}, r.cache))

\* The pool is judged again, one transaction after the other in any order.
Revalidated(hist, order, c) ==
    LET pools[n \in 0..Len(order)] ==
            IF n = 0 THEN [verdict |-> "ok", pool |-> {}, cache |-> c]
            ELSE Rejudged(hist, pools[n - 1], order[n])
    IN  pools[Len(order)]

Orders(txns) ==
    LET places == 1..Cardinality(txns)
    IN  {f \in [places -> txns] : \A i, j \in places : f[i] = f[j] => i = j}

\* At most two transactions.
Packages == {{}} \cup {{t, u} : t, u \in Txns}

\* A package of one block, which brings its transactions along.
import_pkg ==
    \E prev \in blocks, txns \in Packages :
        LET v == is_valid(TxnsOn(prev), txns, TheCache)
            block == Append(prev, txns)
        IN  /\ Meets(prev, txns)
            /\ IF v.verdict # "ok"
               THEN Validated(v) /\ UNCHANGED <<blocks, head, pending>>
               ELSE /\ Store(block)
                    /\ \E order \in Orders(pending) :
                        LET r == Revalidated(TxnsOn(HeadWith(block)), order, v.cache)
                        IN  Validated(r) /\ pending' = r.pool

\* Blocks are kept, the pool and the cache are not.
Restart ==
    /\ ~panicked
    /\ pending' = {}
    /\ boards' = NoBoards.states /\ latest' = NoBoards.latest
    /\ astray' = TRUE
    /\ UNCHANGED <<blocks, head, panicked>>

Next == Play \/ ReceiveTxn \/ add_block \/ import_pkg \/ Restart

Spec == Init /\ [][Next]_vars

-----------------------------------------------------------------------------
(* Properties *)

MovesOf(hist) == {t \in hist : t.tick >= 2}

\* On every stored branch with one Start the game goes turn by turn: no tick
\* has two events, no move is skipped, and each is by the player whose turn it
\* is, whatever was pooled, forked or lost in between (rules/turns.rs is_valid,
\* which judges each mutation against another state). Even ticks are the first
\* player's, as in turns.rs:137 ("p1 turn") and from_turn; the doc comment of the
\* rule (turns.rs:9) says that odd ticks are, so one of the two is mistaken.
HistoryInTurn ==
    \A block \in blocks :
        LET hist == TxnsOn(block)
            ticks == {t.tick : t \in MovesOf(hist)}
        IN  Cardinality({t \in hist : t.tick = 0}) <= 1 =>
                /\ \A t, u \in hist : t.tick = u.tick => t = u
                /\ ticks = 2..(1 + Cardinality(ticks))
                /\ \A t \in hist : t.tick > 0 =>
                    /\ Full(get_players(hist))
                    /\ t.creator = get_players(hist)[1 + (t.tick % 2)]

\* While every block judged extends the head and the cache is not lost, chain
\* and pool are one legal game, and the boards cached for moves of the chain
\* are those the moves lead to: what a validation leaves in the cache, of a
\* pool, a block or a rejected event, never misleads a later one
\* (rules/game.rs is_valid, game_state.rs cache).
GameLegal ==
    ~astray =>
        LET chain == MovesOf(TxnsOn(head))
        IN  /\ PlayOn(default, chain \cup MovesOf(pending)).ok
            /\ \A t \in chain : t.tick \in DOMAIN boards =>
                boards[t.tick] = PlayOn(default, {u \in chain : u.tick <= t.tick}).board

\* Moves that were accepted once can be replayed (rules/game.rs, "we can assume
\* these will all work because they have been deemed valid already").
ReplaysWork == ~panicked

=============================================================================
