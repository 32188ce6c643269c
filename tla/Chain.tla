------------------------------- MODULE Chain -------------------------------
(***************************************************************************)
(* The block tree of the record keeper: which blocks are stored, the       *)
(* height caches, the head, and how an operation that holds the database   *)
(* write lock builds its changes in a DBState overlay and then applies     *)
(* them to RocksDB in one write batch.                                     *)
(*                                                                         *)
(* A database is a record of the tables the chain logic uses:              *)
(*   header   BlockHeader(hash): the `prev` field of the stored header     *)
(*   height   HeightByBlock(hash), 0 when there is no entry                *)
(*   byHeight BlocksByHeight(height), a list; its first entry is taken to  *)
(*            be the block of the current chain                            *)
(*   contra   the blocks with a ContraMut(hash) entry (they can be undone) *)
(*   head, headHeight   CurrentHead                                        *)
(* `db` is what RocksDB holds; `st` is the overlay of the running          *)
(* operation, which nobody else sees.                                      *)
(***************************************************************************)
EXTENDS Integers, Sequences, FiniteSets

CONSTANTS Blocks,       \* the hashes a block can have
          Genesis,      \* the hash of the genesis block
          Zero,         \* the zero hash
          None,         \* no entry
          MaxHeight,    \* bound: no block above this height is offered
          MaxPkg        \* bound: blocks in a package given to import_pkg

ASSUME GenesisAssumption == Genesis \in Blocks
ASSUME MarkerAssumption == Zero \notin Blocks /\ None \notin Blocks /\ Zero # None
ASSUME BoundAssumption == MaxHeight \in Nat \ {0} /\ MaxPkg \in Nat \ {0}

VARIABLES db,       \* the contents of RocksDB
          st,       \* the DBState overlay of the running operation
          op,       \* the operation that holds the write lock, or "closed", "idle"
          batch,    \* the blocks that the operation has gone through
          events    \* what the last finished operation told the listeners

vars == <<db, st, op, batch, events>>

Heights == 1..MaxHeight

Ops == {"closed", "idle", "add_block", "import_pkg"}

States == [header : [Blocks -> Blocks \cup {Zero, None}],
           height : [Blocks -> 0..MaxHeight],
           byHeight : [Heights -> Seq(Blocks)],
           contra : SUBSET Blocks,
           head : Blocks \cup {Zero},
           headHeight : 0..MaxHeight]

NewBlockEvents == [type : {"NewBlock"}, block : Blocks, uncled : BOOLEAN]

InvalidatedEvents == [type : {"StateInvalidated"}, new_height : Nat, after_height : Int]

-----------------------------------------------------------------------------
(* Reading a database *)

\* Faulty variant: the head of a new database is not the zero hash.
EmptyDB_NoDefaultHead ==
    [header |-> [b \in Blocks |-> None], height |-> [b \in Blocks |-> 0],
     byHeight |-> [h \in Heights |-> <<>>], contra |-> {},
     head |-> None, headHeight |-> 0]

EmptyDB == [header |-> [b \in Blocks |-> None],
            height |-> [b \in Blocks |-> 0],
            byHeight |-> [h \in Heights |-> <<>>],
            contra |-> {},
            head |-> Zero,
            headHeight |-> 0]

\* The blocks whose header can be retrieved.
Stored(s) == {b \in Blocks : s.header[b] # None}

Members(list) == {list[i] : i \in 1..Len(list)}

NoRepeats(list) == \A i, j \in 1..Len(list) : list[i] = list[j] => i = j

\* get_block_height answers for these hashes, and fails for all others.
HasHeight(s, b) == b = s.head \/ (b \in Blocks /\ s.height[b] # 0)

get_block_height(s, b) == IF b = s.head THEN s.headHeight ELSE s.height[b]

\* The first block listed for a height is taken to be on the current chain.
get_current_block_of_height(s, h) == s.byHeight[h][1]

is_part_of_current_chain(s, b) ==
    b = get_current_block_of_height(s, get_block_height(s, b))

\* The hashes met by going down the prev references from b, by height.
IsPath(s, b, f) ==
    /\ f[s.height[b]] = b
    /\ s.header[f[1]] = Zero
    /\ \A h \in 2..s.height[b] : s.header[f[h]] = f[h - 1]

PathSet(s, b) == {f \in [1..s.height[b] -> Stored(s)] : IsPath(s, b, f)}

Path(s, b) == CHOOSE f \in PathSet(s, b) : TRUE

-----------------------------------------------------------------------------
(* Changing a database *)

\* Faulty variant: the list of the height is replaced.
add_block_OnlyOne(s, b, p) ==
    LET h == get_block_height(s, p) + 1 IN
    [s EXCEPT !.header[b] = p, !.height[b] = h, !.byHeight[h] = <<b>>]

\* The header, the height list and the cached height are all recorded.
add_block(s, b, p) ==
    LET h == get_block_height(s, p) + 1 IN
    [header |-> [s.header EXCEPT ![b] = p],
     height |-> [s.height EXCEPT ![b] = h],
     byHeight |-> [s.byHeight EXCEPT ![h] = IF b \in Members(@) THEN @ ELSE Append(@, b)],
     contra |-> s.contra,
     head |-> s.head,
     headHeight |-> s.headHeight]

\* The entry for a block is swapped with the first one of its height.
ToFront(list, b) ==
    LET i == CHOOSE j \in 1..Len(list) : list[j] = b IN
    [list EXCEPT ![1] = b, ![i] = list[1]]

\* Faulty variant: the latest block at the height of the head is preferred.
find_chain_head_Latest(s) ==
    LET h == IF s.headHeight < MaxHeight /\ s.byHeight[s.headHeight + 1] # <<>>
             THEN s.headHeight + 1 ELSE s.headHeight
    IN s.byHeight[h][Len(s.byHeight[h])]

\* From the height of the head upwards, as long as blocks are known.
find_chain_head(s) ==
    LET known(h) == \A k \in (s.headHeight + 1)..h : s.byHeight[k] # <<>>
        top == CHOOSE h \in s.headHeight..MaxHeight :
                  known(h) /\ (h < MaxHeight => s.byHeight[h + 1] = <<>>)
    IN IF top = s.headHeight THEN s.head
       ELSE get_current_block_of_height(s, top)

\* The heights at which the chains of blocks a and b have the same block.
Shared(s, a, b) ==
    {h \in Heights : /\ h <= s.height[a] /\ h <= s.height[b]
                     /\ Path(s, a)[h] = Path(s, b)[h]}

\* calculate_block_path: the heights to undo below a and to apply up to b.
Down(s, a, b) == (1..s.height[a]) \ Shared(s, a, b)
Up(s, a, b) == (1..s.height[b]) \ Shared(s, a, b)

\* Every undone block needs its contra mutation, or walk returns an error.
CanWalk(s, b) == \A h \in Down(s, s.head, b) : Path(s, s.head)[h] \in s.contra

\* Faulty variant: the height lists are not updated (no _update_current_chain).
walk_NoSwap(s, b) ==
    [s EXCEPT !.contra = @ \cup {Path(s, b)[h] : h \in Up(s, s.head, b)},
              !.head = b, !.headHeight = s.height[b]]

\* Faulty variant: the contra mutations are not recorded (no _add_contra).
walk_NoContra(s, b) ==
    [s EXCEPT !.byHeight = [h \in Heights |-> IF h \in Up(s, s.head, b)
                              THEN ToFront(@[h], Path(s, b)[h]) ELSE @[h]],
              !.head = b, !.headHeight = s.height[b]]

walk(s, b) ==
    LET up == Up(s, s.head, b)
        to == Path(s, b)
    IN [header |-> s.header,
        height |-> s.height,
        byHeight |-> [h \in Heights |-> IF h \in up THEN ToFront(s.byHeight[h], to[h])
                                        ELSE s.byHeight[h]],
        contra |-> s.contra \cup {to[h] : h \in up},
        head |-> b,
        headHeight |-> s.height[b]]

\* From the empty database the genesis block becomes the head without a contra.
walk_to_head(s) ==
    IF s.head = Zero
    THEN [header |-> s.header, height |-> s.height, byHeight |-> s.byHeight,
          contra |-> s.contra, head |-> get_current_block_of_height(s, 1), headHeight |-> 1]
    ELSE walk(s, find_chain_head(s))

-----------------------------------------------------------------------------
(* The operations *)

Init ==
    /\ db = EmptyDB
    /\ st = EmptyDB
    /\ op = "closed"
    /\ batch = <<>>
    /\ events = <<>>

\* RecordKeeperImpl::open: an empty database gets the genesis block, otherwise
\* the genesis block must be there. The head is read back from the database.
open ==
    /\ op = "closed"
    /\ IF db = EmptyDB
       THEN db' = walk_to_head(add_block(db, Genesis, Zero))
       ELSE db.header[Genesis] # None /\ UNCHANGED db
    /\ op' = "idle"
    /\ UNCHANGED <<st, batch, events>>

\* An operation takes the write lock and starts from a mirror of the database.
Begin(kind) ==
    /\ op = "idle"
    /\ op' = kind
    /\ st' = db
    /\ batch' = <<>>
    /\ events' = <<>>
    /\ UNCHANGED db

\* The operation's next block is not known: it is validated in the state at its
\* prev, added, and the overlay walks to the new head.
AddNew(b, p) ==
    /\ op = "add_block" => batch = <<>>
    /\ op = "import_pkg" => Len(batch) < MaxPkg
    /\ op \in {"add_block", "import_pkg"}
    /\ b \notin Stored(st)
    /\ HasHeight(st, p)
    /\ CanWalk(st, p)
    /\ get_block_height(st, p) < MaxHeight
    /\ LET added == add_block(st, b, p) IN
         /\ CanWalk(added, find_chain_head(added))
         /\ st' = walk_to_head(added)
    /\ batch' = Append(batch, b)
    /\ UNCHANGED <<db, op, events>>

\* import_pkg goes on with the next block of the package when it knows this one.
SkipKnown(b) ==
    /\ op = "import_pkg"
    /\ Len(batch) < MaxPkg
    /\ b \in Stored(st)
    /\ batch' = Append(batch, b)
    /\ UNCHANGED <<db, st, op, events>>

\* Faulty variant: the new blocks are counted in place of the undone ones.
Invalidated_New == Cardinality(Up(st, db.head, st.head))

\* The blocks that left the current chain, as the operation counts them.
Invalidated == Cardinality(Down(st, db.head, st.head))

InvalidatedEvent ==
    IF Invalidated = 0 THEN <<>>
    ELSE <<[type |-> "StateInvalidated",
            new_height |-> st.headHeight,
            after_height |-> db.headHeight - Invalidated]>>

\* Faulty variant: uncled is decided against the head before the operation.
CommitAdd_OldHead ==
    /\ op = "add_block" /\ batch # <<>>
    /\ db' = st
    /\ events' = Append(InvalidatedEvent,
                        [type |-> "NewBlock", block |-> batch[1],
                         uncled |-> st.header[batch[1]] # db.head])
    /\ op' = "idle" /\ batch' = <<>> /\ UNCHANGED st

\* add_block: the batch is applied, then listeners hear of the reorganisation
\* and of the block, which is uncled when it did not become the head.
CommitAdd ==
    /\ op = "add_block"
    /\ batch # <<>>
    /\ db' = st
    /\ events' = Append(InvalidatedEvent,
                        [type |-> "NewBlock", block |-> batch[1],
                         uncled |-> batch[1] # st.head])
    /\ op' = "idle"
    /\ batch' = <<>>
    /\ UNCHANGED st

\* import_pkg: listeners hear of every block of the package, the known ones
\* too, and then of the reorganisation.
CommitImport ==
    /\ op = "import_pkg"
    /\ batch # <<>>
    /\ db' = st
    /\ events' = [i \in 1..Len(batch) |->
                    [type |-> "NewBlock", block |-> batch[i],
                     uncled |-> is_part_of_current_chain(st, batch[i])]]
                 \o InvalidatedEvent
    /\ op' = "idle"
    /\ batch' = <<>>
    /\ UNCHANGED st

\* The operation fails (an unknown prev, an invalid block, a block that
\* add_block finds stored): the overlay is dropped and nothing is written.
Fail ==
    /\ op \in {"add_block", "import_pkg"}
    /\ op' = "idle"
    /\ st' = db
    /\ batch' = <<>>
    /\ UNCHANGED <<db, events>>

\* The process dies; only what was applied survives.
Crash ==
    /\ op # "closed"
    /\ op' = "closed"
    /\ st' = EmptyDB
    /\ batch' = <<>>
    /\ events' = <<>>
    /\ UNCHANGED db

Next ==
    \/ open
    \/ Begin("add_block")
    \/ Begin("import_pkg")
    \/ \E b \in Blocks, p \in Blocks \cup {Zero} : AddNew(b, p)
    \/ \E b \in Blocks : SkipKnown(b)
    \/ CommitAdd
    \/ CommitImport
    \/ Fail
    \/ Crash

Spec == Init /\ [][Next]_vars

-----------------------------------------------------------------------------
(* What makes the block tree correct *)

TypeOK ==
    /\ db \in States
    /\ st \in States
    /\ op \in Ops
    /\ batch \in Seq(Blocks)
    /\ events \in Seq(NewBlockEvents \cup InvalidatedEvents)

\* A block other than genesis is one above its stored prev.
HeightsFollowPrev(s) ==
    \A b \in Stored(s) :
       IF b = Genesis THEN s.header[b] = Zero /\ s.height[b] = 1
       ELSE /\ s.header[b] \in Stored(s)
            /\ s.height[b] = s.height[s.header[b]] + 1

\* The list of a height has exactly the stored blocks of that height, each once.
ListsMatchHeights(s) ==
    \A h \in Heights :
       /\ Members(s.byHeight[h]) = {b \in Stored(s) : s.height[b] = h}
       /\ NoRepeats(s.byHeight[h])

\* The two height caches written by add_block and rewritten by walk agree with
\* the prev references of the stored headers, whatever forks, reorganisations,
\* failed operations and crashes came before.
HeightCachesExact == HeightsFollowPrev(db) /\ ListsMatchHeights(db)

\* No stored block is higher than the head: walk_to_head always ends at a
\* highest block, so find_chain_head can start looking above the head.
HeadIsHighest ==
    \A b \in Stored(db) : db.height[b] <= db.headHeight

\* "check if it is a direct ancestor of the current block": the test on the
\* first entry of a height list that is_part_of_current_chain makes holds for
\* exactly the blocks met by going down the prev references from the head.
CurrentChainExact ==
    db.head # Zero =>
       \A b \in Stored(db) :
          is_part_of_current_chain(db, b)
            <=> \E h \in 1..db.headHeight : Path(db, db.head)[h] = b

\* Every block of the current chain above genesis has a contra mutation, so a
\* reorganisation can undo any of them.
UndoAvailable ==
    \A h \in 2..db.headHeight : get_current_block_of_height(db, h) \in db.contra

\* The committed head only moves to a strictly higher block: of two branches of
\* the same height the one that was the head stays ("it will choose the last
\* head if it is of the maximum height").
FirstSeenWins ==
    [][db'.head # db.head => db'.headHeight > db.headHeight]_vars

\* A stored header and its cached height never change and never disappear,
\* across forks, failed operations, crashes and restarts.
AppendOnly ==
    [][\A b \in Stored(db) : /\ db'.header[b] = db.header[b]
                             /\ db'.height[b] = db.height[b]]_vars

CurrentChain(s) ==
    [h \in 1..s.headHeight |-> get_current_block_of_height(s, h)]

\* The heights at which the current chain has the same block before and after.
Kept == {h \in 1..db.headHeight :
           h <= db'.headHeight /\ CurrentChain(db)[h] = CurrentChain(db')[h]}

Reorgs(evs) == {i \in 1..Len(evs) : evs[i].type = "StateInvalidated"}

\* Listeners hear of a reorganisation exactly when blocks left the current
\* chain, once, with the height of the last block that stayed.
ReorgReported ==
    [][db.head # Zero /\ db' # db =>
         IF Kept = 1..db.headHeight THEN Reorgs(events') = {}
         ELSE \E i \in 1..Len(events') :
                /\ Reorgs(events') = {i}
                /\ events'[i].new_height = db'.headHeight
                /\ events'[i].after_height \in Kept
                /\ \A h \in Kept : h <= events'[i].after_height]_vars

\* The assertions at the end of add_block: an uncled block moved nothing, and
\* any other one is the new, higher head; uncled is the opposite of what
\* is_part_of_current_chain says of the block.
AddBlockAsserts ==
    [][op = "add_block" /\ db' # db =>
         \E i \in 1..Len(events') :
           /\ events'[i].type = "NewBlock"
           /\ events'[i].uncled <=> ~is_part_of_current_chain(db', events'[i].block)
           /\ events'[i].uncled => Len(events') = 1 /\ db'.headHeight = db.headHeight
           /\ ~events'[i].uncled => /\ Cardinality(Kept) > 0
                                    /\ db.headHeight < db'.headHeight]_vars

\* The promise of the block tree, of what is applied to the database.
Promise == INSTANCE BlockTree WITH parent <- db.header, depth <- db.height, tip <- db.head

\* What add_block, import_pkg, open, failures and crashes do to the tables is
\* the growth of one tree whose head is a highest block and moves only to a
\* higher one.
ImplementsBlockTree == Promise!Spec

-----------------------------------------------------------------------------
(* The inductive invariant *)

\* Every stored block has exactly one path down to genesis, and the cached
\* height of each block on it is its place on the path.
OnePath(s) ==
    \A b \in Stored(s) :
       \E f \in PathSet(s, b) : /\ \A g \in PathSet(s, b) : g = f
                                /\ \A h \in 1..s.height[b] : s.height[f[h]] = h

\* The tables that record the tree agree.
Tree(s) ==
    /\ s \in States
    /\ Genesis \in Stored(s)
    /\ \A b \in Blocks : s.header[b] = None <=> s.height[b] = 0
    /\ HeightsFollowPrev(s)
    /\ ListsMatchHeights(s)
    /\ OnePath(s)

\* The first entries of the height lists lead from the head to genesis, and all
\* but the last can be undone.
FrontsFollowPrev(s) ==
    /\ s.head \in Stored(s)
    /\ s.headHeight = s.height[s.head]
    /\ s.byHeight[s.headHeight][1] = s.head
    /\ \A h \in 1..s.headHeight : s.byHeight[h] # <<>>
    /\ \A h \in 2..s.headHeight : /\ s.header[s.byHeight[h][1]] = s.byHeight[h - 1][1]
                                  /\ s.byHeight[h][1] \in s.contra

Highest(s) == \A b \in Stored(s) : s.height[b] <= s.headHeight

Opened(s) == Tree(s) /\ FrontsFollowPrev(s) /\ Highest(s)

\* t has all blocks of s unchanged, and its head is that of s or a higher one.
Extends(s, t) ==
    /\ \A b \in Stored(s) : t.header[b] = s.header[b] /\ t.height[b] = s.height[b]
    /\ \/ t.head = s.head /\ t.headHeight = s.headHeight
       \/ t.headHeight > s.headHeight

\* What is applied is always a whole, consistent tree, and so is the overlay of
\* the running operation between two blocks of its batch.
IInv ==
    /\ TypeOK
    /\ db = EmptyDB \/ Opened(db)
    /\ op # "closed" => Opened(db)
    /\ op \in {"add_block", "import_pkg"} => Opened(st) /\ Extends(db, st)

\* Before add_block has added its block the overlay is the database; afterwards
\* it has the one new block, which is the head if and only if the head moved.
AddOverlay ==
    op = "add_block" =>
       IF batch = <<>> THEN st = db
       ELSE /\ batch[1] \in Stored(st) \ Stored(db)
            /\ \/ st.head = db.head /\ st.headHeight = db.headHeight
               \/ st.head = batch[1] /\ st.headHeight > db.headHeight

=============================================================================
