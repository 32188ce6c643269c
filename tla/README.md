# A TLA+ model of Blockscape

Blockscape is a peer-to-peer blockchain for games, written in Rust. A node keeps
a tree of blocks in RocksDB, maintains the *network state* that the blocks of the
longest chain produce, collects pending transactions, forges blocks, and
exchanges blocks and transactions with its peers. This directory models the
record keeper, the network, the forger and the game of checkers that runs on the
chain, checks them with TLC, and proves with TLAPS what matters most: every invariant
and every action property that a passing run checks on a small instance is a theorem
for all instances. Only liveness rests on TLC alone.

Paths below are relative to `src/core/src/` unless they begin with `src/`.

## Inventory

| Component | State | Operations | What makes it correct |
|---|---|---|---|
| Block tree (`record_keeper/database.rs`) | headers, `HeightByBlock`, `BlocksByHeight`, `ContraMut`, `CurrentHead` | `add_block`, `walk`, `walk_to_head`, `find_chain_head`, `apply`, `open` | the caches agree with the `prev` references; the head is a highest block, the first seen; any block of the current chain can be undone; nothing half-done survives a failure or a crash |
| Searches (`database.rs`) | none | `_latest_common_ancestor`, `calculate_block_path`, `get_blocks_between` | a walk undoes and applies exactly the blocks by which two chains differ; a peer can import what it is served |
| Network state (`db_state.rs`, `database.rs`) | values, stakes, validator keys, buckets of plot events; an overlay (`DBDiff`) | `_mutate`, `_undo_mutate`, `set_value`, `delete_value`, `add_event`, `remove_event`, `compile` | the state is that of the current chain, whichever branches were applied and undone before; the batch writes what the overlay shows |
| RecordKeeper (`record_keeper.rs`) | `db` and `pending_txns` behind read-write locks, listeners behind mutexes | `add_block`, `add_pending_txn`, `import_pkg`, `create_block`, queries | stored blocks are valid and complete whatever threads interleave; the pool holds transactions that can go into a block |
| Rules (`rules/`, `src/checkers/src/rules/`) | the game rule: a cache of boards | `is_valid` of each rule | accept a block by the state at its `prev` only |
| Sessions (`network/session.rs`, `protocol.rs`) | port of the peer, strikes, ping that is out, current job, abuses | packets, `check_conn`, `check_job`, `close` | a session gets introduced or ends; one that both sides have is not given up |
| Shard (`network/shard.rs`, `context.rs`) | sessions by address, `peer_ids`, `unsent_broadcasts`, `last_peer_idx` | `open_session`, `process_packet`, `node_scan`, `check_sessions`, `reliable_flood` | a packet finds its session; every node is tried; messages from a time without peers are sent |
| Node repository (`network/node.rs`) | nodes by key hash, list by score, dirty flag, file | `new_node`, `apply`, `remove`, `up_score`, `down_score`, `trim`, `save`, `load` | map and list agree; what is not in the file is dirty |
| Jobs (`network/job.rs`, `shard.rs`) | the job of each session, `ACTIVE_SYNCS`, the import queue | `assign_job`, `complete`, `SyncBlocks`, `ChainData`, retries | a sync brings its target, and none lasts for good |
| EPoS and forger loop (`forging/epos.rs`, `src/checkers/src/forger.rs`) | best candidate, timers, result channel; tasks | `create`, `evaluate_block`, `propagate_block`, `on_event`; the loop | the candidate has a timer; each task ends |
| Checkers (`src/checkers/src/checkers.rs`, `rules/`, `record_keeper/game_state.rs`) | boards, cached boards by tick | `play`, `Turns`, `Game`, `cache`, `latest` | moves are legal and in turn on every branch |
| RPC, primitives, encoding, client prototype, scripts | - | - | conversions and glue |

The network and RPC threads and the forger call the record keeper at the same
time. Sessions hand blocks to `add_block` and packages to `import_pkg`; the record
keeper tells its listeners (the network, which floods fresh blocks, the forger,
which starts on the next block, and the reporter) through bounded channels. The
forger takes `create_block`, has it signed through EPoS broadcasts, and passes
the result to `add_block`. The hard behaviours are reorganisations (undo on one
branch and redo on another inside one overlay), operations that check under one
lock and write under another, failures between the blocks of a package, crashes,
lost, duplicated and reordered packets, answers that race timeouts, names that
are resolved after the table has changed, timers for candidates that have been
replaced, and caches that a validation leaves behind. `PROJECT.json` lists them as
hazards, at their lines.

## Modules

**Record keeper**

* `Chain` models the block tree. `db` is what RocksDB holds, a record of the tables
  the chain logic uses; `st` is the `DBState` overlay of the operation that has the
  write lock. `open`, `Begin`, `AddNew` (one block of `add_block` or `import_pkg`:
  validated at its `prev`, added, walked to), `SkipKnown`, `CommitAdd`,
  `CommitImport` (the batch and the notifications), `Fail` (any early return)
  and `Crash` are its actions. Chains are written as functions from heights to
  blocks (`Path`), so that the module can be proved about.
* `BlockTree` is what a block store promises: a tree that grows by blocks whose
  parents are known, and a tip that is a highest block and moves only to a strictly
  higher one. It knows no caches, walks, batches or crashes. `Chain` implements it
  under `Promise == INSTANCE BlockTree WITH parent <- db.header, depth <- db.height,
  tip <- db.head`: one commit is one step of `BlockTree`, everything else a stutter.
* `BlockPath` has the searches as the code makes them, as pure operators over a tree
  of `Chain`, and compares them with the definitions over whole paths.
* `NetState` extends `Chain` with what the blocks contain: each action of `Chain`
  is joined with what it does to the network entries `net` and to the overlay `ov`.
  Keys keep their two identities: an overlay tells `Generic(bin)` and
  `ValidatorKey(id)` apart, while RocksDB sees the bytes of `as_bin`. Stakes are
  unsigned and wrap at `StakeRange`, which stands for 2^64.
* `RecordKeeper` is the API as several threads use it. A step is what a call does
  between taking and releasing its locks. The tree is reduced to what `Chain`
  establishes about it, and the rules to what they make transactions depend on:
  the key of the creator must be in the state (`Signature`), a registration or a turn
  is not repeated (`Duplicates`, `Turns`), and a turn comes after the one before it,
  which may be in the same block (`Turns`). Transactions whose changes all stack
  (transfers, rewards, slashes and admin changes, which `duplicates.rs:90` lets pass) may be
  repeated. `keys` has the registrations whose key the network state has, also those of
  blocks that were undone since. `import_pkg` judges the pool again once, in any order
  of the hash map.

**Network**

* `Session` has two nodes that run the same program, with the session of each, the
  calls of `open_session` that wait for a name, and the packets between them. A
  packet can be lost, doubled or overtaken; a node can quit (with a goodbye), crash
  and come back. `Deliver` is the whole way of a packet: the choice of the shard by
  port, the special handling of port 255 in `client.rs`, `process_packet`, `recv` and
  what it sends. `check_sessions` counts the strikes, sends the next ping or the
  introduction again, and removes what is done.
* `RepoOps` has the operations of the node repository on a value; `NodeRepo` gives
  them a state, a file and crashes, also one in the middle of `save`: `File::create` has
  then emptied the file, and the program does not get past `load` again. Hash map order is any order, so `trim` keeps
  any nodes. The stable sort of `resort` is written as the one arrangement of the
  positions by score and place (`InOrder`, `Arranged`), `retain` as the arrangement of
  those that stay, and `build` as the map in which the last entry of each hash counts.
* `Shard` is the table of one node with any number of peers. `opening` holds the calls
  of `open_session` between their check and their insertion: `Resolved`, `Connected`
  and `OpenFails` are what comes after the asynchronous gap, and a detached and
  newly attached network may be found there. An introduction from another
  address re-keys the table. Peers are environment.
* `SyncJobs` has the jobs, the requests and answers, the timeouts and the retries, and the
  way of a package: the one thread of `QUEUED_WORKER` unpacks it (`Work`), the event loop
  finds it unpacked and queues its import (`Unzipped`), and the worker imports it. Of
  several unpacked packages the event loop may find any first, so imports can change
  places; one that comes before its parent fails, and `failed` has its blocks until the
  head is above them. Blocks are heights here: forks in an answer are the subject of
  `BlockPath`. Sequence numbers are reduced to whether a packet bears the number of the job
  its session holds, which by `SameNumber` can happen by chance.

**Forging and the game**

* `Forge` composes the forger loop of the main thread, the network's answer to
  `ShouldForge`, EPoS and the worker that submits. Time is relative: `Tick` lets
  every timer and the candidate grow older by one, and the waits that signatures
  give are any up to `MaxWait`. `EvaluationFails` stands for every early return of
  `evaluate_block` (an ancestor or the block itself that cannot be decoded, another
  difficulty, an error of the database or of a signature); it may happen at any
  evaluation, and `evaluated` keeps what was returned. `create_block` and `add_block` may
  fail too. `MaxErrors` bounds all these.
* `Board` has the board and `play` with its loop over the jumps; `BoardPlay` plays
  games on it and defines the outcome of a play directly, from the squares it stops at
  and takes.
* `Game` is one plot of the chain: `Turns` and `Game` judge the pool, blocks and
  packages on any branch, with the cache of boards that they all share.

The theorems are in `ChainProofs` (also about `BlockPath`), `NetStateProofs`,
`RecordKeeperProofs`, `ShardProofs` (also about `RepoOps` and `NodeRepo`), `SyncJobsProofs`,
`TimerProofs` (about `Session` and `Forge`, the two parts that timers drive) and
`CheckersProofs` (about `BoardPlay` and `Game`); `InductionFacts` has the induction they
use. `MC*` give the constants for TLC. Definitions named
`X_Variant` and introduced by "Faulty variant" are plausible mistakes in the code
behind `X`; no specification uses them. Each property is known to fail when one of
them takes the place of the original.

How the modules lean on one another: `BlockPath` and `NetState` extend `Chain`, so their
state is reached by its actions; `RecordKeeper` and `SyncJobs` take from it that a block
is stored with all its ancestors; `Shard` takes from `Session` that a session that is not
introduced ends; `Forge` takes from `SyncJobs` that a sync ends. `Shard` and `NodeRepo`
share `RepoOps`, `Game` and `BoardPlay` share `Board`.

## Runs

| Run | Checks | Bounds |
|---|---|---|
| `chain` | caches, undo, reports of reorganisations, assertions, refinement of `BlockTree`; searches and sync answers against whole paths | five blocks over genesis, heights up to 4, packages of two, limits 1 and 2 and none |
| `net_state` | stakes, values, events through reorganisations | four blocks over genesis, three mutations with all six kinds of change, two buckets |
| `threads` | completeness, consistent histories, the pool | two threads, three blocks over genesis; a registration, two moves of one turn, the next move by the validator registered, and a transfer; room for two pending |
| `session` | no false timeout, no half-open session that lasts, no endless introduction | two nodes, one fault, one quit, crash or broadcast, one strike tolerated |
| `node_repo` | map and list agree; a clean repository is the file | two seeds under the one hash they share, two nodes with keys, scores up to 2, two nodes saved |
| `shard` | table keyed by address, kept messages, every node tried | two nodes, one over TCP, one that moves, one incompatible; one call at a time that is not from a scan |
| `sync` | what is below a job, a request or a package was received; jobs end, a sync brings its target | two peers, two blocks, packages of one, one retry, one fault, two packages at hand |
| `forge` | a candidate is timed, nobody forgotten, forging ends | one key of ours, two tasks, heights up to 3, waits up to 2, one uncle, one error |
| `forge_sync` | *violated*: the forger goes on after a sync | heights up to 2, no uncles, no errors |
| `board` | `play` against its definition | five by five squares, one row of men, turns 2 to 8, chains of two jumps |
| `game` | branches in turn, pool and cache legal | three by three squares, ticks up to 4, branches of two blocks, three blocks with genesis |
| `game_replay` | *violated*: accepted moves can be replayed | same |

**Why the bounds are enough to be interesting.** A reorganisation needs two
branches, one of them longer: three blocks. A reorganisation back to the first
branch needs five, which `chain` has. Within a package of two the head can move
twice. For the overlay, undo and redo of the same key in one operation needs two
branches of lengths one and two, three blocks; a fourth one lets the result be
built on. For the threads a race needs two of them, and the third block lets
`add_block` reorganise. Blocks from elsewhere hold the registration, the transfer, or two
moves that follow one another; with the pool in any order this meets a move judged before
and after the one it follows, a registration that was undone, and a transfer that is
pending and imported. A transaction that both registers and plays is left out. Blocks are symmetric except genesis, and so are threads.
In `session` one lost, doubled or late packet meets every stage of the crossing or
one-sided introduction, and with the tolerance of one it is the most that may not
end a session. In `shard` the node with two addresses meets the other's, so that
a session is replaced, re-keyed onto another, and found under the wrong address;
`MinNodes` of one makes the scan choose between the nodes. In `sync` a target two
blocks away needs a second request after the first answer, one fault meets a
request, an answer, a session or a number, and the peers may lag, which reaches
`HashesNotFound`. Two packages at hand can change places, so that the second one is
refused. In `forge` the second block needs two signatures, so that a
candidate is replaced by a better one while a timer for the first one runs; the
second task starts while the first one waits. On five by five squares there are
captures, chains of two and kings within the first seven turns. In `game` two
branches of one plot with a pool and a restart are enough for the cache to be
ahead of, behind and beside the state.

**Fairness.** `Chain`, `NetState`, `RecordKeeper`, `NodeRepo`, `BoardPlay` and `Game`
assume none: a call either goes on or stops anywhere. In the others it is what the
event loop, the threads and the clock give:

* `Session`: a packet in flight arrives or is lost; the resolver answers or fails; the
  check timer goes off again and again, on whatever the node does in between (strong,
  since the node may be down at times). That a packet arrives is not assumed:
  faults are bounded instead, and the properties say what holds whatever they are.
* `Shard`: the same timer and resolver; `Ends` of a session that is not introduced
  is `IntroductionEnds` of `Session`. Nothing makes a peer answer.
* `SyncJobs`: the timer goes off; the workers and the event loop go on while there is work;
  the request that a session waits for is answered or lost. No more: old requests may
  stay on their way, and no order among packages is assumed.
* `Forge`: the main thread, the network thread, the worker, the clock and its timers go
  on, each as a whole, and a sync ends, which is `JobsEnd` of `SyncJobs`. Blocks of others
  are not assumed to come.

Deadlock is checked where the system cannot stop (`chain`, `net_state`, `threads`,
`session`, `node_repo`). `shard`, `sync` and `forge` stop at their bounds or after the
panic of the network thread, `board` and `game` at the last turn or block.

**What the checks show, and what they found.** The passing properties hold within
these bounds. Two things that the code says of itself do not hold, with a run each:

* `import_pkg` announces the blocks of the current chain as uncles and those of other
  branches as new (`record_keeper/record_keeper.rs:545`). The forger ignores uncles,
  so after a sync it stands still until a single block arrives (`forge_sync`).
  `ForgingResumes` speaks of syncs that bring their blocks. (One that is dropped wakes
  nobody either, as no block comes.)
* Without a cached board the game rule takes the starting board for that of tick
  2 and leaves out the move of that tick (`src/checkers/src/rules/game.rs:42`). After a
  restart, or on another branch, the replay of a later move fails and panics
  (`game_replay`).

Other places where the code does not do what a comment or its design suggests. They
are modelled as they are, and the properties say what holds nevertheless:

* `_get_blocks_before` keeps the upper blocks when the limit cuts
  (`database.rs:299`, `:301`); `CutSyncIsImportable` is about targets on the current chain.
* `set_value` after a deletion in the same overlay loses the value (`db_state.rs:318`,
  `:384`); undoing a registration removes nothing (`database.rs:692`); `compile` drops
  events of later buckets on a removal (`db_state.rs:85`). `LastingValuesFollowChain` and
  `NoStrayEvents` are worded accordingly.
* Because an undone registration stays, its validator can still create transactions on
  the branch that never registered it, and cannot be registered there again
  (`HistoryConsistent` asks for a registration by some stored block).
* The assertion in `add_block` can fail when a package is imported between its check
  and its write (`record_keeper.rs:343`); pending transactions can become invalid
  when `add_block` reorganises, and then `add_pending_txn` refuses everything until a
  package is imported (`record_keeper.rs:807`), which is why `ImportCleansPool` is about
  imports.
* `import_pkg` does not take the transactions of the package out of the pool; it relies on
  the rules to refuse them, and those whose changes all stack are not refused
  (`duplicates.rs:90`). They stay pending, and the next block of ours repeats them. A pending
  move that the hash map gives before the one it follows is dropped (`turns.rs:106`).
* The second import of two packages can be queued first (`protocol.rs:483`), although
  `QUEUED_WORKER` is "for tasks that need to be completed sequentially" (`worker.rs:7`). It
  fails for its missing parent, the error is dropped (`protocol.rs:491`), and the job, which
  counts the blocks as downloaded (`job.rs:31`), ends without its target.
  `CurrentCovered`, `RequestsCovered` and `SyncBringsTarget` say that nothing else leaves a gap.
* `create` does not look at what `evaluate_block` returns (`epos.rs:544`): when it fails
  there is no candidate, and the task waits until somebody else finds a block.
  `ForgingEnds` is about evaluations that succeed.
* A crash between `File::create` and the end of the write leaves a file of nodes on which
  `load` panics at each start (`node.rs:369`, `:394`).
* The doc comment of `Turns` gives odd ticks to the first player and even ticks to the
  second (`src/checkers/src/rules/turns.rs:9`). Its code does the opposite (`:137`, "p1 turn"
  for even ticks), and so does `Player::from_turn`. `HistoryInTurn` has the parity of the code.
* `HashesNotFound` meets an `unimplemented!()` and kills the network thread
  (`protocol.rs:542`): `panicked` in `SyncJobs`.
* Introductions that cross on port 255 are dropped, since the session exists
  already (`client.rs:182`): both sides wait for a timeout of one of them.
* `node_scan` removes a node whose session was opened meanwhile as if its name were
  broken (`shard.rs:146`); a node that was removed for abuse is added back in the same
  pass (`shard.rs:231`, against `protocol.rs:196`).
* The EPoS receiver refuses every broadcast (`epos.rs:626`), so that they are held
  against the peer, and our own are never flooded (`client.rs:403`). Only blocks that
  our own keys can complete get signed. `epos.rs:477` compares a waiting time with the
  number of signatures.
* `Turns` lets two transactions of one block start the game (`HistoryInTurn` is about
  branches with one start); a jump along an empty path is a pass, which makes a man on
  its own first row a king (`src/checkers/src/checkers.rs:270`); `get_plot_events` has pending events below
  the tick asked for (`record_keeper.rs:623`, harmless where it is called from).

## Proofs

Every theorem is for all values of the constants under the named assumptions of its
module. These say what kind of thing a constant is (genesis is a block, the markers
for "nothing" are no blocks, keys or records, bounds are natural numbers, the set of
peers and the domain of a file are finite). The others are:

* `Forge`: a block asks for at least one signature and for fewer than an epoch has blocks;
* `NetState`: `Admin` changes stay out of the region of the validators (`BinAssumption`). The
  code takes any key that the admin signs, and `as_bin` would not keep them apart;
* `Board`: the rows of men of both sides fit the board (`BoardAssumption`);
* `Session`: there are two nodes, which is what the module is about.

| Module | Proved |
|---|---|
| `ChainProofs` | `TypeOK`, `HeightCachesExact`, `HeadIsHighest`, `CurrentChainExact`, `UndoAvailable`, `FirstSeenWins`, `AppendOnly`, `ReorgReported`, `AddBlockAsserts`; `Chain` implements `BlockTree`; of `BlockPath`: `AncestorExact`, `BlockPathExact`, `SyncReachesTarget`, `CutSyncIsImportable` |
| `RecordKeeperProofs` | `BlocksComplete`, `HistoryConsistent`, `PoolHasNoRivals`, `ImportCleansPool`, `NoTxnLost` |
| `NetStateProofs` | `StakesFollowChain`, `LastingValuesFollowChain`, `NoStrayEvents`, `ValuesCommitted` |
| `ShardProofs` | `KeyedByAddress`, `UnsentOnlyWhileAlone`, `RepoAgrees`, `TypeOK`; of `NodeRepo`: `RepoConsistent`, `CleanIsSaved` |
| `SyncJobsProofs` | `CurrentCovered`, `RequestsCovered`, `TypeOK` |
| `TimerProofs` | of `Forge`: `CandidateTimed`, `NobodyForgotten`; of `Session`: `SessionTypeOK`, `NoFalseTimeout` |
| `CheckersProofs` | of `BoardPlay`: `PlayExact`; of `Game`: `HistoryInTurn`, `GameLegal`, and that the replay which `game_replay` sees fail works as long as there is one chain and its cache (`ReplaysWorkOnOneChain`) |

**Induction.** The induction rules of the library take a predicate as parameter, which
the provers cannot instantiate. `InductionFacts` states induction with the *set* of the
numbers that have a property (`SetInduction`), derived from the existence of a least
element, and recursion with a *function* that gives each step (`RunExists`). What a
loop computes is then proved by giving its run explicitly: `Imported`, `CheckedAll`,
`Revalidated` and `Reassigned`, the loops of `NetState` over changes and blocks (`Mutated`,
`_undo_mutate`, `ReplayedChanges`, `ReplayedChain`, ...) and those of `Game` over events
(`get_events`, `PlayOn`, `Verdict`, ...) are recursive functions for this reason.

**Block tree.** The properties speak of `db` alone, but `db` is overwritten by the
overlay, and the overlay is built block by block on whatever the database was. So the
inductive invariant `IInv` says of both that they are *opened* databases:

* `Tree`: headers, heights and height lists agree, and each block has exactly one
  path to genesis on which heights count up (`OnePath`). Uniqueness of the path is
  part of the invariant, extended with each new block.
* `FrontsFollowPrev`: the first entries of the height lists lead from the head to
  genesis, and each but the last has a contra.
* `Highest`: no block is above the head.
* `Extends(db, st)`: the overlay has all blocks of the database unchanged, and its
  head is that of the database or a higher one.

The lemmas show that `add_block` preserves `Tree` and leaves the head at most one below
the top, that `find_chain_head` then gives a highest block, and that `walk` to a
highest block restores `FrontsFollowPrev`: below the fork the fronts are the shared
path, above it they are swapped in. Each action then preserves each conjunct.

For `BlockTreeImplemented`, every step either leaves `db` alone or puts in its place a
database that extends it (`StepExtends`); each new block of that database has a
parent that is stored in it (`KnownIsStored`); and two opened databases of which one
extends the other are one step of `BlockTree` apart (`ExtendsGrows`).

`ReorgReported` counts: paths are stable as the store grows (`PathStable`), the heights
that two paths share are an interval from 1 (`SharedFacts`), so the number of blocks
that left the chain fixes the height of the last that stayed (`KeptFacts`). For
`AddBlockAsserts` the overlay of a running `add_block` is the database, or has just
its one block more (`AddOverlay`, an invariant of its own).

**Searches.** All four are about any opened database. The loops get closed forms: the
two-ended search has met after k rounds the top k steps of each path (`Searched`),
and meets first where the shorter way to the shared part is used up (`Meet`,
`SearchEnds`); `get_blocks_after` and `get_blocks_before` are pieces of a path
(`AfterFacts`, `BeforeFacts`). Each piece follows on what the peer has or on the piece
before it (`ChainImportable`, `ListImportable`).

**Record keeper.** The chain of a block is fixed with it, so what is applied at a block
does not change as others are made (`AppliedStable`). What a thread learned under the read
lock is therefore still true when it writes: the invariant ties the stage of each call to
what it has established about its block (`Learned`), and says of the database, and of the
overlay of an import after each block, that every block is complete and accepted after
its own chain, and that a stored block registered each key (`Sound`). The state in which
a block was judged may have more keys than its chain gives, but only keys, so that
what is not refused there is not on the chain either (`ValidFacts`). `PoolHasNoRivals` needs
the second validation of `add_pending_txn`. For `ImportCleansPool` and `NoTxnLost` the loop over
the pool keeps, in any order, a set that is valid together, and drops what was not
valid with a part of it (`Kept`).

**Node repository and shard.** A repository is consistent if its list has every key of
its map and no other, in the order of the scores (`Repos`). That each operation keeps
this rests on facts about arrangements (an order of a finite set exists and is unique).
`CleanIsSaved` adds that a step either counts a change, changes nothing, or leaves
no node, as when the process ends while it writes. In `Shard` the session table is keyed by address through `Rekeyed` and
`Inserted`, and the same lemmas carry the repository through `check_sessions`, whose
order is any.

**Jobs.** `CurrentCovered` alone is not inductive: an answer that nobody waits for any more
still brings a package, and one that bears the number of a job by chance sets where that
job goes on. The invariant says of *every* job, request and package that all blocks below it
were received (`Covered`, `Held`, `Packed`), which is `RequestsCovered`, and that a request is
waited for only while its session holds a job (`Waited`). What was received stays so: it is
at hand until it is imported, then stored or refused (`Kept`, `ImportKept`). The order
in which packages are unpacked and imported does not matter to this, so the event
loop may choose any.

**Forger.** `CandidateTimed` and `NobodyForgotten` are inductive together with the types: a
candidate that replaces another starts its own timer, an evaluation that fails leaves
candidate and timers alone, and `create` tells the task it replaces.

**Network state.** The properties speak of `net` after a write, but a write comes out of an
overlay in which blocks were undone and applied in any order. The inductive invariant
`NetInv` says that the database, and during an operation the overlay over it, *shows* the
state of its head (`Follows`):

* `Agree`: what is seen through the overlay is what a replay of all changes of the path
  gives: the stakes, the registered validators, the lasting values. For events it bounds
  how often one is seen; an event that happened may be missing, as `compile` drops some,
  but only one that has a bucket to be lost from (`Placed`).
* `UndoesAll`: the contra of each block above genesis takes back the mutation of that
  block, change by change from the end, in the state in which it was applied.
* `Fresh`: an event that a block adds is not on its path before it, unless it was lost. This
  is what the rule `Duplicates` makes sure of (`DuplicatesFresh`): an overlay keeps events as
  a set, so undoing one of two equal events would remove both.

One change and its inverse are the core (`MutateAgrees`, `UndoMutateAgrees`); blocks, walks
(`UndoneAgrees`, `DoneAgrees`, `WalkShows`) and `compile` (`CompileFacts`) are built on it, and
`IInv` of `ChainProofs` says which blocks a walk meets. Stakes are compared in wrapping
arithmetic, so the result does not depend on which order of undo and redo underflows.
`LastingBins` restricts values to keys that genesis sets and no stored block removes:
others can be lost when they are set after a deletion, as listed above. A block is only
ever added, so the set of lasting keys can shrink, and `Agree` for it with it.

**Sessions.** `NoFalseTimeout` lets a check end an introduced session only if the peer has no
session for it, or if packets failed more often than `TIMEOUT_TOLERANCE`. The invariant
keeps an account: as long as both have an introduced session, every strike was paid for by
a fault, and so is the strike that the next check would find (`Due`), unless the ping or
the pong is still on its way (`Probing`). A loss, or a check that comes before the answer,
is what ends the way and pays at once. `Paid` must also cover a peer that is not
introduced yet, or not any more, while an introduction is on its way to it or waits for its name
(`Reintroducing`): it becomes connected by an introduction that nothing pays for. The
count includes the check that ends the session, because a check that comes before an
answer in flight is itself the fault.

**Board.** `PlayExact` compares a loop, which changes the board with each hop, with a
definition that looks only at the board before. A chain visits the squares that its
directions add up to (`Way` counts the steps each way), so where it stands after n jumps
is known in advance (`Stop`, `Over`). After n jumps that are allowed the board is the
first one without the piece and what was taken, and with the piece where it stands (`Left`);
so the next jump is allowed on that board exactly if it is allowed on the first one and
takes something that was not taken before (`Jumps`). Kings are made at the end, which is
where the definition makes them.

**Game.** `Turns` reads a mutation event by event, and remembers the players and the last
tick instead of reading the state again. `SeatInv` says what that memory knows of the chain
together with the events so far, and `HistInv` what every branch is like: closed under
earlier moves, each tick once, both players before the first move, and, with one Start,
each move by the player whose turn it is. A branch never depends on the cache, so this
part holds through forks and restarts. Legality does depend on it: `OneGame` says that
chain and pool play from the starting board and that each move of the chain has the board
after it in the cache (`Cached`, `Legal`). It is an invariant only as long as every block
judged extends the head and no cache is lost (`~astray`), and it gives that the rule never
panics then. `game_replay` shows that the condition is needed.

**Only model-checked.** Liveness under fairness is out of the prover's reach:
`HalfOpenEnds`, `IntroductionEnds`, `EveryNodeTried`, `JobsEnd`, `SyncBringsTarget` and
`ForgingEnds` rest on TLC within the bounds above. So do the two violations, which are
counterexamples.

## What is left

All that was planned is modelled, except for the locks, and proved, except for liveness.
What would say more about the system:

1. the locks of the record keeper and the bounded channels of its listeners, under
   a stated policy of the lock library (see below);
2. answers with forks in `SyncJobs`, which takes blocks to be heights; `BlockPath` shows
   of a single answer that it can be imported;
3. a composition of `Session` and `Shard` instead of the assumption that the one makes
   about the other.

## Not modelled

* The order and the reentrancy of the locks of the record keeper, and the bounded
  channels on which `notify` waits: `record_keeper.rs:394` and `:374` are listed as hazards
  without a property. What a blocked read does depends on the fairness policy of the
  lock library, which is not part of the repository.
* The transaction indexes (`BlocksByTxn` is overwritten by `_add_txn_to_account`,
  `database.rs:821`), which the chain logic writes and never reads.
* The order of events inside a tick and the filters of `DBDiff`; time stamps, merkle
  roots and signatures (a block that fails them is one that never gets accepted, which
  `Fail` covers); corruption inside RocksDB (a write batch is atomic).
* The byte limit and the compression of packages; `SyncJobs` counts blocks.
* The table of 255 networks: one is attached and detached. In `Shard`, the
  message `AddNode`, which calls `open_session` as the answer to a search for nodes does.
  Latency statistics, clock correction, socket set-up, `QueryData`, which is never sent, and job augmentation,
  which is never called.
* The difficulty calculation of EPoS, forced forging and `validate`, which nothing calls;
  flower picking, a random search.
* `drop_before` and `drop_plot` of the game state cache, which have no callers.
* The dummy record keeper, RPC conversion, primitives, encodings, the client
  prototype, the bot and the deployment files. They convert, display or drive, and keep
  no state of the system. Components are listed with their reasons in `PROJECT.json`.
