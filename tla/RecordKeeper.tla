---------------------------- MODULE RecordKeeper ----------------------------
(***************************************************************************)
(* The record keeper as its callers use it at once: the network, the       *)
(* forger and the RPC server call add_block, add_pending_txn, import_pkg   *)
(* and create_block from different threads. A step is what a call does     *)
(* between taking and releasing the locks on `pending_txns` and `db`; what *)
(* it learned in one step may no longer hold in the next.                  *)
(*                                                                         *)
(* The rules are reduced to what they make transactions depend on. The     *)
(* state at a block has the transactions of the blocks below it, and the   *)
(* keys that the database still has of blocks it has left: _undo_mutate    *)
(* does not remove a key (NetState).                                       *)
(***************************************************************************)
EXTENDS Integers, FiniteSets, Sequences

CONSTANTS Threads, Blocks, Genesis, Txns, None,
          Stacking,     \* those with neither a NewValidator nor a PlotEvent change
          Registering,  \* those that register a validator's key
          Creator,      \* for each, those that register its creator ({} if any may create it)
          Follows,      \* for each, those that play the turn before it ({} if it plays none)
          Rivals,       \* the pairs {t, u} that register one key or play one turn
          MaxPending,   \* how many transactions MAX_PENDING_TXN_MEM holds
          Elsewhere,    \* bound: what blocks from elsewhere may hold
          Offered,      \* bound: the transactions given to add_pending_txn
          MaxPkg        \* bound: the blocks of a package

ASSUME KeeperAssumption ==
    /\ Genesis \in Blocks /\ None \notin Blocks
    /\ Stacking \subseteq Txns /\ Registering \subseteq Txns \ Stacking
    /\ Creator \in [Txns -> SUBSET Registering] /\ Follows \in [Txns -> SUBSET (Txns \ Registering)]
    /\ Rivals \subseteq SUBSET (Txns \ Stacking) /\ {} \notin Rivals
    /\ None \notin [prev : Blocks \cup {None}, below : SUBSET Blocks, txns : SUBSET Txns]
    /\ Elsewhere \subseteq SUBSET Txns /\ Offered \subseteq Txns
    /\ {MaxPending, MaxPkg} \subseteq Nat

VARIABLES body,     \* of each block there is: its prev, all the blocks below it, its transactions
          stored,   \* the blocks in the database
          dbTxns,   \* the transactions in the database
          head,     \* the block that the network state is at
          keys,     \* the registrations whose key the network state has
          pending,  \* pending_txns
          calls     \* what each thread is doing

vars == <<body, stored, dbTxns, head, keys, pending, calls>>

Idle == [op |-> "idle"]

\* What each call carries from one step to the next.
Calls == {Idle}
         \cup [op : {"add_block"}, at : {"exists", "validate", "write"}, block : Blocks]
         \cup [op : {"add_pending_txn"}, at : {"check", "write"}, txn : Txns]

-----------------------------------------------------------------------------
(* The chain, as Chain establishes it *)

\* The blocks from b down to genesis, which the hash of a block fixes.
Chain(b) == body[b].below \cup {b}

NewBlock(prev, txns) == [prev |-> prev, below |-> Chain(prev), txns |-> txns]

Height(b) == Cardinality(Chain(b))

\* The transactions of the blocks up to b.
Applied(b) == UNION {body[x].txns : x \in Chain(b)}

\* DBState::at: what a walk from the head of a database with the keys ks to b finds.
StateAt(b, ks) == Applied(b) \cup ks

-----------------------------------------------------------------------------
(* The rules *)

Met(alternatives, txns) == alternatives = {} \/ alternatives \cap txns # {}

\* is_valid_mutation_given_state, for all transactions together: no change that
\* does not stack is repeated (Duplicates), a turn is the first or comes after
\* the one before it, in the state or among them, and is played once (Turns).
MutationValid(state, ts) ==
    /\ (ts \ Stacking) \cap state = {}
    /\ \A t \in ts : Met(Follows[t], state \cup ts)
    /\ \A r \in Rivals : r \subseteq state \cup ts => r \subseteq state

\* is_valid_txn_given_state, for each on its own: the state has its creator's key
\* (Signature).
TxnValid(state, t) == Met(Creator[t], state)

\* Faulty variant: the block is judged by the state at the head.
is_valid_block_AtHead(known, ks, b, available) ==
    /\ body[b].prev \in known
    /\ body[b].txns \subseteq available
    /\ \A t \in body[b].txns : TxnValid(StateAt(head, ks), t)
    /\ MutationValid(StateAt(head, ks), body[b].txns)

\* is_valid_block_given_state at the block's prev, which must be known; the
\* block's transactions are looked up among the available ones.
is_valid_block(known, ks, b, available) ==
    /\ body[b].prev \in known
    /\ body[b].txns \subseteq available
    /\ \A t \in body[b].txns : TxnValid(StateAt(body[b].prev, ks), t)
    /\ MutationValid(StateAt(body[b].prev, ks), body[b].txns)

\* is_valid_txn_given_lock: in the state at the head, with all that is pending.
is_valid_txn(at, ks, pool, t) ==
    TxnValid(StateAt(at, ks), t) /\ MutationValid(StateAt(at, ks), pool \cup {t})

-----------------------------------------------------------------------------
(* The operations *)

Init ==
    /\ body = [b \in Blocks |-> IF b = Genesis THEN [prev |-> None, below |-> {}, txns |-> {}] ELSE None]
    /\ stored = {Genesis}
    /\ dbTxns = {}
    /\ head = Genesis
    /\ keys = {}
    /\ pending = {}
    /\ calls = [i \in Threads |-> Idle]

\* Somewhere, a block is forged on a block that exists.
Appear(b, p, ts) ==
    /\ body[b] = None /\ body[p] # None
    /\ body' = [body EXCEPT ![b] = NewBlock(p, ts)]
    /\ UNCHANGED <<stored, dbTxns, head, keys, pending, calls>>

\* create_block: a block of all that is pending on the current head, which the
\* forger then passes to add_block.
create_block(i, b) ==
    /\ calls[i] = Idle
    /\ body[b] = None
    /\ body' = [body EXCEPT ![b] = NewBlock(head, pending)]
    /\ calls' = [calls EXCEPT ![i] = [op |-> "add_block", at |-> "exists", block |-> b]]
    /\ UNCHANGED <<stored, dbTxns, head, keys, pending>>

\* Another thread has a block to add.
CallAddBlock(i, b) ==
    /\ calls[i] = Idle
    /\ b # Genesis /\ body[b] # None
    /\ calls' = [calls EXCEPT ![i] = [op |-> "add_block", at |-> "exists", block |-> b]]
    /\ UNCHANGED <<body, stored, dbTxns, head, keys, pending>>

At(i, op, at) == calls[i].op = op /\ calls[i].at = at

GoOn(i, at) == calls' = [calls EXCEPT ![i].at = at]

Return(i) == calls' = [calls EXCEPT ![i] = Idle]

\* get_block(hash).is_ok() under a read lock.
AddBlockExists(i) ==
    /\ At(i, "add_block", "exists")
    /\ IF calls[i].block \in stored THEN Return(i) ELSE GoOn(i, "validate")
    /\ UNCHANGED <<body, stored, dbTxns, head, keys, pending>>

\* is_valid_block under read locks: transactions are pending or stored.
AddBlockValidate(i) ==
    /\ At(i, "add_block", "validate")
    /\ IF is_valid_block(stored, keys, calls[i].block, pending \cup dbTxns) THEN GoOn(i, "write") ELSE Return(i)
    /\ UNCHANGED <<body, stored, dbTxns, head, keys, pending>>

\* The head moves to a block that is higher.
NewHead(from, b) == IF Height(b) > Height(from) THEN b ELSE from

\* The keys after a walk to b.
Walked(ks, b) == ks \cup (Applied(b) \cap Registering)

\* Faulty variant: the transactions are taken to be stored.
AddBlockWrite_NoAssert(i) ==
    /\ At(i, "add_block", "write")
    /\ LET b == calls[i].block IN
         /\ stored' = stored \cup {b}
         /\ dbTxns' = dbTxns \cup (body[b].txns \cap pending)
         /\ pending' = pending \ body[b].txns
         /\ head' = IF b \in stored THEN head ELSE NewHead(head, b)
         /\ keys' = Walked(keys, head')
    /\ Return(i)
    /\ UNCHANGED <<body>>

\* Both write locks: the block and its pending transactions are stored, they
\* leave pending_txns, and the state walks to the head.
AddBlockWrite(i) ==
    /\ At(i, "add_block", "write")
    /\ LET b == calls[i].block IN
         IF b \in stored THEN UNCHANGED <<stored, dbTxns, pending, head, keys>>
         ELSE /\ body[b].txns \subseteq pending \cup dbTxns
              /\ stored' = stored \cup {b}
              /\ dbTxns' = dbTxns \cup (body[b].txns \cap pending)
              /\ pending' = pending \ body[b].txns
              /\ head' = NewHead(head, b)
              /\ keys' = Walked(keys, head')
    /\ Return(i)
    /\ UNCHANGED <<body>>

\* The assertion that get_txn finds the others fails: the thread unwinds, the
\* overlay is lost, and what was already taken from pending_txns is gone.
AddBlockPanic(i) ==
    /\ At(i, "add_block", "write")
    /\ LET b == calls[i].block IN
         /\ b \notin stored
         /\ ~(body[b].txns \subseteq pending \cup dbTxns)
         /\ \E taken \in SUBSET (body[b].txns \cap pending) : pending' = pending \ taken
    /\ Return(i)
    /\ UNCHANGED <<body, stored, dbTxns, head, keys>>

CallAddPendingTxn(i, t) ==
    /\ calls[i] = Idle
    /\ calls' = [calls EXCEPT ![i] = [op |-> "add_pending_txn", at |-> "check", txn |-> t]]
    /\ UNCHANGED <<body, stored, dbTxns, head, keys, pending>>

\* Already pending or stored, under read locks.
AddPendingCheck(i) ==
    /\ At(i, "add_pending_txn", "check")
    /\ IF calls[i].txn \in pending \cup dbTxns THEN Return(i) ELSE GoOn(i, "write")
    /\ UNCHANGED <<body, stored, dbTxns, head, keys, pending>>

\* Faulty variant: the pool is not looked at again under the write lock.
AddPendingWrite_Unchecked(i) ==
    /\ At(i, "add_pending_txn", "write")
    /\ pending' = pending \cup {calls[i].txn}
    /\ Return(i)
    /\ UNCHANGED <<body, stored, dbTxns, head, keys>>

\* pending_txns is locked for writing: the memory limit, the database again, and
\* the rules with all that is pending.
AddPendingWrite(i) ==
    /\ At(i, "add_pending_txn", "write")
    /\ LET t == calls[i].txn IN
         pending' = IF /\ Cardinality(pending) < MaxPending
                       /\ t \notin dbTxns
                       /\ is_valid_txn(head, keys, pending, t)
                    THEN pending \cup {t} ELSE pending
    /\ Return(i)
    /\ UNCHANGED <<body, stored, dbTxns, head, keys>>

\* One block of a package, on the overlay that holds the ones before it: a known
\* block is skipped, one that is not valid fails the import, a valid one is
\* added with its transactions and the state walks to the head.
ImportOne(acc, b, txns) ==
    CASE ~acc.ok \/ b \in acc.stored -> acc
      [] OTHER ->
           [ok     |-> is_valid_block(acc.stored, acc.keys, b, txns \cup acc.dbTxns),
            stored |-> acc.stored \cup {b},
            dbTxns |-> acc.dbTxns \cup body[b].txns,
            head   |-> NewHead(acc.head, b),
            keys   |-> Walked(acc.keys, NewHead(acc.head, b))]

\* A transaction that was pending is judged in the new state, with those of the
\* others that were already found valid.
Rejudged(at, ks, kept, t) == IF is_valid_txn(at, ks, kept, t) THEN kept \cup {t} ELSE kept

\* Faulty variant: the old state decides.
Revalidated_OldHead(at, ks, order) ==
    LET kept[n \in 0..Len(order)] == IF n = 0 THEN {} ELSE Rejudged(head, keys, kept[n - 1], order[n])
    IN  kept[Len(order)]

\* Faulty variant: the pool still holds the transaction, which is then its own
\* duplicate.
Revalidated_NoSwap(at, ks, order) == pending \cap Stacking

\* pending_txns is emptied, and each that it held is judged once, in the order of
\* the hash map: a turn that comes up before the one it follows is dropped.
Revalidated(at, ks, order) ==
    LET kept[n \in 0..Len(order)] == IF n = 0 THEN {} ELSE Rejudged(at, ks, kept[n - 1], order[n])
    IN  kept[Len(order)]

\* The orders in which the hash map may give the transactions.
Orders(txns) ==
    LET places == 1..Cardinality(txns)
    IN  {f \in [places -> txns] : \A t \in txns : \E n \in places : f[n] = t}

\* The overlay after all the blocks of a package, which carries their transactions.
Imported(blocks) ==
    LET txns == UNION {body[blocks[k]].txns : k \in DOMAIN blocks}
        after[k \in 0..Len(blocks)] ==
           IF k = 0 THEN [ok |-> TRUE, stored |-> stored, dbTxns |-> dbTxns, head |-> head, keys |-> keys]
           ELSE ImportOne(after[k - 1], blocks[k], txns)
    IN after[Len(blocks)]

\* import_pkg, under both write locks from beginning to end.
import_pkg(i, blocks) ==
    /\ calls[i] = Idle
    /\ \A k \in DOMAIN blocks : blocks[k] # Genesis /\ body[blocks[k]] # None
    /\ LET new == Imported(blocks) IN
          /\ new.ok
          /\ stored' = new.stored
          /\ dbTxns' = new.dbTxns
          /\ head' = new.head
          /\ keys' = new.keys
          /\ \E order \in Orders(pending) : pending' = Revalidated(new.head, new.keys, order)
    /\ UNCHANGED <<body, calls>>

-----------------------------------------------------------------------------

Packages == UNION {[1..n -> Blocks \ {Genesis}] : n \in 1..MaxPkg}

Next ==
    \/ \E b, p \in Blocks, ts \in Elsewhere : Appear(b, p, ts)
    \/ \E i \in Threads :
         \/ \E b \in Blocks : create_block(i, b) \/ CallAddBlock(i, b)
         \/ AddBlockExists(i)
         \/ AddBlockValidate(i)
         \/ AddBlockWrite(i)
         \/ AddBlockPanic(i)
         \/ \E t \in Offered : CallAddPendingTxn(i, t)
         \/ AddPendingCheck(i)
         \/ AddPendingWrite(i)
         \/ \E blocks \in Packages : import_pkg(i, blocks)

Spec == Init /\ [][Next]_vars

-----------------------------------------------------------------------------
(* Properties *)

\* Whatever happens between the checks of add_block and its write, and however
\* blocks and transactions reach the node, the database can complete every
\* block it holds: get_block and blocks_between find all its transactions.
BlocksComplete == \A b \in stored : body[b].txns \subseteq dbTxns

\* Every branch that is stored, also the ones that are not the current chain, is
\* a history: no key registered and no turn played twice, not even by another
\* transaction, and no turn before the one it follows. add_block judged it by a
\* state that the database may have left since. Whoever created a transaction was
\* registered by a stored block, but it may be one of another branch, since a key
\* is not removed when its block is undone.
HistoryConsistent ==
    \A b \in stored \ {Genesis} :
       /\ body[b].prev \in stored
       /\ (body[b].txns \ Stacking) \cap Applied(body[b].prev) = {}
       /\ \A r \in Rivals : ~(r \subseteq Applied(b))
       /\ \A t \in body[b].txns :
             /\ Met(Follows[t], Applied(b))
             /\ Met(Creator[t], UNION {body[x].txns : x \in stored})

\* Two threads that add transactions at once never put two rivals into
\* pending_txns, since add_pending_txn judges the transaction again with all
\* that is pending when it holds the write lock.
PoolHasNoRivals == \A r \in Rivals : ~(r \subseteq pending)

\* is_valid_block accepts a block of the pool on the block at.
PoolValid(at, ks, pool) ==
    /\ \A t \in pool : TxnValid(StateAt(at, ks), t)
    /\ MutationValid(StateAt(at, ks), pool)

Imports == \E i \in Threads, blocks \in Packages : import_pkg(i, blocks)

\* After import_pkg all that is pending can go into the next block together,
\* whatever reorganisation the package caused and in whatever order the pool was
\* judged again. (It may hold transactions that the package brought too, if all
\* their changes stack: the next block then repeats them.)
ImportCleansPool == [][PoolValid(head', keys', pending') \/ ~Imports]_vars

\* A transaction leaves pending_txns for the database, or because it was not
\* valid at the head an import moved to, with those of the ones that stay that
\* had been judged before it; or a call that panics took it for its own block.
NoTxnLost ==
    [][\A t \in pending \ pending' :
          \/ t \in dbTxns'
          \/ Imports /\ \E kept \in SUBSET pending' : ~is_valid_txn(head', keys', kept, t)
          \/ \E i \in Threads : AddBlockPanic(i) /\ t \in body[calls[i].block].txns]_vars

=============================================================================
