------------------------ MODULE RecordKeeperProofs -------------------------
(* Proofs about RecordKeeper. *)
EXTENDS RecordKeeper, InductionFacts, FiniteSetTheorems

-----------------------------------------------------------------------------
(* The tree of blocks, with the body of each as a parameter *)

Bodies == [prev : Blocks \cup {None}, below : SUBSET Blocks, txns : SUBSET Txns]

\* The blocks that exist.
Made(bd) == {b \in Blocks : bd[b] # None}

\* Every block is made on one that exists, and is above all that one is above.
Trees ==
    {bd \in [Blocks -> {None} \cup Bodies] :
       /\ bd[Genesis] = [prev |-> None, below |-> {}, txns |-> {}]
       /\ \A b \in Made(bd) : bd[b].below \subseteq Made(bd)
       /\ \A b \in Made(bd) \ {Genesis} :
             bd[b].prev \in Made(bd) /\ bd[b].below = bd[bd[b].prev].below \cup {bd[b].prev}}

\* The transactions of some blocks.
TxnsOf(bd, bs) == UNION {bd[x].txns : x \in bs}

AppliedIn(bd, b) == TxnsOf(bd, bd[b].below \cup {b})

\* The parameter is the body of now, or of the next state.
LEMMA AppliedFacts ==
    /\ \A b : Applied(b) = AppliedIn(body, b)
    /\ \A b : Applied(b)' = AppliedIn(body', b')
  BY DEF Applied, Chain, AppliedIn, TxnsOf

\* Genesis is one of the blocks there are, and a body is not the absence of one.
LEMMA MadeFacts ==
    ASSUME NEW bd \in Trees
    PROVE  /\ Genesis \in Made(bd) /\ bd[Genesis].txns = {}
           /\ \A b \in Made(bd) : b \in Blocks /\ bd[b] \in Bodies
<1>1. /\ None \notin Bodies /\ [prev |-> None, below |-> {}, txns |-> {}] \in Bodies
      /\ Genesis \in Blocks
  BY KeeperAssumption DEF Bodies
<1>2. bd \in [Blocks -> {None} \cup Bodies] /\ bd[Genesis] = [prev |-> None, below |-> {}, txns |-> {}]
  BY DEF Trees
<1>3. bd[Genesis] # None /\ bd[Genesis].txns = {}
  BY <1>1, <1>2
<1> QED BY <1>1, <1>2, <1>3 DEF Made

\* The state at genesis.
LEMMA GenesisFacts ==
    ASSUME NEW bd \in Trees
    PROVE  AppliedIn(bd, Genesis) = {}
<1>1. bd[Genesis].below = {} /\ bd[Genesis].txns = {}
  BY DEF Trees
<1> QED BY <1>1 DEF AppliedIn, TxnsOf

\* The state at a block is the one at its prev with its own transactions.
LEMMA AppliedStep ==
    ASSUME NEW bd \in Trees, NEW b \in Made(bd) \ {Genesis}
    PROVE  AppliedIn(bd, b) = AppliedIn(bd, bd[b].prev) \cup bd[b].txns
<1>1. bd[b].below = bd[bd[b].prev].below \cup {bd[b].prev}
  BY DEF Trees
<1> QED BY <1>1 DEF AppliedIn, TxnsOf

\* A tree that grew: the blocks that were there are as they were.
Grown(bd, new) == \A b \in Made(bd) : new[b] = bd[b]

\* The state at a block does not change as the tree grows, so what a thread
\* learned about it stays true.
LEMMA AppliedStable ==
    ASSUME NEW bd \in Trees, NEW new \in Trees, Grown(bd, new), NEW b \in Made(bd)
    PROVE  AppliedIn(new, b) = AppliedIn(bd, b)
<1>1. bd[b].below \cup {b} \subseteq Made(bd)
  BY DEF Trees
<1>2. new[b] = bd[b] /\ \A x \in bd[b].below \cup {b} : new[x] = bd[x]
  BY <1>1 DEF Grown
<1> QED BY <1>2 DEF AppliedIn, TxnsOf

-----------------------------------------------------------------------------
(* The invariant *)

\* A block that the rules accept after the blocks that are known.
Accepted(bd, known, b) ==
    /\ bd[b].prev \in known
    /\ (bd[b].txns \ Stacking) \cap AppliedIn(bd, bd[b].prev) = {}
    /\ \A r \in Rivals : ~(r \subseteq AppliedIn(bd, b))
    /\ \A t \in bd[b].txns : Met(Follows[t], AppliedIn(bd, b)) /\ Met(Creator[t], TxnsOf(bd, known))

\* A database, or an overlay on it: every block it has is complete and accepted,
\* with all the blocks below it, and a block it has registered each of the keys.
Databases ==
    [stored : SUBSET Blocks, dbTxns : SUBSET Txns, head : Blocks, keys : SUBSET Txns]

Sound(bd, d) ==
    /\ Genesis \in d.stored /\ d.head \in d.stored
    /\ d.stored \subseteq Made(bd)
    /\ \A b \in d.stored : bd[b].txns \subseteq d.dbTxns /\ bd[b].below \subseteq d.stored
    /\ \A b \in d.stored \ {Genesis} : Accepted(bd, d.stored, b)
    /\ d.keys \subseteq TxnsOf(bd, d.stored) /\ d.keys \subseteq Registering

\* What a thread that is to write its block has learned, and still holds.
Learned(bd, known, c) ==
    c.op = "add_block" => /\ c.block \in Made(bd) \ {Genesis}
                          /\ c.at = "write" => Accepted(bd, known, c.block)

db == [stored |-> stored, dbTxns |-> dbTxns, head |-> head, keys |-> keys]

IInv ==
    /\ body \in Trees
    /\ db \in Databases /\ Sound(body, db)
    /\ pending \subseteq Txns /\ IsFiniteSet(pending) /\ PoolHasNoRivals
    /\ calls \in [Threads -> Calls]
    /\ \A i \in Threads : Learned(body, stored, calls[i])

\* More transactions meet what fewer do.
LEMMA MetMore ==
    ASSUME NEW alternatives, NEW ts, NEW more, ts \subseteq more, Met(alternatives, ts)
    PROVE  Met(alternatives, more)
  BY DEF Met

\* The transactions of blocks that were there, and of more.
LEMMA TxnsOfMore ==
    ASSUME NEW bd, NEW new, Grown(bd, new), NEW known, NEW more, known \subseteq more, known \subseteq Made(bd)
    PROVE  TxnsOf(bd, known) \subseteq TxnsOf(new, more)
<1>1. \A x \in known : x \in more /\ new[x] = bd[x]
  BY DEF Grown
<1> QED BY <1>1 DEF TxnsOf

\* A block is accepted as more blocks are known and more exist.
LEMMA AcceptedStable ==
    ASSUME NEW bd \in Trees, NEW new \in Trees, Grown(bd, new),
           NEW known, NEW more, known \subseteq more, known \subseteq Made(bd),
           NEW b \in Made(bd), Accepted(bd, known, b)
    PROVE  Accepted(new, more, b)
<1>1. new[b] = bd[b] /\ bd[b].prev \in Made(bd)
  BY DEF Grown, Accepted
<1>2. AppliedIn(new, b) = AppliedIn(bd, b) /\ AppliedIn(new, bd[b].prev) = AppliedIn(bd, bd[b].prev)
  BY <1>1, AppliedStable
<1>3. TxnsOf(bd, known) \subseteq TxnsOf(new, more)
  BY TxnsOfMore
<1>4. \A t \in bd[b].txns : Met(Creator[t], TxnsOf(new, more))
  BY <1>3, MetMore DEF Accepted
<1> QED BY <1>1, <1>2, <1>4 DEF Accepted

\* The blocks of a database are still sound as others are made.
LEMMA SoundStable ==
    ASSUME NEW bd \in Trees, NEW new \in Trees, Grown(bd, new), NEW d \in Databases, Sound(bd, d)
    PROVE  Sound(new, d)
<1>1. d.stored \subseteq Made(bd)
  BY DEF Sound
<1>2. Made(bd) \subseteq Made(new)
  BY DEF Made, Grown
<1>3. \A b \in d.stored : new[b] = bd[b]
  BY <1>1 DEF Grown
<1>4. ASSUME NEW b \in d.stored \ {Genesis} PROVE Accepted(new, d.stored, b)
  <2>1. b \in Made(bd) /\ Accepted(bd, d.stored, b)
    BY <1>1 DEF Sound
  <2> QED BY <1>1, <2>1, AcceptedStable
<1>5. TxnsOf(bd, d.stored) \subseteq TxnsOf(new, d.stored)
  BY <1>1, TxnsOfMore
<1> QED BY <1>1, <1>2, <1>3, <1>4, <1>5 DEF Sound

\* is_valid_block accepts. What is not stacking is not in the state, so rivals
\* that the block completes would be there already.
LEMMA ValidFacts ==
    ASSUME body \in Trees, NEW d \in Databases, Sound(body, d), NEW b \in Made(body) \ {Genesis},
           NEW available, is_valid_block(d.stored, d.keys, b, available)
    PROVE  Accepted(body, d.stored, b) /\ body[b].txns \subseteq available
<1> DEFINE p == body[b].prev
           ts == body[b].txns
           st == AppliedIn(body, p) \cup d.keys
<1>1. /\ p \in d.stored /\ ts \subseteq available
      /\ \A t \in ts : Met(Creator[t], st)
      /\ (ts \ Stacking) \cap st = {}
      /\ \A t \in ts : Met(Follows[t], st \cup ts)
      /\ \A r \in Rivals : r \subseteq st \cup ts => r \subseteq st
  BY AppliedFacts DEF is_valid_block, TxnValid, MutationValid, StateAt
<1>2. AppliedIn(body, b) = AppliedIn(body, p) \cup ts
  BY AppliedStep
<1>3. /\ p \in Made(body) /\ body[p].below \cup {p} \subseteq d.stored
      /\ d.keys \subseteq TxnsOf(body, d.stored) /\ d.keys \subseteq Registering
  BY <1>1 DEF Sound
<1>4. st \subseteq TxnsOf(body, d.stored)
  <2>1. AppliedIn(body, p) \subseteq TxnsOf(body, d.stored)
    BY <1>3 DEF AppliedIn, TxnsOf
  <2> QED BY <1>3, <2>1
<1>5. b \in Made(body) /\ ts \subseteq Txns
  BY MadeFacts DEF Bodies
<1> HIDE DEF p, ts
<1>6. ASSUME NEW t \in ts PROVE Met(Follows[t], AppliedIn(body, b))
  <2>1. Follows[t] \in SUBSET (Txns \ Registering)
    BY <1>5, KeeperAssumption
  <2>2. Met(Follows[t], AppliedIn(body, p) \cup d.keys \cup ts)
    BY <1>1
  <2> QED BY <1>2, <1>3, <2>1, <2>2 DEF Met
<1>7. \A t \in ts : Met(Creator[t], TxnsOf(body, d.stored))
  BY <1>1, <1>4, MetMore
<1>8. \A r \in Rivals : ~(r \subseteq AppliedIn(body, p))
  <2>1. CASE p = Genesis
    <3>1. AppliedIn(body, p) = {}
      BY <2>1, GenesisFacts
    <3>2. \A r \in Rivals : r # {}
      BY KeeperAssumption
    <3> QED BY <3>1, <3>2
  <2>2. CASE p # Genesis
    BY <1>1, <2>2 DEF Sound, Accepted
  <2> QED BY <2>1, <2>2
<1>9. ASSUME NEW r \in Rivals, r \subseteq AppliedIn(body, b) PROVE FALSE
  <2>1. r \subseteq st
    BY <1>1, <1>2, <1>9
  <2>2. PICK x \in r : x \notin AppliedIn(body, p)
    BY <1>8
  <2>3. x \in ts /\ x \notin Stacking
    BY <1>2, <1>9, <2>2, KeeperAssumption
  <2> QED BY <1>1, <2>1, <2>3
<1> QED BY <1>1, <1>2, <1>6, <1>7, <1>9 DEF Accepted, p, ts

\* The keys after a walk are those that were there and some of the chain.
LEMMA WalkedFacts ==
    ASSUME NEW d \in Databases, Sound(body, d), NEW b \in d.stored
    PROVE  Walked(d.keys, b) \subseteq TxnsOf(body, d.stored) /\ Walked(d.keys, b) \subseteq Registering
<1>1. body[b].below \cup {b} \subseteq d.stored
  BY DEF Sound
<1>2. Applied(b) \subseteq TxnsOf(body, d.stored)
  BY <1>1, AppliedFacts DEF AppliedIn, TxnsOf
<1> QED BY <1>2 DEF Walked, Sound

\* A database with one more block that is accepted and complete.
LEMMA StoreFacts ==
    ASSUME body \in Trees, NEW d \in Databases, Sound(body, d), NEW b \in Made(body) \ {Genesis},
           Accepted(body, d.stored, b), NEW ts \in SUBSET Txns, d.dbTxns \subseteq ts, body[b].txns \subseteq ts,
           NEW h \in {d.head, b}, NEW e,
           e = [stored |-> d.stored \cup {b}, dbTxns |-> ts, head |-> h, keys |-> Walked(d.keys, h)]
    PROVE  e \in Databases /\ Sound(body, e)
<1>1. b \in Blocks /\ Registering \subseteq Txns
  BY KeeperAssumption DEF Made
<1> DEFINE f == [stored |-> d.stored \cup {b}, dbTxns |-> ts, head |-> h, keys |-> d.keys]
<1>2. /\ d.stored \in SUBSET Blocks /\ d.head \in Blocks /\ d.keys \in SUBSET Txns
      /\ f.stored = d.stored \cup {b} /\ f.dbTxns = ts /\ f.head = h /\ f.keys = d.keys
  BY DEF Databases
<1>3. f \in Databases
  BY <1>1, <1>2 DEF Databases
<1>4. ASSUME NEW x \in f.stored \ {Genesis} PROVE Accepted(body, f.stored, x)
  <2>1. Accepted(body, d.stored, x) /\ x \in Made(body)
    BY <1>2 DEF Sound
  <2>2. Grown(body, body) /\ d.stored \subseteq f.stored /\ d.stored \subseteq Made(body)
    BY <1>2 DEF Grown, Sound
  <2> QED BY <2>1, <2>2, AcceptedStable
<1>5. /\ Genesis \in f.stored /\ f.head \in f.stored
      /\ f.stored \subseteq Made(body)
      /\ \A x \in f.stored : body[x].txns \subseteq f.dbTxns
  BY <1>2 DEF Sound
<1>6. \A x \in f.stored : body[x].below \subseteq f.stored
  <2>1. body[b].prev \in d.stored /\ body[b].below = body[body[b].prev].below \cup {body[b].prev}
    BY DEF Trees, Accepted
  <2> QED BY <1>2, <2>1 DEF Sound
<1>7. f.keys \subseteq TxnsOf(body, f.stored) /\ f.keys \subseteq Registering
  BY <1>2 DEF Sound, TxnsOf
<1> HIDE DEF f
<1>8. Sound(body, f)
  BY <1>4, <1>5, <1>6, <1>7 DEF Sound
<1>9. Walked(d.keys, h) \subseteq TxnsOf(body, f.stored) /\ Walked(d.keys, h) \subseteq Registering
  BY <1>2, <1>3, <1>5, <1>8, WalkedFacts
<1>10. e.stored = f.stored /\ e.dbTxns = f.dbTxns /\ e.head = f.head /\ e.keys = Walked(d.keys, h)
  BY <1>2
<1>11. e \in Databases
  BY <1>1, <1>2, <1>9 DEF Databases
<1> QED BY <1>8, <1>9, <1>10, <1>11 DEF Sound

-----------------------------------------------------------------------------
(* import_pkg *)

\* A package whose blocks all exist, none of them genesis.
Importable(blocks, n) ==
    /\ n \in Nat /\ blocks \in [1..n -> Blocks \ {Genesis}] /\ Len(blocks) = n
    /\ \A k \in 1..n : body[blocks[k]] # None

Overlays == [ok : BOOLEAN, stored : SUBSET Blocks, dbTxns : SUBSET Txns, head : Blocks, keys : SUBSET Txns]

\* The overlay as a database.
DbOf(acc) == [stored |-> acc.stored, dbTxns |-> acc.dbTxns, head |-> acc.head, keys |-> acc.keys]

\* While it is good, the overlay is a sound database that has what the one before
\* it had.
Good(acc) ==
    acc.ok => /\ Sound(body, DbOf(acc))
              /\ stored \subseteq acc.stored /\ dbTxns \subseteq acc.dbTxns

\* A block of a package keeps the overlay complete and consistent.
LEMMA ImportOneFacts ==
    ASSUME body \in Trees, NEW acc \in Overlays, NEW b \in Made(body) \ {Genesis}, NEW txns
    PROVE  ImportOne(acc, b, txns) \in Overlays
<1> DEFINE new == [ok     |-> is_valid_block(acc.stored, acc.keys, b, txns \cup acc.dbTxns),
                   stored |-> acc.stored \cup {b},
                   dbTxns |-> acc.dbTxns \cup body[b].txns,
                   head   |-> NewHead(acc.head, b),
                   keys   |-> Walked(acc.keys, NewHead(acc.head, b))]
<1>1. CASE ~acc.ok \/ b \in acc.stored
  BY <1>1 DEF ImportOne
<1>2. CASE ~(~acc.ok \/ b \in acc.stored)
  <2>1. ImportOne(acc, b, txns) = new
    BY <1>2 DEF ImportOne
  <2>2. b \in Blocks /\ body[b].txns \in SUBSET Txns
    BY MadeFacts DEF Bodies
  <2>3. is_valid_block(acc.stored, acc.keys, b, txns \cup acc.dbTxns) \in BOOLEAN
    BY DEF is_valid_block
  <2>4. NewHead(acc.head, b) \in Blocks
    BY <2>2 DEF NewHead, Overlays
  <2>5. Walked(acc.keys, NewHead(acc.head, b)) \in SUBSET Txns
    BY KeeperAssumption DEF Walked, Overlays
  <2> QED BY <2>1, <2>2, <2>3, <2>4, <2>5 DEF Overlays
<1> QED BY <1>1, <1>2

\* A block that is valid keeps the overlay good, whatever else the package has.
LEMMA ImportOneGood ==
    ASSUME body \in Trees, NEW acc \in Overlays, Good(acc), NEW b \in Made(body) \ {Genesis}, NEW txns
    PROVE  Good(ImportOne(acc, b, txns))
<1> DEFINE new == [ok     |-> is_valid_block(acc.stored, acc.keys, b, txns \cup acc.dbTxns),
                   stored |-> acc.stored \cup {b},
                   dbTxns |-> acc.dbTxns \cup body[b].txns,
                   head   |-> NewHead(acc.head, b),
                   keys   |-> Walked(acc.keys, NewHead(acc.head, b))]
<1>1. CASE ~acc.ok \/ b \in acc.stored
  BY <1>1 DEF ImportOne
<1>2. CASE ~(~acc.ok \/ b \in acc.stored)
  <2>1. ImportOne(acc, b, txns) = new
    BY <1>2 DEF ImportOne
  <2> SUFFICES ASSUME new.ok PROVE Good(new)
    BY <2>1 DEF Good
  <2>2. /\ DbOf(acc) \in Databases /\ Sound(body, DbOf(acc))
        /\ DbOf(acc).stored = acc.stored /\ DbOf(acc).dbTxns = acc.dbTxns /\ DbOf(acc).head = acc.head
        /\ DbOf(acc).keys = acc.keys
    BY <1>2 DEF Good, Databases, DbOf, Overlays
  <2>3. is_valid_block(acc.stored, acc.keys, b, txns \cup acc.dbTxns)
    OBVIOUS
  <2>4. Accepted(body, DbOf(acc).stored, b)
    BY <2>2, <2>3, ValidFacts
  <2>5. acc.dbTxns \cup body[b].txns \in SUBSET Txns
    BY MadeFacts DEF Bodies, Overlays
  <2>6. NewHead(acc.head, b) \in {acc.head, b}
    BY DEF NewHead
  <2>7. DbOf(new) = [stored |-> acc.stored \cup {b}, dbTxns |-> acc.dbTxns \cup body[b].txns,
                     head |-> NewHead(acc.head, b), keys |-> Walked(acc.keys, NewHead(acc.head, b))]
    BY DEF DbOf
  <2>8. stored \subseteq new.stored /\ dbTxns \subseteq new.dbTxns
    BY <1>2 DEF Good
  <2> HIDE DEF new
  <2>9. Sound(body, DbOf(new))
    BY <2>2, <2>4, <2>5, <2>6, <2>7, StoreFacts
  <2> QED BY <2>8, <2>9 DEF Good
<1> QED BY <1>1, <1>2

\* So the whole package does.
LEMMA ImportedFacts ==
    ASSUME IInv, NEW blocks, NEW n, Importable(blocks, n)
    PROVE  Imported(blocks) \in Overlays /\ Good(Imported(blocks))
<1> DEFINE txns == UNION {body[blocks[k]].txns : k \in DOMAIN blocks}
           old == [ok |-> TRUE, stored |-> stored, dbTxns |-> dbTxns, head |-> head, keys |-> keys]
           F == [k \in 1..n |-> [acc \in Overlays |-> ImportOne(acc, blocks[k], txns)]]
           after[k \in 0..Len(blocks)] ==
              IF k = 0 THEN [ok |-> TRUE, stored |-> stored, dbTxns |-> dbTxns, head |-> head, keys |-> keys]
              ELSE ImportOne(after[k - 1], blocks[k], txns)
<1>1. n \in Nat /\ Len(blocks) = n /\ \A k \in 1..n : blocks[k] \in Made(body) \ {Genesis}
  BY DEF Importable, Made
<1>2. old \in Overlays /\ Good(old)
  <2>1. DbOf(old) = db
    BY DEF DbOf, db
  <2>2. old \in Overlays
    BY DEF IInv, Databases, db, Overlays
  <2> QED BY <2>1, <2>2 DEF IInv, Good
<1>3. body \in Trees
  BY DEF IInv
<1>4. Imported(blocks) = after[Len(blocks)]
  BY Zenon DEF Imported
<1> HIDE DEF txns
<1>5. F \in [1..n -> [Overlays -> Overlays]]
  BY <1>1, <1>3, ImportOneFacts
<1>6. PICK f : IsRun(f, Overlays, old, F, n)
  BY <1>1, <1>2, <1>5, RunExists
<1>7. f \in [0..n -> Overlays] /\ f[0] = old /\ \A k \in 1..n : f[k] = F[k][f[k - 1]]
  BY <1>6 DEF IsRun
<1> HIDE DEF old
<1>8. \A k \in 1..n : f[k] = ImportOne(f[k - 1], blocks[k], txns)
  <2> SUFFICES ASSUME NEW k \in 1..n PROVE f[k] = ImportOne(f[k - 1], blocks[k], txns)
    OBVIOUS
  <2>1. k - 1 \in 0..n
    BY <1>1
  <2>2. f[k - 1] \in Overlays
    BY <1>7, <2>1
  <2> QED BY <1>7, <2>2
<1>9. f = [k \in 0..n |-> IF k = 0 THEN old ELSE ImportOne(f[k - 1], blocks[k], txns)]
  BY <1>1, <1>7, <1>8
<1>10. f = [k \in 0..Len(blocks) |-> IF k = 0 THEN old ELSE ImportOne(f[k - 1], blocks[k], txns)]
  BY <1>1, <1>9
<1>11. after = [k \in 0..Len(blocks) |-> IF k = 0 THEN old ELSE ImportOne(after[k - 1], blocks[k], txns)]
  BY <1>10, Zenon DEF old
<1> HIDE DEF after, F
<1> DEFINE T == {k \in Nat : k <= n => after[k] \in Overlays /\ Good(after[k])}
<1>12. 0 \in T
  <2>1. after[0] = old
    BY <1>1, <1>11
  <2> QED BY <1>2, <2>1
<1>13. ASSUME NEW k \in Nat, k \in T PROVE k + 1 \in T
  <2> SUFFICES ASSUME k + 1 <= n PROVE after[k + 1] \in Overlays /\ Good(after[k + 1])
    OBVIOUS
  <2>1. k + 1 \in 0..Len(blocks) /\ k + 1 # 0 /\ (k + 1) - 1 = k /\ k + 1 \in 1..n
    BY <1>1
  <2>2. after[k + 1] = ImportOne(after[k], blocks[k + 1], txns)
    BY <1>11, <2>1
  <2>3. after[k] \in Overlays /\ Good(after[k])
    BY <1>1, <1>13
  <2>4. blocks[k + 1] \in Made(body) \ {Genesis}
    BY <1>1, <2>1
  <2> QED BY <1>3, <2>2, <2>3, <2>4, ImportOneFacts, ImportOneGood
<1> HIDE DEF T
<1>14. n \in T
  BY <1>1, <1>12, <1>13, SetInduction
<1> QED BY <1>1, <1>4, <1>14 DEF T

-----------------------------------------------------------------------------
(* The steps *)

\* A block that is made on one that exists.
LEMMA MakeFacts ==
    ASSUME body \in Trees, NEW b \in Blocks, body[b] = None, NEW p \in Made(body), NEW ts \in SUBSET Txns,
           body' = [body EXCEPT ![b] = NewBlock(p, ts)]
    PROVE  body' \in Trees /\ Grown(body, body') /\ b \in Made(body') \ {Genesis}
<1>1. /\ body \in [Blocks -> {None} \cup Bodies] /\ Genesis \in Made(body)
      /\ None \notin Bodies /\ p \in Blocks /\ body[p].below \subseteq Made(body)
  BY MadeFacts, KeeperAssumption DEF Trees, Bodies, Made
<1> DEFINE new == NewBlock(p, ts)
<1>2. new \in Bodies /\ new # None /\ new.prev = p /\ new.below = body[p].below \cup {p}
  <2>1. new = [prev |-> p, below |-> body[p].below \cup {p}, txns |-> ts]
    BY DEF NewBlock, Chain
  <2>2. new \in Bodies
    BY <1>1, <2>1 DEF Bodies, Made
  <2> QED BY <1>1, <2>1, <2>2
<1>3. body' = [body EXCEPT ![b] = new]
  OBVIOUS
<1> HIDE DEF new
<1>4. body' \in [Blocks -> {None} \cup Bodies] /\ body'[b] = new /\ \A x \in Blocks \ {b} : body'[x] = body[x]
  BY <1>1, <1>2, <1>3
<1>5. b \notin Made(body) /\ b # Genesis
  BY <1>1 DEF Made
<1>6. Grown(body, body')
  BY <1>4, <1>5 DEF Grown, Made
<1>7. Made(body') = Made(body) \cup {b}
  BY <1>2, <1>4 DEF Made
<1>8. ASSUME NEW x \in Made(body')
      PROVE  /\ body'[x].below \subseteq Made(body')
             /\ x # Genesis => /\ body'[x].prev \in Made(body')
                               /\ body'[x].below = body'[body'[x].prev].below \cup {body'[x].prev}
  <2>1. CASE x = b
    <3>1. body'[p] = body[p]
      BY <1>6 DEF Grown
    <3> QED BY <1>1, <1>2, <1>4, <1>7, <2>1, <3>1
  <2>2. CASE x # b
    <3>1. x \in Made(body) /\ body'[x] = body[x]
      BY <1>4, <1>7, <2>2 DEF Made
    <3>2. body[x].below \subseteq Made(body)
      BY <3>1 DEF Trees
    <3>3. ASSUME x # Genesis
          PROVE  body[x].prev \in Made(body) /\ body[x].below = body[body[x].prev].below \cup {body[x].prev}
      BY <3>1, <3>3 DEF Trees
    <3>4. x # Genesis => body'[body[x].prev] = body[body[x].prev]
      BY <1>6, <3>3 DEF Grown
    <3> QED BY <1>7, <3>1, <3>2, <3>3, <3>4
  <2> QED BY <2>1, <2>2
<1>9. body'[Genesis] = [prev |-> None, below |-> {}, txns |-> {}]
  BY <1>1, <1>4, <1>5 DEF Trees, Made
<1>10. body' \in Trees
  BY <1>4, <1>8, <1>9 DEF Trees
<1> QED BY <1>5, <1>6, <1>7, <1>10

\* What threads learned holds in a tree that grew and with more that is stored.
LEMMA LearnedStable ==
    ASSUME NEW bd \in Trees, NEW new \in Trees, Grown(bd, new),
           NEW known, NEW more, known \subseteq more, known \subseteq Made(bd),
           NEW c, Learned(bd, known, c)
    PROVE  Learned(new, more, c)
<1>1. Made(bd) \subseteq Made(new)
  BY DEF Made, Grown
<1>2. ASSUME c.op = "add_block", c.at = "write" PROVE Accepted(new, more, c.block)
  BY <1>2, AcceptedStable DEF Learned
<1> QED BY <1>1, <1>2 DEF Learned

\* The block of a call exists, and is not genesis.
LEMMA CallFacts ==
    ASSUME IInv, NEW i \in Threads
    PROVE  /\ calls[i].op = "add_block" => calls[i].block \in Made(body) \ {Genesis}
           /\ calls[i].op = "add_pending_txn" => calls[i].txn \in Txns
<1>1. calls[i] \in Calls /\ Learned(body, stored, calls[i])
  BY DEF IInv
<1>2. CASE calls[i] = Idle
  BY <1>2 DEF Idle
<1>3. CASE calls[i] \in [op : {"add_block"}, at : {"exists", "validate", "write"}, block : Blocks]
  BY <1>1, <1>3 DEF Learned
<1>4. CASE calls[i] \in [op : {"add_pending_txn"}, at : {"check", "write"}, txn : Txns]
  BY <1>4
<1> QED BY <1>1, <1>2, <1>3, <1>4 DEF Calls

\* The call of a thread is replaced by another that knows what it should.
LEMMA CallsStep ==
    ASSUME calls \in [Threads -> Calls], NEW i \in Threads, NEW c \in Calls,
           calls' = [calls EXCEPT ![i] = c], Learned(body', stored', c),
           \A j \in Threads : Learned(body', stored', calls[j])
    PROVE  calls' \in [Threads -> Calls] /\ \A j \in Threads : Learned(body', stored', calls'[j])
<1>1. calls' \in [Threads -> Calls] /\ calls'[i] = c /\ \A j \in Threads \ {i} : calls'[j] = calls[j]
  OBVIOUS
<1> QED BY <1>1

\* To return, a thread need know nothing.
LEMMA ReturnFacts ==
    ASSUME NEW bd, NEW known
    PROVE  Idle \in Calls /\ Learned(bd, known, Idle)
  BY DEF Idle, Calls, Learned

\* A block that somebody makes elsewhere.
LEMMA AppearStep ==
    ASSUME IInv, NEW b \in Blocks, NEW p \in Blocks, NEW ts \in SUBSET Txns, Appear(b, p, ts)
    PROVE  IInv'
<1>1. body' \in Trees /\ Grown(body, body')
  BY MakeFacts DEF Appear, IInv, Made
<1>2. db' = db /\ UNCHANGED <<stored, pending, calls>> /\ stored \subseteq Made(body)
  BY DEF Appear, db, IInv, Sound
<1>3. Sound(body', db)
  BY <1>1, SoundStable DEF IInv
<1>4. \A i \in Threads : Learned(body', stored, calls[i])
  BY <1>1, <1>2, LearnedStable DEF IInv
<1> QED BY <1>1, <1>2, <1>3, <1>4 DEF IInv, PoolHasNoRivals

\* A block made of the pool.
LEMMA CreateBlockStep ==
    ASSUME IInv, NEW i \in Threads, NEW b \in Blocks, create_block(i, b)
    PROVE  IInv'
<1>1. head \in Made(body) /\ stored \subseteq Made(body)
  BY DEF IInv, Sound, db
<1>2. body' \in Trees /\ Grown(body, body') /\ b \in Made(body') \ {Genesis}
  BY <1>1, MakeFacts DEF create_block, IInv
<1>3. db' = db /\ UNCHANGED <<stored, pending>>
  BY DEF create_block, db
<1>4. Sound(body', db)
  BY <1>2, SoundStable DEF IInv
<1>5. \A j \in Threads : Learned(body', stored', calls[j])
  BY <1>1, <1>2, <1>3, LearnedStable DEF IInv
<1> DEFINE c == [op |-> "add_block", at |-> "exists", block |-> b]
<1>6. c \in Calls /\ Learned(body', stored', c)
  BY <1>2 DEF Calls, Learned
<1>7. calls' \in [Threads -> Calls] /\ \A j \in Threads : Learned(body', stored', calls'[j])
  BY <1>5, <1>6, CallsStep DEF create_block, IInv
<1> QED BY <1>2, <1>3, <1>4, <1>7 DEF IInv, PoolHasNoRivals

\* A step that changes only what its thread is doing.
LEMMA QuietStep ==
    ASSUME IInv, NEW i \in Threads, NEW c \in Calls, calls' = [calls EXCEPT ![i] = c],
           Learned(body, stored, c), UNCHANGED <<body, stored, dbTxns, head, keys, pending>>
    PROVE  IInv'
<1>1. db' = db
  BY DEF db
<1>2. \A j \in Threads : Learned(body', stored', calls[j])
  BY DEF IInv
<1>3. calls' \in [Threads -> Calls] /\ \A j \in Threads : Learned(body', stored', calls'[j])
  BY <1>2, CallsStep DEF IInv
<1> QED BY <1>1, <1>3 DEF IInv, PoolHasNoRivals

\* A thread goes on to its next step with the block, or the transaction, it has.
LEMMA GoOnFacts ==
    ASSUME IInv, NEW i \in Threads, NEW at
    PROVE  /\ calls[i].op = "add_block" => [calls EXCEPT ![i].at = at] =
                 [calls EXCEPT ![i] = [op |-> "add_block", at |-> at, block |-> calls[i].block]]
           /\ calls[i].op = "add_pending_txn" => [calls EXCEPT ![i].at = at] =
                 [calls EXCEPT ![i] = [op |-> "add_pending_txn", at |-> at, txn |-> calls[i].txn]]
<1>1. [calls EXCEPT ![i].at = at] = [calls EXCEPT ![i] = [calls[i] EXCEPT !.at = at]]
  OBVIOUS
<1>2. calls[i] \in Calls
  BY DEF IInv
<1>3. CASE calls[i] = Idle
  BY <1>3 DEF Idle
<1>4. CASE calls[i] \in [op : {"add_block"}, at : {"exists", "validate", "write"}, block : Blocks]
  <2>1. [calls[i] EXCEPT !.at = at] = [op |-> "add_block", at |-> at, block |-> calls[i].block]
    BY <1>4
  <2> QED BY <1>1, <1>4, <2>1
<1>5. CASE calls[i] \in [op : {"add_pending_txn"}, at : {"check", "write"}, txn : Txns]
  <2>1. [calls[i] EXCEPT !.at = at] = [op |-> "add_pending_txn", at |-> at, txn |-> calls[i].txn]
    BY <1>5
  <2> QED BY <1>1, <1>5, <2>1
<1> QED BY <1>2, <1>3, <1>4, <1>5 DEF Calls

\* add_block is called.
LEMMA CallAddBlockStep ==
    ASSUME IInv, NEW i \in Threads, NEW b \in Blocks, CallAddBlock(i, b)
    PROVE  IInv'
<1> DEFINE c == [op |-> "add_block", at |-> "exists", block |-> b]
<1>1. c \in Calls /\ Learned(body, stored, c)
  BY DEF Calls, Learned, CallAddBlock, Made
<1> QED BY <1>1, QuietStep DEF CallAddBlock

\* add_block meets a block that is stored.
LEMMA AddBlockExistsStep ==
    ASSUME IInv, NEW i \in Threads, AddBlockExists(i)
    PROVE  IInv'
<1>1. calls[i].block \in Made(body) \ {Genesis} /\ calls[i].block \in Blocks
  BY CallFacts DEF AddBlockExists, At, Made
<1> DEFINE c == [op |-> "add_block", at |-> "validate", block |-> calls[i].block]
<1>2. c \in Calls /\ Learned(body, stored, c)
  BY <1>1 DEF Calls, Learned
<1>3. [calls EXCEPT ![i].at = "validate"] = [calls EXCEPT ![i] = c]
  BY GoOnFacts DEF AddBlockExists, At
<1> QED BY <1>2, <1>3, QuietStep, ReturnFacts DEF AddBlockExists, Return, GoOn

\* The rules accept the block in the state at its prev, which is stored.
LEMMA AddBlockValidateStep ==
    ASSUME IInv, NEW i \in Threads, AddBlockValidate(i)
    PROVE  IInv'
<1> DEFINE b == calls[i].block
           c == [op |-> "add_block", at |-> "write", block |-> b]
<1>1. b \in Made(body) \ {Genesis} /\ b \in Blocks
  BY CallFacts DEF AddBlockValidate, At, Made
<1>2. [calls EXCEPT ![i].at = "write"] = [calls EXCEPT ![i] = c] /\ c \in Calls
  <2>1. [calls EXCEPT ![i].at = "write"] = [calls EXCEPT ![i] = c]
    BY GoOnFacts DEF AddBlockValidate, At
  <2> QED BY <1>1, <2>1 DEF Calls
<1>3. CASE is_valid_block(stored, keys, b, pending \cup dbTxns) /\ GoOn(i, "write")
  <2>1. db \in Databases /\ Sound(body, db) /\ db.stored = stored /\ db.keys = keys
    BY DEF IInv, db
  <2>2. Accepted(body, stored, b)
    BY <1>1, <1>3, <2>1, ValidFacts DEF IInv
  <2>3. Learned(body, stored, c)
    BY <1>1, <2>2 DEF Learned
  <2> QED BY <1>2, <1>3, <2>3, QuietStep DEF AddBlockValidate, GoOn
<1>4. CASE Return(i)
  BY <1>4, QuietStep, ReturnFacts DEF AddBlockValidate, Return
<1> QED BY <1>3, <1>4 DEF AddBlockValidate

\* The block was accepted in an earlier state, and is still.
LEMMA AddBlockWriteStep ==
    ASSUME IInv, NEW i \in Threads, AddBlockWrite(i)
    PROVE  IInv'
<1> DEFINE b == calls[i].block
<1>1. b \in Made(body) \ {Genesis} /\ Accepted(body, stored, b) /\ Return(i) /\ UNCHANGED body
  BY CallFacts DEF AddBlockWrite, At, IInv, Learned
<1>2. CASE UNCHANGED <<stored, dbTxns, pending, head, keys>>
  BY <1>1, <1>2, QuietStep, ReturnFacts DEF Return
<1>3. CASE /\ body[b].txns \subseteq pending \cup dbTxns
           /\ stored' = stored \cup {b}
           /\ dbTxns' = dbTxns \cup (body[b].txns \cap pending)
           /\ pending' = pending \ body[b].txns
           /\ head' = NewHead(head, b)
           /\ keys' = Walked(keys, head')
  <2>1. /\ db \in Databases /\ Sound(body, db) /\ body \in Trees
        /\ db.stored = stored /\ db.dbTxns = dbTxns /\ db.head = head /\ db.keys = keys
    BY DEF IInv, db
  <2>2. dbTxns' \in SUBSET Txns /\ dbTxns \subseteq dbTxns' /\ body[b].txns \subseteq dbTxns'
    BY <1>3, <2>1 DEF IInv, Databases
  <2>3. head' \in {head, b}
    BY <1>3 DEF NewHead
  <2>4. db' = [stored |-> stored \cup {b}, dbTxns |-> dbTxns', head |-> head', keys |-> Walked(keys, head')]
    BY <1>3 DEF db
  <2> HIDE DEF b
  <2>5. db' \in Databases /\ Sound(body, db')
    BY <1>1, <2>1, <2>2, <2>3, <2>4, StoreFacts
  <2>6. Grown(body, body) /\ stored \subseteq stored' /\ stored \subseteq Made(body)
    BY <1>3, <2>1 DEF Grown, Sound
  <2>7. \A j \in Threads : Learned(body', stored', calls[j])
    BY <1>1, <2>1, <2>6, LearnedStable DEF IInv
  <2>8. calls' \in [Threads -> Calls] /\ \A j \in Threads : Learned(body', stored', calls'[j])
    BY <1>1, <2>7, CallsStep, ReturnFacts DEF IInv, Return
  <2>9. pending' \subseteq Txns /\ IsFiniteSet(pending') /\ PoolHasNoRivals'
    <3>1. pending' \subseteq pending
      BY <1>3
    <3> QED BY <3>1, FS_Subset DEF IInv, PoolHasNoRivals
  <2> QED BY <1>1, <2>1, <2>5, <2>8, <2>9 DEF IInv
<1> QED BY <1>2, <1>3 DEF AddBlockWrite

\* A step that changes only the pool, and returns.
LEMMA PoolStep ==
    ASSUME IInv, NEW i \in Threads, Return(i), UNCHANGED <<body, stored, dbTxns, head, keys>>,
           pending' \subseteq Txns, IsFiniteSet(pending'), PoolHasNoRivals'
    PROVE  IInv'
<1>1. db' = db
  BY DEF db
<1>2. \A j \in Threads : Learned(body', stored', calls[j])
  BY DEF IInv
<1>3. calls' \in [Threads -> Calls] /\ \A j \in Threads : Learned(body', stored', calls'[j])
  BY <1>2, CallsStep, ReturnFacts DEF IInv, Return
<1> QED BY <1>1, <1>3 DEF IInv

\* add_block meets its assertion.
LEMMA AddBlockPanicStep ==
    ASSUME IInv, NEW i \in Threads, AddBlockPanic(i)
    PROVE  IInv'
<1>1. pending' \subseteq pending
  BY DEF AddBlockPanic
<1>2. IsFiniteSet(pending')
  BY <1>1, FS_Subset DEF IInv
<1> QED BY <1>1, <1>2, PoolStep DEF AddBlockPanic, IInv, PoolHasNoRivals

\* add_pending_txn is called.
LEMMA CallAddPendingTxnStep ==
    ASSUME IInv, NEW i \in Threads, NEW t \in Txns, CallAddPendingTxn(i, t)
    PROVE  IInv'
<1> DEFINE c == [op |-> "add_pending_txn", at |-> "check", txn |-> t]
<1>1. c \in Calls /\ Learned(body, stored, c)
  BY DEF Calls, Learned
<1> QED BY <1>1, QuietStep DEF CallAddPendingTxn

\* add_pending_txn validates the first time.
LEMMA AddPendingCheckStep ==
    ASSUME IInv, NEW i \in Threads, AddPendingCheck(i)
    PROVE  IInv'
<1>1. calls[i].txn \in Txns
  BY CallFacts DEF AddPendingCheck, At
<1> DEFINE c == [op |-> "add_pending_txn", at |-> "write", txn |-> calls[i].txn]
<1>2. c \in Calls /\ Learned(body, stored, c)
  BY <1>1 DEF Calls, Learned
<1>3. [calls EXCEPT ![i].at = "write"] = [calls EXCEPT ![i] = c]
  BY GoOnFacts DEF AddPendingCheck, At
<1> QED BY <1>2, <1>3, QuietStep, ReturnFacts DEF AddPendingCheck, Return, GoOn

\* Rivals that were all in the pool would be in the state, where none of the pool
\* is unless it stacks.
LEMMA AddPendingWriteStep ==
    ASSUME IInv, NEW i \in Threads, AddPendingWrite(i)
    PROVE  IInv'
<1> DEFINE t == calls[i].txn
<1>1. t \in Txns
  BY CallFacts DEF AddPendingWrite, At
<1>2. CASE pending' = pending
  BY <1>2, PoolStep DEF AddPendingWrite, IInv, PoolHasNoRivals
<1>3. CASE is_valid_txn(head, keys, pending, t) /\ pending' = pending \cup {t}
  <2>1. /\ ((pending \cup {t}) \ Stacking) \cap StateAt(head, keys) = {}
        /\ \A r \in Rivals : r \subseteq StateAt(head, keys) \cup (pending \cup {t}) => r \subseteq StateAt(head, keys)
    BY <1>3 DEF is_valid_txn, MutationValid
  <2>2. \A r \in Rivals : r # {} /\ r \cap Stacking = {}
    BY KeeperAssumption
  <2>3. ASSUME NEW r \in Rivals, r \subseteq pending \cup {t} PROVE FALSE
    BY <2>1, <2>2, <2>3
  <2>4. PoolHasNoRivals'
    BY <1>3, <2>3 DEF PoolHasNoRivals
  <2>5. pending' \subseteq Txns /\ IsFiniteSet(pending')
    BY <1>1, <1>3, FS_AddElement DEF IInv
  <2> QED BY <2>4, <2>5, PoolStep DEF AddPendingWrite
<1> QED BY <1>2, <1>3 DEF AddPendingWrite

\* What judging a pool again keeps: a set that is valid together, and of what it
\* drops, each was not valid with some of what it keeps.
Kept(at, ks, order, m, kept) ==
    /\ kept \subseteq {order[k] : k \in 1..m}
    /\ PoolValid(at, ks, kept)
    /\ \A k \in 1..m : order[k] \notin kept => \E part \in SUBSET kept : ~is_valid_txn(at, ks, part, order[k])

\* One more transaction is judged.
LEMMA RejudgedFacts ==
    ASSUME NEW at, NEW ks, NEW order, NEW m \in Nat, NEW kept, Kept(at, ks, order, m, kept)
    PROVE  Kept(at, ks, order, m + 1, Rejudged(at, ks, kept, order[m + 1]))
<1> DEFINE t == order[m + 1]
<1>1. m + 1 \in 1..m + 1 /\ \A k \in 1..m + 1 : k \in 1..m \/ k = m + 1
  OBVIOUS
<1>2. 1..m \subseteq 1..m + 1
  OBVIOUS
<1>3. CASE is_valid_txn(at, ks, kept, t)
  <2>1. Rejudged(at, ks, kept, t) = kept \cup {t}
    BY <1>3 DEF Rejudged
  <2>2. PoolValid(at, ks, kept \cup {t})
    BY <1>3 DEF Kept, PoolValid, is_valid_txn
  <2>3. kept \cup {t} \subseteq {order[k] : k \in 1..m + 1}
    BY <1>1, <1>2 DEF Kept
  <2>4. ASSUME NEW k \in 1..m + 1, order[k] \notin kept \cup {t}
        PROVE  \E part \in SUBSET (kept \cup {t}) : ~is_valid_txn(at, ks, part, order[k])
    <3>1. k \in 1..m
      BY <1>1, <2>4
    <3>2. PICK part \in SUBSET kept : ~is_valid_txn(at, ks, part, order[k])
      BY <2>4, <3>1 DEF Kept
    <3> QED BY <3>2
  <2> QED BY <2>1, <2>2, <2>3, <2>4 DEF Kept
<1>4. CASE ~is_valid_txn(at, ks, kept, t)
  <2>1. Rejudged(at, ks, kept, t) = kept
    BY <1>4 DEF Rejudged
  <2>2. kept \subseteq {order[k] : k \in 1..m + 1}
    BY <1>2 DEF Kept
  <2>3. ASSUME NEW k \in 1..m + 1, order[k] \notin kept
        PROVE  \E part \in SUBSET kept : ~is_valid_txn(at, ks, part, order[k])
    BY <1>1, <1>4, <2>3 DEF Kept
  <2> QED BY <2>1, <2>2, <2>3 DEF Kept
<1> QED BY <1>3, <1>4

\* Nothing is pending, and nothing is judged yet.
LEMMA NoneKept ==
    ASSUME NEW at, NEW ks, NEW order
    PROVE  Kept(at, ks, order, 0, {})
<1>1. PoolValid(at, ks, {})
  <2>1. ASSUME NEW r \in Rivals, r \subseteq StateAt(at, ks) \cup {} PROVE r \subseteq StateAt(at, ks)
    BY <2>1
  <2> QED BY <2>1 DEF PoolValid, MutationValid
<1> QED BY <1>1 DEF Kept

\* The pool after a whole order.
LEMMA RevalidatedFacts ==
    ASSUME NEW at, NEW ks, NEW n \in Nat, NEW order \in [1..n -> Txns]
    PROVE  Kept(at, ks, order, n, Revalidated(at, ks, order))
<1> DEFINE F == [k \in 1..n |-> [kept \in SUBSET Txns |-> Rejudged(at, ks, kept, order[k])]]
           kept[k \in 0..Len(order)] == IF k = 0 THEN {} ELSE Rejudged(at, ks, kept[k - 1], order[k])
<1>1. Len(order) = n
  OBVIOUS
<1>2. Revalidated(at, ks, order) = kept[Len(order)]
  BY Zenon DEF Revalidated
<1>3. F \in [1..n -> [SUBSET Txns -> SUBSET Txns]]
  BY DEF Rejudged
<1>4. PICK f : IsRun(f, SUBSET Txns, {}, F, n)
  <2>1. {} \in SUBSET Txns
    OBVIOUS
  <2> HIDE DEF F
  <2> QED BY <1>3, <2>1, RunExists
<1>5. f \in [0..n -> SUBSET Txns] /\ f[0] = {} /\ \A k \in 1..n : f[k] = F[k][f[k - 1]]
  BY <1>4 DEF IsRun
<1>6. \A k \in 1..n : f[k] = Rejudged(at, ks, f[k - 1], order[k])
  <2> SUFFICES ASSUME NEW k \in 1..n PROVE f[k] = Rejudged(at, ks, f[k - 1], order[k])
    OBVIOUS
  <2>1. k - 1 \in 0..n
    OBVIOUS
  <2>2. f[k - 1] \in SUBSET Txns
    BY <1>5, <2>1
  <2> QED BY <1>5, <2>2
<1>7. f = [k \in 0..n |-> IF k = 0 THEN {} ELSE Rejudged(at, ks, f[k - 1], order[k])]
  BY <1>5, <1>6
<1>8. f = [k \in 0..Len(order) |-> IF k = 0 THEN {} ELSE Rejudged(at, ks, f[k - 1], order[k])]
  BY <1>1, <1>7
<1>9. kept = [k \in 0..Len(order) |-> IF k = 0 THEN {} ELSE Rejudged(at, ks, kept[k - 1], order[k])]
  BY <1>8, Zenon
<1> HIDE DEF kept, F
<1> DEFINE T == {k \in Nat : k <= n => Kept(at, ks, order, k, kept[k])}
<1>10. 0 \in T
  <2>1. kept[0] = {}
    BY <1>1, <1>9
  <2> QED BY <2>1, NoneKept
<1>11. ASSUME NEW k \in Nat, k \in T PROVE k + 1 \in T
  <2> SUFFICES ASSUME k + 1 <= n PROVE Kept(at, ks, order, k + 1, kept[k + 1])
    OBVIOUS
  <2>1. k + 1 \in 0..Len(order) /\ k + 1 # 0 /\ (k + 1) - 1 = k
    BY <1>1
  <2>2. kept[k + 1] = Rejudged(at, ks, kept[k], order[k + 1])
    BY <1>9, <2>1
  <2>3. Kept(at, ks, order, k, kept[k])
    BY <1>11
  <2> QED BY <2>2, <2>3, RejudgedFacts
<1> HIDE DEF T
<1>12. n \in T
  BY <1>10, <1>11, SetInduction
<1> QED BY <1>1, <1>2, <1>12 DEF T

\* import_pkg leaves a pool that is valid at the new head, and drops what was not.
LEMMA ImportPool ==
    ASSUME IInv, NEW i \in Threads, NEW blocks \in Packages, import_pkg(i, blocks)
    PROVE  /\ pending' \subseteq pending
           /\ PoolValid(head', keys', pending')
           /\ \A t \in pending \ pending' : \E kept \in SUBSET pending' : ~is_valid_txn(head', keys', kept, t)
<1> DEFINE n == Cardinality(pending)
<1>1. PICK order \in Orders(pending) : pending' = Revalidated(head', keys', order)
  BY DEF import_pkg
<1>2. UNCHANGED body
  BY DEF import_pkg
<1>3. n \in Nat /\ order \in [1..n -> pending] /\ \A t \in pending : \E k \in 1..n : order[k] = t
  BY <1>1, FS_CardinalityType DEF Orders, IInv
<1>4. order \in [1..n -> Txns]
  BY <1>3 DEF IInv
<1> HIDE DEF n
<1>5. Kept(head', keys', order, n, pending')
  BY <1>1, <1>3, <1>4, RevalidatedFacts
<1> QED BY <1>3, <1>5 DEF Kept

\* import_pkg holds its locks throughout.
LEMMA ImportStep ==
    ASSUME IInv, NEW i \in Threads, NEW blocks \in Packages, import_pkg(i, blocks)
    PROVE  IInv'
<1> DEFINE new == Imported(blocks)
<1>1. PICK n \in 1..MaxPkg : blocks \in [1..n -> Blocks \ {Genesis}]
  BY DEF Packages
<1>2. /\ new.ok /\ stored' = new.stored /\ dbTxns' = new.dbTxns /\ head' = new.head
      /\ keys' = new.keys
      /\ UNCHANGED <<body, calls>>
      /\ \A k \in DOMAIN blocks : body[blocks[k]] # None
  BY DEF import_pkg
<1>3. MaxPkg \in Nat
  BY KeeperAssumption
<1>4. Importable(blocks, n)
  BY <1>1, <1>2, <1>3 DEF Importable
<1>5. new \in Overlays /\ Good(new)
  BY <1>4, ImportedFacts
<1> HIDE DEF new
<1>6. Sound(body, DbOf(new)) /\ stored \subseteq stored'
  BY <1>2, <1>5 DEF Good
<1>7. db' = DbOf(new) /\ DbOf(new) \in Databases
  BY <1>2, <1>5 DEF db, DbOf, Overlays, Databases
<1>8. body \in Trees /\ Grown(body, body) /\ stored \subseteq Made(body)
  BY DEF IInv, Grown, Sound, db
<1>9. \A j \in Threads : Learned(body, stored', calls[j])
  BY <1>6, <1>8, LearnedStable DEF IInv
<1>10. pending' \subseteq pending
  BY ImportPool
<1>11. pending' \subseteq Txns /\ IsFiniteSet(pending') /\ PoolHasNoRivals'
  BY <1>10, FS_Subset DEF IInv, PoolHasNoRivals
<1> QED BY <1>2, <1>6, <1>7, <1>9, <1>11 DEF IInv

-----------------------------------------------------------------------------
(* The theorems *)

\* The invariant holds at the start.
LEMMA Initially == Init => IInv
<1> SUFFICES ASSUME Init PROVE IInv
  OBVIOUS
<1>1. /\ Genesis \in Blocks /\ None \notin Bodies /\ [prev |-> None, below |-> {}, txns |-> {}] \in Bodies
      /\ \A r \in Rivals : r # {}
  BY KeeperAssumption DEF Bodies
<1>2. /\ Made(body) = {Genesis} /\ body[Genesis] = [prev |-> None, below |-> {}, txns |-> {}]
      /\ body[Genesis].txns = {} /\ body[Genesis].below = {}
  BY <1>1 DEF Init, Made
<1>3. body \in [Blocks -> {None} \cup Bodies]
  BY <1>1 DEF Init
<1>4. body \in Trees
  BY <1>2, <1>3 DEF Trees
<1>5. db = [stored |-> {Genesis}, dbTxns |-> {}, head |-> Genesis, keys |-> {}]
  BY DEF Init, db
<1>6. db \in Databases
  BY <1>1, <1>5 DEF Databases
<1>7. Sound(body, db)
  BY <1>2, <1>5 DEF Sound
<1>8. pending \subseteq Txns /\ IsFiniteSet(pending) /\ PoolHasNoRivals
  BY <1>1, FS_EmptySet DEF Init, PoolHasNoRivals
<1>9. calls \in [Threads -> Calls] /\ \A i \in Threads : Learned(body, stored, calls[i])
  BY ReturnFacts DEF Init
<1> QED BY <1>4, <1>6, <1>7, <1>8, <1>9 DEF IInv

\* Every step keeps the invariant.
LEMMA Invariance == IInv /\ [Next]_vars => IInv'
<1> SUFFICES ASSUME IInv, [Next]_vars PROVE IInv'
  OBVIOUS
<1>1. CASE UNCHANGED vars
  BY <1>1 DEF vars, IInv, PoolHasNoRivals, db
<1>2. ASSUME NEW b \in Blocks, NEW p \in Blocks, NEW ts \in SUBSET Txns, Appear(b, p, ts) PROVE IInv'
  BY <1>2, AppearStep
<1>3. ASSUME NEW i \in Threads, NEW b \in Blocks, create_block(i, b) \/ CallAddBlock(i, b) PROVE IInv'
  BY <1>3, CreateBlockStep, CallAddBlockStep
<1>4. ASSUME NEW i \in Threads,
             \/ AddBlockExists(i) \/ AddBlockValidate(i) \/ AddBlockWrite(i) \/ AddBlockPanic(i)
             \/ AddPendingCheck(i) \/ AddPendingWrite(i)
      PROVE  IInv'
  BY <1>4, AddBlockExistsStep, AddBlockValidateStep, AddBlockWriteStep, AddBlockPanicStep,
     AddPendingCheckStep, AddPendingWriteStep
<1>5. ASSUME NEW i \in Threads, NEW t \in Txns, CallAddPendingTxn(i, t) PROVE IInv'
  BY <1>5, CallAddPendingTxnStep
<1>6. ASSUME NEW i \in Threads, NEW blocks \in Packages, import_pkg(i, blocks) PROVE IInv'
  BY <1>6, ImportStep
<1>7. Elsewhere \subseteq SUBSET Txns /\ Offered \subseteq Txns
  BY KeeperAssumption
<1> QED BY <1>1, <1>2, <1>3, <1>4, <1>5, <1>6, <1>7 DEF Next

\* The database can complete every block it holds, however the calls of the
\* threads interleave: get_block and blocks_between find all its transactions.
THEOREM BlocksCompleteAlways == Spec => []BlocksComplete
<1>1. IInv => BlocksComplete
  BY DEF IInv, Sound, db, BlocksComplete
<1> QED BY <1>1, Initially, Invariance, PTL DEF Spec

\* Every branch that is stored is a history that the rules accept, although
\* add_block writes a block that it judged in an earlier state and import_pkg
\* judges blocks on an overlay.
THEOREM HistoryConsistentAlways == Spec => []HistoryConsistent
<1>1. IInv => HistoryConsistent
  <2> SUFFICES ASSUME IInv, NEW b \in stored \ {Genesis}
               PROVE  /\ body[b].prev \in stored
                      /\ (body[b].txns \ Stacking) \cap Applied(body[b].prev) = {}
                      /\ \A r \in Rivals : ~(r \subseteq Applied(b))
                      /\ \A t \in body[b].txns :
                            /\ Met(Follows[t], Applied(b))
                            /\ Met(Creator[t], UNION {body[x].txns : x \in stored})
    BY DEF HistoryConsistent
  <2>1. Accepted(body, stored, b)
    BY DEF IInv, Sound, db
  <2> QED BY <2>1, AppliedFacts DEF Accepted, TxnsOf
<1> QED BY <1>1, Initially, Invariance, PTL DEF Spec

\* add_pending_txn never puts two rivals into pending_txns.
THEOREM PoolHasNoRivalsAlways == Spec => []PoolHasNoRivals
<1>1. IInv => PoolHasNoRivals
  BY DEF IInv
<1> QED BY <1>1, Initially, Invariance, PTL DEF Spec

\* What import_pkg leaves in pending_txns can go into the next block together,
\* in whatever order it judged the pool again.
THEOREM ImportCleansPoolAlways == Spec => ImportCleansPool
<1>1. ASSUME IInv, Imports PROVE PoolValid(head', keys', pending')
  BY <1>1, ImportPool DEF Imports
<1>2. IInv /\ [Next]_vars => [PoolValid(head', keys', pending') \/ ~Imports]_vars
  BY <1>1
<1> QED BY <1>2, Initially, Invariance, PTL DEF Spec, ImportCleansPool

\* A transaction leaves pending_txns for the database, or because it is not valid
\* any more at the head that import_pkg moved to, or with a call that panics.
THEOREM NoTxnLostAlways == Spec => NoTxnLost
<1> DEFINE Leaves(t) == \/ t \in dbTxns'
                        \/ Imports /\ \E kept \in SUBSET pending' : ~is_valid_txn(head', keys', kept, t)
                        \/ \E i \in Threads : AddBlockPanic(i) /\ t \in body[calls[i].block].txns
           Accounted == \A t \in pending \ pending' : Leaves(t)
<1>1. ASSUME IInv, NEW i \in Threads, NEW blocks \in Packages, import_pkg(i, blocks) PROVE Accounted
  <2>1. Imports
    BY <1>1 DEF Imports
  <2> QED BY <1>1, <2>1, ImportPool
<1>2. ASSUME NEW i \in Threads, AddBlockWrite(i) PROVE Accounted
  BY <1>2 DEF AddBlockWrite
<1>3. ASSUME NEW i \in Threads, AddBlockPanic(i) PROVE Accounted
  <2>1. \A t \in pending \ pending' : t \in body[calls[i].block].txns
    BY <1>3 DEF AddBlockPanic
  <2> QED BY <1>3, <2>1
<1>4. ASSUME NEW i \in Threads, AddPendingWrite(i) PROVE Accounted
  BY <1>4 DEF AddPendingWrite
<1>5. ASSUME UNCHANGED pending PROVE Accounted
  BY <1>5
<1> HIDE DEF Accounted
<1>6. IInv /\ Next => Accounted
  BY <1>1, <1>2, <1>3, <1>4, <1>5
     DEF Next, Appear, create_block, CallAddBlock, AddBlockExists, AddBlockValidate, CallAddPendingTxn, AddPendingCheck
<1>7. IInv /\ [Next]_vars => [Accounted]_vars
  BY <1>6
<1> QED BY <1>7, Initially, Invariance, PTL DEF Spec, NoTxnLost, Accounted
=============================================================================
