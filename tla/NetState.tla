------------------------------ MODULE NetState ------------------------------
(***************************************************************************)
(* The network state: what the mutations of the blocks leave in the        *)
(* database (values set by the admin, validator keys and stakes, the       *)
(* events of the plots), how a walk undoes and applies them in the DBDiff  *)
(* of the running operation, and how compile turns that DBDiff into the    *)
(* write batch.                                                            *)
(*                                                                         *)
(* Every block carries one mutation, the merged changes of its             *)
(* transactions. Who signed a transaction is left open: an input is signed *)
(* by whoever the rules ask for.                                           *)
(***************************************************************************)
EXTENDS Chain

Sets == INSTANCE FiniteSetsExt

CONSTANTS AdminBins,    \* the keys that Admin changes name
          AdminBin,     \* the one of them under which the admin's id is kept
          AdminValues,  \* the values they give
          Validators, Plots,
          RawEvents,    \* what happens in a plot
          Mutations,    \* the mutations a block can have
          GenesisMut,   \* the mutation of the genesis block
          BucketSize,   \* PLOT_EVENT_BUCKET_SIZE
          MaxTick,      \* bound: ticks of plot events
          StakeRange,   \* 2^64, or a smaller modulus
          Reward        \* BLOCK_REWARD

Stakes == 0..(StakeRange - 1)

Changes ==
    [type : {"Admin"}, key : AdminBins, value : AdminValues \cup {None}]
      \cup [type : {"BlockReward", "NewValidator"}, id : Validators]
      \cup [type : {"PlotEvent"}, plots : SUBSET Plots, tick : 0..MaxTick, event : RawEvents]
      \cup [type : {"Slash"}, id : Validators, amount : Nat]
      \cup [type : {"Transfer"}, from : Validators, to : Validators, amount : Nat]

ASSUME NetAssumption ==
    /\ AdminBin \in AdminBins
    /\ BucketSize \in Nat \ {0} /\ StakeRange \in Nat \ {0}
    /\ MaxTick \in Nat /\ Reward \in Nat
    /\ None \notin AdminValues /\ None \notin Validators /\ None \notin Stakes
    /\ None \notin Seq(Changes)
    /\ Mutations \subseteq Seq(Changes) /\ GenesisMut \in Seq(Changes)

VARIABLES net,      \* the network entries and the contras in RocksDB
          ov,       \* the DBDiff of the running operation
          muts      \* the mutation of each block

netVars == <<db, st, op, batch, events, net, ov, muts>>

-----------------------------------------------------------------------------
(* Keys, as the overlay tells them apart and as RocksDB does *)

Generic(bin) == <<"Generic", bin>>
ValidatorKey(v) == <<"ValidatorKey", v>>
ValidatorStake(v) == <<"ValidatorStake", v>>
AdminKeyID == <<"AdminKeyID">>

\* What Key::as_bin gives for a ValidatorKey, with the prefix of its region.
Prefixed(v) == <<"nVKY", v>>

Keys == {Generic(x) : x \in AdminBins} \cup {Generic(Prefixed(v)) : v \in Validators}
        \cup {ValidatorKey(v) : v \in Validators}
        \cup {ValidatorStake(v) : v \in Validators} \cup {AdminKeyID}

as_bin(k) == CASE k[1] = "Generic" -> k[2]
               [] k[1] = "AdminKeyID" -> AdminBin
               [] OTHER -> k

Bins == {as_bin(k) : k \in Keys}

\* Admin changes stay out of the region of the validators, which as_bin would
\* not keep apart from them.
ASSUME BinAssumption ==
    \A v \in Validators : {Prefixed(v), ValidatorKey(v), ValidatorStake(v)} \cap AdminBins = {}

Buckets == 0..(MaxTick \div BucketSize)

Events == Plots \X (0..MaxTick) \X RawEvents

ASSUME EventAssumption == \A es \in SUBSET Events : es # None

\* The bucket of an event <<plot, tick, event>>.
Bucket(e) == e[2] \div BucketSize

-----------------------------------------------------------------------------
(* Reading: a base is what an overlay falls back to, by key *)

\* The events of a plot, from its first bucket up to the first one missing.
get_plot_events(buckets, p) ==
    UNION {buckets[p][i] : i \in {i \in Buckets : \A j \in 0..i : buckets[p][j] # None}}

Base(n) == [kv |-> [k \in Keys |-> n.kv[as_bin(k)]],
            events |-> UNION {get_plot_events(n.buckets, p) : p \in Plots}]

\* A DBDiff without changes; plots are those that have had an entry in new_events
\* or del_events.
Clean(contras) == [new |-> [k \in Keys |-> None], del |-> {},
                   plots |-> {}, newEvents |-> {}, delEvents |-> {}, contra |-> contras]

EmptyDiff == Clean([b \in Blocks |-> None])

get(base, o, k) == IF o.new[k] # None THEN o.new[k]
                   ELSE IF k \in o.del THEN None
                   ELSE base.kv[k]

\* The state that an overlay shows, which is the base of an overlay over it.
View(base, o) == [kv |-> [k \in Keys |-> get(base, o, k)],
                  events |-> (base.events \ o.delEvents) \cup o.newEvents]

-----------------------------------------------------------------------------
(* DBDiff *)

set_value(o, k, v) == IF k \in o.del THEN [o EXCEPT !.del = @ \ {k}]
                      ELSE [o EXCEPT !.new[k] = v]

\* Faulty variant: the value that was to be written stays.
delete_value_KeepsNew(o, k) == [o EXCEPT !.del = @ \cup {k}]

delete_value(o, k) == IF o.new[k] # None THEN [o EXCEPT !.new[k] = None]
                      ELSE [o EXCEPT !.del = @ \cup {k}]

PlotsOf(es) == {e[1] : e \in es}

\* Each of the events es: one that was to be removed just stays.
add_event(o, es) ==
    [o EXCEPT !.newEvents = @ \cup (es \ o.delEvents),
              !.delEvents = @ \ es,
              !.plots = @ \cup PlotsOf(es \ o.delEvents)]

\* Faulty variant: only an event that is in the overlay is removed.
remove_event_OnlyNew(o, es) == [o EXCEPT !.newEvents = @ \ es]

\* Each of the events es: one that was to be added is just not added.
remove_event(o, es) ==
    [o EXCEPT !.newEvents = @ \ es,
              !.delEvents = @ \cup (es \ o.newEvents),
              !.plots = @ \cup PlotsOf(es \ o.newEvents)]

-----------------------------------------------------------------------------
(* The changes of a mutation and their contra changes *)

_set_value(base, o, bin, value) ==
    IF value # None THEN set_value(o, Generic(bin), value)
    ELSE IF get(base, o, Generic(bin)) # None THEN delete_value(o, Generic(bin))
    ELSE o

\* Faulty variant: a stake stops at zero.
_change_validator_stake_Saturating(base, o, v, amount) ==
    LET k == ValidatorStake(v)
        value == IF get(base, o, k) = None THEN 0 ELSE get(base, o, k)
    IN set_value(o, k, IF value + amount < 0 THEN 0 ELSE value + amount)

\* u64 arithmetic, wrapping as in a release build.
_change_validator_stake(base, o, v, amount) ==
    LET k == ValidatorStake(v)
        value == IF get(base, o, k) = None THEN 0 ELSE get(base, o, k)
    IN set_value(o, k, (value + amount) % StakeRange)

\* The recipient is paid first; a negative amount takes the transfer back.
transfer(base, o, c, amount) ==
    _change_validator_stake(base, _change_validator_stake(base, o, c.to, amount),
                            c.from, -amount)

register(o, v) == set_value(o, ValidatorKey(v), v)

\* The event is kept with the plot it comes from and with all it goes to.
EventsOf(c) == {<<p, c.tick, c.event>> : p \in c.plots}

_add_events(o, c) == add_event(o, EventsOf(c))
_remove_events(o, c) == remove_event(o, EventsOf(c))

apply_change(base, o, c) ==
    CASE c.type = "Admin" -> _set_value(base, o, c.key, c.value)
      [] c.type = "BlockReward" -> _change_validator_stake(base, o, c.id, Reward)
      [] c.type = "PlotEvent" -> _add_events(o, c)
      [] c.type = "NewValidator" -> register(o, c.id)
      [] c.type = "Slash" -> _change_validator_stake(base, o, c.id, -c.amount)
      [] c.type = "Transfer" -> transfer(base, o, c, c.amount)

\* Faulty variant: the contra of an Admin change has the new value.
contra_OwnValue(base, o, c) == c

\* The change that undoes c: an Admin change puts back the value it finds.
contra(base, o, c) ==
    IF c.type = "Admin" THEN [c EXCEPT !.value = get(base, o, Generic(c.key))] ELSE c

\* The entry of a new validator is looked up under a key it is not kept at.
undo_change(base, o, c) ==
    CASE c.type = "Admin" -> _set_value(base, o, c.key, c.value)
      [] c.type = "BlockReward" -> _change_validator_stake(base, o, c.id, -Reward)
      [] c.type = "PlotEvent" -> _remove_events(o, c)
      [] c.type = "NewValidator" -> _set_value(base, o, Prefixed(c.id), None)
      [] c.type = "Slash" -> _change_validator_stake(base, o, c.id, c.amount)
      [] c.type = "Transfer" -> transfer(base, o, c, -c.amount)

\* The overlay before the changes of a mutation and after each of them.
Mutated(base, o, m) ==
    LET run[i \in 0..Len(m)] == IF i = 0 THEN o ELSE apply_change(base, run[i - 1], m[i])
    IN run

\* _mutate: the changes in order, and their contras in reverse.
_mutate(base, o, m) ==
    LET run == Mutated(base, o, m)
        n == Len(m)
    IN [o |-> run[n], contra |-> [j \in 1..n |-> contra(base, run[n - j], m[n + 1 - j])]]

_undo_mutate(base, o, m) ==
    LET run[i \in 0..Len(m)] == IF i = 0 THEN o ELSE undo_change(base, run[i - 1], m[i])
    IN run[Len(m)]

undo_block(base, o, b) == _undo_mutate(base, o, o.contra[b])

do_block(base, o, ms, b) ==
    LET d == _mutate(base, o, ms[b]) IN [d.o EXCEPT !.contra[b] = d.contra]

\* Undoing the blocks of a path from the top, n of them.
UndoneBlocks(base, o, path, top, n) ==
    LET run[k \in 0..n] == IF k = 0 THEN o ELSE undo_block(base, run[k - 1], path[top + 1 - k])
    IN run[n]

\* Applying the n blocks of a path that come above a height.
DoneBlocks(base, o, ms, path, low, n) ==
    LET run[k \in 0..n] == IF k = 0 THEN o ELSE do_block(base, run[k - 1], ms, path[low + k])
    IN run[n]

\* Database::walk on the network state: the blocks of the head's branch are
\* undone from the top, then those of b's branch are applied from the bottom.
walk_net(base, o, s, ms, b) ==
    LET down == Cardinality(Down(s, s.head, b))
        fork == s.height[s.head] - down
    IN DoneBlocks(base, UndoneBlocks(base, o, Path(s, s.head), s.height[s.head], down),
                  ms, Path(s, b), fork, s.height[b] - fork)

-----------------------------------------------------------------------------
(* DBState::compile *)

OfPlot(es, p) == {e \in es : e[1] = p}

\* The buckets of a plot that the DBDiff has an entry for: missing ones are
\* initialised from the greatest new one down, and every bucket with a change is
\* written, starting from nothing above the place where that stopped.
compile_events(buckets, p, added, removed) ==
    LET greatest == Sets!Max({0} \cup {Bucket(e) : e \in added})
        there == {i \in 0..greatest : buckets[p][i] # None}
        empty_after == Sets!Max({0} \cup there)
        base(i) == IF i > empty_after \/ buckets[p][i] = None THEN {} ELSE buckets[p][i]
        here(es, i) == {e \in es : Bucket(e) = i}
    IN [i \in Buckets |->
          IF here(added \cup removed, i) # {}
          THEN (base(i) \cup here(added, i)) \ here(removed, i)
          ELSE IF i \in empty_after..greatest /\ buckets[p][i] = None THEN {}
          ELSE buckets[p][i]]

\* Puts come before deletes; two keys of one bin end in one entry.
compile(n, o) ==
    LET put(x) == {k \in Keys : as_bin(k) = x /\ o.new[k] # None} IN
       [kv |-> [x \in Bins |-> IF \E k \in o.del : as_bin(k) = x THEN None
                               ELSE IF put(x) = {} THEN n.kv[x]
                               ELSE o.new[CHOOSE k \in put(x) : TRUE]],
        buckets |-> [p \in Plots |->
                       IF p \notin o.plots THEN n.buckets[p]
                       ELSE compile_events(n.buckets, p, OfPlot(o.newEvents, p),
                                           OfPlot(o.delEvents, p))],
        contra |-> o.contra]

-----------------------------------------------------------------------------
(* Validation and the operations *)

\* Duplicates: no validator and no event is there already or comes twice.
Duplicates(view, m) ==
    LET registers(i) == m[i].type = "NewValidator"
        happens(i) == m[i].type = "PlotEvent"
    IN \A i \in 1..Len(m) :
         /\ registers(i) => /\ view.kv[ValidatorKey(m[i].id)] = None
                            /\ \A j \in 1..(i - 1) : registers(j) => m[j].id # m[i].id
         /\ happens(i) => /\ EventsOf(m[i]) \cap view.events = {}
                          /\ \A j \in 1..(i - 1) :
                                happens(j) => EventsOf(m[j]) \cap EventsOf(m[i]) = {}

\* AdminCheck: there must be an admin for an Admin change to be signed by.
AdminCheck(view, m) ==
    (\E i \in 1..Len(m) : m[i].type = "Admin") => view.kv[AdminKeyID] # None

\* is_valid_block_given_state: the rules are asked in an overlay over the
\* operation's own state that has walked to the block's prev.
is_valid_block(p, m) ==
    LET base == View(Base(net), ov)
        diff == Clean(ov.contra)
        view == View(base, walk_net(base, diff, st, muts, p))
    IN AdminCheck(view, m) /\ Duplicates(view, m)

EmptyNet == [kv |-> [x \in Bins |-> None],
             buckets |-> [p \in Plots |-> [i \in Buckets |-> None]],
             contra |-> [b \in Blocks |-> None]]

NetInit ==
    /\ Init
    /\ net = EmptyNet
    /\ ov = EmptyDiff
    /\ muts = [b \in Blocks |-> IF b = Genesis THEN GenesisMut ELSE None]

\* Genesis is applied without a contra.
NetOpen ==
    /\ open
    /\ net' = IF db = EmptyDB
              THEN compile(net, _mutate(Base(net), EmptyDiff, GenesisMut).o)
              ELSE net
    /\ UNCHANGED <<ov, muts>>

NetBegin(kind) ==
    /\ Begin(kind)
    /\ ov' = Clean(net.contra)
    /\ UNCHANGED <<net, muts>>

NetAddNew(b, p, m) ==
    /\ AddNew(b, p)
    /\ is_valid_block(p, m)
    /\ muts' = [muts EXCEPT ![b] = m]
    /\ LET added == add_block(st, b, p)
       IN ov' = walk_net(Base(net), ov, added, muts', find_chain_head(added))
    /\ UNCHANGED net

NetSkipKnown(b) == SkipKnown(b) /\ UNCHANGED <<net, ov, muts>>

NetCommit ==
    /\ CommitAdd \/ CommitImport
    /\ net' = compile(net, ov)
    /\ ov' = EmptyDiff
    /\ UNCHANGED muts

\* A block that was not stored may come back as another block of that name.
NetDrop ==
    /\ Fail \/ Crash
    /\ ov' = EmptyDiff
    /\ muts' = [b \in Blocks |-> IF b \in Stored(db) \cup {Genesis} THEN muts[b] ELSE None]
    /\ UNCHANGED net

NetNext ==
    \/ NetOpen
    \/ NetBegin("add_block")
    \/ NetBegin("import_pkg")
    \/ \E b \in Blocks, p \in Blocks, m \in Mutations : NetAddNew(b, p, m)
    \/ \E b \in Blocks : NetSkipKnown(b)
    \/ NetCommit
    \/ NetDrop

NetSpec == NetInit /\ [][NetNext]_netVars

-----------------------------------------------------------------------------
(* What the network state promises *)

Paid(kv, v, amount) ==
    [kv EXCEPT ![ValidatorStake(v)] = ((IF @ = None THEN 0 ELSE @) + amount) % StakeRange]

\* What a change makes of a state when it is simply carried out: of the values
\* under each key, and of how often each event happened.
Replay(r, c) ==
    CASE c.type = "Admin" -> [r EXCEPT !.kv = [@ EXCEPT ![c.key] = c.value]]
      [] c.type = "BlockReward" -> [r EXCEPT !.kv = Paid(@, c.id, Reward)]
      [] c.type = "PlotEvent" ->
           [r EXCEPT !.events = [e \in Events |-> IF e \in EventsOf(c) THEN @[e] + 1 ELSE @[e]]]
      [] c.type = "NewValidator" -> [r EXCEPT !.kv = [@ EXCEPT ![ValidatorKey(c.id)] = c.id]]
      [] c.type = "Slash" -> [r EXCEPT !.kv = Paid(@, c.id, -c.amount)]
      [] c.type = "Transfer" ->
           [r EXCEPT !.kv = Paid(Paid(@, c.to, c.amount), c.from, -c.amount)]

\* The state before the changes of a mutation and after each of them.
ReplayedChanges(r, m) ==
    LET run[i \in 0..Len(m)] == IF i = 0 THEN r ELSE Replay(run[i - 1], m[i]) IN run

ReplayBlock(r, m) == ReplayedChanges(r, m)[Len(m)]

Nothing == [kv |-> [x \in Bins |-> None], events |-> [e \in Events |-> 0]]

\* The state at each height of a chain with the mutations ms.
ReplayedChain(ms, chain, n) ==
    LET run[h \in 0..n] == IF h = 0 THEN Nothing ELSE ReplayBlock(run[h - 1], ms[chain[h]])
    IN run

\* The state that the changes of the current chain of s give.
Replayed(s) == ReplayedChain(muts, CurrentChain(s), s.headHeight)[s.headHeight]

StakeIn(kv, v) == IF kv[ValidatorStake(v)] = None THEN 0 ELSE kv[ValidatorStake(v)]

\* Every stake is what the rewards, slashes and transfers of the current chain
\* add up to, whatever was applied and undone on the way: a contra in reverse
\* order takes back exactly what its block did.
StakesFollowChain ==
    \A v \in Validators : StakeIn(net.kv, v) = StakeIn(Replayed(db).kv, v)

\* The change c sets, or removes, the value under x.
Names(c, x) == c.type = "Admin" /\ c.key = x

\* The keys that genesis sets and that no stored block removes.
LastingBins(ms, s) ==
    {x \in AdminBins :
       /\ \E i \in 1..Len(GenesisMut) : Names(GenesisMut[i], x)
       /\ \A b \in Stored(s) : \A i \in 1..Len(ms[b]) : Names(ms[b][i], x) => ms[b][i].value # None}

\* A value that is always there is the one the current chain set last.
LastingValuesFollowChain ==
    \A x \in LastingBins(muts, db) : net.kv[x] = Replayed(db).kv[x]

\* No event of an abandoned branch is left in a plot, and the buckets of a plot
\* leave no gap that would hide the later ones from get_plot_events.
NoStrayEvents ==
    \A p \in Plots : \A i \in Buckets : net.buckets[p][i] # None =>
       /\ \A e \in net.buckets[p][i] : Replayed(db).events[e] > 0
       /\ \A j \in 0..i : net.buckets[p][j] # None

\* "will make the database identical to this current state once done": what the
\* overlay showed for a value is what the database has after the write.
ValuesCommitted ==
    [][NetCommit => \A k \in Keys \ {AdminKeyID} :
         net'.kv[as_bin(k)] = get(Base(net), ov, k)]_netVars

=============================================================================
