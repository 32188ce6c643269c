--------------------------- MODULE NetStateProofs --------------------------
(* The network state is that of the current chain, through every undo and redo
   in one overlay and every write. *)
EXTENDS NetState, ChainProofs

-----------------------------------------------------------------------------
(* The inductive invariant *)

\* What may be kept under a key. Nothing is ever written under AdminKeyID: the
\* admin's id is set through the Generic key of the same entry.
ValuesOf(k) == CASE k[1] = "Generic" -> AdminValues
                 [] k[1] = "ValidatorKey" -> Validators
                 [] k[1] = "ValidatorStake" -> Stakes
                 [] k[1] = "AdminKeyID" -> {}

EntryValues == AdminValues \cup Validators \cup Stakes \cup {None}

Contras == [Blocks -> Seq(Changes) \cup {None}]

\* A DBDiff never has a key both as new and as deleted, and only the keys of
\* Admin changes, and the one that undoing a NewValidator names, are deleted.
Diffs ==
    {o \in [new : [Keys -> EntryValues], del : SUBSET Keys, plots : SUBSET Plots,
            newEvents : SUBSET Events, delEvents : SUBSET Events, contra : Contras] :
       /\ \A k \in Keys : /\ o.new[k] \in ValuesOf(k) \cup {None}
                          /\ k \in o.del => k[1] = "Generic" /\ o.new[k] = None
       /\ \A e \in o.newEvents \cup o.delEvents : e[1] \in o.plots}

\* The buckets of a plot have no gap, and each has events of its plot and ticks.
Nets ==
    {n \in [kv : [Bins -> EntryValues],
            buckets : [Plots -> [Buckets -> (SUBSET Events) \cup {None}]],
            contra : Contras] :
       /\ \A k \in Keys \ {AdminKeyID} : n.kv[as_bin(k)] \in ValuesOf(k) \cup {None}
       /\ \A p \in Plots : \A i \in Buckets : n.buckets[p][i] # None =>
             /\ \A e \in n.buckets[p][i] : e[1] = p /\ Bucket(e) = i
             /\ \A j \in 0..i : n.buckets[p][j] # None}

\* The events that have a bucket to be in.
Placed(n) == {e \in Events : n.buckets[e[1]][Bucket(e)] # None}

Stake(base, o, v) == StakeIn([k \in Keys |-> get(base, o, k)], v)

\* How many removals it takes until an event is no longer seen.
Depth(base, o, e) == (IF e \in base.events \ o.delEvents THEN 1 ELSE 0)
                     + (IF e \in o.newEvents THEN 1 ELSE 0)

\* The state seen through the overlay o agrees with the replayed state r: the
\* stakes, the registered validators, and the values under the keys L. An event
\* is not seen more often than it happened. One that happened may have been lost,
\* but only from a bucket (the events P have one).
Agree(base, o, r, L, P) ==
    /\ \A v \in Validators :
          /\ Stake(base, o, v) = StakeIn(r.kv, v)
          /\ r.kv[ValidatorKey(v)] # None => get(base, o, ValidatorKey(v)) # None
    /\ \A x \in L : Generic(x) \notin o.del /\ get(base, o, Generic(x)) = r.kv[x]
    /\ \A e \in Events : /\ Depth(base, o, e) <= r.events[e]
                         /\ r.events[e] > 0 => Depth(base, o, e) > 0 \/ e \in P
                         /\ e \in o.delEvents => e \in base.events \/ e \in P

\* The change d, as part of a contra, takes back c, which was applied in state r.
Undoes(d, c, r, L) ==
    IF c.type = "Admin"
    THEN d.type = "Admin" /\ d.key = c.key /\ (c.key \in L => d.value = r.kv[c.key])
    ELSE d = c

\* The contra cs takes back the mutation m, which was applied in state r.
UndoesAll(cs, m, r, L) ==
    /\ cs \in Seq(Changes) /\ Len(cs) = Len(m)
    /\ \A j \in 1..Len(m) :
          Undoes(cs[j], m[Len(m) + 1 - j], ReplayedChanges(r, m)[Len(m) - j], L)

\* An event that m adds in state r has not happened, or has been lost.
Fresh(m, r, P) ==
    \A i \in 1..Len(m) : m[i].type = "PlotEvent" =>
       \A e \in EventsOf(m[i]) : ReplayedChanges(r, m)[i - 1].events[e] > 0 => e \in P

\* The state at each height of the path of b.
ReplayedPath(ms, s, b) == ReplayedChain(ms, Path(s, b), s.height[b])

\* Through the overlay o the state is that of the path of b, and every block of
\* it but genesis has the contra that takes it back.
Shows(ms, s, b, base, o, P) ==
    LET path == Path(s, b)
        run == ReplayedPath(ms, s, b)
        L == LastingBins(ms, s)
    IN /\ Agree(base, o, run[s.height[b]], L, P)
       /\ \A h \in 2..s.height[b] : UndoesAll(o.contra[path[h]], ms[path[h]], run[h - 1], L)

\* Every stored block but genesis had events that were new to its path.
AllFresh(ms, s, P) ==
    \A b \in Stored(s) \ {Genesis} :
       Fresh(ms[b], ReplayedPath(ms, s, b)[s.height[b] - 1], P)

\* The overlay o shows the state of the head.
Follows(ms, s, base, o, P) ==
    /\ \A b \in Stored(s) : ms[b] # None
    /\ AllFresh(ms, s, P)
    /\ Shows(ms, s, s.head, base, o, P)

Running == op \in {"add_block", "import_pkg"}

NetInv ==
    /\ IInv
    /\ net \in Nets
    /\ ov \in Diffs
    /\ muts \in [Blocks -> Seq(Changes) \cup {None}] /\ muts[Genesis] = GenesisMut
    /\ db = EmptyDB => net = EmptyNet
    /\ db # EmptyDB => Follows(muts, db, Base(net), Clean(net.contra), Placed(net))
    /\ Running => Follows(muts, st, Base(net), ov, Placed(net))

-----------------------------------------------------------------------------
(* Keys and entries *)

\* The keys of the model, and that they differ.
LEMMA KeyFacts ==
    /\ \A x \in AdminBins : Generic(x) \in Keys
    /\ \A v \in Validators : /\ Generic(Prefixed(v)) \in Keys
                             /\ ValidatorKey(v) \in Keys /\ ValidatorStake(v) \in Keys
    /\ AdminKeyID \in Keys
    /\ \A x, y : Generic(x) = Generic(y) => x = y
    /\ \A v, w : ValidatorKey(v) = ValidatorKey(w) => v = w
    /\ \A v, w : ValidatorStake(v) = ValidatorStake(w) => v = w
    /\ \A x : Generic(x)[1] = "Generic"
    /\ \A v : ValidatorKey(v)[1] = "ValidatorKey"
    /\ \A v : ValidatorStake(v)[1] = "ValidatorStake"
    /\ AdminKeyID[1] = "AdminKeyID"
<1>1. /\ \A x, y : Generic(x) = Generic(y) => x = y
      /\ \A v, w : ValidatorKey(v) = ValidatorKey(w) => v = w
      /\ \A v, w : ValidatorStake(v) = ValidatorStake(w) => v = w
  BY DEF Generic, ValidatorKey, ValidatorStake
<1>2. /\ \A x : Generic(x)[1] = "Generic"
      /\ \A v : ValidatorKey(v)[1] = "ValidatorKey"
      /\ \A v : ValidatorStake(v)[1] = "ValidatorStake"
      /\ AdminKeyID[1] = "AdminKeyID"
  BY DEF Generic, ValidatorKey, ValidatorStake, AdminKeyID
<1> QED BY <1>1, <1>2 DEF Keys

\* What is kept under the keys.
LEMMA ValueFacts ==
    /\ \A x : ValuesOf(Generic(x)) = AdminValues
    /\ \A v : ValuesOf(ValidatorKey(v)) = Validators
    /\ \A v : ValuesOf(ValidatorStake(v)) = Stakes
    /\ ValuesOf(AdminKeyID) = {}
    /\ \A k \in Keys : None \notin ValuesOf(k) /\ ValuesOf(k) \subseteq EntryValues
<1>1. /\ \A x : ValuesOf(Generic(x)) = AdminValues
      /\ \A v : ValuesOf(ValidatorKey(v)) = Validators
      /\ \A v : ValuesOf(ValidatorStake(v)) = Stakes
      /\ ValuesOf(AdminKeyID) = {}
  BY KeyFacts DEF ValuesOf
<1>2. None \notin AdminValues /\ None \notin Validators /\ None \notin Stakes
  BY NetAssumption
<1> QED BY <1>1, <1>2 DEF Keys, EntryValues

\* The entries, one for each key but AdminKeyID.
LEMMA BinFacts ==
    /\ \A k \in Keys : as_bin(k) \in Bins
    /\ \A x : as_bin(Generic(x)) = x
    /\ \A v : as_bin(ValidatorKey(v)) = ValidatorKey(v)
    /\ \A v : as_bin(ValidatorStake(v)) = ValidatorStake(v)
    /\ as_bin(AdminKeyID) = AdminBin
    /\ \A j, k \in Keys \ {AdminKeyID} : as_bin(j) = as_bin(k) => j = k
<1>1. /\ \A x : as_bin(Generic(x)) = x
      /\ \A v : as_bin(ValidatorKey(v)) = ValidatorKey(v)
      /\ \A v : as_bin(ValidatorStake(v)) = ValidatorStake(v)
      /\ as_bin(AdminKeyID) = AdminBin
  <2>1. \A x : as_bin(Generic(x)) = x
    BY DEF as_bin, Generic
  <2>2. \A v : as_bin(ValidatorKey(v)) = ValidatorKey(v)
    BY DEF as_bin, ValidatorKey
  <2>3. \A v : as_bin(ValidatorStake(v)) = ValidatorStake(v)
    BY DEF as_bin, ValidatorStake
  <2> QED BY <2>1, <2>2, <2>3 DEF as_bin, AdminKeyID
<1>2. \A v, w : /\ Prefixed(v) # ValidatorKey(w) /\ Prefixed(v) # ValidatorStake(w)
                /\ ValidatorKey(v) # ValidatorStake(w)
  BY DEF Prefixed, ValidatorKey, ValidatorStake
<1>3. \A v, w : Prefixed(v) = Prefixed(w) => v = w
  BY DEF Prefixed
<1>4. \A v \in Validators : /\ Prefixed(v) \notin AdminBins
                            /\ ValidatorKey(v) \notin AdminBins /\ ValidatorStake(v) \notin AdminBins
  BY BinAssumption
<1>5. \A k \in Keys \ {AdminKeyID} : \/ \E x \in AdminBins : k = Generic(x)
                                     \/ \E v \in Validators : k = Generic(Prefixed(v))
                                     \/ \E v \in Validators : k = ValidatorKey(v)
                                     \/ \E v \in Validators : k = ValidatorStake(v)
  BY DEF Keys
<1>6. ASSUME NEW j \in Keys \ {AdminKeyID}, NEW k \in Keys \ {AdminKeyID}, as_bin(j) = as_bin(k)
      PROVE  j = k
  <2>1. CASE \E x \in AdminBins : j = Generic(x)
    BY <1>1, <1>4, <1>5, <1>6, <2>1
  <2>2. CASE \E v \in Validators : j = Generic(Prefixed(v))
    BY <1>1, <1>2, <1>3, <1>4, <1>5, <1>6, <2>2
  <2>3. CASE \E v \in Validators : j = ValidatorKey(v)
    BY <1>1, <1>2, <1>4, <1>5, <1>6, <2>3
  <2>4. CASE \E v \in Validators : j = ValidatorStake(v)
    BY <1>1, <1>2, <1>4, <1>5, <1>6, <2>4
  <2> QED BY <1>5, <2>1, <2>2, <2>3, <2>4
<1> QED BY <1>1, <1>6 DEF Bins

\* A new key is never a deleted one, and only Generic keys are deleted.
LEMMA DiffFacts ==
    ASSUME NEW o \in Diffs
    PROVE  /\ o.new \in [Keys -> EntryValues] /\ o.del \subseteq Keys /\ o.plots \subseteq Plots
           /\ o.newEvents \subseteq Events /\ o.delEvents \subseteq Events /\ o.contra \in Contras
           /\ \A k \in Keys : o.new[k] \in ValuesOf(k) \cup {None}
           /\ \A k \in o.del : k[1] = "Generic" /\ o.new[k] = None
           /\ \A e \in o.newEvents \cup o.delEvents : e[1] \in o.plots
BY DEF Diffs

\* A DBDiff field by field.
DiffOf(new, del, plots, newEvents, delEvents, con) ==
    [new |-> new, del |-> del, plots |-> plots, newEvents |-> newEvents,
     delEvents |-> delEvents, contra |-> con]

\* The parts of an overlay, and when it is one.
LEMMA DiffOfFacts ==
    ASSUME NEW new, NEW del, NEW plots, NEW newEvents, NEW delEvents, NEW con
    PROVE  LET d == DiffOf(new, del, plots, newEvents, delEvents, con) IN
           /\ d.new = new /\ d.del = del /\ d.plots = plots
           /\ d.newEvents = newEvents /\ d.delEvents = delEvents /\ d.contra = con
           /\ (/\ new \in [Keys -> EntryValues] /\ del \subseteq Keys /\ plots \subseteq Plots
               /\ newEvents \subseteq Events /\ delEvents \subseteq Events /\ con \in Contras
               /\ \A k \in Keys : new[k] \in ValuesOf(k) \cup {None}
               /\ \A k \in del : k[1] = "Generic" /\ new[k] = None
               /\ \A e \in newEvents \cup delEvents : e[1] \in plots) => d \in Diffs
BY DEF Diffs, DiffOf

\* set_value changes one key, and sets it unless it was deleted.
LEMMA SetValueFacts ==
    ASSUME NEW o \in Diffs, NEW k \in Keys, NEW v \in ValuesOf(k)
    PROVE  /\ set_value(o, k, v) \in Diffs
           /\ set_value(o, k, v).contra = o.contra
           /\ set_value(o, k, v).plots = o.plots
           /\ set_value(o, k, v).newEvents = o.newEvents
           /\ set_value(o, k, v).delEvents = o.delEvents
           /\ set_value(o, k, v).del = o.del \ {k}
           /\ \A j \in Keys : j # k => set_value(o, k, v).new[j] = o.new[j]
           /\ k \notin o.del => set_value(o, k, v).new[k] = v
<1>1. o = DiffOf(o.new, o.del, o.plots, o.newEvents, o.delEvents, o.contra)
  BY DEF Diffs, DiffOf
<1>2. CASE k \in o.del
  <2>1. set_value(o, k, v) = DiffOf(o.new, o.del \ {k}, o.plots, o.newEvents, o.delEvents, o.contra)
    BY <1>1, <1>2 DEF set_value, DiffOf
  <2> QED BY <1>2, <2>1, DiffFacts, DiffOfFacts
<1>3. CASE k \notin o.del
  <2> DEFINE new == [o.new EXCEPT ![k] = v]
  <2>1. set_value(o, k, v) = DiffOf(new, o.del, o.plots, o.newEvents, o.delEvents, o.contra)
    BY <1>1, <1>3 DEF set_value, DiffOf
  <2>2. /\ new \in [Keys -> EntryValues] /\ new[k] = v
        /\ \A j \in Keys : j # k => new[j] = o.new[j]
    BY DiffFacts, ValueFacts
  <2> HIDE DEF new
  <2>3. /\ \A j \in Keys : new[j] \in ValuesOf(j) \cup {None}
        /\ \A j \in o.del : j[1] = "Generic" /\ new[j] = None
    BY <1>3, <2>2, DiffFacts
  <2>4. set_value(o, k, v) \in Diffs
    BY <2>1, <2>2, <2>3, DiffFacts, DiffOfFacts
  <2>5. o.del \ {k} = o.del
    BY <1>3
  <2> QED BY <2>1, <2>2, <2>4, <2>5, DiffOfFacts
<1> QED BY <1>2, <1>3

\* delete_value changes one key.
LEMMA DeleteValueFacts ==
    ASSUME NEW o \in Diffs, NEW k \in Keys, k[1] = "Generic"
    PROVE  /\ delete_value(o, k) \in Diffs
           /\ delete_value(o, k).contra = o.contra
           /\ delete_value(o, k).plots = o.plots
           /\ delete_value(o, k).newEvents = o.newEvents
           /\ delete_value(o, k).delEvents = o.delEvents
           /\ delete_value(o, k).del \subseteq o.del \cup {k}
           /\ o.del \subseteq delete_value(o, k).del
           /\ \A j \in Keys : j # k => delete_value(o, k).new[j] = o.new[j]
<1>1. o = DiffOf(o.new, o.del, o.plots, o.newEvents, o.delEvents, o.contra)
  BY DEF Diffs, DiffOf
<1>2. CASE o.new[k] # None
  <2> DEFINE new == [o.new EXCEPT ![k] = None]
  <2>1. delete_value(o, k) = DiffOf(new, o.del, o.plots, o.newEvents, o.delEvents, o.contra)
    BY <1>1, <1>2 DEF delete_value, DiffOf
  <2>2. /\ new \in [Keys -> EntryValues] /\ new[k] = None
        /\ \A j \in Keys : j # k => new[j] = o.new[j]
    BY DiffFacts DEF EntryValues
  <2> HIDE DEF new
  <2>3. /\ \A j \in Keys : new[j] \in ValuesOf(j) \cup {None}
        /\ \A j \in o.del : j[1] = "Generic" /\ new[j] = None
    BY <2>2, DiffFacts
  <2>4. delete_value(o, k) \in Diffs
    BY <2>1, <2>2, <2>3, DiffFacts, DiffOfFacts
  <2> QED BY <2>1, <2>2, <2>4, DiffOfFacts
<1>3. CASE o.new[k] = None
  <2>1. delete_value(o, k) = DiffOf(o.new, o.del \cup {k}, o.plots, o.newEvents, o.delEvents, o.contra)
    BY <1>1, <1>3 DEF delete_value, DiffOf
  <2> QED BY <1>3, <2>1, DiffFacts, DiffOfFacts
<1> QED BY <1>2, <1>3

-----------------------------------------------------------------------------
(* What a change does to the values seen through an overlay *)

\* Sums of stakes wrap, and may wrap at every step or once.
LEMMA ModFacts ==
    /\ \A x \in Int : x % StakeRange \in Stakes
    /\ \A x \in Stakes : x % StakeRange = x
    /\ \A x, y \in Int : ((x % StakeRange) + y) % StakeRange = (x + y) % StakeRange
<1> DEFINE R == StakeRange
<1>1. R \in Nat \ {0}
  BY NetAssumption
<1> HIDE DEF R
<1>2. \A x \in Int : x % R \in 0..(R - 1) /\ x \div R \in Int /\ x = R * (x \div R) + (x % R)
  BY <1>1
<1>3. \A q \in Int : \A r \in 0..(R - 1) : (R * q + r) % R = r
  BY <1>1
<1>4. ASSUME NEW x \in Int, NEW y \in Int
      PROVE  ((x % R) + y) % R = (x + y) % R
  <2> DEFINE m == x % R
             n == (m + y) % R
             p == x \div R
             q == (m + y) \div R
  <2>1. m \in Int /\ p \in Int /\ x = R * p + m
    BY <1>2, <1>1
  <2> HIDE DEF m, p
  <2>2. m + y \in Int
    BY <2>1
  <2>3. n \in 0..(R - 1) /\ q \in Int /\ m + y = R * q + n
    BY <1>2, <2>2
  <2> HIDE DEF n, q
  <2>4. x + y = R * (p + q) + n
    BY <1>1, <2>1, <2>3
  <2>5. (x + y) % R = n
    BY <1>3, <2>1, <2>3, <2>4
  <2> QED BY <2>5 DEF n, m
<1>5. \A x \in 0..(R - 1) : x % R = x
  BY <1>1
<1> QED BY <1>2, <1>4, <1>5 DEF Stakes, R

\* A base has under each key what may be there.
BaseOK(base) == \A k \in Keys \ {AdminKeyID} : base.kv[k] \in ValuesOf(k) \cup {None}

\* The overlay p has for the key k what o has, and for the events.
SameKey(o, p, k) == p.new[k] = o.new[k] /\ (k \in p.del <=> k \in o.del)

SameEvents(o, p) ==
    p.plots = o.plots /\ p.newEvents = o.newEvents /\ p.delEvents = o.delEvents

\* What an overlay shows under a key depends on this key only.
LEMMA SameKeyFacts ==
    ASSUME NEW base, NEW o, NEW p, NEW k, SameKey(o, p, k)
    PROVE  get(base, p, k) = get(base, o, k)
BY DEF SameKey, get

\* What is read has the type of its key, and a stake that is not there is 0.
LEMMA GetFacts ==
    ASSUME NEW base, BaseOK(base), NEW o \in Diffs
    PROVE  /\ \A k \in Keys \ {AdminKeyID} : get(base, o, k) \in ValuesOf(k) \cup {None}
           /\ \A v \in Validators :
                /\ Stake(base, o, v) \in Stakes
                /\ Stake(base, o, v) = IF get(base, o, ValidatorStake(v)) = None THEN 0
                                       ELSE get(base, o, ValidatorStake(v))
<1>1. \A k \in Keys \ {AdminKeyID} : get(base, o, k) \in ValuesOf(k) \cup {None}
  BY DiffFacts DEF BaseOK, get
<1>2. ASSUME NEW v \in Validators
      PROVE  /\ Stake(base, o, v) \in Stakes
             /\ Stake(base, o, v) = IF get(base, o, ValidatorStake(v)) = None THEN 0
                                    ELSE get(base, o, ValidatorStake(v))
  <2>1. ValidatorStake(v) \in Keys \ {AdminKeyID}
    BY KeyFacts
  <2>2. get(base, o, ValidatorStake(v)) \in Stakes \cup {None}
    BY <1>1, <2>1, ValueFacts
  <2>3. 0 \in Stakes
    BY NetAssumption DEF Stakes
  <2>4. Stake(base, o, v) = IF get(base, o, ValidatorStake(v)) = None THEN 0
                            ELSE get(base, o, ValidatorStake(v))
    BY <2>1 DEF Stake, StakeIn
  <2> QED BY <2>2, <2>3, <2>4
<1> QED BY <1>1, <1>2

\* _set_value shows the new value, unless the key was deleted in the overlay.
LEMMA SetGenericFacts ==
    ASSUME NEW base, NEW o \in Diffs, NEW x, Generic(x) \in Keys, NEW v \in AdminValues \cup {None}
    PROVE  LET p == _set_value(base, o, x, v) IN
           /\ p \in Diffs /\ p.contra = o.contra /\ SameEvents(o, p)
           /\ \A k \in Keys : k # Generic(x) => SameKey(o, p, k)
           /\ v # None /\ Generic(x) \notin o.del => /\ Generic(x) \notin p.del
                                                     /\ get(base, p, Generic(x)) = v
<1>1. Generic(x)[1] = "Generic" /\ ValuesOf(Generic(x)) = AdminValues
  BY KeyFacts, ValueFacts
<1>2. CASE v # None
  <2>1. v \in ValuesOf(Generic(x)) /\ _set_value(base, o, x, v) = set_value(o, Generic(x), v)
    BY <1>1, <1>2 DEF _set_value
  <2> QED BY <1>2, <2>1, SetValueFacts DEF SameKey, SameEvents, get
<1>3. CASE v = None /\ get(base, o, Generic(x)) # None
  <2>1. _set_value(base, o, x, v) = delete_value(o, Generic(x))
    BY <1>3 DEF _set_value
  <2> QED BY <1>1, <1>3, <2>1, DeleteValueFacts DEF SameKey, SameEvents
<1>4. CASE v = None /\ get(base, o, Generic(x)) = None
  BY <1>4 DEF _set_value, SameKey, SameEvents
<1> QED BY <1>2, <1>3, <1>4

\* _change_validator_stake adds to one stake, wrapping around.
LEMMA ChangeStakeFacts ==
    ASSUME NEW base, BaseOK(base), NEW o \in Diffs, NEW w \in Validators, NEW amount \in Int
    PROVE  LET p == _change_validator_stake(base, o, w, amount) IN
           /\ p \in Diffs /\ p.contra = o.contra /\ SameEvents(o, p)
           /\ \A k \in Keys : k # ValidatorStake(w) => SameKey(o, p, k)
           /\ Stake(base, p, w) = (Stake(base, o, w) + amount) % StakeRange
           /\ \A v \in Validators : v # w => Stake(base, p, v) = Stake(base, o, v)
<1> DEFINE k == ValidatorStake(w)
           s == Stake(base, o, w)
           new == (s + amount) % StakeRange
           p == set_value(o, k, new)
<1>1. k \in Keys /\ k # AdminKeyID /\ k[1] # "Generic" /\ ValuesOf(k) = Stakes
  BY KeyFacts, ValueFacts
<1>2. s \in Stakes /\ s = IF get(base, o, k) = None THEN 0 ELSE get(base, o, k)
  BY GetFacts
<1>3. s \in Int
  BY <1>2, NetAssumption DEF Stakes
<1>4. new \in Stakes
  BY <1>3, ModFacts
<1>5. _change_validator_stake(base, o, w, amount) = p
  BY <1>2 DEF _change_validator_stake
<1> HIDE DEF s, new
<1>6. k \notin o.del
  BY <1>1, DiffFacts
<1>7. /\ p \in Diffs /\ p.contra = o.contra /\ SameEvents(o, p)
      /\ \A j \in Keys : j # k => SameKey(o, p, j)
      /\ p.new[k] = new
  BY <1>1, <1>4, <1>6, SetValueFacts DEF SameKey, SameEvents
<1> HIDE DEF p
<1>8. new # None
  BY <1>4, NetAssumption
<1>9. get(base, p, k) = new
  BY <1>7, <1>8 DEF get
<1>10. Stake(base, p, w) = new
  BY <1>7, <1>8, <1>9, GetFacts
<1>11. ASSUME NEW v \in Validators, v # w
       PROVE  Stake(base, p, v) = Stake(base, o, v)
  <2>1. ValidatorStake(v) # k /\ ValidatorStake(v) \in Keys
    BY <1>11, KeyFacts
  <2>2. get(base, p, ValidatorStake(v)) = get(base, o, ValidatorStake(v))
    BY <1>7, <2>1, SameKeyFacts
  <2> QED BY <1>7, <2>2, GetFacts
<1> QED BY <1>5, <1>7, <1>10, <1>11 DEF new, s

\* A transfer takes from one stake what it adds to the other.
LEMMA TransferFacts ==
    ASSUME NEW base, BaseOK(base), NEW o \in Diffs, NEW c, c.from \in Validators, c.to \in Validators,
           NEW amount \in Int
    PROVE  LET p == transfer(base, o, c, amount) IN
           /\ p \in Diffs /\ p.contra = o.contra /\ SameEvents(o, p)
           /\ \A k \in Keys : k[1] # "ValidatorStake" => SameKey(o, p, k)
           /\ \A v \in Validators :
                Stake(base, p, v) = (Stake(base, o, v) + ((IF c.to = v THEN amount ELSE 0)
                                                  - (IF c.from = v THEN amount ELSE 0))) % StakeRange
<1> DEFINE q == _change_validator_stake(base, o, c.to, amount)
           p == _change_validator_stake(base, q, c.from, -amount)
<1>1. transfer(base, o, c, amount) = p
  BY DEF transfer
<1>2. /\ q \in Diffs /\ q.contra = o.contra /\ SameEvents(o, q)
      /\ \A k \in Keys : k # ValidatorStake(c.to) => SameKey(o, q, k)
      /\ Stake(base, q, c.to) = (Stake(base, o, c.to) + amount) % StakeRange
      /\ \A v \in Validators : v # c.to => Stake(base, q, v) = Stake(base, o, v)
  BY ChangeStakeFacts
<1>3. -amount \in Int
  OBVIOUS
<1> HIDE DEF q
<1>4. /\ p \in Diffs /\ p.contra = q.contra /\ SameEvents(q, p)
      /\ \A k \in Keys : k # ValidatorStake(c.from) => SameKey(q, p, k)
      /\ Stake(base, p, c.from) = (Stake(base, q, c.from) + (-amount)) % StakeRange
      /\ \A v \in Validators : v # c.from => Stake(base, p, v) = Stake(base, q, v)
  BY <1>2, <1>3, ChangeStakeFacts
<1> HIDE DEF p
<1>5. \A k \in Keys : k[1] # "ValidatorStake" => SameKey(o, p, k)
  BY <1>2, <1>4, KeyFacts DEF SameKey
<1>6. ASSUME NEW v \in Validators
      PROVE  Stake(base, p, v) = (Stake(base, o, v) + ((IF c.to = v THEN amount ELSE 0)
                                               - (IF c.from = v THEN amount ELSE 0))) % StakeRange
  <2> DEFINE s == Stake(base, o, v)
  <2>1. s \in Stakes
    BY GetFacts
  <2>2. s \in Int
    BY <2>1, NetAssumption DEF Stakes
  <2>3. s % StakeRange = s
    BY <2>1, ModFacts
  <2>4. (((s + amount) % StakeRange) + (-amount)) % StakeRange = (s + amount + (-amount)) % StakeRange
    BY <2>2, ModFacts
  <2>5. CASE c.to = v /\ c.from = v
    <3>1. Stake(base, p, v) = (((s + amount) % StakeRange) + (-amount)) % StakeRange
      BY <1>2, <1>4, <2>5
    <3>2. s + amount + (-amount) = s + (amount - amount)
      BY <2>2
    <3> HIDE DEF s
    <3> QED BY <2>4, <2>5, <3>1, <3>2 DEF s
  <2>6. CASE c.to = v /\ c.from # v
    <3>1. Stake(base, p, v) = (s + amount) % StakeRange
      BY <1>2, <1>4, <2>6
    <3>2. s + amount = s + (amount - 0)
      BY <2>2
    <3> QED BY <2>6, <3>1, <3>2
  <2>7. CASE c.to # v /\ c.from = v
    <3>1. Stake(base, p, v) = (s + (-amount)) % StakeRange
      BY <1>2, <1>4, <2>7
    <3>2. s + (-amount) = s + (0 - amount)
      BY <2>2
    <3> QED BY <2>7, <3>1, <3>2
  <2>8. CASE c.to # v /\ c.from # v
    <3>1. Stake(base, p, v) = s
      BY <1>2, <1>4, <2>8
    <3>2. s = s + (0 - 0)
      BY <2>2
    <3> QED BY <2>3, <2>8, <3>1, <3>2
  <2> QED BY <2>5, <2>6, <2>7, <2>8
<1> QED BY <1>1, <1>2, <1>4, <1>5, <1>6 DEF SameEvents

\* A registration sets the key of the validator.
LEMMA RegisterFacts ==
    ASSUME NEW base, NEW o \in Diffs, NEW w \in Validators
    PROVE  LET p == register(o, w) IN
           /\ p \in Diffs /\ p.contra = o.contra /\ SameEvents(o, p)
           /\ \A k \in Keys : k # ValidatorKey(w) => SameKey(o, p, k)
           /\ get(base, p, ValidatorKey(w)) # None
<1>1. /\ ValidatorKey(w) \in Keys /\ ValidatorKey(w)[1] # "Generic"
      /\ ValuesOf(ValidatorKey(w)) = Validators
  BY KeyFacts, ValueFacts
<1>2. ValidatorKey(w) \notin o.del
  BY <1>1, DiffFacts
<1>3. w # None
  BY NetAssumption
<1> QED BY <1>1, <1>2, <1>3, SetValueFacts DEF register, SameKey, SameEvents, get

\* The events of a change are events of the model.
LEMMA EventsOfFacts ==
    ASSUME NEW c, c.plots \subseteq Plots, c.tick \in 0..MaxTick, c.event \in RawEvents
    PROVE  EventsOf(c) \subseteq Events /\ \A e \in EventsOf(c) : e[1] \in Plots
BY DEF EventsOf, Events

\* An overlay with other events.
LEMMA DiffEvents ==
    ASSUME NEW o \in Diffs, NEW new, NEW del, NEW plots
    PROVE  [o EXCEPT !.newEvents = new, !.delEvents = del, !.plots = plots]
             = DiffOf(o.new, o.del, plots, new, del, o.contra)
<1> DEFINE a == [o EXCEPT !.newEvents = new]
           b == [a EXCEPT !.delEvents = del]
<1>1. o = DiffOf(o.new, o.del, o.plots, o.newEvents, o.delEvents, o.contra)
  BY DEF Diffs, DiffOf
<1>2. a = DiffOf(o.new, o.del, o.plots, new, o.delEvents, o.contra)
  BY <1>1 DEF DiffOf
<1>3. [o EXCEPT !.newEvents = new, !.delEvents = del, !.plots = plots] = [b EXCEPT !.plots = plots]
  BY Zenon
<1> HIDE DEF a
<1>4. b = DiffOf(o.new, o.del, o.plots, new, del, o.contra)
  BY <1>2 DEF DiffOf
<1> HIDE DEF b
<1>5. [b EXCEPT !.plots = plots] = DiffOf(o.new, o.del, plots, new, del, o.contra)
  BY <1>4 DEF DiffOf
<1> QED BY <1>3, <1>5

\* add_event takes back a removal, or adds.
LEMMA AddEventFacts ==
    ASSUME NEW o \in Diffs, NEW es, es \subseteq Events, \A e \in es : e[1] \in Plots
    PROVE  LET p == add_event(o, es) IN
           /\ p \in Diffs /\ p.contra = o.contra
           /\ \A k \in Keys : SameKey(o, p, k)
           /\ p.delEvents = o.delEvents \ es /\ p.newEvents = o.newEvents \cup (es \ o.delEvents)
<1> DEFINE new == o.newEvents \cup (es \ o.delEvents)
           del == o.delEvents \ es
           plots == o.plots \cup PlotsOf(es \ o.delEvents)
<1>1. o = DiffOf(o.new, o.del, o.plots, o.newEvents, o.delEvents, o.contra)
  BY DEF Diffs, DiffOf
<1>2. add_event(o, es) = DiffOf(o.new, o.del, plots, new, del, o.contra)
  <2>1. add_event(o, es) = [o EXCEPT !.newEvents = new, !.delEvents = del, !.plots = plots]
    BY DEF add_event
  <2> QED BY <2>1, DiffEvents, Zenon
<1>3. new \subseteq Events /\ del \subseteq Events
  BY DiffFacts
<1>4. plots \subseteq Plots /\ \A e \in new \cup del : e[1] \in plots
  BY DiffFacts DEF PlotsOf
<1> HIDE DEF new, del, plots
<1>5. add_event(o, es) \in Diffs
  BY <1>2, <1>3, <1>4, DiffFacts, DiffOfFacts
<1>6. LET p == DiffOf(o.new, o.del, plots, new, del, o.contra) IN
      p.new = o.new /\ p.del = o.del /\ p.contra = o.contra /\ p.newEvents = new /\ p.delEvents = del
  BY DiffOfFacts
<1> DEFINE p == add_event(o, es)
<1>7. p.new = o.new /\ p.del = o.del /\ p.contra = o.contra /\ p.newEvents = new /\ p.delEvents = del
  BY <1>2, <1>6, Zenon
<1> HIDE DEF p
<1>8. \A k \in Keys : SameKey(o, p, k)
  BY <1>7 DEF SameKey
<1>9. p \in Diffs
  BY <1>5 DEF p
<1> QED BY <1>7, <1>8, <1>9, Zenon DEF p, new, del

\* remove_event takes back an addition, or removes.
LEMMA RemoveEventFacts ==
    ASSUME NEW o \in Diffs, NEW es, es \subseteq Events, \A e \in es : e[1] \in Plots
    PROVE  LET p == remove_event(o, es) IN
           /\ p \in Diffs /\ p.contra = o.contra
           /\ \A k \in Keys : SameKey(o, p, k)
           /\ p.newEvents = o.newEvents \ es /\ p.delEvents = o.delEvents \cup (es \ o.newEvents)
<1> DEFINE new == o.newEvents \ es
           del == o.delEvents \cup (es \ o.newEvents)
           plots == o.plots \cup PlotsOf(es \ o.newEvents)
<1>1. o = DiffOf(o.new, o.del, o.plots, o.newEvents, o.delEvents, o.contra)
  BY DEF Diffs, DiffOf
<1>2. remove_event(o, es) = DiffOf(o.new, o.del, plots, new, del, o.contra)
  <2>1. remove_event(o, es) = [o EXCEPT !.newEvents = new, !.delEvents = del, !.plots = plots]
    BY DEF remove_event
  <2> QED BY <2>1, DiffEvents, Zenon
<1>3. new \subseteq Events /\ del \subseteq Events
  BY DiffFacts
<1>4. plots \subseteq Plots /\ \A e \in new \cup del : e[1] \in plots
  BY DiffFacts DEF PlotsOf
<1> HIDE DEF new, del, plots
<1>5. remove_event(o, es) \in Diffs
  BY <1>2, <1>3, <1>4, DiffFacts, DiffOfFacts
<1>6. LET p == DiffOf(o.new, o.del, plots, new, del, o.contra) IN
      p.new = o.new /\ p.del = o.del /\ p.contra = o.contra /\ p.newEvents = new /\ p.delEvents = del
  BY DiffOfFacts
<1> DEFINE p == remove_event(o, es)
<1>7. p.new = o.new /\ p.del = o.del /\ p.contra = o.contra /\ p.newEvents = new /\ p.delEvents = del
  BY <1>2, <1>6, Zenon
<1> HIDE DEF p
<1>8. \A k \in Keys : SameKey(o, p, k)
  BY <1>7 DEF SameKey
<1>9. p \in Diffs
  BY <1>5 DEF p
<1> QED BY <1>7, <1>8, <1>9, Zenon DEF p, new, del

-----------------------------------------------------------------------------
(* One change: what applying and undoing it does to the state that is seen *)

\* What a change adds to a stake, and the events it brings.
Delta(c, v) ==
    CASE c.type = "BlockReward" -> (IF c.id = v THEN Reward ELSE 0)
      [] c.type = "Slash" -> (IF c.id = v THEN -c.amount ELSE 0)
      [] c.type = "Transfer" -> ((IF c.to = v THEN c.amount ELSE 0) - (IF c.from = v THEN c.amount ELSE 0))
      [] OTHER -> 0

Happened(c) == IF c.type = "PlotEvent" THEN EventsOf(c) ELSE {}

\* The six kinds of change.
LEMMA ChangeFacts ==
    ASSUME NEW c \in Changes
    PROVE  \/ /\ c.type = "Admin" /\ c.key \in AdminBins /\ c.value \in AdminValues \cup {None}
              /\ c = [type |-> "Admin", key |-> c.key, value |-> c.value]
           \/ c.type = "BlockReward" /\ c.id \in Validators
           \/ c.type = "NewValidator" /\ c.id \in Validators
           \/ /\ c.type = "PlotEvent" /\ c.plots \subseteq Plots /\ c.tick \in 0..MaxTick
              /\ c.event \in RawEvents
           \/ c.type = "Slash" /\ c.id \in Validators /\ c.amount \in Nat
           \/ /\ c.type = "Transfer" /\ c.from \in Validators /\ c.to \in Validators
              /\ c.amount \in Nat
BY DEF Changes

\* What a change adds to each stake, and the events it brings.
LEMMA DeltaFacts ==
    ASSUME NEW c \in Changes
    PROVE  /\ \A v \in Validators : Delta(c, v) \in Int
           /\ Happened(c) \subseteq Events /\ \A e \in Happened(c) : e[1] \in Plots
<1>1. ASSUME NEW v \in Validators PROVE Delta(c, v) \in Int
  BY ChangeFacts, NetAssumption DEF Delta
<1>2. Happened(c) \subseteq Events /\ \A e \in Happened(c) : e[1] \in Plots
  BY ChangeFacts, EventsOfFacts DEF Happened
<1> QED BY <1>1, <1>2

\* The overlay p shows the stakes of o changed by amounts, its registered
\* validators, and the value that c sets.
Moved(base, o, p, amounts, c) ==
    /\ p \in Diffs /\ p.contra = o.contra
    /\ \A v \in Validators : Stake(base, p, v) = (Stake(base, o, v) + amounts[v]) % StakeRange
    /\ \A v \in Validators :
         get(base, o, ValidatorKey(v)) # None => get(base, p, ValidatorKey(v)) # None
    /\ \A x \in AdminBins :
         IF Names(c, x)
         THEN c.value # None /\ Generic(x) \notin o.del =>
                Generic(x) \notin p.del /\ get(base, p, Generic(x)) = c.value
         ELSE SameKey(o, p, Generic(x))

\* A step that leaves the stakes alone.
LEMMA StakesStay ==
    ASSUME NEW base, BaseOK(base), NEW o \in Diffs, NEW p \in Diffs,
           \A v \in Validators : SameKey(o, p, ValidatorStake(v))
    PROVE  \A v \in Validators : Stake(base, p, v) = (Stake(base, o, v) + 0) % StakeRange
<1> TAKE v \in Validators
<1>1. get(base, p, ValidatorStake(v)) = get(base, o, ValidatorStake(v))
  BY SameKeyFacts
<1>2. Stake(base, p, v) = Stake(base, o, v) /\ Stake(base, o, v) \in Stakes
  BY <1>1, GetFacts
<1>3. Stake(base, o, v) + 0 = Stake(base, o, v)
  BY <1>2, NetAssumption DEF Stakes
<1> QED BY <1>2, <1>3, ModFacts

\* A step that leaves all but the stakes alone.
LEMMA RestStays ==
    ASSUME NEW base, NEW o, NEW p, \A k \in Keys : k[1] # "ValidatorStake" => SameKey(o, p, k)
    PROVE  /\ \A v \in Validators :
                get(base, o, ValidatorKey(v)) # None => get(base, p, ValidatorKey(v)) # None
           /\ \A x \in AdminBins : SameKey(o, p, Generic(x))
<1>1. \A v \in Validators : SameKey(o, p, ValidatorKey(v))
  BY KeyFacts
<1>2. \A x \in AdminBins : SameKey(o, p, Generic(x))
  BY KeyFacts
<1> QED BY <1>1, <1>2, SameKeyFacts

\* An Admin change leaves stakes, validators and events alone.
LEMMA SetAdminMoves ==
    ASSUME NEW base, BaseOK(base), NEW o \in Diffs, NEW c, c.type = "Admin", c.key \in AdminBins,
           c.value \in AdminValues \cup {None}
    PROVE  LET p == _set_value(base, o, c.key, c.value) IN
           Moved(base, o, p, [v \in Validators |-> 0], c) /\ SameEvents(o, p)
<1> DEFINE p == _set_value(base, o, c.key, c.value)
           zero == [v \in Validators |-> 0]
<1>1. Generic(c.key) \in Keys
  BY KeyFacts
<1>2. /\ p \in Diffs /\ p.contra = o.contra /\ SameEvents(o, p)
      /\ \A k \in Keys : k # Generic(c.key) => SameKey(o, p, k)
      /\ c.value # None /\ Generic(c.key) \notin o.del =>
           Generic(c.key) \notin p.del /\ get(base, p, Generic(c.key)) = c.value
  BY <1>1, SetGenericFacts
<1> HIDE DEF p
<1>3. \A v \in Validators : SameKey(o, p, ValidatorStake(v)) /\ SameKey(o, p, ValidatorKey(v))
  BY <1>2, KeyFacts
<1>4. \A v \in Validators : Stake(base, p, v) = (Stake(base, o, v) + zero[v]) % StakeRange
  BY <1>2, <1>3, StakesStay
<1> HIDE DEF zero
<1>5. \A v \in Validators : get(base, p, ValidatorKey(v)) = get(base, o, ValidatorKey(v))
  BY <1>3, SameKeyFacts
<1>6. \A x \in AdminBins : IF Names(c, x)
         THEN c.value # None /\ Generic(x) \notin o.del =>
                Generic(x) \notin p.del /\ get(base, p, Generic(x)) = c.value
         ELSE SameKey(o, p, Generic(x))
  BY <1>2, KeyFacts DEF Names
<1> QED BY <1>2, <1>4, <1>5, <1>6 DEF Moved, p, zero

\* A reward or a slash moves one stake and nothing else.
LEMMA PayMoves ==
    ASSUME NEW base, BaseOK(base), NEW o \in Diffs, NEW w \in Validators, NEW amount \in Int,
           NEW c, c.type # "Admin"
    PROVE  LET p == _change_validator_stake(base, o, w, amount) IN
           /\ Moved(base, o, p, [v \in Validators |-> IF w = v THEN amount ELSE 0], c)
           /\ SameEvents(o, p)
<1> DEFINE p == _change_validator_stake(base, o, w, amount)
           amounts == [v \in Validators |-> IF w = v THEN amount ELSE 0]
<1>1. /\ p \in Diffs /\ p.contra = o.contra /\ SameEvents(o, p)
      /\ \A k \in Keys : k # ValidatorStake(w) => SameKey(o, p, k)
      /\ Stake(base, p, w) = (Stake(base, o, w) + amount) % StakeRange
      /\ \A v \in Validators : v # w => Stake(base, p, v) = Stake(base, o, v)
  BY ChangeStakeFacts
<1> HIDE DEF p
<1>2. \A k \in Keys : k[1] # "ValidatorStake" => SameKey(o, p, k)
  BY <1>1, KeyFacts
<1>3. ASSUME NEW v \in Validators
      PROVE  Stake(base, p, v) = (Stake(base, o, v) + amounts[v]) % StakeRange
  <2>1. CASE v = w
    BY <1>1, <2>1
  <2>2. CASE v # w
    <3>1. Stake(base, o, v) \in Stakes /\ Stake(base, o, v) + 0 = Stake(base, o, v)
      BY GetFacts, NetAssumption DEF Stakes
    <3>2. amounts[v] = 0
      BY <2>2
    <3> HIDE DEF amounts
    <3> QED BY <1>1, <2>2, <3>1, <3>2, ModFacts
  <2> QED BY <2>1, <2>2
<1> HIDE DEF amounts
<1>4. \A x : ~Names(c, x)
  BY DEF Names
<1> QED BY <1>1, <1>2, <1>3, <1>4, RestStays DEF Moved, p, amounts

\* A transfer moves two stakes and nothing else.
LEMMA TransferMoves ==
    ASSUME NEW base, BaseOK(base), NEW o \in Diffs, NEW c, c.from \in Validators, c.to \in Validators,
           NEW amount \in Int, c.type # "Admin"
    PROVE  LET p == transfer(base, o, c, amount) IN
           /\ Moved(base, o, p, [v \in Validators |-> (IF c.to = v THEN amount ELSE 0)
                                                      - (IF c.from = v THEN amount ELSE 0)], c)
           /\ SameEvents(o, p)
<1> DEFINE p == transfer(base, o, c, amount)
           amounts == [v \in Validators |-> (IF c.to = v THEN amount ELSE 0)
                                            - (IF c.from = v THEN amount ELSE 0)]
<1>1. /\ p \in Diffs /\ p.contra = o.contra /\ SameEvents(o, p)
      /\ \A k \in Keys : k[1] # "ValidatorStake" => SameKey(o, p, k)
      /\ \A v \in Validators :
           Stake(base, p, v) = (Stake(base, o, v) + ((IF c.to = v THEN amount ELSE 0)
                                             - (IF c.from = v THEN amount ELSE 0))) % StakeRange
  BY TransferFacts
<1> HIDE DEF p
<1>2. \A v \in Validators : Stake(base, p, v) = (Stake(base, o, v) + amounts[v]) % StakeRange
  BY <1>1
<1> HIDE DEF amounts
<1>3. \A x : ~Names(c, x)
  BY DEF Names
<1> QED BY <1>1, <1>2, <1>3, RestStays DEF Moved, p, amounts

\* A step that only changes events, or only the keys of the other region.
LEMMA StillMoves ==
    ASSUME NEW base, BaseOK(base), NEW o \in Diffs, NEW p \in Diffs, p.contra = o.contra,
           NEW c, c.type # "Admin",
           \A v \in Validators : SameKey(o, p, ValidatorStake(v)),
           \A x \in AdminBins : SameKey(o, p, Generic(x)),
           \A v \in Validators : SameKey(o, p, ValidatorKey(v)) \/ get(base, p, ValidatorKey(v)) # None
    PROVE  Moved(base, o, p, [v \in Validators |-> 0], c)
<1> DEFINE zero == [v \in Validators |-> 0]
<1>1. \A v \in Validators : Stake(base, p, v) = (Stake(base, o, v) + zero[v]) % StakeRange
  BY StakesStay
<1> HIDE DEF zero
<1>2. \A v \in Validators :
         get(base, o, ValidatorKey(v)) # None => get(base, p, ValidatorKey(v)) # None
  BY SameKeyFacts
<1>3. \A x : ~Names(c, x)
  BY DEF Names
<1> QED BY <1>1, <1>2, <1>3 DEF Moved, zero

\* apply_change moves the stakes by what the change says, and adds its events.
LEMMA ApplyFacts ==
    ASSUME NEW base, BaseOK(base), NEW o \in Diffs, NEW c \in Changes
    PROVE  LET p == apply_change(base, o, c) IN
           /\ Moved(base, o, p, [v \in Validators |-> Delta(c, v)], c)
           /\ c.type = "NewValidator" => get(base, p, ValidatorKey(c.id)) # None
           /\ p.newEvents = o.newEvents \cup (Happened(c) \ o.delEvents)
           /\ p.delEvents = o.delEvents \ Happened(c)
<1> DEFINE p == apply_change(base, o, c)
           amounts == [v \in Validators |-> Delta(c, v)]
<1>1. CASE c.type = "Admin"
  <2>1. p = _set_value(base, o, c.key, c.value) /\ Happened(c) = {}
    BY <1>1 DEF apply_change, Happened
  <2>2. amounts = [v \in Validators |-> 0]
    BY <1>1 DEF Delta
  <2>3. c.key \in AdminBins /\ c.value \in AdminValues \cup {None}
    BY <1>1, ChangeFacts
  <2> HIDE DEF p, amounts
  <2>4. Moved(base, o, p, amounts, c) /\ SameEvents(o, p)
    BY <1>1, <2>1, <2>2, <2>3, SetAdminMoves
  <2> QED BY <1>1, <2>1, <2>4 DEF SameEvents, p, amounts
<1>2. CASE c.type = "BlockReward"
  <2>1. p = _change_validator_stake(base, o, c.id, Reward) /\ Happened(c) = {}
    BY <1>2 DEF apply_change, Happened
  <2>2. amounts = [v \in Validators |-> IF c.id = v THEN Reward ELSE 0]
    BY <1>2 DEF Delta
  <2>3. c.id \in Validators /\ Reward \in Int
    BY <1>2, ChangeFacts, NetAssumption
  <2> HIDE DEF p, amounts
  <2>4. Moved(base, o, p, amounts, c) /\ SameEvents(o, p)
    BY <1>2, <2>1, <2>2, <2>3, PayMoves
  <2> QED BY <1>2, <2>1, <2>4 DEF SameEvents, p, amounts
<1>3. CASE c.type = "Slash"
  <2>1. p = _change_validator_stake(base, o, c.id, -c.amount) /\ Happened(c) = {}
    BY <1>3 DEF apply_change, Happened
  <2>2. amounts = [v \in Validators |-> IF c.id = v THEN -c.amount ELSE 0]
    BY <1>3 DEF Delta
  <2>3. c.id \in Validators /\ -c.amount \in Int
    BY <1>3, ChangeFacts
  <2> HIDE DEF p, amounts
  <2>4. Moved(base, o, p, amounts, c) /\ SameEvents(o, p)
    BY <1>3, <2>1, <2>2, <2>3, PayMoves
  <2> QED BY <1>3, <2>1, <2>4 DEF SameEvents, p, amounts
<1>4. CASE c.type = "Transfer"
  <2>1. p = transfer(base, o, c, c.amount) /\ Happened(c) = {}
    BY <1>4 DEF apply_change, Happened
  <2>2. amounts = [v \in Validators |-> (IF c.to = v THEN c.amount ELSE 0)
                                        - (IF c.from = v THEN c.amount ELSE 0)]
    BY <1>4 DEF Delta
  <2>3. c.from \in Validators /\ c.to \in Validators /\ c.amount \in Int
    BY <1>4, ChangeFacts
  <2> HIDE DEF p, amounts
  <2>4. Moved(base, o, p, amounts, c) /\ SameEvents(o, p)
    BY <1>4, <2>1, <2>2, <2>3, TransferMoves
  <2> QED BY <1>4, <2>1, <2>4 DEF SameEvents, p, amounts
<1>5. CASE c.type = "NewValidator"
  <2>1. p = register(o, c.id) /\ Happened(c) = {}
    BY <1>5 DEF apply_change, Happened
  <2>2. amounts = [v \in Validators |-> 0]
    BY <1>5 DEF Delta
  <2>3. c.id \in Validators
    BY <1>5, ChangeFacts
  <2> HIDE DEF p, amounts
  <2>4. /\ p \in Diffs /\ p.contra = o.contra /\ SameEvents(o, p)
        /\ \A k \in Keys : k # ValidatorKey(c.id) => SameKey(o, p, k)
        /\ get(base, p, ValidatorKey(c.id)) # None
    BY <2>1, <2>3, RegisterFacts
  <2>5. /\ \A v \in Validators : SameKey(o, p, ValidatorStake(v))
        /\ \A x \in AdminBins : SameKey(o, p, Generic(x))
        /\ \A v \in Validators : SameKey(o, p, ValidatorKey(v)) \/ get(base, p, ValidatorKey(v)) # None
    BY <2>4, KeyFacts
  <2>6. Moved(base, o, p, amounts, c)
    BY <1>5, <2>2, <2>4, <2>5, StillMoves
  <2> QED BY <2>1, <2>4, <2>6 DEF SameEvents, p, amounts
<1>6. CASE c.type = "PlotEvent"
  <2>1. p = add_event(o, Happened(c))
    BY <1>6 DEF apply_change, _add_events, Happened
  <2>2. amounts = [v \in Validators |-> 0]
    BY <1>6 DEF Delta
  <2> HIDE DEF p, amounts
  <2>3. /\ p \in Diffs /\ p.contra = o.contra
        /\ \A k \in Keys : SameKey(o, p, k)
        /\ p.delEvents = o.delEvents \ Happened(c)
        /\ p.newEvents = o.newEvents \cup (Happened(c) \ o.delEvents)
    BY <2>1, DeltaFacts, AddEventFacts
  <2>4. /\ \A v \in Validators : SameKey(o, p, ValidatorStake(v)) /\ SameKey(o, p, ValidatorKey(v))
        /\ \A x \in AdminBins : SameKey(o, p, Generic(x))
    BY <2>3, KeyFacts
  <2>5. Moved(base, o, p, amounts, c)
    BY <1>6, <2>2, <2>3, <2>4, StillMoves
  <2> QED BY <1>6, <2>3, <2>5 DEF p, amounts
<1> QED BY <1>1, <1>2, <1>3, <1>4, <1>5, <1>6, ChangeFacts

\* undo_change moves the stakes back and removes the events.
LEMMA UndoFacts ==
    ASSUME NEW base, BaseOK(base), NEW o \in Diffs, NEW c \in Changes
    PROVE  LET p == undo_change(base, o, c) IN
           /\ Moved(base, o, p, [v \in Validators |-> -Delta(c, v)], c)
           /\ p.newEvents = o.newEvents \ Happened(c)
           /\ p.delEvents = o.delEvents \cup (Happened(c) \ o.newEvents)
<1> DEFINE p == undo_change(base, o, c)
           amounts == [v \in Validators |-> -Delta(c, v)]
<1>1. CASE c.type = "Admin"
  <2>1. p = _set_value(base, o, c.key, c.value) /\ Happened(c) = {}
    BY <1>1 DEF undo_change, Happened
  <2>2. amounts = [v \in Validators |-> 0]
    <3>1. \A v \in Validators : Delta(c, v) = 0
      BY <1>1 DEF Delta
    <3>2. \A v \in Validators : -Delta(c, v) = 0 - Delta(c, v)
      BY DeltaFacts
    <3>3. \A v \in Validators : 0 - Delta(c, v) = 0
      BY <3>1
    <3> QED BY <3>2, <3>3, Zenon
  <2>3. c.key \in AdminBins /\ c.value \in AdminValues \cup {None}
    BY <1>1, ChangeFacts
  <2> HIDE DEF p, amounts
  <2>4. Moved(base, o, p, amounts, c) /\ SameEvents(o, p)
    BY <1>1, <2>1, <2>2, <2>3, SetAdminMoves
  <2> QED BY <1>1, <2>1, <2>4 DEF SameEvents, p, amounts
<1>2. CASE c.type = "BlockReward"
  <2>1. p = _change_validator_stake(base, o, c.id, -Reward) /\ Happened(c) = {}
    BY <1>2 DEF undo_change, Happened
  <2>2. amounts = [v \in Validators |-> IF c.id = v THEN -Reward ELSE 0]
    BY <1>2 DEF Delta
  <2>3. c.id \in Validators /\ -Reward \in Int
    BY <1>2, ChangeFacts, NetAssumption
  <2> HIDE DEF p, amounts
  <2>4. Moved(base, o, p, amounts, c) /\ SameEvents(o, p)
    BY <1>2, <2>1, <2>2, <2>3, PayMoves
  <2> QED BY <1>2, <2>1, <2>4 DEF SameEvents, p, amounts
<1>3. CASE c.type = "Slash"
  <2>1. p = _change_validator_stake(base, o, c.id, c.amount) /\ Happened(c) = {}
    BY <1>3 DEF undo_change, Happened
  <2>2. c.id \in Validators /\ c.amount \in Int /\ -(-c.amount) = c.amount
    BY <1>3, ChangeFacts
  <2>3. amounts = [v \in Validators |-> IF c.id = v THEN c.amount ELSE 0]
    BY <1>3, <2>2 DEF Delta
  <2> HIDE DEF p, amounts
  <2>4. Moved(base, o, p, amounts, c) /\ SameEvents(o, p)
    BY <1>3, <2>1, <2>2, <2>3, PayMoves
  <2> QED BY <1>3, <2>1, <2>4 DEF SameEvents, p, amounts
<1>4. CASE c.type = "Transfer"
  <2>1. p = transfer(base, o, c, -c.amount) /\ Happened(c) = {}
    BY <1>4 DEF undo_change, Happened
  <2>2. c.from \in Validators /\ c.to \in Validators /\ c.amount \in Int /\ -c.amount \in Int
    BY <1>4, ChangeFacts
  <2>3. amounts = [v \in Validators |-> (IF c.to = v THEN -c.amount ELSE 0)
                                        - (IF c.from = v THEN -c.amount ELSE 0)]
    BY <1>4, <2>2 DEF Delta
  <2> HIDE DEF p, amounts
  <2>4. Moved(base, o, p, amounts, c) /\ SameEvents(o, p)
    BY <1>4, <2>1, <2>2, <2>3, TransferMoves
  <2> QED BY <1>4, <2>1, <2>4 DEF SameEvents, p, amounts
<1>5. CASE c.type = "NewValidator"
  <2>1. p = _set_value(base, o, Prefixed(c.id), None) /\ Happened(c) = {}
    BY <1>5 DEF undo_change, Happened
  <2>2. amounts = [v \in Validators |-> 0]
    <3>1. \A v \in Validators : Delta(c, v) = 0
      BY <1>5 DEF Delta
    <3>2. \A v \in Validators : -Delta(c, v) = 0 - Delta(c, v)
      BY DeltaFacts
    <3>3. \A v \in Validators : 0 - Delta(c, v) = 0
      BY <3>1
    <3> QED BY <3>2, <3>3, Zenon
  <2>3. c.id \in Validators
    BY <1>5, ChangeFacts
  <2>4. Generic(Prefixed(c.id)) \in Keys /\ Prefixed(c.id) \notin AdminBins
    BY <2>3, KeyFacts, BinAssumption
  <2> HIDE DEF p, amounts
  <2>5. /\ p \in Diffs /\ p.contra = o.contra /\ SameEvents(o, p)
        /\ \A k \in Keys : k # Generic(Prefixed(c.id)) => SameKey(o, p, k)
    BY <2>1, <2>4, SetGenericFacts
  <2>6. /\ \A v \in Validators : SameKey(o, p, ValidatorStake(v)) /\ SameKey(o, p, ValidatorKey(v))
        /\ \A x \in AdminBins : SameKey(o, p, Generic(x))
    BY <2>4, <2>5, KeyFacts
  <2>7. Moved(base, o, p, amounts, c)
    BY <1>5, <2>2, <2>5, <2>6, StillMoves
  <2> QED BY <2>1, <2>5, <2>7 DEF SameEvents, p, amounts
<1>6. CASE c.type = "PlotEvent"
  <2>1. p = remove_event(o, Happened(c))
    BY <1>6 DEF undo_change, _remove_events, Happened
  <2>2. amounts = [v \in Validators |-> 0]
    <3>1. \A v \in Validators : Delta(c, v) = 0
      BY <1>6 DEF Delta
    <3>2. \A v \in Validators : -Delta(c, v) = 0 - Delta(c, v)
      BY DeltaFacts
    <3>3. \A v \in Validators : 0 - Delta(c, v) = 0
      BY <3>1
    <3> QED BY <3>2, <3>3, Zenon
  <2> HIDE DEF p, amounts
  <2>3. /\ p \in Diffs /\ p.contra = o.contra
        /\ \A k \in Keys : SameKey(o, p, k)
        /\ p.newEvents = o.newEvents \ Happened(c)
        /\ p.delEvents = o.delEvents \cup (Happened(c) \ o.newEvents)
    BY <2>1, DeltaFacts, RemoveEventFacts
  <2>4. /\ \A v \in Validators : SameKey(o, p, ValidatorStake(v)) /\ SameKey(o, p, ValidatorKey(v))
        /\ \A x \in AdminBins : SameKey(o, p, Generic(x))
    BY <2>3, KeyFacts
  <2>5. Moved(base, o, p, amounts, c)
    BY <1>6, <2>2, <2>3, <2>4, StillMoves
  <2> QED BY <1>6, <2>3, <2>5 DEF p, amounts
<1> QED BY <1>1, <1>2, <1>3, <1>4, <1>5, <1>6, ChangeFacts

-----------------------------------------------------------------------------
(* Replaying one change *)

\* The values that a database may have under the entries.
Kvs == {kv \in [Bins -> EntryValues] :
          \A k \in Keys \ {AdminKeyID} : kv[as_bin(k)] \in ValuesOf(k) \cup {None}}

RStates == [kv : Kvs, events : [Events -> Nat]]

\* The entries of a replayed state.
LEMMA KvFacts ==
    ASSUME NEW kv \in Kvs
    PROVE  /\ kv \in [Bins -> EntryValues]
           /\ \A v \in Validators : /\ ValidatorStake(v) \in Bins /\ ValidatorKey(v) \in Bins
                                    /\ kv[ValidatorStake(v)] \in Stakes \cup {None}
                                    /\ StakeIn(kv, v) \in Stakes
           /\ \A x \in AdminBins : x \in Bins
<1>1. \A v \in Validators :
        /\ ValidatorStake(v) \in Keys \ {AdminKeyID} /\ ValidatorKey(v) \in Keys
        /\ as_bin(ValidatorStake(v)) = ValidatorStake(v) /\ as_bin(ValidatorKey(v)) = ValidatorKey(v)
        /\ ValuesOf(ValidatorStake(v)) = Stakes
  BY KeyFacts, BinFacts, ValueFacts
<1>2. \A x \in AdminBins : Generic(x) \in Keys /\ as_bin(Generic(x)) = x
  BY KeyFacts, BinFacts
<1>3. 0 \in Stakes
  BY NetAssumption DEF Stakes
<1>4. \A v \in Validators : kv[ValidatorStake(v)] \in Stakes \cup {None}
  BY <1>1 DEF Kvs
<1>5. /\ \A v \in Validators : ValidatorStake(v) \in Bins /\ ValidatorKey(v) \in Bins
      /\ \A x \in AdminBins : x \in Bins
  BY <1>1, <1>2, BinFacts
<1> QED BY <1>3, <1>4, <1>5 DEF Kvs, StakeIn

\* Writing one entry with a value of its key.
LEMMA WriteFacts ==
    ASSUME NEW kv \in Kvs, NEW k \in Keys \ {AdminKeyID}, NEW value \in ValuesOf(k) \cup {None}
    PROVE  LET new == [kv EXCEPT ![as_bin(k)] = value] IN
           /\ new \in Kvs /\ new[as_bin(k)] = value
           /\ \A x \in Bins : x # as_bin(k) => new[x] = kv[x]
<1> DEFINE new == [kv EXCEPT ![as_bin(k)] = value]
<1>1. kv \in [Bins -> EntryValues] /\ as_bin(k) \in Bins /\ value \in EntryValues
  BY BinFacts, ValueFacts DEF Kvs, EntryValues
<1>2. /\ new \in [Bins -> EntryValues] /\ new[as_bin(k)] = value
      /\ \A x \in Bins : x # as_bin(k) => new[x] = kv[x]
  BY <1>1
<1> HIDE DEF new
<1>3. ASSUME NEW j \in Keys \ {AdminKeyID} PROVE new[as_bin(j)] \in ValuesOf(j) \cup {None}
  <2>1. CASE j = k
    BY <1>2, <2>1
  <2>2. CASE j # k
    <3>1. as_bin(j) # as_bin(k) /\ as_bin(j) \in Bins
      BY <2>2, BinFacts
    <3> QED BY <1>2, <3>1 DEF Kvs
  <2> QED BY <2>1, <2>2
<1> QED BY <1>2, <1>3 DEF Kvs, new

\* Paying one validator in a replayed state.
LEMMA PaidFacts ==
    ASSUME NEW kv \in Kvs, NEW w \in Validators, NEW amount \in Int
    PROVE  LET new == Paid(kv, w, amount) IN
           /\ new \in Kvs
           /\ \A x \in Bins : x # ValidatorStake(w) => new[x] = kv[x]
           /\ \A v \in Validators :
                StakeIn(new, v) = (StakeIn(kv, v) + (IF w = v THEN amount ELSE 0)) % StakeRange
<1> DEFINE k == ValidatorStake(w)
           s == StakeIn(kv, w)
           value == (s + amount) % StakeRange
           new == [kv EXCEPT ![as_bin(k)] = value]
<1>1. k \in Keys \ {AdminKeyID} /\ as_bin(k) = k /\ ValuesOf(k) = Stakes
  BY KeyFacts, BinFacts, ValueFacts
<1>2. s \in Stakes /\ s \in Int /\ k \in Bins /\ kv \in [Bins -> EntryValues]
  BY KvFacts, NetAssumption DEF Stakes
<1>3. value \in Stakes /\ value # None
  <2>1. s + amount \in Int
    BY <1>2
  <2> HIDE DEF s
  <2> QED BY <2>1, ModFacts, NetAssumption
<1>4. Paid(kv, w, amount) = new
  BY <1>1, <1>2 DEF Paid, StakeIn
<1> HIDE DEF value
<1>5. /\ new \in Kvs /\ new[k] = value
      /\ \A x \in Bins : x # k => new[x] = kv[x]
  BY <1>1, <1>3, WriteFacts
<1> HIDE DEF new
<1>6. ASSUME NEW v \in Validators
      PROVE  StakeIn(new, v) = (StakeIn(kv, v) + (IF w = v THEN amount ELSE 0)) % StakeRange
  <2>1. CASE v = w
    <3>1. StakeIn(new, v) = value
      BY <1>3, <1>5, <2>1 DEF StakeIn
    <3> QED BY <2>1, <3>1 DEF value
  <2>2. CASE v # w
    <3>1. ValidatorStake(v) \in Bins /\ ValidatorStake(v) # k
      BY <2>2, KvFacts, KeyFacts
    <3>2. StakeIn(new, v) = StakeIn(kv, v)
      BY <1>5, <3>1 DEF StakeIn
    <3>3. StakeIn(kv, v) \in Stakes /\ StakeIn(kv, v) + 0 = StakeIn(kv, v)
      BY KvFacts, NetAssumption DEF Stakes
    <3> QED BY <2>2, <3>2, <3>3, ModFacts
  <2> QED BY <2>1, <2>2
<1> QED BY <1>4, <1>5, <1>6

\* A replayed state with other entries.
LEMMA WithKv ==
    ASSUME NEW r \in RStates, NEW kv \in Kvs
    PROVE  /\ [r EXCEPT !.kv = kv] \in RStates
           /\ [r EXCEPT !.kv = kv].kv = kv /\ [r EXCEPT !.kv = kv].events = r.events
BY DEF RStates

\* What one change does to a replayed state.
LEMMA ReplayFacts ==
    ASSUME NEW r \in RStates, NEW c \in Changes
    PROVE  LET q == Replay(r, c) IN
           /\ q \in RStates
           /\ \A v \in Validators : StakeIn(q.kv, v) = (StakeIn(r.kv, v) + Delta(c, v)) % StakeRange
           /\ \A v \in Validators : q.kv[ValidatorKey(v)] # None =>
                r.kv[ValidatorKey(v)] # None \/ (c.type = "NewValidator" /\ c.id = v)
           /\ \A v \in Validators : r.kv[ValidatorKey(v)] # None => q.kv[ValidatorKey(v)] # None
           /\ \A x \in AdminBins : q.kv[x] = IF Names(c, x) THEN c.value ELSE r.kv[x]
           /\ \A e \in Events : q.events[e] = IF e \in Happened(c) THEN r.events[e] + 1 ELSE r.events[e]
<1> DEFINE q == Replay(r, c)
           kv == r.kv
<1>1. kv \in Kvs /\ r.events \in [Events -> Nat]
  BY DEF RStates
<1>2. /\ \A v \in Validators : ValidatorStake(v) \in Bins /\ ValidatorKey(v) \in Bins
      /\ \A x \in AdminBins : x \in Bins
  BY <1>1, KvFacts
<1>3. /\ \A v \in Validators : ValidatorKey(v) \notin AdminBins /\ ValidatorStake(v) \notin AdminBins
      /\ \A v, w \in Validators : ValidatorKey(v) # ValidatorStake(w)
  BY BinAssumption, KeyFacts
<1>4. ASSUME c.type \in {"Admin", "NewValidator"},
             NEW k \in Keys \ {AdminKeyID}, NEW value \in ValuesOf(k) \cup {None},
             q = [r EXCEPT !.kv = [@ EXCEPT ![as_bin(k)] = value]],
             \A v \in Validators : as_bin(k) # ValidatorStake(v)
      PROVE  /\ q \in RStates /\ q.events = r.events /\ q.kv[as_bin(k)] = value
             /\ \A x \in Bins : x # as_bin(k) => q.kv[x] = kv[x]
             /\ \A v \in Validators : StakeIn(q.kv, v) = (StakeIn(kv, v) + Delta(c, v)) % StakeRange
  <2> DEFINE new == [kv EXCEPT ![as_bin(k)] = value]
  <2>1. new \in Kvs /\ new[as_bin(k)] = value /\ \A x \in Bins : x # as_bin(k) => new[x] = kv[x]
    BY <1>1, WriteFacts
  <2>2. q = [r EXCEPT !.kv = new]
    BY <1>4
  <2> HIDE DEF new, q, kv
  <2>3. q \in RStates /\ q.kv = new /\ q.events = r.events
    BY <2>1, <2>2, WithKv
  <2>4. ASSUME NEW v \in Validators PROVE StakeIn(new, v) = (StakeIn(kv, v) + Delta(c, v)) % StakeRange
    <3>1. StakeIn(new, v) = StakeIn(kv, v)
      BY <1>2, <1>4, <2>1 DEF StakeIn
    <3>2. Delta(c, v) = 0
      BY <1>4 DEF Delta
    <3>3. StakeIn(kv, v) \in Stakes /\ StakeIn(kv, v) + 0 = StakeIn(kv, v)
      BY <1>1, KvFacts, NetAssumption DEF Stakes
    <3> QED BY <3>1, <3>2, <3>3, ModFacts
  <2> QED BY <2>1, <2>3, <2>4
<1>5. ASSUME NEW new \in Kvs, q = [r EXCEPT !.kv = new], c.type \notin {"Admin", "PlotEvent"},
             \A x \in Bins : (\A v \in Validators : x # ValidatorStake(v)) => new[x] = kv[x],
             \A v \in Validators : StakeIn(new, v) = (StakeIn(kv, v) + Delta(c, v)) % StakeRange
      PROVE  /\ q \in RStates /\ q.events = r.events /\ Happened(c) = {}
             /\ \A v \in Validators : StakeIn(q.kv, v) = (StakeIn(kv, v) + Delta(c, v)) % StakeRange
             /\ \A v \in Validators : q.kv[ValidatorKey(v)] = kv[ValidatorKey(v)]
             /\ \A x \in AdminBins : ~Names(c, x) /\ q.kv[x] = kv[x]
  <2> HIDE DEF q, kv
  <2>1. q \in RStates /\ q.kv = new /\ q.events = r.events
    BY <1>5, WithKv
  <2> QED BY <1>2, <1>3, <1>5, <2>1 DEF Happened, Names
<1>6. CASE c.type = "Admin"
  <2> DEFINE k == Generic(c.key)
  <2>1. c.key \in AdminBins /\ c.value \in AdminValues \cup {None} /\ Happened(c) = {}
    BY <1>6, ChangeFacts DEF Happened
  <2>2. /\ k \in Keys \ {AdminKeyID} /\ c.value \in ValuesOf(k) \cup {None} /\ as_bin(k) = c.key
        /\ \A v \in Validators : as_bin(k) # ValidatorStake(v) /\ as_bin(k) # ValidatorKey(v)
    BY <1>3, <2>1, KeyFacts, ValueFacts, BinFacts
  <2>3. q = [r EXCEPT !.kv = [@ EXCEPT ![as_bin(k)] = c.value]]
    BY <1>6, <2>2 DEF Replay
  <2> HIDE DEF q, k
  <2>4. /\ q \in RStates /\ q.events = r.events /\ q.kv[as_bin(k)] = c.value
        /\ \A x \in Bins : x # as_bin(k) => q.kv[x] = kv[x]
        /\ \A v \in Validators : StakeIn(q.kv, v) = (StakeIn(kv, v) + Delta(c, v)) % StakeRange
    BY <1>4, <1>6, <2>2, <2>3
  <2>5. \A v \in Validators : q.kv[ValidatorKey(v)] = r.kv[ValidatorKey(v)]
    BY <1>2, <2>2, <2>4
  <2>6. \A x \in AdminBins : q.kv[x] = IF Names(c, x) THEN c.value ELSE r.kv[x]
    BY <1>2, <1>6, <2>2, <2>4 DEF Names
  <2> QED BY <2>1, <2>4, <2>5, <2>6 DEF q
<1>7. CASE c.type = "NewValidator"
  <2> DEFINE k == ValidatorKey(c.id)
  <2>1. c.id \in Validators /\ Happened(c) = {} /\ c.id # None
    BY <1>7, ChangeFacts, NetAssumption DEF Happened
  <2>2. /\ k \in Keys \ {AdminKeyID} /\ c.id \in ValuesOf(k) \cup {None} /\ as_bin(k) = k
        /\ \A v \in Validators : as_bin(k) # ValidatorStake(v)
    BY <1>3, <2>1, KeyFacts, ValueFacts, BinFacts
  <2>3. q = [r EXCEPT !.kv = [@ EXCEPT ![as_bin(k)] = c.id]]
    BY <1>7, <2>2 DEF Replay
  <2> HIDE DEF q
  <2>4. /\ q \in RStates /\ q.events = r.events /\ q.kv[as_bin(k)] = c.id
        /\ \A x \in Bins : x # as_bin(k) => q.kv[x] = kv[x]
        /\ \A v \in Validators : StakeIn(q.kv, v) = (StakeIn(kv, v) + Delta(c, v)) % StakeRange
    BY <1>4, <1>7, <2>2, <2>3
  <2>5. \A v \in Validators : q.kv[ValidatorKey(v)] = IF v = c.id THEN c.id ELSE r.kv[ValidatorKey(v)]
    BY <1>2, <2>2, <2>4, KeyFacts
  <2>6. \A x \in AdminBins : ~Names(c, x) /\ q.kv[x] = r.kv[x]
    BY <1>2, <1>3, <1>7, <2>1, <2>2, <2>4 DEF Names
  <2> QED BY <1>7, <2>1, <2>4, <2>5, <2>6 DEF q
<1>8. CASE c.type = "BlockReward" \/ c.type = "Slash"
  <2> DEFINE amount == IF c.type = "BlockReward" THEN Reward ELSE -c.amount
             new == Paid(kv, c.id, amount)
  <2>1. c.id \in Validators /\ amount \in Int
    BY <1>8, ChangeFacts, NetAssumption
  <2>2. q = [r EXCEPT !.kv = new]
    BY <1>8 DEF Replay
  <2>3. \A v \in Validators : Delta(c, v) = IF c.id = v THEN amount ELSE 0
    BY <1>8 DEF Delta
  <2> HIDE DEF amount, q
  <2>4. /\ new \in Kvs
        /\ \A x \in Bins : x # ValidatorStake(c.id) => new[x] = kv[x]
        /\ \A v \in Validators : StakeIn(new, v) = (StakeIn(kv, v) + (IF c.id = v THEN amount ELSE 0)) % StakeRange
    BY <1>1, <2>1, PaidFacts
  <2> HIDE DEF new
  <2>5. /\ \A v \in Validators : StakeIn(new, v) = (StakeIn(kv, v) + Delta(c, v)) % StakeRange
        /\ \A x \in Bins : (\A v \in Validators : x # ValidatorStake(v)) => new[x] = kv[x]
    BY <2>1, <2>3, <2>4
  <2> QED BY <1>5, <1>8, <2>2, <2>4, <2>5 DEF q
<1>9. CASE c.type = "Transfer"
  <2> DEFINE a == Paid(kv, c.to, c.amount)
             new == Paid(a, c.from, -c.amount)
  <2>1. c.from \in Validators /\ c.to \in Validators /\ c.amount \in Int /\ -c.amount \in Int
    BY <1>9, ChangeFacts
  <2>2. q = [r EXCEPT !.kv = new]
    BY <1>9 DEF Replay
  <2>3. \A v \in Validators : Delta(c, v) = (IF c.to = v THEN c.amount ELSE 0) - (IF c.from = v THEN c.amount ELSE 0)
    BY <1>9 DEF Delta
  <2> HIDE DEF q
  <2>4. /\ a \in Kvs
        /\ \A x \in Bins : x # ValidatorStake(c.to) => a[x] = kv[x]
        /\ \A v \in Validators : StakeIn(a, v) = (StakeIn(kv, v) + (IF c.to = v THEN c.amount ELSE 0)) % StakeRange
    BY <1>1, <2>1, PaidFacts
  <2> HIDE DEF a
  <2>5. /\ new \in Kvs
        /\ \A x \in Bins : x # ValidatorStake(c.from) => new[x] = a[x]
        /\ \A v \in Validators : StakeIn(new, v) = (StakeIn(a, v) + (IF c.from = v THEN -c.amount ELSE 0)) % StakeRange
    BY <2>1, <2>4, PaidFacts
  <2> HIDE DEF new
  <2>6. ASSUME NEW v \in Validators
        PROVE  StakeIn(new, v) = (StakeIn(kv, v) + Delta(c, v)) % StakeRange
    <3> DEFINE s == StakeIn(kv, v)
               x == IF c.to = v THEN c.amount ELSE 0
               y == IF c.from = v THEN -c.amount ELSE 0
    <3>1. s \in Int /\ x \in Int /\ y \in Int
      BY <1>1, <2>1, KvFacts, NetAssumption DEF Stakes
    <3>2. Delta(c, v) = x + y
      BY <2>1, <2>3
    <3>3. StakeIn(new, v) = (((s + x) % StakeRange) + y) % StakeRange
      BY <2>4, <2>5
    <3> HIDE DEF s, x, y
    <3>4. s + x \in Int /\ (s + x) + y = s + (x + y)
      BY <3>1
    <3>5. StakeIn(new, v) = ((s + x) + y) % StakeRange
      BY <3>1, <3>3, <3>4, ModFacts
    <3> QED BY <3>2, <3>4, <3>5 DEF s
  <2>7. \A x \in Bins : (\A v \in Validators : x # ValidatorStake(v)) => new[x] = kv[x]
    BY <2>1, <2>4, <2>5
  <2> QED BY <1>5, <1>9, <2>2, <2>5, <2>6, <2>7 DEF q
<1>10. CASE c.type = "PlotEvent"
  <2> DEFINE es == [e \in Events |-> IF e \in EventsOf(c) THEN r.events[e] + 1 ELSE r.events[e]]
  <2>1. q = [r EXCEPT !.events = es]
    BY <1>10 DEF Replay
  <2>2. /\ es \in [Events -> Nat] /\ Happened(c) = EventsOf(c)
        /\ \A e \in Events : es[e] = IF e \in EventsOf(c) THEN r.events[e] + 1 ELSE r.events[e]
    BY <1>1, <1>10 DEF Happened
  <2> HIDE DEF es, q
  <2>3. q \in RStates /\ q.kv = r.kv /\ q.events = es
    BY <2>1, <2>2 DEF RStates
  <2>4. ASSUME NEW v \in Validators PROVE StakeIn(kv, v) = (StakeIn(kv, v) + Delta(c, v)) % StakeRange
    <3>1. Delta(c, v) = 0
      BY <1>10 DEF Delta
    <3>2. StakeIn(kv, v) \in Stakes /\ StakeIn(kv, v) + 0 = StakeIn(kv, v)
      BY <1>1, KvFacts, NetAssumption DEF Stakes
    <3> QED BY <3>1, <3>2, ModFacts
  <2>5. \A x : ~Names(c, x)
    BY <1>10 DEF Names
  <2> QED BY <2>2, <2>3, <2>4, <2>5 DEF q
<1> QED BY <1>6, <1>7, <1>8, <1>9, <1>10, ChangeFacts

-----------------------------------------------------------------------------
(* Applying a change and taking it back, against the replayed state *)

\* The event e as Agree has it.
EventAgrees(base, o, r, P, e) ==
    /\ Depth(base, o, e) <= r.events[e]
    /\ r.events[e] > 0 => Depth(base, o, e) > 0 \/ e \in P
    /\ e \in o.delEvents => e \in base.events \/ e \in P

\* Adding an event keeps overlay and replay in agreement about it.
LEMMA EventAdded ==
    ASSUME NEW base, NEW o, NEW p, NEW r, NEW q, NEW P, NEW es, NEW e, r.events[e] \in Nat,
           EventAgrees(base, o, r, P, e),
           p.newEvents = o.newEvents \cup (es \ o.delEvents), p.delEvents = o.delEvents \ es,
           q.events[e] = IF e \in es THEN r.events[e] + 1 ELSE r.events[e]
    PROVE  EventAgrees(base, p, q, P, e)
<1>1. CASE e \in es
  <2>1. CASE e \in o.delEvents
    BY <1>1, <2>1 DEF EventAgrees, Depth
  <2>2. CASE e \notin o.delEvents
    BY <1>1, <2>2 DEF EventAgrees, Depth
  <2> QED BY <2>1, <2>2
<1>2. CASE e \notin es
  BY <1>2 DEF EventAgrees, Depth
<1> QED BY <1>1, <1>2

\* Removing one that happened brings back the agreement from before it.
LEMMA EventRemoved ==
    ASSUME NEW base, NEW o, NEW p, NEW r, NEW q, NEW P, NEW es, NEW e, r.events[e] \in Nat,
           EventAgrees(base, o, q, P, e),
           p.newEvents = o.newEvents \ es, p.delEvents = o.delEvents \cup (es \ o.newEvents),
           q.events[e] = IF e \in es THEN r.events[e] + 1 ELSE r.events[e],
           e \in es /\ r.events[e] > 0 => e \in P
    PROVE  EventAgrees(base, p, r, P, e)
<1>1. CASE e \in es
  <2>1. CASE e \in o.newEvents
    BY <1>1, <2>1 DEF EventAgrees, Depth
  <2>2. CASE e \notin o.newEvents
    BY <1>1, <2>2 DEF EventAgrees, Depth
  <2> QED BY <2>1, <2>2
<1>2. CASE e \notin es
  BY <1>2 DEF EventAgrees, Depth
<1> QED BY <1>1, <1>2

\* The change c leaves a value under each of the keys L.
Keeps(c, L) == \A x \in L : Names(c, x) => c.value # None

\* Applying a change keeps the agreement, and its contra undoes it.
LEMMA ApplyAgrees ==
    ASSUME NEW base, BaseOK(base), NEW o \in Diffs, NEW r \in RStates, NEW L, L \subseteq AdminBins,
           NEW P, NEW c \in Changes, Agree(base, o, r, L, P), Keeps(c, L)
    PROVE  LET p == apply_change(base, o, c) IN
           /\ p \in Diffs /\ p.contra = o.contra
           /\ Agree(base, p, Replay(r, c), L, P)
           /\ contra(base, o, c) \in Changes
           /\ Undoes(contra(base, o, c), c, r, L)
<1> DEFINE p == apply_change(base, o, c)
           q == Replay(r, c)
           d == contra(base, o, c)
           amounts == [v \in Validators |-> Delta(c, v)]
<1>1. /\ Moved(base, o, p, amounts, c)
      /\ c.type = "NewValidator" => get(base, p, ValidatorKey(c.id)) # None
      /\ p.newEvents = o.newEvents \cup (Happened(c) \ o.delEvents)
      /\ p.delEvents = o.delEvents \ Happened(c)
  BY ApplyFacts
<1>2. /\ q \in RStates
      /\ \A v \in Validators : StakeIn(q.kv, v) = (StakeIn(r.kv, v) + Delta(c, v)) % StakeRange
      /\ \A v \in Validators : q.kv[ValidatorKey(v)] # None =>
            r.kv[ValidatorKey(v)] # None \/ (c.type = "NewValidator" /\ c.id = v)
      /\ \A x \in AdminBins : q.kv[x] = IF Names(c, x) THEN c.value ELSE r.kv[x]
      /\ \A e \in Events : q.events[e] = IF e \in Happened(c) THEN r.events[e] + 1 ELSE r.events[e]
  BY ReplayFacts
<1>3. r.events \in [Events -> Nat]
  BY DEF RStates
<1> HIDE DEF p, q
<1>4. ASSUME NEW v \in Validators
      PROVE  /\ Stake(base, p, v) = StakeIn(q.kv, v)
             /\ q.kv[ValidatorKey(v)] # None => get(base, p, ValidatorKey(v)) # None
  <2>1. Stake(base, p, v) = (Stake(base, o, v) + Delta(c, v)) % StakeRange
    BY <1>1 DEF Moved
  <2>2. Stake(base, o, v) = StakeIn(r.kv, v)
    BY DEF Agree
  <2>3. r.kv[ValidatorKey(v)] # None => get(base, p, ValidatorKey(v)) # None
    BY <1>1 DEF Agree, Moved
  <2> QED BY <1>1, <1>2, <2>1, <2>2, <2>3
<1>5. ASSUME NEW x \in L
      PROVE  Generic(x) \notin p.del /\ get(base, p, Generic(x)) = q.kv[x]
  <2>1. Generic(x) \notin o.del /\ get(base, o, Generic(x)) = r.kv[x]
    BY DEF Agree
  <2>2. CASE Names(c, x)
    BY <1>1, <1>2, <2>1, <2>2 DEF Moved, Keeps
  <2>3. CASE ~Names(c, x)
    <3>1. SameKey(o, p, Generic(x)) /\ q.kv[x] = r.kv[x]
      BY <1>1, <1>2, <2>3 DEF Moved
    <3> QED BY <2>1, <3>1, SameKeyFacts DEF SameKey
  <2> QED BY <2>2, <2>3
<1>6. ASSUME NEW e \in Events PROVE EventAgrees(base, p, q, P, e)
  <2>1. EventAgrees(base, o, r, P, e) /\ r.events[e] \in Nat
    BY <1>3 DEF Agree, EventAgrees
  <2> QED BY <1>1, <1>2, <2>1, EventAdded
<1>7. Agree(base, p, q, L, P)
  BY <1>4, <1>5, <1>6 DEF Agree, EventAgrees
<1>8. d \in Changes /\ Undoes(d, c, r, L)
  <2>1. CASE c.type = "Admin"
    <3> DEFINE value == get(base, o, Generic(c.key))
    <3>1. c.key \in AdminBins /\ c = [type |-> "Admin", key |-> c.key, value |-> c.value]
      BY <2>1, ChangeFacts
    <3>2. Generic(c.key) \in Keys \ {AdminKeyID} /\ ValuesOf(Generic(c.key)) = AdminValues
      BY <3>1, KeyFacts, ValueFacts
    <3>3. value \in AdminValues \cup {None}
      BY <3>2, GetFacts
    <3>4. c.key \in L => value = r.kv[c.key]
      BY DEF Agree
    <3> HIDE DEF value
    <3>5. d = [type |-> "Admin", key |-> c.key, value |-> value]
      BY <2>1, <3>1 DEF contra, value
    <3> QED BY <2>1, <3>1, <3>3, <3>4, <3>5 DEF Undoes, Changes
  <2>2. CASE c.type # "Admin"
    BY <2>2 DEF contra, Undoes
  <2> QED BY <2>1, <2>2
<1> QED BY <1>1, <1>7, <1>8 DEF p, q, Moved

\* Undoing a change by its contra brings back the agreement from before it.
LEMMA UndoAgrees ==
    ASSUME NEW base, BaseOK(base), NEW o \in Diffs, NEW r \in RStates, NEW L, L \subseteq AdminBins,
           NEW P, NEW c \in Changes, NEW d \in Changes, Agree(base, o, Replay(r, c), L, P),
           Undoes(d, c, r, L), \A x \in L : r.kv[x] # None,
           \A e \in Happened(c) : r.events[e] > 0 => e \in P
    PROVE  LET p == undo_change(base, o, d) IN
           /\ p \in Diffs /\ p.contra = o.contra
           /\ Agree(base, p, r, L, P)
<1> DEFINE p == undo_change(base, o, d)
           q == Replay(r, c)
           amounts == [v \in Validators |-> -Delta(d, v)]
<1>1. /\ Moved(base, o, p, amounts, d)
      /\ p.newEvents = o.newEvents \ Happened(d)
      /\ p.delEvents = o.delEvents \cup (Happened(d) \ o.newEvents)
  BY UndoFacts
<1>2. /\ \A v \in Validators : StakeIn(q.kv, v) = (StakeIn(r.kv, v) + Delta(c, v)) % StakeRange
      /\ \A v \in Validators : r.kv[ValidatorKey(v)] # None => q.kv[ValidatorKey(v)] # None
      /\ \A x \in AdminBins : q.kv[x] = IF Names(c, x) THEN c.value ELSE r.kv[x]
      /\ \A e \in Events : q.events[e] = IF e \in Happened(c) THEN r.events[e] + 1 ELSE r.events[e]
  BY ReplayFacts
<1>3. r.events \in [Events -> Nat] /\ r.kv \in Kvs
  BY DEF RStates
<1>4. Happened(d) = Happened(c) /\ \A v \in Validators : Delta(d, v) = Delta(c, v)
  BY DEF Undoes, Happened, Delta
<1>5. Agree(base, o, q, L, P)
  OBVIOUS
<1> HIDE DEF p, q
<1>6. ASSUME NEW v \in Validators
      PROVE  /\ Stake(base, p, v) = StakeIn(r.kv, v)
             /\ r.kv[ValidatorKey(v)] # None => get(base, p, ValidatorKey(v)) # None
  <2> DEFINE s == StakeIn(r.kv, v)
             a == Delta(c, v)
  <2>1. Stake(base, p, v) = (Stake(base, o, v) + (-a)) % StakeRange
    BY <1>1, <1>4 DEF Moved
  <2>2. Stake(base, o, v) = (s + a) % StakeRange
    BY <1>2, <1>5 DEF Agree
  <2>3. s \in Stakes /\ s \in Int /\ a \in Int
    BY <1>3, KvFacts, DeltaFacts, NetAssumption DEF Stakes
  <2>4. r.kv[ValidatorKey(v)] # None => get(base, p, ValidatorKey(v)) # None
    BY <1>1, <1>2, <1>5 DEF Agree, Moved
  <2> HIDE DEF s, a
  <2>5. s + a \in Int /\ -a \in Int /\ (s + a) + (-a) = s
    BY <2>3
  <2>6. (((s + a) % StakeRange) + (-a)) % StakeRange = ((s + a) + (-a)) % StakeRange
    BY <2>5, ModFacts
  <2>7. Stake(base, p, v) = s
    BY <2>1, <2>2, <2>3, <2>5, <2>6, ModFacts
  <2> QED BY <2>4, <2>7 DEF s
<1>7. ASSUME NEW x \in L
      PROVE  Generic(x) \notin p.del /\ get(base, p, Generic(x)) = r.kv[x]
  <2>1. Generic(x) \notin o.del /\ get(base, o, Generic(x)) = q.kv[x]
    BY <1>5 DEF Agree
  <2>2. Names(d, x) <=> Names(c, x)
    BY DEF Undoes, Names
  <2>3. CASE Names(c, x)
    <3>1. d.value = r.kv[x] /\ d.value # None
      BY <2>3 DEF Names, Undoes
    <3> QED BY <1>1, <2>1, <2>2, <2>3, <3>1 DEF Moved
  <2>4. CASE ~Names(c, x)
    <3>1. SameKey(o, p, Generic(x)) /\ q.kv[x] = r.kv[x]
      BY <1>1, <1>2, <2>2, <2>4 DEF Moved
    <3> QED BY <2>1, <3>1, SameKeyFacts DEF SameKey
  <2> QED BY <2>3, <2>4
<1>8. ASSUME NEW e \in Events PROVE EventAgrees(base, p, r, P, e)
  <2>1. EventAgrees(base, o, q, P, e) /\ r.events[e] \in Nat
    BY <1>3, <1>5 DEF Agree, EventAgrees
  <2> QED BY <1>1, <1>2, <1>4, <2>1, EventRemoved
<1>9. Agree(base, p, r, L, P)
  BY <1>6, <1>7, <1>8 DEF Agree, EventAgrees
<1> QED BY <1>1, <1>9 DEF p, Moved

-----------------------------------------------------------------------------
(* The changes of a mutation, one after the other *)

\* The states while a mutation is replayed.
LEMMA ReplayedChangesFacts ==
    ASSUME NEW r \in RStates, NEW m \in Seq(Changes)
    PROVE  LET run == ReplayedChanges(r, m) IN
           /\ run \in [0..Len(m) -> RStates] /\ run[0] = r
           /\ \A i \in 1..Len(m) : run[i] = Replay(run[i - 1], m[i])
<1> DEFINE n == Len(m)
           F == [i \in 1..n |-> [q \in RStates |-> Replay(q, m[i])]]
           run[i \in 0..Len(m)] == IF i = 0 THEN r ELSE Replay(run[i - 1], m[i])
<1>1. n \in Nat /\ \A i \in 1..n : m[i] \in Changes
  OBVIOUS
<1>2. \A q \in RStates : \A i \in 1..n : Replay(q, m[i]) \in RStates
  BY <1>1, ReplayFacts
<1>3. F \in [1..n -> [RStates -> RStates]]
  BY <1>2
<1>4. PICK f : IsRun(f, RStates, r, F, n)
  BY <1>1, <1>3, RunExists
<1>5. f \in [0..n -> RStates] /\ f[0] = r /\ \A i \in 1..n : f[i] = F[i][f[i - 1]]
  BY <1>4 DEF IsRun
<1>6. \A i \in 1..n : f[i - 1] \in RStates
  BY <1>1, <1>5
<1>7. \A i \in 1..n : f[i] = Replay(f[i - 1], m[i])
  BY <1>5, <1>6
<1>8. f = [i \in 0..n |-> IF i = 0 THEN r ELSE Replay(f[i - 1], m[i])]
  BY <1>1, <1>5, <1>7
<1>9. run = [i \in 0..Len(m) |-> IF i = 0 THEN r ELSE Replay(run[i - 1], m[i])]
  BY <1>8, Zenon
<1>10. ReplayedChanges(r, m) = run
  BY Zenon DEF ReplayedChanges
<1> HIDE DEF run, F
<1>11. run[0] = r /\ \A i \in 1..n : run[i] = Replay(run[i - 1], m[i])
  BY <1>1, <1>9
<1> DEFINE T == {i \in Nat : i <= n => run[i] \in RStates}
<1>12. 0 \in T
  BY <1>11
<1>13. ASSUME NEW i \in Nat, i \in T PROVE i + 1 \in T
  <2> SUFFICES ASSUME i + 1 <= n PROVE run[i + 1] \in RStates
    OBVIOUS
  <2>1. i + 1 \in 1..n /\ (i + 1) - 1 = i /\ i <= n
    BY <1>1
  <2> QED BY <1>2, <1>11, <1>13, <2>1
<1> HIDE DEF T
<1>14. Nat \subseteq T
  BY <1>12, <1>13, SetInduction
<1>15. \A i \in 0..n : run[i] \in RStates
  BY <1>1, <1>14 DEF T
<1>16. run \in [0..n -> RStates]
  BY <1>9, <1>15
<1> QED BY <1>10, <1>11, <1>16

\* The overlays while _mutate goes through a mutation.
LEMMA MutatedFacts ==
    ASSUME NEW base, BaseOK(base), NEW o \in Diffs, NEW m \in Seq(Changes)
    PROVE  LET run == Mutated(base, o, m) IN
           /\ run \in [0..Len(m) -> Diffs] /\ run[0] = o
           /\ \A i \in 1..Len(m) : run[i] = apply_change(base, run[i - 1], m[i])
<1> DEFINE n == Len(m)
           F == [i \in 1..n |-> [q \in Diffs |-> apply_change(base, q, m[i])]]
           run[i \in 0..Len(m)] == IF i = 0 THEN o ELSE apply_change(base, run[i - 1], m[i])
<1>1. n \in Nat /\ \A i \in 1..n : m[i] \in Changes
  OBVIOUS
<1>2. \A q \in Diffs : \A i \in 1..n : apply_change(base, q, m[i]) \in Diffs
  BY <1>1, ApplyFacts DEF Moved
<1>3. F \in [1..n -> [Diffs -> Diffs]]
  BY <1>2
<1>4. PICK f : IsRun(f, Diffs, o, F, n)
  BY <1>1, <1>3, RunExists
<1>5. f \in [0..n -> Diffs] /\ f[0] = o /\ \A i \in 1..n : f[i] = F[i][f[i - 1]]
  BY <1>4 DEF IsRun
<1>6. \A i \in 1..n : f[i - 1] \in Diffs
  BY <1>1, <1>5
<1>7. \A i \in 1..n : f[i] = apply_change(base, f[i - 1], m[i])
  BY <1>5, <1>6
<1>8. f = [i \in 0..n |-> IF i = 0 THEN o ELSE apply_change(base, f[i - 1], m[i])]
  BY <1>1, <1>5, <1>7
<1>9. run = [i \in 0..Len(m) |-> IF i = 0 THEN o ELSE apply_change(base, run[i - 1], m[i])]
  BY <1>8, Zenon
<1>10. Mutated(base, o, m) = run
  BY Zenon DEF Mutated
<1> HIDE DEF run, F
<1>11. run[0] = o /\ \A i \in 1..n : run[i] = apply_change(base, run[i - 1], m[i])
  BY <1>1, <1>9
<1> DEFINE T == {i \in Nat : i <= n => run[i] \in Diffs}
<1>12. 0 \in T
  BY <1>11
<1>13. ASSUME NEW i \in Nat, i \in T PROVE i + 1 \in T
  <2> SUFFICES ASSUME i + 1 <= n PROVE run[i + 1] \in Diffs
    OBVIOUS
  <2>1. i + 1 \in 1..n /\ (i + 1) - 1 = i /\ i <= n
    BY <1>1
  <2> QED BY <1>2, <1>11, <1>13, <2>1
<1> HIDE DEF T
<1>14. Nat \subseteq T
  BY <1>12, <1>13, SetInduction
<1>15. \A i \in 0..n : run[i] \in Diffs
  BY <1>1, <1>14 DEF T
<1>16. run \in [0..n -> Diffs]
  BY <1>9, <1>15
<1> QED BY <1>10, <1>11, <1>16

\* The overlays while _undo_mutate goes through the contras.
LEMMA UndoMutateFacts ==
    ASSUME NEW base, BaseOK(base), NEW o \in Diffs, NEW m \in Seq(Changes)
    PROVE  \E run \in [0..Len(m) -> Diffs] :
             /\ run[0] = o /\ run[Len(m)] = _undo_mutate(base, o, m)
             /\ \A i \in 1..Len(m) : run[i] = undo_change(base, run[i - 1], m[i])
<1> DEFINE n == Len(m)
           F == [i \in 1..n |-> [q \in Diffs |-> undo_change(base, q, m[i])]]
           run[i \in 0..Len(m)] == IF i = 0 THEN o ELSE undo_change(base, run[i - 1], m[i])
<1>1. n \in Nat /\ \A i \in 1..n : m[i] \in Changes
  OBVIOUS
<1>2. \A q \in Diffs : \A i \in 1..n : undo_change(base, q, m[i]) \in Diffs
  BY <1>1, UndoFacts DEF Moved
<1>3. F \in [1..n -> [Diffs -> Diffs]]
  BY <1>2
<1>4. PICK f : IsRun(f, Diffs, o, F, n)
  BY <1>1, <1>3, RunExists
<1>5. f \in [0..n -> Diffs] /\ f[0] = o /\ \A i \in 1..n : f[i] = F[i][f[i - 1]]
  BY <1>4 DEF IsRun
<1>6. \A i \in 1..n : f[i - 1] \in Diffs
  BY <1>1, <1>5
<1>7. \A i \in 1..n : f[i] = undo_change(base, f[i - 1], m[i])
  BY <1>5, <1>6
<1>8. f = [i \in 0..n |-> IF i = 0 THEN o ELSE undo_change(base, f[i - 1], m[i])]
  BY <1>1, <1>5, <1>7
<1>9. run = [i \in 0..Len(m) |-> IF i = 0 THEN o ELSE undo_change(base, run[i - 1], m[i])]
  BY <1>8, Zenon
<1>10. _undo_mutate(base, o, m) = run[n]
  BY Zenon DEF _undo_mutate
<1> HIDE DEF run, F
<1>11. run[0] = o /\ \A i \in 1..n : run[i] = undo_change(base, run[i - 1], m[i])
  BY <1>1, <1>9
<1> DEFINE T == {i \in Nat : i <= n => run[i] \in Diffs}
<1>12. 0 \in T
  BY <1>11
<1>13. ASSUME NEW i \in Nat, i \in T PROVE i + 1 \in T
  <2> SUFFICES ASSUME i + 1 <= n PROVE run[i + 1] \in Diffs
    OBVIOUS
  <2>1. i + 1 \in 1..n /\ (i + 1) - 1 = i /\ i <= n
    BY <1>1
  <2> QED BY <1>2, <1>11, <1>13, <2>1
<1> HIDE DEF T
<1>14. Nat \subseteq T
  BY <1>12, <1>13, SetInduction
<1>15. \A i \in 0..n : run[i] \in Diffs
  BY <1>1, <1>14 DEF T
<1>16. run \in [0..n -> Diffs]
  BY <1>9, <1>15
<1> QED BY <1>10, <1>11, <1>16

KeepsAll(m, L) == \A i \in 1..Len(m) : Keeps(m[i], L)

\* A value that is there, or is set on the way, stays.
LEMMA ValuesStay ==
    ASSUME NEW r \in RStates, NEW m \in Seq(Changes), NEW L, L \subseteq AdminBins, KeepsAll(m, L),
           NEW x \in L, NEW j \in 0..Len(m), ReplayedChanges(r, m)[j].kv[x] # None
    PROVE  \A i \in j..Len(m) : ReplayedChanges(r, m)[i].kv[x] # None
<1> DEFINE run == ReplayedChanges(r, m)
           T == {i \in Nat : j <= i /\ i <= Len(m) => run[i].kv[x] # None}
<1>1. /\ run \in [0..Len(m) -> RStates] /\ run[0] = r /\ Len(m) \in Nat
      /\ \A i \in 1..Len(m) : run[i] = Replay(run[i - 1], m[i])
  BY ReplayedChangesFacts
<1>2. run[j].kv[x] # None
  OBVIOUS
<1> HIDE DEF run
<1>3. 0 \in T
  BY <1>1, <1>2
<1>4. ASSUME NEW i \in Nat, i \in T PROVE i + 1 \in T
  <2> SUFFICES ASSUME j <= i + 1, i + 1 <= Len(m) PROVE run[i + 1].kv[x] # None
    OBVIOUS
  <2>1. CASE j = i + 1
    BY <1>2, <2>1
  <2>2. CASE j # i + 1
    <3>1. i + 1 \in 1..Len(m) /\ (i + 1) - 1 = i /\ j <= i /\ i <= Len(m) /\ i \in 0..Len(m)
      BY <1>1, <2>2
    <3>2. run[i].kv[x] # None
      BY <1>4, <3>1
    <3>3. run[i] \in RStates /\ m[i + 1] \in Changes
      BY <1>1, <3>1
    <3>4. run[i + 1] = Replay(run[i], m[i + 1])
      BY <1>1, <3>1
    <3>5. x \in AdminBins /\ (Names(m[i + 1], x) => m[i + 1].value # None)
      BY <3>1 DEF KeepsAll, Keeps
    <3> QED BY <3>2, <3>3, <3>4, <3>5, ReplayFacts
  <2> QED BY <2>1, <2>2
<1> HIDE DEF T
<1>5. Nat \subseteq T
  BY <1>3, <1>4, SetInduction
<1> QED BY <1>1, <1>5 DEF T, run

\* _mutate keeps the agreement, and its contras undo the mutation.
LEMMA MutateAgrees ==
    ASSUME NEW base, BaseOK(base), NEW o \in Diffs, NEW r \in RStates, NEW L, L \subseteq AdminBins,
           NEW P, NEW m \in Seq(Changes), Agree(base, o, r, L, P), KeepsAll(m, L)
    PROVE  LET d == _mutate(base, o, m) IN
           /\ d.o \in Diffs /\ d.o.contra = o.contra
           /\ ReplayBlock(r, m) \in RStates
           /\ Agree(base, d.o, ReplayBlock(r, m), L, P)
           /\ UndoesAll(d.contra, m, r, L)
<1> DEFINE n == Len(m)
           run == Mutated(base, o, m)
           states == ReplayedChanges(r, m)
           T == {i \in Nat : i <= n => run[i].contra = o.contra /\ Agree(base, run[i], states[i], L, P)}
<1>1. /\ run \in [0..n -> Diffs] /\ run[0] = o /\ n \in Nat
      /\ \A i \in 1..n : run[i] = apply_change(base, run[i - 1], m[i])
  BY MutatedFacts
<1>2. /\ states \in [0..n -> RStates] /\ states[0] = r
      /\ \A i \in 1..n : states[i] = Replay(states[i - 1], m[i])
  BY ReplayedChangesFacts
<1>3. _mutate(base, o, m) = [o |-> run[n], contra |-> [j \in 1..n |-> contra(base, run[n - j], m[n + 1 - j])]]
  BY DEF _mutate
<1>4. ReplayBlock(r, m) = states[n]
  BY DEF ReplayBlock
<1> HIDE DEF run, states
<1>4a. \A i \in 1..n : m[i] \in Changes /\ Keeps(m[i], L)
  BY DEF KeepsAll
<1>5. 0 \in T
  BY <1>1, <1>2
<1>6. ASSUME NEW i \in Nat, i \in T PROVE i + 1 \in T
  <2> SUFFICES ASSUME i + 1 <= n
               PROVE  run[i + 1].contra = o.contra /\ Agree(base, run[i + 1], states[i + 1], L, P)
    OBVIOUS
  <2>1. i + 1 \in 1..n /\ (i + 1) - 1 = i /\ i \in 0..n
    BY <1>1
  <2>2. run[i].contra = o.contra /\ Agree(base, run[i], states[i], L, P)
    BY <1>1, <1>6, <2>1
  <2>3. run[i] \in Diffs /\ states[i] \in RStates /\ m[i + 1] \in Changes /\ Keeps(m[i + 1], L)
    BY <1>1, <1>2, <2>1 DEF KeepsAll
  <2>4. /\ run[i + 1] = apply_change(base, run[i], m[i + 1])
        /\ states[i + 1] = Replay(states[i], m[i + 1])
    BY <1>1, <1>2, <2>1
  <2> DEFINE a == run[i]
             q == states[i]
             c == m[i + 1]
  <2>5. a \in Diffs /\ q \in RStates /\ c \in Changes /\ Keeps(c, L) /\ Agree(base, a, q, L, P)
    BY <2>2, <2>3
  <2> HIDE DEF a, q, c
  <2>6. LET p == apply_change(base, a, c) IN p.contra = a.contra /\ Agree(base, p, Replay(q, c), L, P)
    BY <2>5, ApplyAgrees
  <2> QED BY <2>2, <2>4, <2>6 DEF a, q, c
<1> HIDE DEF T
<1>7. Nat \subseteq T
  BY <1>5, <1>6, SetInduction
<1>8. \A i \in 0..n : run[i].contra = o.contra /\ Agree(base, run[i], states[i], L, P)
  BY <1>1, <1>7 DEF T
<1> DEFINE cs == [j \in 1..n |-> contra(base, run[n - j], m[n + 1 - j])]
<1> HIDE DEF n
<1>9. ASSUME NEW j \in 1..n
      PROVE  /\ contra(base, run[n - j], m[n + 1 - j]) \in Changes
             /\ Undoes(contra(base, run[n - j], m[n + 1 - j]), m[n + 1 - j], states[n - j], L)
  <2>1. n - j \in 0..n /\ n + 1 - j \in 1..n
    BY <1>1
  <2>2. /\ run[n - j] \in Diffs /\ states[n - j] \in RStates
        /\ m[n + 1 - j] \in Changes /\ Keeps(m[n + 1 - j], L)
        /\ Agree(base, run[n - j], states[n - j], L, P)
    BY <1>1, <1>2, <1>8, <1>4a, <2>1
  <2> QED BY <2>2, ApplyAgrees
<1>10. cs \in [1..n -> Changes]
  BY <1>9
<1>11. cs \in Seq(Changes) /\ Len(cs) = n
  BY <1>1, <1>10, ListOfLength
<1>12. \A j \in 1..n : Undoes(cs[j], m[n + 1 - j], states[n - j], L)
  BY <1>9
<1> HIDE DEF cs
<1>13. UndoesAll(cs, m, r, L)
  BY <1>11, <1>12 DEF UndoesAll, states, n
<1>14. _mutate(base, o, m).o = run[n] /\ _mutate(base, o, m).contra = cs
  BY <1>3 DEF cs
<1>15. n \in 0..n
  BY <1>1
<1> QED BY <1>1, <1>2, <1>4, <1>8, <1>13, <1>14, <1>15

\* _undo_mutate brings back the agreement from before the mutation.
LEMMA UndoMutateAgrees ==
    ASSUME NEW base, BaseOK(base), NEW o \in Diffs, NEW r \in RStates, NEW L, L \subseteq AdminBins,
           NEW P, NEW m \in Seq(Changes), NEW cs, Agree(base, o, ReplayBlock(r, m), L, P),
           KeepsAll(m, L), UndoesAll(cs, m, r, L), Fresh(m, r, P), \A x \in L : r.kv[x] # None
    PROVE  LET p == _undo_mutate(base, o, cs) IN
           /\ p \in Diffs /\ p.contra = o.contra
           /\ Agree(base, p, r, L, P)
<1> DEFINE n == Len(m)
           states == ReplayedChanges(r, m)
<1>1. cs \in Seq(Changes) /\ Len(cs) = n /\ n \in Nat
      /\ \A j \in 1..n : Undoes(cs[j], m[n + 1 - j], states[n - j], L)
  BY DEF UndoesAll
<1>2. PICK run \in [0..n -> Diffs] :
        /\ run[0] = o /\ run[n] = _undo_mutate(base, o, cs)
        /\ \A i \in 1..n : run[i] = undo_change(base, run[i - 1], cs[i])
  BY <1>1, UndoMutateFacts
<1>3. /\ states \in [0..n -> RStates] /\ states[0] = r
      /\ \A i \in 1..n : states[i] = Replay(states[i - 1], m[i])
  BY ReplayedChangesFacts
<1>4. Agree(base, o, states[n], L, P)
  BY DEF ReplayBlock
<1>5. \A i \in 0..n : \A x \in L : states[i].kv[x] # None
  <2> SUFFICES ASSUME NEW i \in 0..n, NEW x \in L PROVE states[i].kv[x] # None
    OBVIOUS
  <2>1. 0 \in 0..n /\ states[0].kv[x] # None
    BY <1>1, <1>3
  <2> QED BY <1>1, <2>1, ValuesStay
<1>6. \A i \in 1..n : \A e \in Happened(m[i]) : states[i - 1].events[e] > 0 => e \in P
  BY DEF Fresh, Happened
<1>6a. \A i \in 1..n : m[i] \in Changes /\ cs[i] \in Changes
  BY <1>1
<1> HIDE DEF states, n
<1> DEFINE T == {i \in Nat : i <= n => run[i].contra = o.contra /\ Agree(base, run[i], states[n - i], L, P)}
<1>7. 0 \in T
  <2>1. n - 0 = n
    BY <1>1
  <2> QED BY <1>2, <1>4, <2>1
<1>8. ASSUME NEW i \in Nat, i \in T PROVE i + 1 \in T
  <2> SUFFICES ASSUME i + 1 <= n
               PROVE  run[i + 1].contra = o.contra /\ Agree(base, run[i + 1], states[n - (i + 1)], L, P)
    OBVIOUS
  <2> DEFINE k == n - i
             c == m[k]
             d == cs[i + 1]
  <2>1. /\ i + 1 \in 1..n /\ (i + 1) - 1 = i /\ i \in 0..n /\ k \in 1..n
        /\ n + 1 - (i + 1) = k /\ n - (i + 1) = k - 1 /\ k - 1 \in 0..n
    BY <1>1
  <2>2. run[i].contra = o.contra /\ Agree(base, run[i], states[k], L, P)
    BY <1>1, <1>8, <2>1
  <2>3. /\ c \in Changes /\ d \in Changes /\ Undoes(d, c, states[k - 1], L)
        /\ \A x \in L : states[k - 1].kv[x] # None
        /\ \A e \in Happened(c) : states[k - 1].events[e] > 0 => e \in P
    <3> HIDE DEF k
    <3>1. Undoes(cs[i + 1], m[n + 1 - (i + 1)], states[n - (i + 1)], L)
      BY <1>1, <2>1
    <3> QED BY <1>5, <1>6, <1>6a, <2>1, <3>1
  <2>4. run[i + 1] = undo_change(base, run[i], d) /\ states[k] = Replay(states[k - 1], c)
    BY <1>2, <1>3, <2>1
  <2>5. run[i] \in Diffs /\ states[k - 1] \in RStates
    BY <1>2, <1>3, <2>1
  <2> HIDE DEF c, d, k
  <2>6. run[i + 1].contra = run[i].contra /\ Agree(base, run[i + 1], states[k - 1], L, P)
    BY <2>2, <2>3, <2>4, <2>5, UndoAgrees
  <2> QED BY <2>1, <2>2, <2>6
<1> HIDE DEF T
<1>9. Nat \subseteq T
  BY <1>7, <1>8, SetInduction
<1>10. run[n].contra = o.contra /\ Agree(base, run[n], states[n - n], L, P)
  BY <1>1, <1>9 DEF T
<1>11. run[n] \in Diffs /\ n - n = 0
  BY <1>1, <1>2
<1> QED BY <1>2, <1>3, <1>10, <1>11

-----------------------------------------------------------------------------
(* Blocks, one after the other *)

\* Replaying a block gives a replayed state.
LEMMA ReplayBlockType ==
    ASSUME NEW r \in RStates, NEW m \in Seq(Changes)
    PROVE  ReplayBlock(r, m) \in RStates
<1>1. ReplayedChanges(r, m) \in [0..Len(m) -> RStates] /\ Len(m) \in 0..Len(m)
  BY ReplayedChangesFacts
<1> QED BY <1>1 DEF ReplayBlock

\* So does the state before genesis.
LEMMA NothingType == Nothing \in RStates
<1>1. [x \in Bins |-> None] \in [Bins -> EntryValues]
  BY DEF EntryValues
<1>2. \A k \in Keys : as_bin(k) \in Bins
  BY BinFacts
<1>3. [x \in Bins |-> None] \in Kvs
  BY <1>1, <1>2 DEF Kvs
<1> QED BY <1>3 DEF Nothing, RStates

\* The states while the blocks of a chain are replayed.
LEMMA ReplayedChainFacts ==
    ASSUME NEW ms, NEW chain, NEW n \in Nat, \A h \in 1..n : ms[chain[h]] \in Seq(Changes)
    PROVE  LET run == ReplayedChain(ms, chain, n) IN
           /\ run \in [0..n -> RStates] /\ run[0] = Nothing
           /\ \A h \in 1..n : run[h] = ReplayBlock(run[h - 1], ms[chain[h]])
<1> DEFINE F == [h \in 1..n |-> [q \in RStates |-> ReplayBlock(q, ms[chain[h]])]]
           run[h \in 0..n] == IF h = 0 THEN Nothing ELSE ReplayBlock(run[h - 1], ms[chain[h]])
<1>1. \A q \in RStates : \A h \in 1..n : ReplayBlock(q, ms[chain[h]]) \in RStates
  BY ReplayBlockType
<1>2. F \in [1..n -> [RStates -> RStates]]
  BY <1>1
<1>3. PICK f : IsRun(f, RStates, Nothing, F, n)
  BY <1>2, NothingType, RunExists
<1>4. f \in [0..n -> RStates] /\ f[0] = Nothing /\ \A h \in 1..n : f[h] = F[h][f[h - 1]]
  BY <1>3 DEF IsRun
<1>5. \A h \in 1..n : f[h - 1] \in RStates
  BY <1>4
<1>6. \A h \in 1..n : f[h] = ReplayBlock(f[h - 1], ms[chain[h]])
  BY <1>4, <1>5
<1>7. f = [h \in 0..n |-> IF h = 0 THEN Nothing ELSE ReplayBlock(f[h - 1], ms[chain[h]])]
  BY <1>4, <1>6
<1>8. run = [h \in 0..n |-> IF h = 0 THEN Nothing ELSE ReplayBlock(run[h - 1], ms[chain[h]])]
  BY <1>7, Zenon
<1>9. ReplayedChain(ms, chain, n) = run
  BY Zenon DEF ReplayedChain
<1> HIDE DEF run, F
<1>10. run[0] = Nothing /\ \A h \in 1..n : run[h] = ReplayBlock(run[h - 1], ms[chain[h]])
  BY <1>8
<1> DEFINE T == {h \in Nat : h <= n => run[h] \in RStates}
<1>11. 0 \in T
  BY <1>10, NothingType
<1>12. ASSUME NEW h \in Nat, h \in T PROVE h + 1 \in T
  <2> SUFFICES ASSUME h + 1 <= n PROVE run[h + 1] \in RStates
    OBVIOUS
  <2>1. h + 1 \in 1..n /\ (h + 1) - 1 = h /\ h <= n
    OBVIOUS
  <2> QED BY <1>1, <1>10, <1>12, <2>1
<1> HIDE DEF T
<1>13. Nat \subseteq T
  BY <1>11, <1>12, SetInduction
<1>14. \A h \in 0..n : run[h] \in RStates
  BY <1>13 DEF T
<1>15. run \in [0..n -> RStates]
  BY <1>8, <1>14
<1> QED BY <1>9, <1>10, <1>15

SameUpTo(a, b, l) == \A h \in 0..l : a[h] = b[h]

\* Chains that begin with the same blocks begin with the same states.
LEMMA ChainPrefix ==
    ASSUME NEW ms, NEW chain, NEW n \in Nat, \A h \in 1..n : ms[chain[h]] \in Seq(Changes),
           NEW ns, NEW other, NEW k \in Nat, \A h \in 1..k : ns[other[h]] \in Seq(Changes),
           NEW l \in Nat, l <= n, l <= k, \A h \in 1..l : ms[chain[h]] = ns[other[h]]
    PROVE  SameUpTo(ReplayedChain(ms, chain, n), ReplayedChain(ns, other, k), l)
<1> DEFINE a == ReplayedChain(ms, chain, n)
           b == ReplayedChain(ns, other, k)
           T == {h \in Nat : h <= l => a[h] = b[h]}
<1>1. a[0] = Nothing /\ \A h \in 1..n : a[h] = ReplayBlock(a[h - 1], ms[chain[h]])
  BY ReplayedChainFacts
<1>2. b[0] = Nothing /\ \A h \in 1..k : b[h] = ReplayBlock(b[h - 1], ns[other[h]])
  BY ReplayedChainFacts
<1> HIDE DEF a, b
<1>3. 0 \in T
  BY <1>1, <1>2
<1>4. ASSUME NEW h \in Nat, h \in T PROVE h + 1 \in T
  <2> SUFFICES ASSUME h + 1 <= l PROVE a[h + 1] = b[h + 1]
    OBVIOUS
  <2>1. h + 1 \in 1..l /\ h + 1 \in 1..n /\ h + 1 \in 1..k /\ (h + 1) - 1 = h /\ h <= l
    OBVIOUS
  <2>2. a[h] = b[h]
    BY <1>4, <2>1
  <2>3. a[h + 1] = ReplayBlock(a[h], ms[chain[h + 1]]) /\ b[h + 1] = ReplayBlock(b[h], ns[other[h + 1]])
    BY <1>1, <1>2, <2>1
  <2> QED BY <2>1, <2>2, <2>3
<1> HIDE DEF T
<1>5. Nat \subseteq T
  BY <1>3, <1>4, SetInduction
<1>6. \A h \in 0..l : a[h] = b[h]
  BY <1>5 DEF T
<1> QED BY <1>6 DEF SameUpTo, a, b

\* Contras of changes are changes, and a block can be undone and applied whatever
\* state is seen.
LEMMA ContraType ==
    ASSUME NEW base, BaseOK(base), NEW o \in Diffs, NEW c \in Changes
    PROVE  contra(base, o, c) \in Changes
<1>1. CASE c.type = "Admin"
  <2> DEFINE value == get(base, o, Generic(c.key))
  <2>1. c.key \in AdminBins /\ c = [type |-> "Admin", key |-> c.key, value |-> c.value]
    BY <1>1, ChangeFacts
  <2>2. Generic(c.key) \in Keys \ {AdminKeyID} /\ ValuesOf(Generic(c.key)) = AdminValues
    BY <2>1, KeyFacts, ValueFacts
  <2>3. value \in AdminValues \cup {None}
    BY <2>2, GetFacts
  <2> HIDE DEF value
  <2>4. contra(base, o, c) = [type |-> "Admin", key |-> c.key, value |-> value]
    BY <1>1, <2>1 DEF contra, value
  <2> QED BY <2>1, <2>3, <2>4 DEF Changes
<1>2. CASE c.type # "Admin"
  BY <1>2 DEF contra
<1> QED BY <1>1, <1>2

\* _mutate gives an overlay and contras.
LEMMA MutateType ==
    ASSUME NEW base, BaseOK(base), NEW o \in Diffs, NEW m \in Seq(Changes)
    PROVE  _mutate(base, o, m).o \in Diffs /\ _mutate(base, o, m).contra \in Seq(Changes)
<1> DEFINE n == Len(m)
           run == Mutated(base, o, m)
           cs == [j \in 1..n |-> contra(base, run[n - j], m[n + 1 - j])]
<1>1. run \in [0..n -> Diffs] /\ n \in Nat /\ \A i \in 1..n : m[i] \in Changes
  BY MutatedFacts
<1>2. _mutate(base, o, m) = [o |-> run[n], contra |-> cs]
  BY DEF _mutate
<1> HIDE DEF run, n
<1>3. ASSUME NEW j \in 1..n PROVE contra(base, run[n - j], m[n + 1 - j]) \in Changes
  <2>1. n - j \in 0..n /\ n + 1 - j \in 1..n
    BY <1>1
  <2>2. run[n - j] \in Diffs /\ m[n + 1 - j] \in Changes
    BY <1>1, <2>1
  <2> QED BY <2>2, ContraType
<1>4. cs \in [1..n -> Changes]
  BY <1>3
<1> HIDE DEF cs
<1>5. cs \in Seq(Changes)
  BY <1>1, <1>4, ListOfLength
<1>6. n \in 0..n
  BY <1>1
<1> QED BY <1>1, <1>2, <1>5, <1>6

\* _undo_mutate gives an overlay and leaves the contras.
LEMMA UndoMutateType ==
    ASSUME NEW base, BaseOK(base), NEW o \in Diffs, NEW m \in Seq(Changes)
    PROVE  _undo_mutate(base, o, m) \in Diffs /\ _undo_mutate(base, o, m).contra = o.contra
<1> DEFINE n == Len(m)
<1>1. PICK run \in [0..n -> Diffs] :
        /\ run[0] = o /\ run[n] = _undo_mutate(base, o, m)
        /\ \A i \in 1..n : run[i] = undo_change(base, run[i - 1], m[i])
  BY UndoMutateFacts
<1>2. n \in Nat /\ \A i \in 1..n : m[i] \in Changes
  OBVIOUS
<1> HIDE DEF n
<1> DEFINE T == {i \in Nat : i <= n => run[i].contra = o.contra}
<1>3. 0 \in T
  BY <1>1
<1>4. ASSUME NEW i \in Nat, i \in T PROVE i + 1 \in T
  <2> SUFFICES ASSUME i + 1 <= n PROVE run[i + 1].contra = o.contra
    OBVIOUS
  <2>1. i + 1 \in 1..n /\ (i + 1) - 1 = i /\ i <= n /\ i \in 0..n
    BY <1>2
  <2>2. run[i].contra = o.contra /\ run[i] \in Diffs /\ m[i + 1] \in Changes
    BY <1>2, <1>4, <2>1
  <2>3. run[i + 1] = undo_change(base, run[i], m[i + 1])
    BY <1>1, <2>1
  <2> DEFINE a == run[i]
             c == m[i + 1]
  <2>4. a \in Diffs /\ c \in Changes
    BY <2>2
  <2> HIDE DEF a, c
  <2>5. undo_change(base, a, c).contra = a.contra
    BY <2>4, UndoFacts DEF Moved
  <2> QED BY <2>2, <2>3, <2>5 DEF a, c
<1> HIDE DEF T
<1>5. Nat \subseteq T
  BY <1>3, <1>4, SetInduction
<1>6. run[n].contra = o.contra /\ run[n] \in Diffs
  BY <1>2, <1>5 DEF T
<1> QED BY <1>1, <1>6

\* Agreement has nothing to do with the contras.
LEMMA AgreeSame ==
    ASSUME NEW base, NEW o, NEW p, NEW r, NEW L, NEW P, Agree(base, o, r, L, P),
           p.new = o.new, p.del = o.del, p.newEvents = o.newEvents, p.delEvents = o.delEvents
    PROVE  Agree(base, p, r, L, P)
<1>1. \A k : get(base, p, k) = get(base, o, k)
  BY DEF get
<1>2. \A v : Stake(base, p, v) = Stake(base, o, v)
  BY <1>1 DEF Stake, StakeIn
<1>3. \A e : Depth(base, p, e) = Depth(base, o, e)
  BY DEF Depth
<1> QED BY <1>1, <1>2, <1>3 DEF Agree

\* Storing the contra of a block changes nothing else.
LEMMA SetContraFacts ==
    ASSUME NEW o \in Diffs, NEW b \in Blocks, NEW cs \in Seq(Changes)
    PROVE  LET p == [o EXCEPT !.contra[b] = cs] IN
           /\ p \in Diffs
           /\ p.new = o.new /\ p.del = o.del /\ p.newEvents = o.newEvents /\ p.delEvents = o.delEvents
           /\ p.contra[b] = cs /\ \A a \in Blocks : a # b => p.contra[a] = o.contra[a]
<1> DEFINE con == [o.contra EXCEPT ![b] = cs]
<1>1. o = DiffOf(o.new, o.del, o.plots, o.newEvents, o.delEvents, o.contra)
  BY DEF Diffs, DiffOf
<1>2. [o EXCEPT !.contra[b] = cs] = DiffOf(o.new, o.del, o.plots, o.newEvents, o.delEvents, con)
  BY <1>1 DEF DiffOf
<1>3. con \in Contras /\ con[b] = cs /\ \A a \in Blocks : a # b => con[a] = o.contra[a]
  BY DiffFacts DEF Contras
<1> DEFINE p == [o EXCEPT !.contra[b] = cs]
<1>4. p = DiffOf(o.new, o.del, o.plots, o.newEvents, o.delEvents, con)
  BY <1>2
<1> HIDE DEF con, p
<1>5. /\ p \in Diffs /\ p.contra = con
      /\ p.new = o.new /\ p.del = o.del /\ p.newEvents = o.newEvents /\ p.delEvents = o.delEvents
  BY <1>3, <1>4, DiffFacts, DiffOfFacts
<1> QED BY <1>3, <1>5 DEF p

\* Applying a block gives an overlay.
LEMMA DoBlockType ==
    ASSUME NEW base, BaseOK(base), NEW o \in Diffs, NEW ms, NEW b \in Blocks, ms[b] \in Seq(Changes)
    PROVE  do_block(base, o, ms, b) \in Diffs
<1> DEFINE d == _mutate(base, o, ms[b])
<1>1. d.o \in Diffs /\ d.contra \in Seq(Changes)
  BY MutateType
<1>2. do_block(base, o, ms, b) = [d.o EXCEPT !.contra[b] = d.contra]
  BY DEF do_block
<1> HIDE DEF d
<1> QED BY <1>1, <1>2, SetContraFacts

\* Only the block b may have another contra.
OtherContras(o, p, b) == \A a \in Blocks : a # b => p.contra[a] = o.contra[a]

\* Applying a block keeps the agreement and stores what undoes it.
LEMMA DoBlockAgrees ==
    ASSUME NEW base, BaseOK(base), NEW o \in Diffs, NEW r \in RStates, NEW L, L \subseteq AdminBins,
           NEW P, NEW ms, NEW b \in Blocks, NEW m \in Seq(Changes), ms[b] = m, KeepsAll(m, L),
           Agree(base, o, r, L, P), NEW done, done = do_block(base, o, ms, b)
    PROVE  /\ done \in Diffs
           /\ Agree(base, done, ReplayBlock(r, m), L, P)
           /\ UndoesAll(done.contra[b], m, r, L)
           /\ OtherContras(o, done, b)
<1> DEFINE d == _mutate(base, o, m)
           q == d.o
           p == [q EXCEPT !.contra[b] = d.contra]
<1>2. done = p
  BY DEF do_block
<1>3. /\ q \in Diffs /\ q.contra = o.contra
      /\ Agree(base, q, ReplayBlock(r, m), L, P)
      /\ UndoesAll(d.contra, m, r, L)
  BY MutateAgrees
<1>4. d.contra \in Seq(Changes)
  BY <1>3 DEF UndoesAll
<1> HIDE DEF d, q
<1>5. /\ p \in Diffs
      /\ p.new = q.new /\ p.del = q.del /\ p.newEvents = q.newEvents /\ p.delEvents = q.delEvents
      /\ p.contra[b] = d.contra /\ \A a \in Blocks : a # b => p.contra[a] = q.contra[a]
  BY <1>3, <1>4, SetContraFacts, SMTT(30)
<1> HIDE DEF p
<1>6. Agree(base, p, ReplayBlock(r, m), L, P)
  BY <1>3, <1>5, AgreeSame
<1>7. OtherContras(o, p, b)
  BY <1>3, <1>5 DEF OtherContras
<1> QED BY <1>2, <1>3, <1>5, <1>6, <1>7

\* After the top n blocks of a path are undone, the overlay agrees with the chain below.
LEMMA UndoneAgrees ==
    ASSUME NEW base, BaseOK(base), NEW o \in Diffs, NEW L, L \subseteq AdminBins, NEW P, NEW ms,
           NEW path, NEW H \in Nat, NEW n \in Nat, n < H,
           \A h \in 1..H : ms[path[h]] \in Seq(Changes) /\ KeepsAll(ms[path[h]], L),
           \A h \in 1..H : \A x \in L : ReplayedChain(ms, path, H)[h].kv[x] # None,
           Agree(base, o, ReplayedChain(ms, path, H)[H], L, P),
           \A h \in 2..H : /\ UndoesAll(o.contra[path[h]], ms[path[h]], ReplayedChain(ms, path, H)[h - 1], L)
                           /\ Fresh(ms[path[h]], ReplayedChain(ms, path, H)[h - 1], P)
    PROVE  LET p == UndoneBlocks(base, o, path, H, n) IN
           /\ p \in Diffs /\ p.contra = o.contra
           /\ Agree(base, p, ReplayedChain(ms, path, H)[H - n], L, P)
<1> DEFINE states == ReplayedChain(ms, path, H)
           S == {q \in Diffs : q.contra = o.contra}
           F == [k \in 1..n |-> [q \in S |-> undo_block(base, q, path[H + 1 - k])]]
           run[k \in 0..n] == IF k = 0 THEN o ELSE undo_block(base, run[k - 1], path[H + 1 - k])
<1>1. /\ states \in [0..H -> RStates]
      /\ \A h \in 1..H : states[h] = ReplayBlock(states[h - 1], ms[path[h]])
  BY ReplayedChainFacts
<1>2. /\ \A h \in 1..H : \A x \in L : states[h].kv[x] # None
      /\ Agree(base, o, states[H], L, P)
      /\ \A h \in 2..H : /\ UndoesAll(o.contra[path[h]], ms[path[h]], states[h - 1], L)
                         /\ Fresh(ms[path[h]], states[h - 1], P)
  OBVIOUS
<1> HIDE DEF states
<1>3. ASSUME NEW q \in S, NEW h \in 2..H
      PROVE  undo_block(base, q, path[h]) \in S
  <2> DEFINE cs == o.contra[path[h]]
  <2>1. cs \in Seq(Changes)
    BY <1>2, <1>3 DEF UndoesAll
  <2>2. undo_block(base, q, path[h]) = _undo_mutate(base, q, cs)
    BY <1>3 DEF undo_block
  <2> HIDE DEF cs
  <2> QED BY <1>3, <2>1, <2>2, UndoMutateType
<1>4. \A k \in 1..n : H + 1 - k \in 2..H
  OBVIOUS
<1>5. F \in [1..n -> [S -> S]]
  BY <1>3, <1>4
<1>6. o \in S
  OBVIOUS
<1>7. PICK f : IsRun(f, S, o, F, n)
  <2> HIDE DEF S, F
  <2> QED BY <1>5, <1>6, RunExists
<1>8. f \in [0..n -> S] /\ f[0] = o /\ \A k \in 1..n : f[k] = F[k][f[k - 1]]
  <2> HIDE DEF S, F
  <2> QED BY <1>7 DEF IsRun
<1>9. \A k \in 1..n : f[k - 1] \in S
  BY <1>8
<1>10. \A k \in 1..n : f[k] = undo_block(base, f[k - 1], path[H + 1 - k])
  BY <1>8, <1>9
<1>11. f = [k \in 0..n |-> IF k = 0 THEN o ELSE undo_block(base, f[k - 1], path[H + 1 - k])]
  <2> HIDE DEF S, F
  <2> QED BY <1>8, <1>10
<1>12. run = [k \in 0..n |-> IF k = 0 THEN o ELSE undo_block(base, run[k - 1], path[H + 1 - k])]
  BY <1>11, Zenon
<1>13. UndoneBlocks(base, o, path, H, n) = run[n]
  BY Zenon DEF UndoneBlocks
<1> HIDE DEF run, F, S
<1>14. run[0] = o /\ \A k \in 1..n : run[k] = undo_block(base, run[k - 1], path[H + 1 - k])
  <2>1. 0 \in 0..n /\ \A k \in 1..n : k \in 0..n /\ k # 0
    OBVIOUS
  <2> QED BY <1>12, <2>1, Zenon
<1> DEFINE T == {k \in Nat : k <= n => run[k] \in S /\ Agree(base, run[k], states[H - k], L, P)}
<1>15. 0 \in T
  <2>1. H - 0 = H
    OBVIOUS
  <2> QED BY <1>2, <1>6, <1>14, <2>1
<1>16. ASSUME NEW k \in Nat, k \in T PROVE k + 1 \in T
  <2> SUFFICES ASSUME k + 1 <= n
               PROVE  run[k + 1] \in S /\ Agree(base, run[k + 1], states[H - (k + 1)], L, P)
    OBVIOUS
  <2> DEFINE h == H - k
             q == run[k]
             m == ms[path[h]]
             cs == o.contra[path[h]]
             r == states[h - 1]
  <2>1. /\ k + 1 \in 1..n /\ (k + 1) - 1 = k /\ k <= n /\ h \in 2..H /\ h \in 1..H
        /\ H + 1 - (k + 1) = h /\ H - (k + 1) = h - 1 /\ h - 1 \in 0..H /\ h - 1 \in 1..H
    OBVIOUS
  <2>2. q \in S /\ Agree(base, q, states[h], L, P)
    BY <1>16, <2>1
  <2>3. run[k + 1] = undo_block(base, q, path[h])
    BY <1>14, <2>1
  <2> HIDE DEF h, q
  <2>4. undo_block(base, q, path[h]) \in S
    BY <1>3, <2>1, <2>2
  <2>5. undo_block(base, q, path[h]) = _undo_mutate(base, q, cs) /\ q \in Diffs
    BY <2>2 DEF undo_block, S
  <2>6. /\ r \in RStates /\ states[h] = ReplayBlock(r, m) /\ m \in Seq(Changes) /\ KeepsAll(m, L)
        /\ UndoesAll(cs, m, r, L) /\ Fresh(m, r, P) /\ \A x \in L : r.kv[x] # None
    BY <1>1, <1>2, <2>1
  <2> HIDE DEF m, cs, r
  <2>7. Agree(base, _undo_mutate(base, q, cs), r, L, P)
    BY <2>2, <2>5, <2>6, UndoMutateAgrees
  <2> QED BY <2>1, <2>3, <2>4, <2>5, <2>7 DEF r
<1> HIDE DEF T
<1>17. Nat \subseteq T
  BY <1>15, <1>16, SetInduction
<1>18. run[n] \in S /\ Agree(base, run[n], states[H - n], L, P)
  BY <1>17 DEF T
<1> QED BY <1>13, <1>18 DEF S, states

\* The heights of the blocks that are applied above a height.
LEMMA HeightsAbove ==
    ASSUME NEW H \in Nat, NEW low \in Nat, low >= 1, NEW k \in Nat, k + 1 <= H - low
    PROVE  LET h == low + (k + 1) IN
           /\ k + 1 \in 1..(H - low) /\ (k + 1) - 1 = k /\ k <= H - low
           /\ h \in 1..H /\ h - 1 \in 0..H /\ low + k = h - 1 /\ h \in Nat /\ h >= 2
OBVIOUS

\* After the blocks above a height are applied, the overlay agrees with the whole path.
LEMMA DoneAgrees ==
    ASSUME NEW base, BaseOK(base), NEW o \in Diffs, NEW L, L \subseteq AdminBins, NEW P, NEW ms,
           NEW path, NEW H \in Nat, NEW low \in Nat, low >= 1, low <= H,
           \A h \in 1..H : /\ path[h] \in Blocks
                           /\ ms[path[h]] \in Seq(Changes) /\ KeepsAll(ms[path[h]], L),
           \A h, k \in 1..H : path[h] = path[k] => h = k,
           Agree(base, o, ReplayedChain(ms, path, H)[low], L, P),
           \A h \in 2..low : UndoesAll(o.contra[path[h]], ms[path[h]], ReplayedChain(ms, path, H)[h - 1], L)
    PROVE  LET p == DoneBlocks(base, o, ms, path, low, H - low) IN
           /\ p \in Diffs
           /\ Agree(base, p, ReplayedChain(ms, path, H)[H], L, P)
           /\ \A h \in 2..H :
                UndoesAll(p.contra[path[h]], ms[path[h]], ReplayedChain(ms, path, H)[h - 1], L)
<1> DEFINE states == ReplayedChain(ms, path, H)
           n == H - low
           F == [k \in 1..n |-> [q \in Diffs |-> do_block(base, q, ms, path[low + k])]]
           run[k \in 0..n] == IF k = 0 THEN o ELSE do_block(base, run[k - 1], ms, path[low + k])
           Has(q, top) == \A h \in 2..top : UndoesAll(q.contra[path[h]], ms[path[h]], states[h - 1], L)
<1>1. /\ states \in [0..H -> RStates]
      /\ \A h \in 1..H : states[h] = ReplayBlock(states[h - 1], ms[path[h]])
  BY ReplayedChainFacts
<1>2. Agree(base, o, states[low], L, P) /\ Has(o, low)
  OBVIOUS
<1> HIDE DEF states
<1>3. n \in Nat /\ \A k \in 1..n : low + k \in 1..H
  OBVIOUS
<1>4. ASSUME NEW q \in Diffs, NEW h \in 1..H PROVE do_block(base, q, ms, path[h]) \in Diffs
  BY DoBlockType
<1>5. F \in [1..n -> [Diffs -> Diffs]]
  BY <1>3, <1>4
<1> HIDE DEF n
<1>6. PICK f : IsRun(f, Diffs, o, F, n)
  <2> HIDE DEF F
  <2> QED BY <1>3, <1>5, RunExists
<1>7. f \in [0..n -> Diffs] /\ f[0] = o /\ \A k \in 1..n : f[k] = F[k][f[k - 1]]
  <2> HIDE DEF F
  <2> QED BY <1>6 DEF IsRun
<1>8. \A k \in 1..n : f[k - 1] \in Diffs
  BY <1>3, <1>7
<1>9. \A k \in 1..n : f[k] = do_block(base, f[k - 1], ms, path[low + k])
  BY <1>7, <1>8
<1>10. f = [k \in 0..n |-> IF k = 0 THEN o ELSE do_block(base, f[k - 1], ms, path[low + k])]
  <2> HIDE DEF F
  <2> QED BY <1>3, <1>7, <1>9
<1>11. run = [k \in 0..n |-> IF k = 0 THEN o ELSE do_block(base, run[k - 1], ms, path[low + k])]
  BY <1>10, Zenon
<1>12. DoneBlocks(base, o, ms, path, low, n) = run[n]
  BY Zenon DEF DoneBlocks
<1> HIDE DEF run, F
<1>13. run[0] = o /\ \A k \in 1..n : run[k] = do_block(base, run[k - 1], ms, path[low + k])
  <2>1. 0 \in 0..n /\ \A k \in 1..n : k \in 0..n /\ k # 0
    BY <1>3
  <2> QED BY <1>11, <2>1, Zenon
<1> DEFINE Good(k) == run[k] \in Diffs /\ Agree(base, run[k], states[low + k], L, P) /\ Has(run[k], low + k)
           T == {k \in Nat : k <= n => Good(k)}
<1>14. 0 \in T
  <2>1. low + 0 = low
    OBVIOUS
  <2> HIDE DEF Has
  <2> QED BY <1>2, <1>13, <2>1
<1>15. ASSUME NEW k \in Nat, k \in T PROVE k + 1 \in T
  <2> SUFFICES ASSUME k + 1 <= n PROVE Good(k + 1)
    OBVIOUS
  <2> DEFINE h == low + (k + 1)
             q == run[k]
             b == path[h]
             m == ms[b]
             r == states[h - 1]
             p == do_block(base, q, ms, b)
  <2>1. /\ k + 1 \in 1..n /\ (k + 1) - 1 = k /\ k <= n /\ h \in 1..H /\ h - 1 \in 0..H
        /\ low + k = h - 1 /\ h \in Nat /\ h >= 2
    BY HeightsAbove DEF n
  <2>2. q \in Diffs /\ Agree(base, q, r, L, P) /\ Has(q, h - 1)
    BY <1>15, <2>1
  <2>3. run[k + 1] = p
    BY <1>13, <2>1
  <2> HIDE DEF h, q
  <2>4. /\ r \in RStates /\ states[h] = ReplayBlock(r, m) /\ b \in Blocks
        /\ m \in Seq(Changes) /\ KeepsAll(m, L)
    BY <1>1, <2>1
  <2>5. q \in Diffs /\ Agree(base, q, r, L, P) /\ r = states[h - 1] /\ b = path[h] /\ ms[b] = m
    BY <2>2
  <2>5a. p = do_block(base, q, ms, b)
    OBVIOUS
  <2> HIDE DEF b, m, r, p
  <2>6. /\ p \in Diffs /\ Agree(base, p, ReplayBlock(r, m), L, P)
        /\ UndoesAll(p.contra[b], m, r, L)
        /\ OtherContras(q, p, b)
    <3>1. p \in Diffs /\ Agree(base, p, ReplayBlock(r, m), L, P)
      BY <2>4, <2>5, <2>5a, DoBlockAgrees
    <3>2. UndoesAll(p.contra[b], m, r, L)
      BY <2>4, <2>5, <2>5a, DoBlockAgrees
    <3>3. OtherContras(q, p, b)
      BY <2>4, <2>5, <2>5a, DoBlockAgrees
    <3> QED BY <3>1, <3>2, <3>3
  <2>7. ASSUME NEW j \in 2..h
        PROVE  UndoesAll(p.contra[path[j]], ms[path[j]], states[j - 1], L)
    <3>1. CASE j = h
      BY <2>5, <2>6, <3>1
    <3>2. CASE j # h
      <4>1. j \in 2..(h - 1) /\ j \in 1..H
        BY <2>1, <3>2
      <4>2. path[j] # b /\ path[j] \in Blocks
        BY <2>1, <2>5, <3>2, <4>1
      <4>3. UndoesAll(q.contra[path[j]], ms[path[j]], states[j - 1], L)
        BY <2>2, <4>1
      <4> QED BY <2>6, <4>2, <4>3 DEF OtherContras
    <3> QED BY <3>1, <3>2
  <2>8. Has(p, h)
    BY <2>7
  <2>9. low + (k + 1) = h
    BY DEF h
  <2> HIDE DEF Has
  <2> QED BY <2>3, <2>4, <2>6, <2>8, <2>9
<1> HIDE DEF T
<1>16. Nat \subseteq T
  BY <1>14, <1>15, SetInduction
<1>17. Good(n)
  BY <1>3, <1>16 DEF T
<1>18. low + n = H
  BY DEF n
<1>19. run[n] \in Diffs /\ Agree(base, run[n], states[H], L, P) /\ Has(run[n], H)
  <2> HIDE DEF Has
  <2> QED BY <1>17, <1>18
<1> QED BY <1>12, <1>19 DEF states, n

-----------------------------------------------------------------------------
(* Walking from the head to a block *)

\* The stored blocks have mutations, and genesis has its own.
Sound(ms, s) ==
    /\ \A b \in Stored(s) : ms[b] \in Seq(Changes)
    /\ ms[Genesis] = GenesisMut

\* The path of a stored block, from genesis to it.
LEMMA TreePath ==
    ASSUME NEW s, Tree(s), NEW b \in Stored(s)
    PROVE  /\ s.height[b] \in Nat /\ s.height[b] >= 1 /\ b \in Blocks /\ Genesis \in Stored(s)
           /\ Path(s, b) \in [1..s.height[b] -> Stored(s)]
           /\ Path(s, b)[s.height[b]] = b /\ Path(s, b)[1] = Genesis
           /\ \A h \in 1..s.height[b] : Path(s, b)[h] \in Stored(s) /\ Path(s, b)[h] \in Blocks
           /\ \A h \in 1..s.height[b] : s.height[Path(s, b)[h]] = h
           /\ \A h \in 2..s.height[b] : /\ s.header[Path(s, b)[h]] = Path(s, b)[h - 1]
                                        /\ Path(s, b)[h] # Genesis
           /\ \A h, k \in 1..s.height[b] : Path(s, b)[h] = Path(s, b)[k] => h = k
<1>1. /\ Path(s, b) \in [1..s.height[b] -> Stored(s)] /\ Path(s, b)[s.height[b]] = b
      /\ \A h \in 2..s.height[b] : s.header[Path(s, b)[h]] = Path(s, b)[h - 1]
      /\ \A h \in 1..s.height[b] : s.height[Path(s, b)[h]] = h
  BY PathFacts DEF Tree, PathSet, IsPath
<1>2. s.height[b] \in Nat /\ s.height[b] >= 1
  BY TreeFacts, BoundAssumption DEF Heights
<1>3. \A h \in 1..s.height[b] : Path(s, b)[h] \in Stored(s) /\ Path(s, b)[h] \in Blocks
  BY <1>1 DEF Stored
<1>4. 1 \in 1..s.height[b]
  BY <1>2
<1>5. Path(s, b)[1] = Genesis
  BY <1>1, <1>3, <1>4, TreeFacts
<1>6. Genesis \in Stored(s) /\ s.height[Genesis] = 1 /\ b \in Blocks
  BY <1>1, <1>4, <1>5 DEF Tree, Stored
<1>7. \A h \in 2..s.height[b] : Path(s, b)[h] # Genesis
  BY <1>1, <1>2, <1>6
<1>8. \A h, k \in 1..s.height[b] : Path(s, b)[h] = Path(s, b)[k] => h = k
  BY <1>1
<1> QED BY <1>1, <1>2, <1>3, <1>5, <1>6, <1>7, <1>8

\* The path of a block on a path is the lower part of it.
LEMMA PathBelow ==
    ASSUME NEW s, Tree(s), NEW b \in Stored(s), NEW h \in 1..s.height[b]
    PROVE  \A k \in 1..h : Path(s, Path(s, b)[h])[k] = Path(s, b)[k]
<1> DEFINE f == Path(s, b)
           c == f[h]
           g == [k \in 1..h |-> f[k]]
<1>1. /\ s.height[b] \in Nat /\ s.height[b] >= 1
      /\ \A k \in 1..s.height[b] : f[k] \in Stored(s)
      /\ \A k \in 1..s.height[b] : s.height[f[k]] = k
      /\ \A k \in 2..s.height[b] : s.header[f[k]] = f[k - 1]
      /\ f[1] = Genesis
  BY TreePath
<1> HIDE DEF f
<1>2. c \in Stored(s) /\ s.height[c] = h /\ h \in Nat /\ h >= 1 /\ \A k \in 1..h : k \in 1..s.height[b]
  BY <1>1
<1>3. g \in [1..s.height[c] -> Stored(s)]
  BY <1>1, <1>2
<1>4. s.header[Genesis] = Zero
  BY DEF Tree, HeightsFollowPrev
<1>5. g[s.height[c]] = c /\ s.header[g[1]] = Zero
  BY <1>1, <1>2, <1>4
<1>6. ASSUME NEW k \in 2..s.height[c] PROVE s.header[g[k]] = g[k - 1]
  <2>1. k \in 1..h /\ k - 1 \in 1..h /\ k \in 2..s.height[b]
    BY <1>1, <1>2
  <2> QED BY <1>1, <2>1
<1>7. g \in PathSet(s, c)
  BY <1>3, <1>5, <1>6 DEF PathSet, IsPath
<1>8. g = Path(s, c)
  BY <1>2, <1>7, PathFacts DEF Tree
<1>9. \A k \in 1..h : g[k] = f[k]
  OBVIOUS
<1> HIDE DEF g
<1> QED BY <1>8, <1>9 DEF f

\* The states along the path of a stored block.
LEMMA ReplayedPathFacts ==
    ASSUME NEW s, Tree(s), NEW ms, Sound(ms, s), NEW b \in Stored(s)
    PROVE  LET run == ReplayedPath(ms, s, b) IN
           /\ run \in [0..s.height[b] -> RStates] /\ run[0] = Nothing
           /\ \A h \in 1..s.height[b] : /\ ms[Path(s, b)[h]] \in Seq(Changes)
                                        /\ run[h] = ReplayBlock(run[h - 1], ms[Path(s, b)[h]])
<1>1. s.height[b] \in Nat /\ \A h \in 1..s.height[b] : ms[Path(s, b)[h]] \in Seq(Changes)
  BY TreePath DEF Sound
<1> QED BY <1>1, ReplayedChainFacts DEF ReplayedPath

\* What is said of the states of a path holds of the states of the blocks on it.
LEMMA ReplayedBelow ==
    ASSUME NEW s, Tree(s), NEW ms, Sound(ms, s), NEW b \in Stored(s), NEW h \in 1..s.height[b]
    PROVE  \A k \in 0..h : ReplayedPath(ms, s, Path(s, b)[h])[k] = ReplayedPath(ms, s, b)[k]
<1> DEFINE c == Path(s, b)[h]
<1>1. c \in Stored(s) /\ s.height[c] = h /\ s.height[b] \in Nat /\ h \in Nat /\ h <= s.height[b]
  BY TreePath
<1>2. \A k \in 1..h : Path(s, c)[k] = Path(s, b)[k]
  BY PathBelow
<1>3. \A k \in 1..s.height[b] : ms[Path(s, b)[k]] \in Seq(Changes)
  BY ReplayedPathFacts
<1> HIDE DEF c
<1>4. \A k \in 1..s.height[c] : ms[Path(s, c)[k]] \in Seq(Changes)
  BY <1>1, ReplayedPathFacts
<1> DEFINE f == Path(s, b)
           g == Path(s, c)
           n == s.height[b]
<1>5. /\ n \in Nat /\ h \in Nat /\ h <= n /\ h <= h /\ \A k \in 1..h : ms[g[k]] = ms[f[k]]
      /\ \A k \in 1..n : ms[f[k]] \in Seq(Changes)
      /\ \A k \in 1..h : ms[g[k]] \in Seq(Changes)
  BY <1>1, <1>2, <1>3, <1>4
<1> HIDE DEF f, g, n
<1>6. SameUpTo(ReplayedChain(ms, g, h), ReplayedChain(ms, f, n), h)
  BY <1>5, ChainPrefix
<1> QED BY <1>1, <1>6 DEF SameUpTo, ReplayedPath, c, f, g, n

\* A lasting value is set by genesis and removed by no block.
LEMMA LastingFacts ==
    ASSUME NEW s, Tree(s), NEW ms, Sound(ms, s)
    PROVE  /\ LastingBins(ms, s) \subseteq AdminBins
           /\ \A b \in Stored(s) : KeepsAll(ms[b], LastingBins(ms, s))
           /\ \A b \in Stored(s) : \A h \in 1..s.height[b] : \A x \in LastingBins(ms, s) :
                ReplayedPath(ms, s, b)[h].kv[x] # None
<1> DEFINE L == LastingBins(ms, s)
<1>1. L \subseteq AdminBins
  BY DEF LastingBins
<1>2. \A b \in Stored(s) : KeepsAll(ms[b], L)
  BY DEF LastingBins, KeepsAll, Keeps
<1>3. ASSUME NEW b \in Stored(s), NEW x \in L
      PROVE  \A h \in 1..s.height[b] : ReplayedPath(ms, s, b)[h].kv[x] # None
  <2> DEFINE run == ReplayedPath(ms, s, b)
             T == {h \in Nat : h + 1 <= s.height[b] => run[h + 1].kv[x] # None}
             states == ReplayedChanges(Nothing, GenesisMut)
  <2>1. /\ run \in [0..s.height[b] -> RStates] /\ run[0] = Nothing
        /\ \A h \in 1..s.height[b] : /\ ms[Path(s, b)[h]] \in Seq(Changes)
                                     /\ run[h] = ReplayBlock(run[h - 1], ms[Path(s, b)[h]])
    BY ReplayedPathFacts
  <2>2. /\ s.height[b] \in Nat /\ s.height[b] >= 1 /\ Path(s, b)[1] = Genesis /\ Genesis \in Stored(s)
        /\ \A h \in 1..s.height[b] : Path(s, b)[h] \in Stored(s)
    BY TreePath
  <2>3. GenesisMut \in Seq(Changes) /\ ms[Genesis] = GenesisMut /\ Nothing \in RStates
    BY NetAssumption, NothingType DEF Sound
  <2> HIDE DEF run
  <2>4. 0 \in T
    <3>1. 1 \in 1..s.height[b] /\ 1 - 1 = 0 /\ 0 + 1 = 1
      BY <2>2
    <3>2. run[1] = ReplayBlock(Nothing, GenesisMut)
      BY <2>1, <2>2, <2>3, <3>1
    <3>3. PICK i \in 1..Len(GenesisMut) : Names(GenesisMut[i], x)
      BY <1>3 DEF LastingBins
    <3>4. /\ states \in [0..Len(GenesisMut) -> RStates]
          /\ states[i] = Replay(states[i - 1], GenesisMut[i])
      BY <2>3, ReplayedChangesFacts
    <3>5. KeepsAll(GenesisMut, L)
      BY <1>2, <2>2, <2>3
    <3>6. GenesisMut[i] \in Changes /\ GenesisMut[i].value # None
      BY <1>3, <2>3, <3>3, <3>5 DEF KeepsAll, Keeps
    <3>7. i - 1 \in 0..Len(GenesisMut) /\ i \in 0..Len(GenesisMut) /\ Len(GenesisMut) \in i..Len(GenesisMut)
      BY <2>3
    <3> DEFINE r == states[i - 1]
               c == GenesisMut[i]
    <3>8. r \in RStates /\ c \in Changes /\ Names(c, x) /\ x \in AdminBins /\ states[i] = Replay(r, c)
      BY <1>1, <1>3, <3>3, <3>4, <3>6, <3>7
    <3> HIDE DEF r, c
    <3>9. Replay(r, c).kv[x] = c.value
      BY <3>8, ReplayFacts
    <3>10. states[i].kv[x] # None
      BY <3>6, <3>8, <3>9 DEF c
    <3>11. states[Len(GenesisMut)].kv[x] # None
      BY <1>1, <1>3, <2>3, <3>5, <3>7, <3>10, ValuesStay
    <3> QED BY <3>1, <3>2, <3>11 DEF ReplayBlock
  <2>5. ASSUME NEW h \in Nat, h \in T PROVE h + 1 \in T
    <3> SUFFICES ASSUME (h + 1) + 1 <= s.height[b] PROVE run[(h + 1) + 1].kv[x] # None
      OBVIOUS
    <3> DEFINE k == (h + 1) + 1
               r == run[k - 1]
               m == ms[Path(s, b)[k]]
    <3>1. k \in 1..s.height[b] /\ k - 1 = h + 1 /\ k - 1 \in 0..s.height[b] /\ h + 1 <= s.height[b]
      BY <2>2
    <3>2. run[k] = ReplayBlock(r, m) /\ r \in RStates /\ m \in Seq(Changes) /\ r.kv[x] # None
      BY <2>1, <2>5, <3>1
    <3>3. KeepsAll(m, L)
      BY <1>2, <2>2, <3>1
    <3> HIDE DEF k, r, m
    <3>4. ReplayedChanges(r, m)[0] = r /\ 0 \in 0..Len(m) /\ Len(m) \in 0..Len(m)
      BY <3>2, ReplayedChangesFacts
    <3>5. ReplayedChanges(r, m)[Len(m)].kv[x] # None
      BY <1>1, <1>3, <3>2, <3>3, <3>4, ValuesStay
    <3>6. run[k].kv[x] # None
      BY <3>2, <3>5 DEF ReplayBlock
    <3> QED BY <3>6 DEF k
  <2> HIDE DEF T
  <2>6. Nat \subseteq T
    BY <2>4, <2>5, SetInduction
  <2>7. ASSUME NEW h \in 1..s.height[b] PROVE run[h].kv[x] # None
    <3>1. h - 1 \in Nat /\ (h - 1) + 1 = h
      OBVIOUS
    <3> QED BY <2>2, <2>6, <3>1 DEF T
  <2> QED BY <2>7 DEF run
<1> QED BY <1>1, <1>2, <1>3

\* A walk in the DBDiff undoes the blocks above the fork and applies those of
\* the other branch, and then shows the state of the block it walked to.
LEMMA WalkShows ==
    ASSUME NEW s, Tree(s), s.head \in Stored(s), NEW ms, Sound(ms, s), NEW b \in Stored(s),
           NEW base, BaseOK(base), NEW o \in Diffs, NEW P, Follows(ms, s, base, o, P)
    PROVE  /\ walk_net(base, o, s, ms, b) \in Diffs
           /\ Shows(ms, s, b, base, walk_net(base, o, s, ms, b), P)
<1> DEFINE L == LastingBins(ms, s)
           H == s.height[s.head]
           K == s.height[b]
           f == Path(s, s.head)
           g == Path(s, b)
           run == ReplayedChain(ms, f, H)
           up == ReplayedChain(ms, g, K)
<1>1. PICK m \in Nat : m >= 1 /\ m <= H /\ m <= K /\ Shared(s, s.head, b) = 1..m
  BY SharedFacts
<1>2. /\ H \in Nat /\ H >= 1
      /\ \A h \in 1..H : f[h] \in Stored(s) /\ s.height[f[h]] = h
      /\ \A h \in 2..H : f[h] # Genesis
  BY TreePath
<1>3. /\ K \in Nat /\ K >= 1
      /\ \A h \in 1..K : g[h] \in Stored(s) /\ g[h] \in Blocks
      /\ \A h, k \in 1..K : g[h] = g[k] => h = k
  BY TreePath
<1>4. /\ L \subseteq AdminBins
      /\ \A c \in Stored(s) : ms[c] \in Seq(Changes) /\ KeepsAll(ms[c], L)
      /\ \A h \in 1..H : \A x \in L : run[h].kv[x] # None
  BY LastingFacts DEF Sound, ReplayedPath
<1>5. /\ Agree(base, o, run[H], L, P)
      /\ \A h \in 2..H : UndoesAll(o.contra[f[h]], ms[f[h]], run[h - 1], L)
  BY DEF Follows, Shows, ReplayedPath
<1>6. ASSUME NEW h \in 2..H PROVE Fresh(ms[f[h]], run[h - 1], P)
  <2> DEFINE c == f[h]
  <2>1. h \in 1..H /\ h - 1 \in 0..h
    BY <1>2
  <2>2. c \in Stored(s) \ {Genesis} /\ s.height[c] = h
    BY <1>2, <2>1
  <2>3. ReplayedPath(ms, s, c)[h - 1] = run[h - 1]
    BY <2>1, ReplayedBelow DEF ReplayedPath
  <2> HIDE DEF c, run
  <2>4. Fresh(ms[c], ReplayedPath(ms, s, c)[s.height[c] - 1], P)
    BY <2>2 DEF Follows, AllFresh
  <2> QED BY <2>2, <2>3, <2>4 DEF c
<1>7. ASSUME NEW h \in 1..m PROVE f[h] = g[h]
  BY <1>1 DEF Shared
<1>8. Cardinality(Down(s, s.head, b)) = H - m
  <2>1. Down(s, s.head, b) = (m + 1)..H
    BY <1>1, <1>2 DEF Down
  <2>2. m + 1 \in Int /\ H \in Int /\ H - (m + 1) + 1 = H - m
    BY <1>1, <1>2
  <2>3. Cardinality((m + 1)..H) = H - m
    <3> HIDE DEF H
    <3>1. CASE m + 1 <= H
      BY <1>1, <2>2, <3>1, FS_Interval
    <3>2. CASE m = H
      <4>1. (m + 1)..H = {} /\ H - m = 0
        BY <1>1, <1>2, <3>2
      <4> QED BY <4>1, FS_EmptySet
    <3> QED BY <1>1, <1>2, <3>1, <3>2
  <2> QED BY <2>1, <2>3
<1> DEFINE p == UndoneBlocks(base, o, f, H, H - m)
           q == DoneBlocks(base, p, ms, g, m, K - m)
<1>9. walk_net(base, o, s, ms, b) = q
  <2>1. H - (H - m) = m
    BY <1>1, <1>2
  <2> QED BY <1>8, <2>1 DEF walk_net
<1> HIDE DEF L, H, K, f, g, run, up
<1>10. /\ H - m \in Nat /\ H - m < H /\ H - (H - m) = m
       /\ \A h \in 1..H : ms[f[h]] \in Seq(Changes) /\ KeepsAll(ms[f[h]], L)
  BY <1>1, <1>2, <1>4
<1>11. p \in Diffs /\ p.contra = o.contra /\ Agree(base, p, run[m], L, P)
  <2> DEFINE n == H - m
  <2>1. n \in Nat /\ n < H /\ H - n = m
    BY <1>10
  <2> HIDE DEF n
  <2>2. LET z == UndoneBlocks(base, o, f, H, n) IN
        z \in Diffs /\ z.contra = o.contra /\ Agree(base, z, run[H - n], L, P)
    BY <1>2, <1>4, <1>5, <1>6, <1>10, <2>1, UndoneAgrees DEF run
  <2> QED BY <2>1, <2>2 DEF n
<1>12. \A h \in 0..m : run[h] = up[h]
  <2>1. /\ \A h \in 1..H : ms[f[h]] \in Seq(Changes)
        /\ \A h \in 1..K : ms[g[h]] \in Seq(Changes)
        /\ \A h \in 1..m : ms[f[h]] = ms[g[h]]
    BY <1>3, <1>4, <1>7, <1>10
  <2>2. H \in Nat /\ K \in Nat /\ m <= H /\ m <= K
    BY <1>1, <1>2, <1>3
  <2>3. SameUpTo(ReplayedChain(ms, f, H), ReplayedChain(ms, g, K), m)
    BY <2>1, <2>2, ChainPrefix
  <2> QED BY <2>3 DEF SameUpTo, run, up
<1> HIDE DEF p
<1>13. \A h \in 2..m : UndoesAll(p.contra[g[h]], ms[g[h]], up[h - 1], L)
  <2> SUFFICES ASSUME NEW h \in 2..m PROVE UndoesAll(p.contra[g[h]], ms[g[h]], up[h - 1], L)
    OBVIOUS
  <2>1. h \in 2..H /\ h \in 1..m /\ h - 1 \in 0..m
    BY <1>1, <1>2
  <2> QED BY <1>5, <1>7, <1>11, <1>12, <2>1
<1>14. Agree(base, p, up[m], L, P)
  <2>1. m \in 0..m
    BY <1>1
  <2> QED BY <1>11, <1>12, <2>1
<1>15. \A h \in 1..K : g[h] \in Blocks /\ ms[g[h]] \in Seq(Changes) /\ KeepsAll(ms[g[h]], L)
  BY <1>3, <1>4
<1>16. /\ q \in Diffs /\ Agree(base, q, up[K], L, P)
       /\ \A h \in 2..K : UndoesAll(q.contra[g[h]], ms[g[h]], up[h - 1], L)
  BY <1>1, <1>3, <1>4, <1>11, <1>13, <1>14, <1>15, DoneAgrees DEF up
<1> HIDE DEF q
<1>17. Shows(ms, s, b, base, q, P)
  BY <1>16 DEF Shows, ReplayedPath, L, K, g, up
<1> QED BY <1>9, <1>16, <1>17

-----------------------------------------------------------------------------
(* Writing the DBDiff to the database *)

\* Each key is written as the overlay shows it.
LEMMA CompileKv ==
    ASSUME NEW n \in Nets, NEW o \in Diffs
    PROVE  /\ BaseOK(Base(n))
           /\ \A k \in Keys \ {AdminKeyID} : compile(n, o).kv[as_bin(k)] = get(Base(n), o, k)
           /\ compile(n, o).kv \in Kvs
<1> DEFINE put(x) == {k \in Keys : as_bin(k) = x /\ o.new[k] # None}
           kv == [x \in Bins |-> IF \E k \in o.del : as_bin(k) = x THEN None
                                 ELSE IF put(x) = {} THEN n.kv[x]
                                 ELSE o.new[CHOOSE k \in put(x) : TRUE]]
<1>1. compile(n, o).kv = kv
  BY DEF compile
<1>2. \A k \in Keys : Base(n).kv[k] = n.kv[as_bin(k)]
  BY DEF Base
<1>3. n.kv \in [Bins -> EntryValues] /\ \A k \in Keys \ {AdminKeyID} : n.kv[as_bin(k)] \in ValuesOf(k) \cup {None}
  BY DEF Nets
<1>4. BaseOK(Base(n))
  BY <1>2, <1>3 DEF BaseOK
<1>5. o.new[AdminKeyID] = None /\ AdminKeyID \notin o.del
  BY DiffFacts, KeyFacts, ValueFacts
<1>6. ASSUME NEW k \in Keys \ {AdminKeyID}
      PROVE  kv[as_bin(k)] = get(Base(n), o, k)
  <2> DEFINE x == as_bin(k)
  <2>1. x \in Bins
    BY BinFacts
  <2>2. \A j \in Keys : (j \in o.del \/ o.new[j] # None) /\ as_bin(j) = x => j = k
    BY <1>5, BinFacts
  <2>3. (\E j \in o.del : as_bin(j) = x) <=> k \in o.del
    BY <2>2, DiffFacts
  <2>4. put(x) = IF o.new[k] # None THEN {k} ELSE {}
    BY <2>2
  <2>5. CASE o.new[k] # None
    <3>1. k \notin o.del /\ put(x) = {k}
      BY <2>4, <2>5, DiffFacts
    <3>2. (CHOOSE j \in put(x) : TRUE) = k
      BY <3>1
    <3> HIDE DEF put
    <3>3. kv[x] = o.new[k]
      BY <2>1, <2>3, <3>1, <3>2
    <3> QED BY <2>5, <3>3 DEF get
  <2>6. CASE o.new[k] = None
    <3>1. put(x) = {}
      BY <2>4, <2>6
    <3> HIDE DEF put
    <3>2. kv[x] = IF k \in o.del THEN None ELSE n.kv[x]
      BY <2>1, <2>3, <3>1
    <3> QED BY <1>2, <2>6, <3>2 DEF get
  <2> QED BY <2>5, <2>6
<1>7. \A x \in Bins : \E k \in Keys \ {AdminKeyID} : x = as_bin(k)
  <2>1. Generic(AdminBin) \in Keys \ {AdminKeyID} /\ as_bin(Generic(AdminBin)) = as_bin(AdminKeyID)
    BY NetAssumption, KeyFacts, BinFacts
  <2> QED BY <2>1 DEF Bins
<1>8. \A k \in Keys \ {AdminKeyID} : kv[as_bin(k)] \in ValuesOf(k) \cup {None} /\ kv[as_bin(k)] \in EntryValues
  <2>1. \A k \in Keys \ {AdminKeyID} : get(Base(n), o, k) \in ValuesOf(k) \cup {None}
    BY <1>4, GetFacts
  <2>2. \A k \in Keys : ValuesOf(k) \cup {None} \subseteq EntryValues
    BY ValueFacts DEF EntryValues
  <2> HIDE DEF kv
  <2> QED BY <1>6, <2>1, <2>2
<1>9. kv = [x \in Bins |-> kv[x]]
  OBVIOUS
<1> HIDE DEF kv
<1>10. \A x \in Bins : kv[x] \in EntryValues
  BY <1>7, <1>8
<1>11. kv \in [Bins -> EntryValues]
  BY <1>9, <1>10
<1>12. kv \in Kvs
  BY <1>8, <1>11 DEF Kvs
<1> QED BY <1>1, <1>4, <1>6, <1>12

\* Every event has a bucket, and no bucket below it is missing.
LEMMA BucketFacts ==
    /\ MaxTick \div BucketSize \in Nat
    /\ \A e \in Events : Bucket(e) \in Buckets /\ e[1] \in Plots
    /\ \A i \in Buckets : i \in Nat /\ \A j \in 0..i : j \in Buckets
<1> DEFINE B == BucketSize
           Q == MaxTick \div B
<1>1. B \in Nat \ {0} /\ MaxTick \in Nat
  BY NetAssumption
<1> HIDE DEF B
<1>2. Q \in Nat
  BY <1>1
<1>3. \A x \in Nat : x \div B \in Nat /\ x % B \in 0..(B - 1) /\ x = B * (x \div B) + (x % B)
  BY <1>1
<1>4. ASSUME NEW x \in 0..MaxTick PROVE x \div B \in 0..Q
  <2> DEFINE q == x \div B
             r == x % B
             R == MaxTick % B
  <2>1. q \in Nat /\ r \in Nat /\ x = B * q + r
    BY <1>1, <1>3
  <2>2. Q \in Nat /\ R \in 0..(B - 1) /\ MaxTick = B * Q + R
    BY <1>1, <1>3
  <2> HIDE DEF q, r, R, Q
  <2>3. CASE q <= Q
    BY <2>1, <2>2, <2>3 DEF q
  <2>4. CASE q > Q
    <3> DEFINE d == q - Q - 1
    <3>1. d \in Nat /\ q = Q + 1 + d
      BY <2>1, <2>2, <2>4
    <3> HIDE DEF d
    <3>2. B * q = B * Q + B + B * d /\ B * d \in Nat /\ B * Q \in Nat
      BY <1>1, <2>2, <3>1
    <3>3. x >= B * Q + B
      BY <1>1, <2>1, <3>2
    <3> QED BY <1>1, <2>2, <3>2, <3>3
  <2> QED BY <2>1, <2>2, <2>3, <2>4
<1>5. \A e \in Events : e[2] \in 0..MaxTick /\ e[1] \in Plots
  BY DEF Events
<1> HIDE DEF Q
<1>6. Buckets = 0..Q
  BY DEF Buckets, Q, B
<1>7. \A e \in Events : Bucket(e) \in Buckets
  BY <1>4, <1>5, <1>6 DEF Bucket, B
<1>8. \A i \in Buckets : i \in Nat /\ \A j \in 0..i : j \in Buckets
  BY <1>2, <1>6
<1> QED BY <1>2, <1>5, <1>7, <1>8 DEF Q, B

\* The greatest number of a bounded set.
LEMMA MaxFacts ==
    ASSUME NEW N \in Nat, NEW S, S \subseteq 0..N, S # {}
    PROVE  Sets!Max(S) \in S /\ \A y \in S : y <= Sets!Max(S)
<1> DEFINE R == {k \in Nat : \E y \in S : k = N - y}
<1>1. \A y \in S : N - y \in R /\ y \in Nat
  OBVIOUS
<1>2. R \subseteq Nat /\ R # {}
  BY <1>1
<1>3. PICK x \in R : \A y \in R : x <= y
  BY <1>2, LeastElement
<1>4. PICK m \in S : x = N - m
  BY <1>3
<1>5. \A y \in S : N - m <= N - y
  BY <1>1, <1>3, <1>4
<1>6. \A y \in S : m >= y
  BY <1>1, <1>5
<1>7. Sets!Max(S) = CHOOSE z \in S : \A y \in S : z >= y
  BY DEF Sets!Max
<1>8. Sets!Max(S) \in S /\ \A y \in S : Sets!Max(S) >= y
  BY <1>6, <1>7
<1> QED BY <1>1, <1>8

\* The buckets of the plot p have no gap, and each has events of the plot and
\* of its ticks.
GoodPlot(B, p) ==
    /\ B \in [Buckets -> (SUBSET Events) \cup {None}]
    /\ \A i \in Buckets : B[i] # None =>
          /\ \A e \in B[i] : e[1] = p /\ Bucket(e) = i
          /\ \A j \in 0..i : B[j] # None

\* The buckets t that come of B, with some events added and some removed.
Written(t, B, added, removed) ==
    /\ \A i \in Buckets : t[i] # None => \A e \in t[i] :
          e \notin removed /\ (e \in added \/ (B[i] # None /\ e \in B[i]))
    /\ \A i \in Buckets : B[i] # None => t[i] # None
    /\ \A e \in added : t[Bucket(e)] # None

\* compile writes the added events, drops the removed ones, and leaves no gap.
LEMMA CompileEventsFacts ==
    ASSUME NEW buckets, NEW p, GoodPlot(buckets[p], p),
           NEW added \in SUBSET Events, NEW removed \in SUBSET Events,
           \A e \in added \cup removed : e[1] = p,
           \A e \in removed : buckets[p][Bucket(e)] # None
    PROVE  LET t == compile_events(buckets, p, added, removed) IN
           GoodPlot(t, p) /\ Written(t, buckets[p], added, removed)
<1> DEFINE B == buckets[p]
           tops == {0} \cup {Bucket(e) : e \in added}
           greatest == Sets!Max(tops)
           there == {i \in 0..greatest : B[i] # None}
           empty_after == Sets!Max({0} \cup there)
           base(i) == IF i > empty_after \/ B[i] = None THEN {} ELSE B[i]
           here(es, i) == {e \in es : Bucket(e) = i}
           t == [i \in Buckets |->
                  IF here(added \cup removed, i) # {}
                  THEN (base(i) \cup here(added, i)) \ here(removed, i)
                  ELSE IF i \in empty_after..greatest /\ B[i] = None THEN {}
                  ELSE B[i]]
           N == MaxTick \div BucketSize
<1>1. compile_events(buckets, p, added, removed) = t
  BY DEF compile_events
<1>2. N \in Nat /\ Buckets = 0..N
  BY BucketFacts DEF Buckets
<1>3. greatest \in tops /\ (\A y \in tops : y <= greatest) /\ greatest \in 0..N
  <2>1. tops \subseteq 0..N /\ tops # {}
    BY <1>2, BucketFacts
  <2> HIDE DEF tops, N
  <2> QED BY <1>2, <2>1, MaxFacts
<1>4. \A e \in added : Bucket(e) \in 0..greatest
  BY <1>2, <1>3, BucketFacts
<1> HIDE DEF tops, greatest, N
<1>5. empty_after \in 0..greatest /\ (empty_after = 0 \/ B[empty_after] # None)
  <2> DEFINE S == {0} \cup there
  <2>1. greatest \in Nat /\ S \subseteq 0..greatest /\ S # {}
    BY <1>3
  <2>2. empty_after \in S
    <3> HIDE DEF S
    <3>1. Sets!Max(S) \in S
      BY <2>1, MaxFacts
    <3> QED BY <3>1 DEF S
  <2> QED BY <2>1, <2>2
<1> HIDE DEF there, empty_after
<1>6. B \in [Buckets -> (SUBSET Events) \cup {None}] /\ \A es \in SUBSET Events : es # None
  BY EventAssumption DEF GoodPlot
<1>7. /\ \A i \in Buckets : B[i] # None => B[i] \in SUBSET Events
      /\ \A i \in Buckets : B[i] # None => \A e \in B[i] : e[1] = p /\ Bucket(e) = i
      /\ \A i \in Buckets : B[i] # None => \A j \in 0..i : B[j] # None
  BY <1>6 DEF GoodPlot
<1>8. \A e \in removed : B[Bucket(e)] # None /\ Bucket(e) \in Buckets
  BY BucketFacts
<1> HIDE DEF B
<1>9. \A i \in Buckets : base(i) \in SUBSET Events
  BY <1>7
<1>10. \A i \in Buckets : base(i) = {} \/ (B[i] # None /\ base(i) = B[i])
  OBVIOUS
<1>11. ASSUME NEW i \in Buckets
       PROVE  \/ /\ t[i] = (base(i) \cup here(added, i)) \ here(removed, i)
                 /\ \E e \in added \cup removed : Bucket(e) = i
              \/ /\ t[i] = {} /\ i \in empty_after..greatest /\ B[i] = None
                 /\ \A e \in added \cup removed : Bucket(e) # i
              \/ /\ t[i] = B[i] /\ ~(i \in empty_after..greatest /\ B[i] = None)
                 /\ \A e \in added \cup removed : Bucket(e) # i
  <2>1. here(added \cup removed, i) # {} <=> \E e \in added \cup removed : Bucket(e) = i
    OBVIOUS
  <2> HIDE DEF base, here
  <2>2. t[i] = IF here(added \cup removed, i) # {}
               THEN (base(i) \cup here(added, i)) \ here(removed, i)
               ELSE IF i \in empty_after..greatest /\ B[i] = None THEN {}
               ELSE B[i]
    OBVIOUS
  <2> HIDE DEF t
  <2> QED BY <2>1, <2>2
<1>12. t = [i \in Buckets |-> t[i]]
  OBVIOUS
<1> HIDE DEF t
<1>13. ASSUME NEW i \in Buckets
       PROVE  /\ t[i] \in (SUBSET Events) \cup {None}
              /\ B[i] # None => t[i] # None
  <2>1. {} \in SUBSET Events /\ B[i] \in (SUBSET Events) \cup {None}
    BY <1>6
  <2>2. ((base(i) \cup here(added, i)) \ here(removed, i)) \in SUBSET Events
    BY <1>9
  <2> HIDE DEF base, here
  <2> QED BY <1>6, <1>11, <2>1, <2>2
<1>14. ASSUME NEW i \in Buckets, t[i] # None, NEW e \in t[i]
       PROVE  /\ e[1] = p /\ Bucket(e) = i /\ e \notin removed
              /\ e \in added \/ (B[i] # None /\ e \in B[i])
  <2>1. CASE t[i] = (base(i) \cup here(added, i)) \ here(removed, i)
    <3>1. e \notin here(removed, i) /\ (e \in here(added, i) \/ (B[i] # None /\ e \in B[i]))
      BY <1>10, <1>14, <2>1
    <3> QED BY <1>7, <3>1
  <2>2. CASE t[i] = {}
    BY <1>14, <2>2
  <2>3. CASE t[i] = B[i] /\ \A d \in added \cup removed : Bucket(d) # i
    BY <1>7, <1>14, <2>3
  <2> HIDE DEF base, here
  <2> QED BY <1>11, <2>1, <2>2, <2>3
<1>15. ASSUME NEW i \in Buckets, i <= greatest PROVE t[i] # None
  <2>1. CASE B[i] # None
    BY <1>13, <2>1
  <2>2. CASE B[i] = None
    <3>1. i \in Nat /\ greatest \in Nat /\ empty_after \in Nat
      BY <1>2, <1>3, <1>5
    <3>2. i >= empty_after
      <4> SUFFICES ASSUME i < empty_after PROVE FALSE
        BY <3>1
      <4>1. B[empty_after] # None /\ empty_after \in Buckets /\ i \in 0..empty_after
        BY <1>2, <1>3, <1>5, <3>1
      <4> QED BY <1>7, <2>2, <4>1
    <3>3. i \in empty_after..greatest
      BY <1>15, <3>1, <3>2
    <3>4. ((base(i) \cup here(added, i)) \ here(removed, i)) \in SUBSET Events /\ {} \in SUBSET Events
      BY <1>9
    <3> HIDE DEF base, here
    <3> QED BY <1>6, <1>11, <2>2, <3>3, <3>4
  <2> QED BY <2>1, <2>2
<1>16. ASSUME NEW i \in Buckets, t[i] # None, NEW j \in 0..i PROVE t[j] # None
  <2>1. j \in Buckets /\ i \in Nat /\ j \in Nat /\ greatest \in Nat
    BY <1>2, <1>3
  <2>2. CASE B[i] # None
    BY <1>7, <1>13, <2>1, <2>2
  <2>3. CASE B[i] = None
    <3>1. i <= greatest
      <4>1. CASE \E e \in added \cup removed : Bucket(e) = i
        BY <1>4, <1>8, <2>1, <2>3, <4>1
      <4>2. CASE i \in empty_after..greatest
        BY <1>5, <2>1, <4>2
      <4>3. CASE t[i] = B[i]
        BY <1>16, <2>3, <4>3
      <4> HIDE DEF base, here
      <4> QED BY <1>11, <4>1, <4>2, <4>3
    <3> QED BY <1>15, <2>1, <3>1
  <2> QED BY <2>2, <2>3
<1>17. t \in [Buckets -> (SUBSET Events) \cup {None}]
  BY <1>12, <1>13
<1>18. GoodPlot(t, p)
  BY <1>14, <1>16, <1>17 DEF GoodPlot
<1>19. \A e \in added : t[Bucket(e)] # None
  BY <1>3, <1>4, <1>15, BucketFacts
<1>20. Written(t, B, added, removed)
  BY <1>13, <1>14, <1>19 DEF Written
<1> QED BY <1>1, <1>18, <1>20 DEF B

\* What the database shows of an event is what is in its bucket.
LEMMA NetEvents ==
    ASSUME NEW n \in Nets
    PROVE  /\ \A p \in Plots : GoodPlot(n.buckets[p], p)
           /\ \A e \in Events : e \in Base(n).events <=>
                 e \in Placed(n) /\ e \in n.buckets[e[1]][Bucket(e)]
           /\ Base(n).events \subseteq Events
           /\ n.kv \in Kvs /\ n.contra \in Contras
<1>1. \A p \in Plots : GoodPlot(n.buckets[p], p)
  BY DEF Nets, GoodPlot
<1>2. Base(n).events = UNION {get_plot_events(n.buckets, p) : p \in Plots}
  BY DEF Base
<1>3. ASSUME NEW p \in Plots, NEW e
      PROVE  e \in get_plot_events(n.buckets, p) <=>
               \E i \in Buckets : n.buckets[p][i] # None /\ e \in n.buckets[p][i]
  <2> DEFINE B == n.buckets[p]
  <2>1. \A i \in Buckets : B[i] # None => \A j \in 0..i : B[j] # None
    BY <1>1 DEF GoodPlot
  <2>2. \A i \in Buckets : i \in 0..i
    BY BucketFacts
  <2>3. get_plot_events(n.buckets, p) = UNION {B[i] : i \in {i \in Buckets : \A j \in 0..i : B[j] # None}}
    BY DEF get_plot_events
  <2> HIDE DEF B
  <2>4. {i \in Buckets : \A j \in 0..i : B[j] # None} = {i \in Buckets : B[i] # None}
    BY <2>1, <2>2
  <2> QED BY <2>3, <2>4 DEF B
<1>4. ASSUME NEW p \in Plots, NEW i \in Buckets, n.buckets[p][i] # None, NEW e \in n.buckets[p][i]
      PROVE  e \in Events /\ e[1] = p /\ Bucket(e) = i
  BY <1>1, <1>4 DEF GoodPlot
<1>5. ASSUME NEW e \in Base(n).events
      PROVE  e \in Events /\ e \in Placed(n) /\ e \in n.buckets[e[1]][Bucket(e)]
  <2>1. PICK p \in Plots : e \in get_plot_events(n.buckets, p)
    BY <1>2
  <2>2. PICK i \in Buckets : n.buckets[p][i] # None /\ e \in n.buckets[p][i]
    BY <1>3, <2>1
  <2> QED BY <1>4, <2>2 DEF Placed
<1>6. ASSUME NEW e \in Events, e \in Placed(n), e \in n.buckets[e[1]][Bucket(e)]
      PROVE  e \in Base(n).events
  <2>1. e[1] \in Plots /\ Bucket(e) \in Buckets /\ n.buckets[e[1]][Bucket(e)] # None
    BY <1>6, BucketFacts DEF Placed
  <2>2. e \in get_plot_events(n.buckets, e[1])
    BY <1>3, <1>6, <2>1
  <2> QED BY <1>2, <2>1, <2>2
<1>7. n.kv \in Kvs /\ n.contra \in Contras
  BY DEF Nets, Kvs
<1> QED BY <1>1, <1>5, <1>6, <1>7

\* The write keeps the shape of the database. It loses no bucket, gives one to
\* every new event, and leaves no event that was removed.
LEMMA CompileFacts ==
    ASSUME NEW n \in Nets, NEW o \in Diffs,
           \A e \in o.delEvents : e \in Base(n).events \/ e \in Placed(n)
    PROVE  LET t == compile(n, o) IN
           /\ t \in Nets /\ t.contra = o.contra
           /\ Placed(n) \subseteq Placed(t)
           /\ o.newEvents \subseteq Placed(t)
           /\ \A e \in Base(t).events : e \in o.newEvents \/ e \in Base(n).events \ o.delEvents
<1> DEFINE t == compile(n, o)
           plot(p) == IF p \notin o.plots THEN n.buckets[p]
                      ELSE compile_events(n.buckets, p, OfPlot(o.newEvents, p), OfPlot(o.delEvents, p))
<1>1. /\ t.contra = o.contra /\ t.buckets = [p \in Plots |-> plot(p)] /\ t.kv \in Kvs
      /\ t = [kv |-> t.kv, buckets |-> t.buckets, contra |-> t.contra]
  BY CompileKv DEF compile
<1>2. /\ o.newEvents \in SUBSET Events /\ o.delEvents \in SUBSET Events /\ o.contra \in Contras
      /\ \A e \in o.newEvents \cup o.delEvents : e[1] \in o.plots
  BY DEF Diffs
<1>3. \A e \in o.delEvents : e \in Placed(n)
  BY <1>2, NetEvents
<1>4. ASSUME NEW p \in Plots
      PROVE  /\ GoodPlot(plot(p), p)
             /\ Written(plot(p), n.buckets[p], OfPlot(o.newEvents, p), OfPlot(o.delEvents, p))
  <2> DEFINE B == n.buckets[p]
             added == OfPlot(o.newEvents, p)
             removed == OfPlot(o.delEvents, p)
  <2>1. GoodPlot(B, p)
    BY NetEvents
  <2>2. CASE p \notin o.plots
    <3>1. added = {} /\ removed = {}
      BY <1>2, <2>2 DEF OfPlot
    <3>2. plot(p) = B
      BY <2>2
    <3> HIDE DEF B, added, removed, plot
    <3>3. Written(B, B, added, removed)
      BY <3>1 DEF Written
    <3> QED BY <2>1, <3>2, <3>3 DEF B, added, removed
  <2>3. CASE p \in o.plots
    <3>1. /\ added \in SUBSET Events /\ removed \in SUBSET Events
          /\ \A e \in added \cup removed : e[1] = p
      BY <1>2 DEF OfPlot
    <3>2. \A e \in removed : n.buckets[p][Bucket(e)] # None
      BY <1>3 DEF OfPlot, Placed
    <3>3. plot(p) = compile_events(n.buckets, p, added, removed)
      BY <2>3
    <3> HIDE DEF added, removed, plot
    <3> QED BY <2>1, <3>1, <3>2, <3>3, CompileEventsFacts DEF added, removed
  <2> QED BY <2>2, <2>3
<1>5. \A p \in Plots : t.buckets[p] = plot(p)
  BY <1>1
<1> HIDE DEF plot
<1>6. t.buckets \in [Plots -> [Buckets -> (SUBSET Events) \cup {None}]]
  <2> HIDE DEF t
  <2> QED BY <1>1, <1>4 DEF GoodPlot
<1> HIDE DEF t
<1>7. \A p \in Plots : GoodPlot(t.buckets[p], p)
  BY <1>4, <1>5
<1>8. t \in Nets
  <2>1. t.kv \in [Bins -> EntryValues] /\ \A k \in Keys \ {AdminKeyID} : t.kv[as_bin(k)] \in ValuesOf(k) \cup {None}
    BY <1>1 DEF Kvs
  <2>2. t \in [kv : [Bins -> EntryValues],
               buckets : [Plots -> [Buckets -> (SUBSET Events) \cup {None}]], contra : Contras]
    BY <1>1, <1>2, <1>6, <2>1
  <2> QED BY <1>7, <2>1, <2>2 DEF Nets, GoodPlot
<1>9. ASSUME NEW e \in Events
      PROVE  Written(t.buckets[e[1]], n.buckets[e[1]], OfPlot(o.newEvents, e[1]), OfPlot(o.delEvents, e[1]))
             /\ e[1] \in Plots /\ Bucket(e) \in Buckets
  BY <1>4, <1>5, BucketFacts
<1>10. Placed(n) \subseteq Placed(t)
  BY <1>9 DEF Placed, Written
<1>11. o.newEvents \subseteq Placed(t)
  BY <1>2, <1>9 DEF Placed, Written, OfPlot
<1>12. ASSUME NEW e \in Base(t).events
       PROVE  e \in o.newEvents \/ e \in Base(n).events \ o.delEvents
  <2>1. e \in Events /\ e \in Placed(t) /\ e \in t.buckets[e[1]][Bucket(e)]
    BY <1>8, NetEvents
  <2> DEFINE B == n.buckets[e[1]]
             i == Bucket(e)
  <2>2. /\ e \notin OfPlot(o.delEvents, e[1])
        /\ e \in OfPlot(o.newEvents, e[1]) \/ (B[i] # None /\ e \in B[i])
    BY <1>9, <2>1 DEF Placed, Written
  <2>3. B[i] # None /\ e \in B[i] => e \in Base(n).events
    BY <2>1, NetEvents DEF Placed
  <2>4. e \notin o.delEvents /\ (e \in OfPlot(o.newEvents, e[1]) => e \in o.newEvents)
    BY <2>1, <2>2 DEF OfPlot
  <2> QED BY <2>2, <2>3, <2>4
<1> QED BY <1>1, <1>8, <1>10, <1>11, <1>12 DEF t

\* An empty overlay shows the database.
LEMMA CleanFacts ==
    ASSUME NEW cs
    PROVE  /\ cs \in Contras => Clean(cs) \in Diffs
           /\ Clean(cs).contra = cs /\ Clean(cs).del = {}
           /\ Clean(cs).newEvents = {} /\ Clean(cs).delEvents = {}
           /\ \A base : \A k \in Keys : get(base, Clean(cs), k) = base.kv[k]
           /\ \A base, e : Depth(base, Clean(cs), e) = IF e \in base.events THEN 1 ELSE 0
<1>1. /\ Clean(cs).contra = cs /\ Clean(cs).del = {} /\ Clean(cs).plots = {}
      /\ Clean(cs).newEvents = {} /\ Clean(cs).delEvents = {}
      /\ Clean(cs).new = [k \in Keys |-> None]
  BY DEF Clean
<1>2. Clean(cs) = DiffOf([k \in Keys |-> None], {}, {}, {}, {}, cs)
  BY DEF Clean, DiffOf
<1>3. [k \in Keys |-> None] \in [Keys -> EntryValues]
  BY DEF EntryValues
<1>4. cs \in Contras => Clean(cs) \in Diffs
  BY <1>2, <1>3, DiffOfFacts
<1>5. \A base : \A k \in Keys : get(base, Clean(cs), k) = base.kv[k]
  BY <1>1 DEF get
<1>6. \A base, e : Depth(base, Clean(cs), e) = IF e \in base.events THEN 1 ELSE 0
  BY <1>1 DEF Depth
<1> QED BY <1>1, <1>4, <1>5, <1>6

\* A state that has the values and events an overlay shows, and maybe lost events
\* that have a bucket, agrees with what the overlay agreed with.
LEMMA CleanAgrees ==
    ASSUME NEW base, NEW o, NEW r \in RStates, NEW L, L \subseteq AdminBins, NEW P,
           Agree(base, o, r, L, P), NEW to, NEW Q, NEW cs,
           \A k \in Keys \ {AdminKeyID} : to.kv[k] = get(base, o, k),
           \A e \in to.events : e \in o.newEvents \/ e \in base.events \ o.delEvents,
           \A e \in Events : (e \in o.newEvents \/ e \in base.events \ o.delEvents) =>
              e \in to.events \/ e \in Q,
           P \subseteq Q
    PROVE  Agree(to, Clean(cs), r, L, Q)
<1> DEFINE q == Clean(cs)
<1>1. \A k \in Keys \ {AdminKeyID} : get(to, q, k) = get(base, o, k)
  BY CleanFacts
<1>2. /\ q.del = {} /\ q.delEvents = {}
      /\ \A e : Depth(to, q, e) = IF e \in to.events THEN 1 ELSE 0
  BY CleanFacts
<1> HIDE DEF q
<1>3. ASSUME NEW v \in Validators
      PROVE  /\ Stake(to, q, v) = StakeIn(r.kv, v)
             /\ r.kv[ValidatorKey(v)] # None => get(to, q, ValidatorKey(v)) # None
  <2>1. ValidatorStake(v) \in Keys \ {AdminKeyID} /\ ValidatorKey(v) \in Keys \ {AdminKeyID}
    BY KeyFacts
  <2>2. Stake(to, q, v) = Stake(base, o, v)
    BY <1>1, <2>1 DEF Stake, StakeIn
  <2> QED BY <1>1, <2>1, <2>2 DEF Agree
<1>4. ASSUME NEW x \in L PROVE Generic(x) \notin q.del /\ get(to, q, Generic(x)) = r.kv[x]
  <2>1. Generic(x) \in Keys \ {AdminKeyID}
    BY KeyFacts
  <2> QED BY <1>1, <1>2, <2>1 DEF Agree
<1>5. ASSUME NEW e \in Events
      PROVE  /\ Depth(to, q, e) <= r.events[e]
             /\ r.events[e] > 0 => Depth(to, q, e) > 0 \/ e \in Q
             /\ e \in q.delEvents => e \in to.events \/ e \in Q
  <2>1. r.events[e] \in Nat
    BY DEF RStates
  <2>2. /\ Depth(base, o, e) <= r.events[e]
        /\ r.events[e] > 0 => Depth(base, o, e) > 0 \/ e \in P
    BY DEF Agree
  <2>3. /\ Depth(base, o, e) \in 0..2
        /\ Depth(base, o, e) > 0 <=> e \in o.newEvents \/ e \in base.events \ o.delEvents
    BY DEF Depth
  <2> QED BY <1>2, <2>1, <2>2, <2>3
<1>6. Agree(to, q, r, L, Q)
  BY <1>3, <1>4, <1>5 DEF Agree
<1> QED BY <1>6 DEF q

\* What agreed through the overlay agrees after the write.
LEMMA CommitAgrees ==
    ASSUME NEW n \in Nets, NEW o \in Diffs, NEW r \in RStates, NEW L, L \subseteq AdminBins,
           Agree(Base(n), o, r, L, Placed(n)), NEW cs
    PROVE  LET t == compile(n, o) IN
           /\ t \in Nets /\ t.contra = o.contra /\ Placed(n) \subseteq Placed(t)
           /\ Agree(Base(t), Clean(cs), r, L, Placed(t))
<1> DEFINE t == compile(n, o)
<1>1. \A e \in o.delEvents : e \in Base(n).events \/ e \in Placed(n)
  BY DiffFacts DEF Agree
<1>2. /\ t \in Nets /\ t.contra = o.contra /\ Placed(n) \subseteq Placed(t)
      /\ o.newEvents \subseteq Placed(t)
      /\ \A e \in Base(t).events : e \in o.newEvents \/ e \in Base(n).events \ o.delEvents
  BY <1>1, CompileFacts
<1>3. \A k \in Keys \ {AdminKeyID} : Base(t).kv[k] = get(Base(n), o, k)
  BY CompileKv DEF Base
<1> HIDE DEF t
<1>4. Base(n).events \subseteq Placed(n)
  BY NetEvents
<1>5. \A e \in Events : (e \in o.newEvents \/ e \in Base(n).events \ o.delEvents) =>
        e \in Base(t).events \/ e \in Placed(t)
  BY <1>2, <1>4
<1> DEFINE base == Base(n)
           to == Base(t)
           P == Placed(n)
           Q == Placed(t)
<1>6. /\ Agree(base, o, r, L, P) /\ P \subseteq Q
      /\ \A k \in Keys \ {AdminKeyID} : to.kv[k] = get(base, o, k)
      /\ \A e \in to.events : e \in o.newEvents \/ e \in base.events \ o.delEvents
      /\ \A e \in Events : (e \in o.newEvents \/ e \in base.events \ o.delEvents) =>
              e \in to.events \/ e \in Q
  BY <1>2, <1>3, <1>5
<1> HIDE DEF base, to, P, Q
<1>7. Agree(to, Clean(cs), r, L, Q)
  BY <1>6, CleanAgrees
<1> QED BY <1>2, <1>7 DEF t, to, Q

\* What agreed through the overlay agrees with the view of it.
LEMMA ViewAgrees ==
    ASSUME NEW base, BaseOK(base), NEW o \in Diffs, NEW r \in RStates, NEW L, L \subseteq AdminBins,
           NEW P, Agree(base, o, r, L, P), NEW cs
    PROVE  BaseOK(View(base, o)) /\ Agree(View(base, o), Clean(cs), r, L, P)
<1> DEFINE to == View(base, o)
<1>1. /\ \A k \in Keys : to.kv[k] = get(base, o, k)
      /\ to.events = (base.events \ o.delEvents) \cup o.newEvents
  BY DEF View
<1> HIDE DEF to
<1>2. BaseOK(to)
  BY <1>1, GetFacts DEF BaseOK
<1>3. Agree(to, Clean(cs), r, L, P)
  <2>1. \A k \in Keys \ {AdminKeyID} : to.kv[k] = get(base, o, k)
    BY <1>1
  <2>2. \A e \in to.events : e \in o.newEvents \/ e \in base.events \ o.delEvents
    BY <1>1
  <2>3. \A e \in Events : (e \in o.newEvents \/ e \in base.events \ o.delEvents) =>
           e \in to.events \/ e \in P
    BY <1>1
  <2> QED BY <2>1, <2>2, <2>3, CleanAgrees
<1> QED BY <1>2, <1>3 DEF to

\* Fewer keys to agree on, or more events that have a bucket, ask for less.
LEMMA AgreeLess ==
    ASSUME NEW base, NEW o, NEW r, NEW L, NEW P, Agree(base, o, r, L, P),
           NEW M \in SUBSET L, NEW Q, P \subseteq Q
    PROVE  Agree(base, o, r, M, Q)
BY DEF Agree

\* Contras that undo more keys undo fewer.
LEMMA UndoesLess ==
    ASSUME NEW cs, NEW m, NEW r, NEW L, UndoesAll(cs, m, r, L), NEW M \in SUBSET L
    PROVE  UndoesAll(cs, m, r, M)
BY DEF UndoesAll, Undoes

\* An event that has a bucket among P has one among more.
LEMMA FreshLess ==
    ASSUME NEW m, NEW r, NEW P, Fresh(m, r, P), NEW Q, P \subseteq Q
    PROVE  Fresh(m, r, Q)
BY DEF Fresh

-----------------------------------------------------------------------------
(* Growing the tree *)

\* The mutations ns of the tree t are those of s and maybe more.
Carries(ms, s, ns, t) ==
    /\ Tree(s) /\ Tree(t) /\ Extends(s, t) /\ Sound(ms, s) /\ Sound(ns, t)
    /\ \A c \in Stored(s) : ns[c] = ms[c]

\* A tree that grew keeps the chains of its blocks, and has no more lasting values.
LEMMA CarriedFacts ==
    ASSUME NEW ms, NEW s, NEW ns, NEW t, Carries(ms, s, ns, t)
    PROVE  /\ LastingBins(ns, t) \subseteq LastingBins(ms, s)
           /\ \A b \in Stored(s) :
                /\ b \in Stored(t) /\ t.height[b] = s.height[b] /\ Path(t, b) = Path(s, b)
                /\ ReplayedPath(ns, t, b) = ReplayedPath(ms, s, b)
<1>1. /\ Tree(s) /\ Tree(t) /\ Extends(s, t) /\ Sound(ms, s) /\ Sound(ns, t)
      /\ \A c \in Stored(s) : ns[c] = ms[c]
  BY DEF Carries
<1>2. \A b \in Stored(s) : b \in Stored(t) /\ t.height[b] = s.height[b] /\ Path(t, b) = Path(s, b)
  BY <1>1, PathStable
<1>3. LastingBins(ns, t) \subseteq LastingBins(ms, s)
  BY <1>1, <1>2 DEF LastingBins
<1>4. ASSUME NEW b \in Stored(s)
      PROVE  ReplayedPath(ns, t, b) = ReplayedPath(ms, s, b)
  <2> DEFINE f == Path(s, b)
             n == s.height[b]
             A == ReplayedChain(ms, f, n)
             B == ReplayedChain(ns, f, n)
  <2>0. n \in Nat /\ \A h \in 1..n : f[h] \in Stored(s)
    BY <1>1, TreePath
  <2>1. /\ n \in Nat /\ n <= n
        /\ \A h \in 1..n : f[h] \in Stored(s) /\ ms[f[h]] \in Seq(Changes)
    <3> HIDE DEF n, f
    <3> QED BY <1>1, <2>0 DEF Sound
  <2>2. \A h \in 1..n : ns[f[h]] = ms[f[h]] /\ ns[f[h]] \in Seq(Changes)
    BY <1>1, <2>1
  <2> HIDE DEF f, n
  <2>3. SameUpTo(B, A, n)
    BY <2>1, <2>2, ChainPrefix
  <2>4. A \in [0..n -> RStates] /\ B \in [0..n -> RStates]
    BY <2>1, <2>2, ReplayedChainFacts
  <2> HIDE DEF A, B
  <2>5. \A h \in 0..n : B[h] = A[h]
    BY <2>3 DEF SameUpTo
  <2>5a. A = [h \in 0..n |-> A[h]] /\ B = [h \in 0..n |-> B[h]]
    BY <2>4
  <2>6. ReplayedPath(ns, t, b) = B
    BY <1>2 DEF ReplayedPath, f, n, B
  <2>7. ReplayedPath(ms, s, b) = A
    BY DEF ReplayedPath, f, n, A
  <2> QED BY <2>5, <2>6, <2>7, <2>5a
<1> QED BY <1>2, <1>3, <1>4

\* What a state shows of a block it shows in a tree that grew.
LEMMA CarriedShows ==
    ASSUME NEW ms, NEW s, NEW ns, NEW t, Carries(ms, s, ns, t), NEW b \in Stored(s),
           NEW base, NEW o, NEW P, Shows(ms, s, b, base, o, P)
    PROVE  Shows(ns, t, b, base, o, P)
<1> DEFINE f == Path(s, b)
           n == s.height[b]
           run == ReplayedPath(ms, s, b)
           L == LastingBins(ms, s)
           M == LastingBins(ns, t)
<1>1. Agree(base, o, run[n], L, P) /\ \A h \in 2..n : UndoesAll(o.contra[f[h]], ms[f[h]], run[h - 1], L)
  BY DEF Shows
<1>2. M \in SUBSET L /\ t.height[b] = n /\ Path(t, b) = f /\ ReplayedPath(ns, t, b) = run
  BY CarriedFacts
<1>3. n \in Nat /\ \A h \in 1..n : ns[f[h]] = ms[f[h]]
  BY TreePath DEF Carries
<1> HIDE DEF f, n, run, L, M
<1>4. Agree(base, o, run[n], M, P)
  BY <1>1, <1>2, AgreeLess
<1>5. ASSUME NEW h \in 2..n PROVE UndoesAll(o.contra[f[h]], ns[f[h]], run[h - 1], M)
  <2>1. h \in 1..n
    BY <1>3
  <2>2. UndoesAll(o.contra[f[h]], ns[f[h]], run[h - 1], L)
    BY <1>1, <1>3, <2>1
  <2> DEFINE cs == o.contra[f[h]]
             m == ns[f[h]]
             r == run[h - 1]
  <2> HIDE DEF cs, m, r
  <2>3. UndoesAll(cs, m, r, M)
    BY <1>2, <2>2, UndoesLess DEF cs, m, r
  <2> QED BY <2>3 DEF cs, m, r
<1> QED BY <1>2, <1>4, <1>5 DEF Shows, M

\* Events that are new to a chain are so in a tree that grew.
LEMMA CarriedFresh ==
    ASSUME NEW ms, NEW s, NEW ns, NEW t, Carries(ms, s, ns, t), NEW P, AllFresh(ms, s, P),
           NEW c \in Stored(s) \ {Genesis}
    PROVE  Fresh(ns[c], ReplayedPath(ns, t, c)[t.height[c] - 1], P)
BY CarriedFacts DEF Carries, AllFresh

\* Nothing that is said of the state of the head depends on the blocks that are
\* not stored.
LEMMA CarriedFollows ==
    ASSUME NEW ms, NEW s, NEW ns, Carries(ms, s, ns, s), s.head \in Stored(s),
           NEW base, NEW o, NEW P, Follows(ms, s, base, o, P)
    PROVE  Follows(ns, s, base, o, P)
<1>1. \A b \in Stored(s) : ns[b] # None
  BY DEF Carries, Follows
<1>2. AllFresh(ns, s, P)
  <2>1. AllFresh(ms, s, P)
    BY DEF Follows
  <2> QED BY <2>1, CarriedFresh DEF AllFresh
<1>3. Shows(ns, s, s.head, base, o, P)
  BY CarriedShows DEF Follows
<1> QED BY <1>1, <1>2, <1>3 DEF Follows

\* The tree with one block more.
LEMMA AddedTree ==
    ASSUME NEW s, Opened(s), NEW b \in Blocks \ Stored(s), NEW p \in Stored(s),
           s.height[p] < MaxHeight
    PROVE  LET t == add_block(s, b, p) IN
           /\ Tree(s) /\ Tree(t) /\ Extends(s, t) /\ Stored(t) = Stored(s) \cup {b}
           /\ t.header[b] = p /\ t.height[b] = s.height[p] + 1 /\ t.head = s.head
           /\ Genesis \in Stored(s) /\ s.head \in Stored(s)
<1> DEFINE t == add_block(s, b, p)
<1>1. Tree(s) /\ FrontsFollowPrev(s)
  BY DEF Opened
<1>2. Tree(t)
  BY <1>1, AddBlockTree
<1>3. LET h == s.height[p] + 1
      IN /\ h \in Heights /\ h >= 2
         /\ t \in States
         /\ t.header = [s.header EXCEPT ![b] = p]
         /\ t.height = [s.height EXCEPT ![b] = h]
         /\ t.byHeight = [s.byHeight EXCEPT ![h] = Append(@, b)]
         /\ t.contra = s.contra /\ t.head = s.head /\ t.headHeight = s.headHeight
         /\ Stored(t) = Stored(s) \cup {b}
         /\ b \notin Members(s.byHeight[h])
  BY <1>1, AddBlockFields
<1> HIDE DEF t
<1>4. Genesis \in Stored(s) /\ s.head \in Stored(s) /\ b \notin Stored(s) /\ Stored(s) \subseteq Blocks
  BY <1>1 DEF Tree, FrontsFollowPrev, Stored
<1>5. s.header \in [Blocks -> Blocks \cup {Zero, None}] /\ s.height \in [Blocks -> 0..MaxHeight]
  BY <1>1 DEF Tree, States
<1>6. Extends(s, t)
  BY <1>3, <1>4, <1>5 DEF Extends
<1> QED BY <1>1, <1>2, <1>3, <1>4, <1>5, <1>6 DEF t

\* The head after walk_to_head is the one find_chain_head gives.
LEMMA AddedHead ==
    ASSUME NEW s, Opened(s), NEW b \in Blocks \ Stored(s), NEW p \in Stored(s),
           s.height[p] < MaxHeight
    PROVE  LET a == add_block(s, b, p)
               t == walk_to_head(a)
           IN /\ find_chain_head(a) \in Stored(a) /\ t.head = find_chain_head(a)
              /\ t.header = a.header /\ t.height = a.height
<1> DEFINE a == add_block(s, b, p)
           c == find_chain_head(a)
           t == walk_to_head(a)
<1>1. Tree(s) /\ FrontsFollowPrev(s) /\ Highest(s)
  BY DEF Opened
<1>2. Tree(a) /\ FrontsFollowPrev(a)
  BY <1>1, AddBlockTree, AddBlockFronts
<1>3. Stored(a) = Stored(s) \cup {b} /\ a.head = s.head /\ s.head \in Stored(s)
  BY AddedTree
<1>4. c = IF s.height[p] = s.headHeight THEN b ELSE s.head
  BY <1>1, FindChainHead
<1>5. s.head # Zero
  BY <1>3, MarkerAssumption DEF Stored
<1>6. t = walk(a, c)
  BY <1>3, <1>5 DEF walk_to_head
<1> HIDE DEF a, c, t
<1>7. c \in Stored(a)
  BY <1>3, <1>4
<1>8. t.header = a.header /\ t.height = a.height /\ t.head = c
  BY <1>2, <1>6, <1>7, WalkFacts
<1> QED BY <1>7, <1>8 DEF a, c, t

\* A new block whose events are new to its prev's path leaves the state of the
\* head as it is.
LEMMA AddedFollows ==
    ASSUME NEW s, Opened(s), NEW ms, Sound(ms, s),
           NEW b \in Blocks \ Stored(s), NEW p \in Stored(s), s.height[p] < MaxHeight,
           NEW m \in Seq(Changes), NEW ns, ns[b] = m, \A c \in Stored(s) : ns[c] = ms[c],
           NEW base, NEW o, NEW P, Follows(ms, s, base, o, P),
           Fresh(m, ReplayedPath(ms, s, p)[s.height[p]], P)
    PROVE  LET t == add_block(s, b, p) IN
           Sound(ns, t) /\ Carries(ms, s, ns, t) /\ Follows(ns, t, base, o, P)
<1> DEFINE t == add_block(s, b, p)
<1>1. Tree(s) /\ Tree(t) /\ Extends(s, t) /\ Stored(t) = Stored(s) \cup {b}
  BY AddedTree
<1>2. /\ t.header[b] = p /\ t.height[b] = s.height[p] + 1 /\ t.head = s.head
      /\ Genesis \in Stored(s) /\ s.head \in Stored(s)
  BY AddedTree
<1> HIDE DEF t
<1>3. Sound(ns, t)
  BY <1>1, <1>2 DEF Sound
<1>4. Carries(ms, s, ns, t)
  BY <1>1, <1>3 DEF Carries
<1>5. \A c \in Stored(t) : ns[c] # None
  BY <1>3, NetAssumption DEF Sound
<1>6. Shows(ns, t, t.head, base, o, P)
  BY <1>2, <1>4, CarriedShows DEF Follows
<1>7. Fresh(ns[b], ReplayedPath(ns, t, b)[t.height[b] - 1], P)
  <2> DEFINE h == s.height[p]
  <2>1. b \in Stored(t) /\ p \in Stored(t) /\ t.height[b] = h + 1 /\ t.header[b] = p
    BY <1>1, <1>2
  <2>2. h \in Nat /\ h >= 1
    BY <1>1, TreePath
  <2> HIDE DEF h
  <2>3. Path(t, b)[h] = p
    <3>1. h + 1 \in 2..t.height[b] /\ (h + 1) - 1 = h
      BY <2>1, <2>2
    <3>2. Path(t, b)[t.height[b]] = b
      BY <1>1, <2>1, TreePath
    <3>3. t.header[Path(t, b)[h + 1]] = Path(t, b)[(h + 1) - 1]
      BY <1>1, <2>1, <3>1, TreePath
    <3> QED BY <2>1, <3>1, <3>2, <3>3
  <2>4. ReplayedPath(ns, t, Path(t, b)[h])[h] = ReplayedPath(ns, t, b)[h]
    <3>1. h \in 1..t.height[b] /\ h \in 0..h
      BY <2>1, <2>2
    <3> QED BY <1>1, <1>3, <2>1, <3>1, ReplayedBelow
  <2>5. ReplayedPath(ns, t, p) = ReplayedPath(ms, s, p)
    BY <1>4, CarriedFacts
  <2>6. t.height[b] - 1 = h
    BY <2>1, <2>2
  <2> QED BY <2>3, <2>4, <2>5, <2>6 DEF h
<1>8. AllFresh(ns, t, P)
  <2>1. AllFresh(ms, s, P)
    BY DEF Follows
  <2>2. \A c \in Stored(s) \ {Genesis} : Fresh(ns[c], ReplayedPath(ns, t, c)[t.height[c] - 1], P)
    BY <1>4, <2>1, CarriedFresh
  <2> QED BY <1>1, <1>7, <2>2 DEF AllFresh
<1>9. Follows(ns, t, base, o, P)
  BY <1>5, <1>6, <1>8 DEF Follows
<1> QED BY <1>3, <1>4, <1>9 DEF t

\* Trees with the same headers and heights have the same paths.
LEMMA SameTree ==
    ASSUME NEW s, NEW t, t.header = s.header, t.height = s.height, NEW ms
    PROVE  /\ Stored(t) = Stored(s) /\ LastingBins(ms, t) = LastingBins(ms, s)
           /\ \A b : Path(t, b) = Path(s, b) /\ ReplayedPath(ms, t, b) = ReplayedPath(ms, s, b)
<1>1. Stored(t) = Stored(s)
  BY DEF Stored
<1>2. LastingBins(ms, t) = LastingBins(ms, s)
  BY <1>1 DEF LastingBins
<1>3. ASSUME NEW b PROVE Path(t, b) = Path(s, b)
  <2>1. \A f : IsPath(t, b, f) <=> IsPath(s, b, f)
    BY DEF IsPath
  <2>2. PathSet(t, b) = PathSet(s, b)
    BY <1>1, <2>1 DEF PathSet
  <2> QED BY <2>2 DEF Path
<1>4. \A b : ReplayedPath(ms, t, b) = ReplayedPath(ms, s, b)
  BY <1>3 DEF ReplayedPath
<1> QED BY <1>1, <1>2, <1>3, <1>4

\* After a walk the overlay shows the state of the new head.
LEMMA WalkedFollows ==
    ASSUME NEW s, Tree(s), s.head \in Stored(s), NEW ms, Sound(ms, s), NEW b \in Stored(s),
           NEW base, BaseOK(base), NEW o \in Diffs, NEW P, Follows(ms, s, base, o, P),
           NEW t, t.header = s.header, t.height = s.height, t.head = b
    PROVE  /\ walk_net(base, o, s, ms, b) \in Diffs
           /\ Follows(ms, t, base, walk_net(base, o, s, ms, b), P)
<1> DEFINE q == walk_net(base, o, s, ms, b)
<1>1. q \in Diffs /\ Shows(ms, s, b, base, q, P)
  BY WalkShows
<1> HIDE DEF q
<1>2. /\ Stored(t) = Stored(s) /\ LastingBins(ms, t) = LastingBins(ms, s)
      /\ \A c : Path(t, c) = Path(s, c) /\ ReplayedPath(ms, t, c) = ReplayedPath(ms, s, c)
  BY SameTree
<1>3. Shows(ms, t, t.head, base, q, P)
  BY <1>1, <1>2 DEF Shows
<1>4. AllFresh(ms, t, P)
  BY <1>2 DEF Follows, AllFresh
<1>5. \A c \in Stored(t) : ms[c] # None
  BY <1>2 DEF Follows
<1> QED BY <1>1, <1>3, <1>4, <1>5 DEF Follows, q

-----------------------------------------------------------------------------
(* The operations *)

\* What Follows says of the head, with the type of its state.
LEMMA FollowsFacts ==
    ASSUME NEW s, Tree(s), s.head \in Stored(s), NEW ms, Sound(ms, s),
           NEW base, NEW o, NEW P, Follows(ms, s, base, o, P)
    PROVE  LET r == ReplayedPath(ms, s, s.head)[s.height[s.head]]
               L == LastingBins(ms, s)
           IN r \in RStates /\ L \subseteq AdminBins /\ Agree(base, o, r, L, P)
<1>1. s.height[s.head] \in Nat
  BY TreePath
<1>2. ReplayedPath(ms, s, s.head) \in [0..s.height[s.head] -> RStates]
  BY ReplayedPathFacts
<1>3. LastingBins(ms, s) \subseteq AdminBins
  BY DEF LastingBins
<1> QED BY <1>1, <1>2, <1>3 DEF Follows, Shows

\* The same state seen through another overlay with the same contras.
LEMMA SeenAgain ==
    ASSUME NEW s, NEW ms, NEW base, NEW o, NEW P, Follows(ms, s, base, o, P),
           NEW to, NEW q, NEW Q, q.contra = o.contra, P \subseteq Q,
           Agree(to, q, ReplayedPath(ms, s, s.head)[s.height[s.head]], LastingBins(ms, s), Q)
    PROVE  Follows(ms, s, to, q, Q)
<1>1. AllFresh(ms, s, Q)
  BY FreshLess DEF Follows, AllFresh
<1>2. Shows(ms, s, s.head, to, q, Q)
  BY DEF Follows, Shows
<1> QED BY <1>1, <1>2 DEF Follows

\* After the write the database follows the tree that the overlay followed.
LEMMA CommitFollows ==
    ASSUME NEW s, Tree(s), s.head \in Stored(s), NEW ms, Sound(ms, s),
           NEW n \in Nets, NEW o \in Diffs, Follows(ms, s, Base(n), o, Placed(n))
    PROVE  LET t == compile(n, o) IN
           t \in Nets /\ Follows(ms, s, Base(t), Clean(t.contra), Placed(t))
<1> DEFINE t == compile(n, o)
           r == ReplayedPath(ms, s, s.head)[s.height[s.head]]
           L == LastingBins(ms, s)
           P == Placed(n)
           base == Base(n)
<1>1. r \in RStates /\ L \subseteq AdminBins /\ Agree(base, o, r, L, P)
  BY FollowsFacts
<1> HIDE DEF r, L
<1>2. /\ t \in Nets /\ t.contra = o.contra /\ P \subseteq Placed(t)
      /\ Agree(Base(t), Clean(o.contra), r, L, Placed(t))
  BY <1>1, CommitAgrees
<1>3. Clean(o.contra).contra = o.contra
  BY CleanFacts
<1> DEFINE to == Base(t)
           q == Clean(o.contra)
           Q == Placed(t)
<1>4. q.contra = o.contra /\ P \subseteq Q /\ Agree(to, q, r, L, Q) /\ Follows(ms, s, base, o, P)
  BY <1>2, <1>3
<1> HIDE DEF t, to, q, Q, P, base
<1>5. Follows(ms, s, to, q, Q)
  BY <1>4, SeenAgain DEF r, L
<1> QED BY <1>2, <1>5 DEF t, to, q, Q

\* The view of an overlay follows the tree that the overlay followed.
LEMMA ViewFollows ==
    ASSUME NEW s, Tree(s), s.head \in Stored(s), NEW ms, Sound(ms, s),
           NEW base, BaseOK(base), NEW o \in Diffs, NEW P, Follows(ms, s, base, o, P)
    PROVE  BaseOK(View(base, o)) /\ Follows(ms, s, View(base, o), Clean(o.contra), P)
<1> DEFINE r == ReplayedPath(ms, s, s.head)[s.height[s.head]]
           L == LastingBins(ms, s)
           to == View(base, o)
           q == Clean(o.contra)
<1>1. r \in RStates /\ L \subseteq AdminBins /\ Agree(base, o, r, L, P)
  BY FollowsFacts
<1> HIDE DEF r, L
<1>2. BaseOK(to) /\ Agree(to, q, r, L, P)
  BY <1>1, ViewAgrees
<1>3. q.contra = o.contra
  BY CleanFacts
<1> HIDE DEF to, q
<1>4. Follows(ms, s, to, q, P)
  BY <1>2, <1>3, SeenAgain DEF r, L
<1> QED BY <1>2, <1>4 DEF to, q

\* Changes that do not have the event leave how often it happened.
LEMMA EventUntouched ==
    ASSUME NEW r \in RStates, NEW m \in Seq(Changes), NEW e \in Events, NEW i \in 0..Len(m),
           \A j \in 1..i : e \notin Happened(m[j])
    PROVE  ReplayedChanges(r, m)[i].events[e] = r.events[e]
<1> DEFINE run == ReplayedChanges(r, m)
           T == {k \in Nat : k <= i => run[k].events[e] = r.events[e]}
<1>1. /\ run \in [0..Len(m) -> RStates] /\ run[0] = r
      /\ \A k \in 1..Len(m) : run[k] = Replay(run[k - 1], m[k])
  BY ReplayedChangesFacts
<1>2. Len(m) \in Nat /\ \A k \in 1..Len(m) : m[k] \in Changes
  OBVIOUS
<1> HIDE DEF run
<1>3. 0 \in T
  BY <1>1
<1>4. ASSUME NEW k \in Nat, k \in T PROVE k + 1 \in T
  <2> SUFFICES ASSUME k + 1 <= i PROVE run[k + 1].events[e] = r.events[e]
    OBVIOUS
  <2> DEFINE q == run[k]
             c == m[k + 1]
  <2>1. k + 1 \in 1..Len(m) /\ (k + 1) - 1 = k /\ k \in 0..Len(m) /\ k + 1 \in 1..i /\ k <= i
    BY <1>2
  <2>2. q \in RStates /\ c \in Changes /\ run[k + 1] = Replay(q, c) /\ q.events[e] = r.events[e]
    BY <1>1, <1>2, <1>4, <2>1
  <2>3. e \notin Happened(c)
    BY <2>1
  <2> HIDE DEF q, c
  <2>4. Replay(q, c).events[e] = q.events[e]
    BY <2>2, <2>3, ReplayFacts
  <2> QED BY <2>2, <2>4
<1> HIDE DEF T
<1>5. Nat \subseteq T
  BY <1>3, <1>4, SetInduction
<1>6. i \in T /\ i <= i
  BY <1>5
<1> QED BY <1>6 DEF T, run

\* The Duplicates rule, asked in the state of a block, keeps out the events that
\* the block's path has, but for those that were lost.
LEMMA DuplicatesFresh ==
    ASSUME NEW base, NEW o, NEW r \in RStates, NEW L, NEW P, Agree(base, o, r, L, P),
           NEW m \in Seq(Changes), Duplicates(View(base, o), m)
    PROVE  Fresh(m, r, P)
<1> SUFFICES ASSUME NEW i \in 1..Len(m), m[i].type = "PlotEvent", NEW e \in EventsOf(m[i]),
                    ReplayedChanges(r, m)[i - 1].events[e] > 0
             PROVE  e \in P
  BY DEF Fresh
<1>1. Len(m) \in Nat /\ i - 1 \in 0..Len(m) /\ m[i] \in Changes
  OBVIOUS
<1>2. e \in Events
  <2> DEFINE c == m[i]
  <2> HIDE DEF c
  <2>1. c \in Changes /\ c.type = "PlotEvent"
    BY <1>1 DEF c
  <2>2. c.plots \subseteq Plots /\ c.tick \in 0..MaxTick /\ c.event \in RawEvents
    BY <2>1, ChangeFacts
  <2>3. EventsOf(c) \subseteq Events
    BY <2>2, EventsOfFacts
  <2> QED BY <2>3 DEF c
<1>3. e \notin View(base, o).events
  BY DEF Duplicates
<1>4. \A j \in 1..(i - 1) : m[j].type = "PlotEvent" => e \notin EventsOf(m[j])
  BY DEF Duplicates
<1>5. ReplayedChanges(r, m)[i - 1].events[e] = r.events[e]
  <2>1. \A j \in 1..(i - 1) : e \notin Happened(m[j])
    BY <1>4 DEF Happened
  <2> DEFINE k == i - 1
  <2>2. k \in 0..Len(m) /\ \A j \in 1..k : e \notin Happened(m[j])
    BY <1>1, <2>1
  <2> HIDE DEF k
  <2>3. ReplayedChanges(r, m)[k].events[e] = r.events[e]
    BY <1>2, <2>2, EventUntouched
  <2> QED BY <2>3 DEF k
<1>6. ~(e \in base.events \ o.delEvents) /\ e \notin o.newEvents
  BY <1>3 DEF View
<1>7. Depth(base, o, e) = 0
  BY <1>6 DEF Depth
<1>8. r.events[e] > 0
  BY <1>5
<1> QED BY <1>2, <1>7, <1>8 DEF Agree

\* The empty database and the empty overlay.
LEMMA EmptyNetFacts ==
    /\ EmptyNet \in Nets /\ Placed(EmptyNet) = {} /\ Base(EmptyNet).events = {}
    /\ \A k \in Keys : Base(EmptyNet).kv[k] = None
    /\ EmptyDiff \in Diffs
<1>1. /\ EmptyNet.kv = [x \in Bins |-> None] /\ EmptyNet.contra = [b \in Blocks |-> None]
      /\ EmptyNet.buckets = [p \in Plots |-> [i \in Buckets |-> None]]
  BY DEF EmptyNet
<1>2. EmptyNet.contra \in Contras
  BY <1>1 DEF Contras
<1>3. EmptyNet.kv \in [Bins -> EntryValues]
  BY <1>1 DEF EntryValues
<1>4. EmptyNet.buckets \in [Plots -> [Buckets -> (SUBSET Events) \cup {None}]]
  BY <1>1
<1>5. EmptyNet \in [kv : [Bins -> EntryValues],
                    buckets : [Plots -> [Buckets -> (SUBSET Events) \cup {None}]], contra : Contras]
  <2>1. EmptyNet = [kv |-> EmptyNet.kv, buckets |-> EmptyNet.buckets, contra |-> EmptyNet.contra]
    BY DEF EmptyNet
  <2> QED BY <1>2, <1>3, <1>4, <2>1
<1>6. \A k \in Keys : EmptyNet.kv[as_bin(k)] = None
  BY <1>1, BinFacts
<1>7. \A p \in Plots, i \in Buckets : EmptyNet.buckets[p][i] = None
  BY <1>1
<1>8. EmptyNet \in Nets
  BY <1>5, <1>6, <1>7 DEF Nets
<1>9. Placed(EmptyNet) = {}
  BY <1>7, BucketFacts DEF Placed
<1>10. Base(EmptyNet).events = {}
  BY <1>8, <1>9, NetEvents
<1>11. \A k \in Keys : Base(EmptyNet).kv[k] = None
  BY <1>6 DEF Base
<1>12. EmptyDiff \in Diffs
  BY <1>1, <1>2, CleanFacts DEF EmptyDiff
<1> QED BY <1>8, <1>9, <1>10, <1>11, <1>12

\* They agree with the state before genesis.
LEMMA EmptyAgrees ==
    ASSUME NEW L, L \subseteq AdminBins
    PROVE  Agree(Base(EmptyNet), EmptyDiff, Nothing, L, Placed(EmptyNet))
<1> DEFINE base == Base(EmptyNet)
           o == EmptyDiff
<1>1. base.events = {} /\ \A k \in Keys : base.kv[k] = None
  BY EmptyNetFacts
<1>2. /\ \A k \in Keys : get(base, o, k) = base.kv[k]
      /\ o.del = {} /\ o.delEvents = {}
      /\ \A e : Depth(base, o, e) = IF e \in base.events THEN 1 ELSE 0
  BY CleanFacts DEF EmptyDiff
<1> HIDE DEF base, o
<1>3. Nothing.kv = [x \in Bins |-> None] /\ Nothing.events = [e \in Events |-> 0] /\ Nothing.kv \in Kvs
  BY NothingType DEF Nothing, RStates
<1>4. ASSUME NEW v \in Validators
      PROVE  Stake(base, o, v) = StakeIn(Nothing.kv, v) /\ Nothing.kv[ValidatorKey(v)] = None
  <2>1. ValidatorStake(v) \in Bins /\ ValidatorKey(v) \in Bins /\ ValidatorStake(v) \in Keys
    BY <1>3, KvFacts, KeyFacts
  <2>2. [k \in Keys |-> get(base, o, k)][ValidatorStake(v)] = None
    BY <1>1, <1>2, <2>1
  <2>3. Stake(base, o, v) = 0
    BY <2>2 DEF Stake, StakeIn
  <2> QED BY <1>3, <2>1, <2>3 DEF StakeIn
<1>5. ASSUME NEW x \in L PROVE get(base, o, Generic(x)) = Nothing.kv[x]
  BY <1>1, <1>2, <1>3, KeyFacts, KvFacts
<1>6. \A e \in Events : Depth(base, o, e) = 0 /\ Nothing.events[e] = 0
  BY <1>1, <1>2, <1>3
<1>7. Agree(base, o, Nothing, L, Placed(EmptyNet))
  BY <1>2, <1>4, <1>5, <1>6 DEF Agree
<1> QED BY <1>7 DEF base, o

\* Opening an empty database writes the state of the genesis block.
LEMMA OpenFollows ==
    ASSUME NEW s, Opened(s), s.head = Genesis, s.header = [b \in Blocks |-> IF b = Genesis THEN Zero ELSE None],
           s.height = [b \in Blocks |-> IF b = Genesis THEN 1 ELSE 0],
           NEW ms, ms[Genesis] = GenesisMut
    PROVE  LET n == compile(EmptyNet, _mutate(Base(EmptyNet), EmptyDiff, GenesisMut).o) IN
           n \in Nets /\ Follows(ms, s, Base(n), Clean(n.contra), Placed(n))
<1> DEFINE base == Base(EmptyNet)
           o == _mutate(base, EmptyDiff, GenesisMut).o
           P == Placed(EmptyNet)
           L == LastingBins(ms, s)
<1>1. Tree(s) /\ s.head \in Stored(s) /\ Stored(s) = {Genesis} /\ s.height[Genesis] = 1
  <2>1. Stored(s) = {Genesis} /\ s.height[Genesis] = 1
    BY GenesisAssumption, MarkerAssumption DEF Stored
  <2> QED BY <2>1 DEF Opened
<1>2. Sound(ms, s) /\ GenesisMut \in Seq(Changes) /\ GenesisMut # None
  BY <1>1, NetAssumption DEF Sound
<1>3. L \subseteq AdminBins /\ KeepsAll(GenesisMut, L)
  BY <1>1, <1>2, LastingFacts
<1>4. EmptyNet \in Nets /\ EmptyDiff \in Diffs /\ Nothing \in RStates /\ Agree(base, EmptyDiff, Nothing, L, P)
  BY <1>3, EmptyNetFacts, NothingType, EmptyAgrees
<1>5. BaseOK(base)
  BY <1>4, CompileKv
<1> HIDE DEF base, P, L
<1>6. o \in Diffs /\ Agree(base, o, ReplayBlock(Nothing, GenesisMut), L, P)
  BY <1>2, <1>3, <1>4, <1>5, MutateAgrees
<1>7. ReplayedPath(ms, s, Genesis)[1] = ReplayBlock(Nothing, GenesisMut)
  <2>1. Path(s, Genesis)[1] = Genesis /\ Genesis \in Stored(s) /\ 1 \in 1..1 /\ 1 - 1 = 0
    BY <1>1, TreePath
  <2>2. /\ ReplayedPath(ms, s, Genesis)[0] = Nothing
        /\ ReplayedPath(ms, s, Genesis)[1] = ReplayBlock(ReplayedPath(ms, s, Genesis)[1 - 1], ms[Path(s, Genesis)[1]])
    BY <1>1, <1>2, <2>1, ReplayedPathFacts
  <2> QED BY <2>1, <2>2
<1> HIDE DEF o
<1>8. Shows(ms, s, s.head, base, o, P)
  <2>1. 2..s.height[s.head] = {} /\ s.height[s.head] = 1
    BY <1>1
  <2> QED BY <1>6, <1>7, <2>1 DEF Shows, L
<1>9. AllFresh(ms, s, P)
  BY <1>1 DEF AllFresh
<1>10. Follows(ms, s, base, o, P)
  BY <1>1, <1>2, <1>8, <1>9 DEF Follows
<1>11. LET n == compile(EmptyNet, o) IN n \in Nets /\ Follows(ms, s, Base(n), Clean(n.contra), Placed(n))
  BY <1>1, <1>2, <1>4, <1>6, <1>10, CommitFollows DEF base, P
<1> QED BY <1>11 DEF o, base

\* The mutations of the stored blocks are there whenever the state follows them.
LEMMA FollowsSound ==
    ASSUME NEW ms \in [Blocks -> Seq(Changes) \cup {None}], ms[Genesis] = GenesisMut,
           NEW s, NEW base, NEW o, NEW P, Follows(ms, s, base, o, P)
    PROVE  Sound(ms, s)
BY DEF Follows, Sound, Stored

\* A block that is added and walked to: overlay and database follow their trees.
LEMMA AddNewFollows ==
    ASSUME NetInv, NEW b \in Blocks, NEW p \in Blocks, NEW m \in Mutations, NetAddNew(b, p, m)
    PROVE  /\ muts' \in [Blocks -> Seq(Changes) \cup {None}] /\ muts'[Genesis] = GenesisMut
           /\ ov' \in Diffs
           /\ Follows(muts', st', Base(net), ov', Placed(net))
           /\ Follows(muts', db, Base(net), Clean(net.contra), Placed(net))
<1> DEFINE base == Base(net)
           P == Placed(net)
           a == add_block(st, b, p)
           c == find_chain_head(a)
<1>1. /\ op \in {"add_block", "import_pkg"} /\ b \notin Stored(st) /\ HasHeight(st, p)
      /\ get_block_height(st, p) < MaxHeight /\ st' = walk_to_head(a)
      /\ is_valid_block(p, m) /\ muts' = [muts EXCEPT ![b] = m]
      /\ ov' = walk_net(base, ov, a, muts', c)
  BY DEF NetAddNew, AddNew
<1>2. /\ Opened(st) /\ Extends(db, st) /\ Opened(db) /\ net \in Nets /\ ov \in Diffs
      /\ muts \in [Blocks -> Seq(Changes) \cup {None}] /\ muts[Genesis] = GenesisMut
      /\ Follows(muts, st, base, ov, P)
      /\ db # EmptyDB => Follows(muts, db, base, Clean(net.contra), P)
  BY <1>1 DEF NetInv, IInv, Running
<1>3. /\ Tree(st) /\ Tree(db) /\ st.head \in Stored(st) /\ db.head \in Stored(db)
      /\ st.headHeight = st.height[st.head] /\ Genesis \in Stored(st) /\ Genesis \in Stored(db)
  BY <1>2 DEF Opened, Tree, FrontsFollowPrev
<1>4. p \in Stored(st) /\ st.height[p] < MaxHeight
  BY <1>1, <1>3 DEF HasHeight, get_block_height, Tree, Stored
<1>5. Follows(muts, db, base, Clean(net.contra), P)
  BY <1>2, <1>3, EmptyReads
<1>6. Sound(muts, st) /\ Sound(muts, db)
  BY <1>2, <1>5, FollowsSound
<1>7. m \in Seq(Changes)
  BY NetAssumption
<1>8. BaseOK(base)
  BY <1>2, CompileKv
<1>9. /\ muts' \in [Blocks -> Seq(Changes) \cup {None}] /\ muts'[Genesis] = GenesisMut
      /\ muts'[b] = m /\ \A d \in Stored(st) : muts'[d] = muts[d]
  BY <1>1, <1>2, <1>3, <1>7 DEF Stored
<1> HIDE DEF base, P
<1>10. Fresh(m, ReplayedPath(muts, st, p)[st.height[p]], P)
  <2> DEFINE view == View(base, ov)
             diff == Clean(ov.contra)
             w == walk_net(view, diff, st, muts, p)
             r == ReplayedPath(muts, st, p)[st.height[p]]
             L == LastingBins(muts, st)
  <2>1. BaseOK(view) /\ Follows(muts, st, view, diff, P)
    BY <1>2, <1>3, <1>6, <1>8, ViewFollows
  <2>2. diff \in Diffs
    BY <1>2, CleanFacts, DiffFacts
  <2>3. Duplicates(View(view, w), m)
    BY <1>1 DEF is_valid_block, base
  <2>4. r \in RStates
    <3>1. st.height[p] \in 0..st.height[p]
      BY <1>3, <1>4, TreePath
    <3>2. ReplayedPath(muts, st, p) \in [0..st.height[p] -> RStates]
      BY <1>3, <1>4, <1>6, ReplayedPathFacts
    <3> QED BY <3>1, <3>2
  <2> HIDE DEF view, diff
  <2>5. Shows(muts, st, p, view, w, P)
    BY <1>3, <1>4, <1>6, <2>1, <2>2, WalkShows
  <2> HIDE DEF w
  <2>6. Agree(view, w, r, L, P)
    BY <2>5 DEF Shows
  <2> HIDE DEF r, L
  <2>7. Fresh(m, r, P)
    BY <1>7, <2>3, <2>4, <2>6, DuplicatesFresh
  <2> QED BY <2>7 DEF r
<1> DEFINE ns == muts'
<1>11. ns[b] = m /\ \A d \in Stored(st) : ns[d] = muts[d]
  BY <1>9
<1>12. b \in Blocks \ Stored(st)
  BY <1>1
<1> DEFINE s == st
           ms == muts
           o == ov
<1>13. /\ Opened(s) /\ Sound(ms, s) /\ b \in Blocks \ Stored(s) /\ p \in Stored(s) /\ s.height[p] < MaxHeight
       /\ ns[b] = m /\ (\A d \in Stored(s) : ns[d] = ms[d]) /\ Follows(ms, s, base, o, P)
       /\ Fresh(m, ReplayedPath(ms, s, p)[s.height[p]], P) /\ a = add_block(s, b, p) /\ o \in Diffs
  BY <1>2, <1>4, <1>6, <1>10, <1>11, <1>12
<1> HIDE DEF ns, s, ms, o, a, c
<1>14. Sound(ns, a) /\ Follows(ns, a, base, o, P)
  BY <1>7, <1>13, AddedFollows
<1>15. /\ Tree(a) /\ a.head \in Stored(a)
  BY <1>13, AddedTree
<1> DEFINE t == walk_to_head(a)
<1>16. c \in Stored(a) /\ t.head = c /\ t.header = a.header /\ t.height = a.height
  BY <1>13, AddedHead DEF c
<1> HIDE DEF t
<1>17. walk_net(base, o, a, ns, c) \in Diffs /\ Follows(ns, t, base, walk_net(base, o, a, ns, c), P)
  BY <1>8, <1>13, <1>14, <1>15, <1>16, WalkedFollows
<1>18. ov' \in Diffs /\ Follows(muts', st', base, ov', P)
  BY <1>1, <1>17 DEF ns, o, t
<1>19. Follows(ns, db, base, Clean(net.contra), P)
  <2>1. Extends(db, db) /\ \A d \in Stored(db) : d \in Stored(st)
    BY <1>2, <1>3, PathStable DEF Extends
  <2>2. \A d \in Stored(db) : ns[d] = muts[d]
    BY <1>11, <2>1 DEF ns
  <2>3. Sound(ns, db)
    BY <1>3, <1>6, <2>2 DEF Sound
  <2>4. Carries(muts, db, ns, db)
    BY <1>3, <1>6, <2>1, <2>2, <2>3 DEF Carries
  <2> QED BY <1>3, <1>5, <2>4, CarriedFollows
<1> QED BY <1>9, <1>18, <1>19 DEF base, P, ns

\* A commit leaves a database that follows its tree.
LEMMA CommitKeeps ==
    ASSUME NetInv, NetCommit
    PROVE  net' \in Nets /\ Follows(muts', db', Base(net'), Clean(net'.contra), Placed(net'))
<1>1. /\ op \in {"add_block", "import_pkg"} /\ db' = st /\ net' = compile(net, ov) /\ muts' = muts
  BY DEF NetCommit, CommitAdd, CommitImport
<1>2. /\ Opened(st) /\ net \in Nets /\ ov \in Diffs
      /\ muts \in [Blocks -> Seq(Changes) \cup {None}] /\ muts[Genesis] = GenesisMut
      /\ Follows(muts, st, Base(net), ov, Placed(net))
  BY <1>1 DEF NetInv, IInv, Running
<1>3. Tree(st) /\ st.head \in Stored(st) /\ Sound(muts, st)
  BY <1>2, FollowsSound DEF Opened, FrontsFollowPrev
<1>4. LET t == compile(net, ov) IN t \in Nets /\ Follows(muts, st, Base(t), Clean(t.contra), Placed(t))
  BY <1>2, <1>3, CommitFollows
<1> QED BY <1>1, <1>4

\* A failure or a crash leaves the database following its tree.
LEMMA DropKeeps ==
    ASSUME NetInv, NetDrop
    PROVE  /\ muts' \in [Blocks -> Seq(Changes) \cup {None}] /\ muts'[Genesis] = GenesisMut
           /\ db # EmptyDB => Follows(muts', db, Base(net), Clean(net.contra), Placed(net))
<1>1. muts' = [b \in Blocks |-> IF b \in Stored(db) \cup {Genesis} THEN muts[b] ELSE None]
  BY DEF NetDrop
<1>2. /\ muts \in [Blocks -> Seq(Changes) \cup {None}] /\ muts[Genesis] = GenesisMut
      /\ db = EmptyDB \/ Opened(db)
      /\ db # EmptyDB => Follows(muts, db, Base(net), Clean(net.contra), Placed(net))
  BY DEF NetInv, IInv
<1>3. /\ muts' \in [Blocks -> Seq(Changes) \cup {None}] /\ muts'[Genesis] = GenesisMut
      /\ \A b \in Stored(db) : muts'[b] = muts[b]
  BY <1>1, <1>2, GenesisAssumption DEF Stored
<1>4. ASSUME db # EmptyDB PROVE Follows(muts', db, Base(net), Clean(net.contra), Placed(net))
  <2>1. /\ Tree(db) /\ db.head \in Stored(db) /\ Extends(db, db)
        /\ Follows(muts, db, Base(net), Clean(net.contra), Placed(net))
    BY <1>2, <1>4 DEF Opened, FrontsFollowPrev, Extends
  <2>2. Sound(muts, db)
    BY <1>2, <2>1, FollowsSound
  <2>3. Sound(muts', db)
    BY <1>3, <2>2 DEF Sound
  <2>4. Carries(muts, db, muts', db)
    BY <1>3, <2>1, <2>2, <2>3 DEF Carries
  <2> DEFINE ns == muts'
  <2>5. Carries(muts, db, ns, db)
    BY <2>4
  <2> HIDE DEF ns
  <2>6. Follows(ns, db, Base(net), Clean(net.contra), Placed(net))
    BY <2>1, <2>5, CarriedFollows
  <2> QED BY <2>6 DEF ns
<1> QED BY <1>3, <1>4

\* Every step on the network state is a step of the block tree.
LEMMA NetStepIsStep == [NetNext]_netVars => [Next]_vars
<1>1. NetOpen => Next
  BY DEF NetOpen, Next
<1>2. NetBegin("add_block") \/ NetBegin("import_pkg") => Next
  BY DEF NetBegin, Next
<1>3. ASSUME NEW b \in Blocks, NEW p \in Blocks, NEW m \in Mutations, NetAddNew(b, p, m) PROVE Next
  <2>1. p \in Blocks \cup {Zero} /\ AddNew(b, p)
    BY <1>3 DEF NetAddNew
  <2> QED BY <2>1 DEF Next
<1>4. ASSUME NEW b \in Blocks, NetSkipKnown(b) PROVE Next
  BY <1>4 DEF NetSkipKnown, Next
<1>5. NetCommit \/ NetDrop => Next
  BY DEF NetCommit, NetDrop, Next
<1>6. UNCHANGED netVars => UNCHANGED vars
  BY DEF netVars, vars
<1> QED BY <1>1, <1>2, <1>3, <1>4, <1>5, <1>6 DEF NetNext

\* Every step keeps the invariant.
LEMMA StepKeepsNetInv == NetInv /\ [NetNext]_netVars => NetInv'
<1> SUFFICES ASSUME NetInv, [NetNext]_netVars PROVE NetInv'
  OBVIOUS
<1>1. IInv'
  BY NetStepIsStep, StepKeepsIInv DEF NetInv
<1>2. /\ net \in Nets /\ ov \in Diffs
      /\ muts \in [Blocks -> Seq(Changes) \cup {None}] /\ muts[Genesis] = GenesisMut
      /\ db = EmptyDB => net = EmptyNet
      /\ db # EmptyDB => Follows(muts, db, Base(net), Clean(net.contra), Placed(net))
      /\ Running => Follows(muts, st, Base(net), ov, Placed(net))
      /\ IInv
  BY DEF NetInv
<1>3. EmptyDiff \in Diffs /\ \A s : Opened(s) => s # EmptyDB
  BY EmptyNetFacts, EmptyReads DEF Opened, FrontsFollowPrev
<1>4. CASE NetOpen
  <2>1. UNCHANGED <<ov, muts>> /\ op' = "idle" /\ open
    BY <1>4 DEF NetOpen, open
  <2>2. CASE db = EmptyDB
    <3>1. db' = walk_to_head(add_block(EmptyDB, Genesis, Zero))
      BY <2>1, <2>2 DEF open
    <3>2. /\ Opened(db') /\ db'.head = Genesis
          /\ db'.header = [b \in Blocks |-> IF b = Genesis THEN Zero ELSE None]
          /\ db'.height = [b \in Blocks |-> IF b = Genesis THEN 1 ELSE 0]
      BY <3>1, OpenEmpty
    <3>3. net' = compile(EmptyNet, _mutate(Base(EmptyNet), EmptyDiff, GenesisMut).o)
      BY <1>2, <1>4, <2>2 DEF NetOpen
    <3> DEFINE s == db'
    <3>4. /\ Opened(s) /\ s.head = Genesis
          /\ s.header = [b \in Blocks |-> IF b = Genesis THEN Zero ELSE None]
          /\ s.height = [b \in Blocks |-> IF b = Genesis THEN 1 ELSE 0]
      BY <3>2
    <3> HIDE DEF s
    <3>5. LET n == compile(EmptyNet, _mutate(Base(EmptyNet), EmptyDiff, GenesisMut).o) IN
          n \in Nets /\ Follows(muts, s, Base(n), Clean(n.contra), Placed(n))
      BY <1>2, <3>4, OpenFollows
    <3>6. net' \in Nets /\ Follows(muts, s, Base(net'), Clean(net'.contra), Placed(net'))
      BY <3>3, <3>5
    <3>7. net' \in Nets /\ Follows(muts', db', Base(net'), Clean(net'.contra), Placed(net'))
      BY <2>1, <3>6 DEF s
    <3> QED BY <1>1, <1>2, <1>3, <2>1, <3>2, <3>7 DEF NetInv, Running
  <2>3. CASE db # EmptyDB
    <3>1. db' = db /\ net' = net
      BY <1>4, <2>3 DEF NetOpen, open
    <3> QED BY <1>1, <1>2, <2>1, <2>3, <3>1 DEF NetInv, Running
  <2> QED BY <2>2, <2>3
<1>5. ASSUME NEW kind \in {"add_block", "import_pkg"}, NetBegin(kind) PROVE NetInv'
  <2>1. op = "idle" /\ st' = db /\ db' = db /\ ov' = Clean(net.contra) /\ net' = net /\ muts' = muts
    BY <1>5 DEF NetBegin, Begin
  <2>2. db # EmptyDB
    BY <1>2, <1>3, <2>1 DEF IInv
  <2>3. ov' \in Diffs
    BY <1>2, <2>1, NetEvents, CleanFacts
  <2> QED BY <1>1, <1>2, <2>1, <2>2, <2>3 DEF NetInv
<1>6. ASSUME NEW b \in Blocks, NEW p \in Blocks, NEW m \in Mutations, NetAddNew(b, p, m)
      PROVE  NetInv'
  <2>1. db' = db /\ net' = net
    BY <1>6 DEF NetAddNew, AddNew
  <2>2. /\ muts' \in [Blocks -> Seq(Changes) \cup {None}] /\ muts'[Genesis] = GenesisMut
        /\ ov' \in Diffs
        /\ Follows(muts', st', Base(net), ov', Placed(net))
        /\ Follows(muts', db, Base(net), Clean(net.contra), Placed(net))
    BY <1>6, AddNewFollows
  <2> QED BY <1>1, <1>2, <2>1, <2>2 DEF NetInv
<1>7. ASSUME NEW b \in Blocks, NetSkipKnown(b) PROVE NetInv'
  <2>1. UNCHANGED <<db, st, op, net, ov, muts>>
    BY <1>7 DEF NetSkipKnown, SkipKnown
  <2> QED BY <1>1, <1>2, <2>1 DEF NetInv, Running
<1>8. CASE NetCommit
  <2>1. op' = "idle" /\ ov' = EmptyDiff /\ muts' = muts /\ db' = st /\ Opened(st)
    BY <1>2, <1>8 DEF NetCommit, CommitAdd, CommitImport, IInv
  <2>2. net' \in Nets /\ Follows(muts', db', Base(net'), Clean(net'.contra), Placed(net'))
    BY <1>8, CommitKeeps
  <2> QED BY <1>1, <1>2, <1>3, <2>1, <2>2 DEF NetInv, Running
<1>9. CASE NetDrop
  <2>1. op' \in {"idle", "closed"} /\ db' = db /\ net' = net /\ ov' = EmptyDiff
    BY <1>9 DEF NetDrop, Fail, Crash
  <2>2. /\ muts' \in [Blocks -> Seq(Changes) \cup {None}] /\ muts'[Genesis] = GenesisMut
        /\ db # EmptyDB => Follows(muts', db, Base(net), Clean(net.contra), Placed(net))
    BY <1>9, DropKeeps
  <2> QED BY <1>1, <1>2, <1>3, <2>1, <2>2 DEF NetInv, Running
<1>10. CASE UNCHANGED netVars
  BY <1>1, <1>2, <1>10 DEF NetInv, Running, netVars
<1> QED BY <1>4, <1>5, <1>6, <1>7, <1>8, <1>9, <1>10 DEF NetNext

\* The database has the state of the current chain, with the contra of every
\* block of it, and between two blocks of a package so has the overlay of the
\* running operation, whatever was added, undone, dropped or lost in a crash.
THEOREM NetInvariance == NetSpec => []NetInv
<1>1. NetInit => NetInv
  <2> SUFFICES ASSUME NetInit PROVE NetInv
    OBVIOUS
  <2>1. IInv
    <3>1. <<>> \in Seq(Blocks) /\ <<>> \in Seq(NewBlockEvents \cup InvalidatedEvents)
      OBVIOUS
    <3> QED BY <3>1, EmptyDBType DEF NetInit, Init, IInv, TypeOK, Ops
  <2>2. net \in Nets /\ ov \in Diffs /\ db = EmptyDB /\ net = EmptyNet /\ op = "closed"
    BY EmptyNetFacts DEF NetInit, Init
  <2>3. muts \in [Blocks -> Seq(Changes) \cup {None}] /\ muts[Genesis] = GenesisMut
    BY NetAssumption, GenesisAssumption DEF NetInit
  <2> QED BY <2>1, <2>2, <2>3 DEF NetInv, Running
<1> QED BY <1>1, StepKeepsNetInv, PTL DEF NetSpec

-----------------------------------------------------------------------------
(* What the invariant gives *)

\* The stored state agrees with the replay of the current chain.
LEMMA CurrentState ==
    ASSUME NetInv
    PROVE  /\ Replayed(db) \in RStates
           /\ Agree(Base(net), Clean(net.contra), Replayed(db), LastingBins(muts, db), Placed(net))
<1> DEFINE H == db.headHeight
           chain == CurrentChain(db)
<1>1. Replayed(db) = ReplayedChain(muts, chain, H)[H]
  BY DEF Replayed
<1>2. CASE db = EmptyDB
  <2>1. net = EmptyNet /\ H = 0
    BY <1>2, EmptyReads DEF NetInv
  <2>2. ReplayedChain(muts, chain, 0)[0] = Nothing
    <3> HIDE DEF chain
    <3>1. \A h \in 1..0 : muts[chain[h]] \in Seq(Changes)
      OBVIOUS
    <3> QED BY <3>1, ReplayedChainFacts
  <2>3. EmptyDiff = Clean(net.contra)
    BY <2>1 DEF EmptyNet, EmptyDiff
  <2>4. LastingBins(muts, db) \subseteq AdminBins
    BY DEF LastingBins
  <2>5. Replayed(db) = Nothing
    BY <1>1, <2>1, <2>2
  <2> HIDE DEF chain, H
  <2> DEFINE L == LastingBins(muts, db)
  <2> HIDE DEF L
  <2>6. Agree(Base(EmptyNet), EmptyDiff, Nothing, L, Placed(EmptyNet))
    BY <2>4, EmptyAgrees DEF L
  <2> QED BY <2>1, <2>3, <2>5, <2>6, NothingType DEF L
<1>3. CASE db # EmptyDB
  <2>1. /\ Opened(db) /\ Follows(muts, db, Base(net), Clean(net.contra), Placed(net))
        /\ muts \in [Blocks -> Seq(Changes) \cup {None}] /\ muts[Genesis] = GenesisMut
    BY <1>3 DEF NetInv, IInv
  <2>2. Tree(db) /\ db.head \in Stored(db) /\ Sound(muts, db)
    BY <2>1, FollowsSound DEF Opened, FrontsFollowPrev
  <2>3. /\ db.height[db.head] = H /\ Path(db, db.head) \in [1..H -> Stored(db)]
        /\ \A h \in 1..H : chain[h] = Path(db, db.head)[h]
    <3>1. db.height[db.head] = H /\ \A h \in 1..H : get_current_block_of_height(db, h) = Path(db, db.head)[h]
      BY <2>1, ReadFacts
    <3>2. Path(db, db.head) \in [1..db.height[db.head] -> Stored(db)]
      BY <2>2, TreePath
    <3> QED BY <3>1, <3>2 DEF CurrentChain
  <2>4. chain = [h \in 1..H |-> chain[h]]
    BY DEF CurrentChain
  <2> HIDE DEF chain
  <2>5. chain = Path(db, db.head)
    BY <2>3, <2>4
  <2>6. Replayed(db) = ReplayedPath(muts, db, db.head)[db.height[db.head]]
    BY <1>1, <2>3, <2>5 DEF ReplayedPath
  <2> QED BY <2>1, <2>2, <2>6, FollowsFacts
<1> QED BY <1>2, <1>3

\* What the empty overlay reads is what is stored.
LEMMA NetReads ==
    ASSUME NetInv
    PROVE  \A k \in Keys : get(Base(net), Clean(net.contra), k) = net.kv[as_bin(k)]
BY CleanFacts DEF Base

\* Undoing and applying blocks never creates or loses stake, in wrapping
\* arithmetic: after every write each stake is what the current chain gives.
THEOREM StakesAlwaysFollowChain == NetSpec => []StakesFollowChain
<1>1. ASSUME NetInv, NEW v \in Validators
      PROVE  StakeIn(net.kv, v) = StakeIn(Replayed(db).kv, v)
  <2>1. Stake(Base(net), Clean(net.contra), v) = StakeIn(Replayed(db).kv, v)
    BY <1>1, CurrentState DEF Agree
  <2>2. ValidatorStake(v) \in Keys /\ as_bin(ValidatorStake(v)) = ValidatorStake(v)
    BY KeyFacts, BinFacts
  <2>3. get(Base(net), Clean(net.contra), ValidatorStake(v)) = net.kv[ValidatorStake(v)]
    BY <1>1, <2>2, NetReads
  <2>4. Stake(Base(net), Clean(net.contra), v) = StakeIn(net.kv, v)
    BY <2>2, <2>3 DEF Stake, StakeIn
  <2> QED BY <2>1, <2>4
<1>2. NetInv => StakesFollowChain
  BY <1>1 DEF StakesFollowChain
<1> QED BY <1>2, NetInvariance, PTL

\* The value under a key that genesis sets and nobody removes is the one that
\* the current chain set last: the contras put the earlier values back.
THEOREM LastingValuesAlwaysFollow == NetSpec => []LastingValuesFollowChain
<1>1. ASSUME NetInv, NEW x \in LastingBins(muts, db) PROVE net.kv[x] = Replayed(db).kv[x]
  <2>1. get(Base(net), Clean(net.contra), Generic(x)) = Replayed(db).kv[x]
    BY <1>1, CurrentState DEF Agree
  <2>2. Generic(x) \in Keys /\ as_bin(Generic(x)) = x
    BY KeyFacts, BinFacts DEF LastingBins
  <2> QED BY <1>1, <2>1, <2>2, NetReads
<1>2. NetInv => LastingValuesFollowChain
  BY <1>1 DEF LastingValuesFollowChain
<1> QED BY <1>2, NetInvariance, PTL

\* No write leaves an event that the current chain does not have, or a gap in
\* the buckets of a plot.
THEOREM NeverStrayEvents == NetSpec => []NoStrayEvents
<1>1. ASSUME NetInv, NEW p \in Plots, NEW i \in Buckets, net.buckets[p][i] # None
      PROVE  /\ \A e \in net.buckets[p][i] : Replayed(db).events[e] > 0
             /\ \A j \in 0..i : net.buckets[p][j] # None
  <2>1. net \in Nets
    BY <1>1 DEF NetInv
  <2>2. GoodPlot(net.buckets[p], p)
    BY <2>1, NetEvents
  <2>3. ASSUME NEW e \in net.buckets[p][i] PROVE Replayed(db).events[e] > 0
    <3>1. e \in Events /\ e[1] = p /\ Bucket(e) = i
      BY <1>1, <2>2, <2>3 DEF GoodPlot
    <3>2. e \in Base(net).events
      BY <1>1, <2>1, <2>3, <3>1, NetEvents DEF Placed
    <3>3. Depth(Base(net), Clean(net.contra), e) = 1
      BY <3>2, CleanFacts
    <3>4. Depth(Base(net), Clean(net.contra), e) <= Replayed(db).events[e]
      BY <1>1, <3>1, CurrentState DEF Agree
    <3>5. Replayed(db).events[e] \in Nat
      BY <1>1, <3>1, CurrentState DEF RStates
    <3> QED BY <3>3, <3>4, <3>5
  <2> QED BY <1>1, <2>2, <2>3 DEF GoodPlot
<1>2. NetInv => NoStrayEvents
  BY <1>1 DEF NoStrayEvents
<1> QED BY <1>2, NetInvariance, PTL

\* What the overlay showed under a key is what the database has after the write,
\* for every key but AdminKeyID, which shares its entry with another key.
THEOREM ValuesAlwaysCommitted == NetSpec => ValuesCommitted
<1>1. ASSUME NetInv, NetCommit, NEW k \in Keys \ {AdminKeyID}
      PROVE  net'.kv[as_bin(k)] = get(Base(net), ov, k)
  <2>1. net \in Nets /\ ov \in Diffs /\ net' = compile(net, ov)
    BY <1>1 DEF NetInv, NetCommit
  <2> QED BY <2>1, CompileKv
<1>2. NetInv => (NetCommit => \A k \in Keys \ {AdminKeyID} : net'.kv[as_bin(k)] = get(Base(net), ov, k))
  BY <1>1
<1> QED BY <1>2, NetInvariance, PTL DEF ValuesCommitted

=============================================================================
