---------------------------- MODULE TimerProofs ----------------------------
(***************************************************************************)
(* Proofs about what the timers of a node drive: the forger, whose         *)
(* candidate waits for its time (Forge), and the checks of a session,      *)
(* which strike for a ping that is out (Session). The two share nothing;   *)
(* each part has its own invariant.                                        *)
(***************************************************************************)
EXTENDS Forge, Session, TLAPS

-----------------------------------------------------------------------------
(* Forge: types *)

\* A block of the forger, of any number of signatures.
Block == [prev : 0..MaxHeight, signers : Seq(Keys), age : 0..MaxWait]
Candidate == [req : Nat, left : 0..MaxWait, block : Block]
Task == [stop : BOOLEAN, res : {"waits", "cancelled", "block"}, prev : 0..MaxHeight]

TypeOK ==
    /\ head \in 0..MaxHeight
    /\ task \in [Tasks -> {None} \cup Task]
    /\ best \in {None} \cup Candidate
    /\ timers \in [0..MaxWait -> Nat]
    /\ bcast \subseteq Block

IInv == TypeOK /\ CandidateTimed /\ NobodyForgotten

-----------------------------------------------------------------------------
(* Forge: the operators *)

\* A time that has passed counts as no time.
LEMMA MaxZero ==
    ASSUME NEW x \in Int
    PROVE  Max({x, 0}) = IF x >= 0 THEN x ELSE 0
<1>1. \E y \in {x, 0} : \A z \in {x, 0} : y >= z
  OBVIOUS
<1>2. Max({x, 0}) \in {x, 0} /\ \A z \in {x, 0} : Max({x, 0}) >= z
  BY <1>1 DEF Max
<1> QED BY <1>2

\* The lesser of two numbers is one of them and above neither.
LEMMA MinOfTwo ==
    ASSUME NEW x \in Int, NEW y \in Int
    PROVE  Min({x, y}) = IF x <= y THEN x ELSE y
<1>1. \E v \in {x, y} : \A z \in {x, y} : v <= z
  OBVIOUS
<1>2. Min({x, y}) \in {x, y} /\ \A z \in {x, y} : Min({x, y}) <= z
  BY <1>1 DEF Min
<1> QED BY <1>2

\* What gen_wait and apply_block make of a block is a candidate.
LEMMA SignedType ==
    ASSUME NEW b \in Block, NEW c \in Signed(b)
    PROVE  c \in Candidate
<1>1. PICK k \in Keys, w \in 1..MaxWait :
          c = [req |-> calculate_validator_info(b.prev), left |-> Max({w - b.age, 0}), block |-> apply_block(b, k)]
  BY DEF Signed, gen_wait, get_validator_stake
<1>2. /\ b.prev \in 0..MaxHeight /\ b.age \in 0..MaxWait /\ MaxWait \in Nat
      /\ ReqValidators \in [0..MaxHeight -> Nat \ {0}]
  BY ForgeAssumption DEF Block
<1>3. Max({w - b.age, 0}) \in 0..MaxWait
  <2>1. w - b.age \in Int /\ w - b.age <= MaxWait
    BY <1>2
  <2> QED BY <1>2, <2>1, MaxZero
<1>4. apply_block(b, k) \in Block
  BY DEF apply_block, Block
<1>5. calculate_validator_info(b.prev) \in Nat
  BY <1>2 DEF calculate_validator_info
<1> QED BY <1>1, <1>3, <1>4, <1>5 DEF Candidate

\* Aging keeps a block a block.
LEMMA AgedType ==
    ASSUME NEW b \in Block
    PROVE  Aged(b) \in Block
<1>1. b.age \in 0..MaxWait /\ MaxWait \in Nat
  BY ForgeAssumption DEF Block
<1>2. Min({b.age + 1, MaxWait}) \in 0..MaxWait
  BY <1>1, MinOfTwo
<1> QED BY <1>2 DEF Aged, Block

-----------------------------------------------------------------------------
(* Forge: the candidate and its timers *)

\* A candidate that is accepted gets its timer, one that is not leaves the old
\* candidate with its own.
LEMMA EvaluateStep ==
    ASSUME TypeOK, CandidateTimed, NEW b \in Block, evaluate_block(b)
    PROVE  /\ best' \in {None} \cup Candidate
           /\ timers' \in [0..MaxWait -> Nat]
           /\ CandidateTimed'
<1>1. CASE UNCHANGED <<best, timers>>
  BY <1>1 DEF TypeOK, CandidateTimed
<1>2. ASSUME NEW c \in Signed(b), best' = c, timers' = Timed(c)
      PROVE  /\ best' \in {None} \cup Candidate
             /\ timers' \in [0..MaxWait -> Nat]
             /\ CandidateTimed'
  <2>1. c \in Candidate /\ c.left \in 0..MaxWait /\ MaxWait \in Nat
    BY SignedType, ForgeAssumption DEF Candidate
  <2>2. timers' = [timers EXCEPT ![c.left] = @ + 1]
    BY <1>2 DEF Timed
  <2>3. timers' \in [0..MaxWait -> Nat] /\ timers'[c.left] > 0
    BY <2>1, <2>2 DEF TypeOK
  <2>4. c.left \in best'.left..MaxWait
    BY <1>2, <2>1
  <2> QED BY <1>2, <2>1, <2>3, <2>4 DEF CandidateTimed
<1>3. CASE EvaluationFails
  BY <1>1, <1>3 DEF EvaluationFails
<1>4. CASE \E c \in Signed(b) : best' = c /\ timers' = Timed(c)
  BY <1>2, <1>4
<1>5. \/ EvaluationFails \/ UNCHANGED <<best, timers>>
      \/ \E c \in Signed(b) : best' = c /\ timers' = Timed(c)
  BY DEF evaluate_block
<1> QED BY <1>1, <1>3, <1>4, <1>5

\* A timer that goes off is not the one that a candidate still needs.
LEMMA PropagateStep ==
    ASSUME TypeOK, CandidateTimed, propagate_block
    PROVE  /\ best' \in {None} \cup Candidate
           /\ timers' \in [0..MaxWait -> Nat]
           /\ CandidateTimed'
<1>0. 0 \in 0..MaxWait
  BY ForgeAssumption
<1>1. 0 \in 0..MaxWait /\ timers' = [timers EXCEPT ![0] = @ - 1] /\ timers[0] > 0
  BY <1>0 DEF propagate_block
<1>2. timers' \in [0..MaxWait -> Nat] /\ \A l \in 1..MaxWait : timers'[l] = timers[l]
  BY <1>1 DEF TypeOK
<1>3. CASE best' = None
  BY <1>2, <1>3 DEF CandidateTimed
<1>4. CASE best # None /\ best.left > 0 /\ best' = best
  <2>1. PICK l \in best.left..MaxWait : timers[l] > 0
    BY <1>4 DEF CandidateTimed
  <2>2. best.left \in 0..MaxWait /\ l \in 1..MaxWait
    BY <1>4 DEF TypeOK, Candidate
  <2> QED BY <1>2, <1>4, <2>1, <2>2 DEF CandidateTimed, TypeOK
<1> QED BY <1>3, <1>4 DEF propagate_block, TooEarly

\* Timers and candidate come closer together.
LEMMA TickStep ==
    ASSUME TypeOK, CandidateTimed, Tick
    PROVE  /\ best' \in {None} \cup Candidate
           /\ timers' \in [0..MaxWait -> Nat]
           /\ bcast' \subseteq Block
           /\ CandidateTimed'
<1>1. MaxWait \in Nat
  BY ForgeAssumption
<1>2. /\ timers' = [l \in 0..MaxWait |->
                      (IF l < MaxWait THEN timers[l + 1] ELSE 0) + (IF l = 0 THEN timers[0] ELSE 0)]
      /\ timers \in [0..MaxWait -> Nat]
  BY DEF Tick, TypeOK
<1>3. timers' \in [0..MaxWait -> Nat]
  BY <1>1, <1>2
<1>4. bcast' \subseteq Block
  BY AgedType DEF Tick, TypeOK
<1>5. CASE best = None
  BY <1>3, <1>4, <1>5 DEF Tick, CandidateTimed
<1>6. CASE best # None
  <2>1. best \in Candidate /\ best.left \in 0..MaxWait /\ best.block \in Block
    BY <1>6 DEF TypeOK, Candidate
  <2> DEFINE left == Max({best.left - 1, 0})
  <2>2. left = (IF best.left >= 1 THEN best.left - 1 ELSE 0) /\ left \in 0..MaxWait
    BY <1>1, <2>1, MaxZero
  <2>3. best' = [best EXCEPT !.left = left, !.block = Aged(@)]
    BY <1>6 DEF Tick
  <2> HIDE DEF left
  <2>4. best' \in Candidate /\ best'.left = left
    BY <2>1, <2>2, <2>3, AgedType DEF Candidate
  <2>5. PICK l \in best.left..MaxWait : timers[l] > 0
    BY <1>6 DEF CandidateTimed
  <2>6. l \in 0..MaxWait
    BY <2>1
  <2>7. CASE l = 0
    <3>1. timers'[0] > 0
      BY <1>1, <1>2, <2>5, <2>7
    <3>2. 0 \in left..MaxWait
      BY <1>1, <2>1, <2>2, <2>5, <2>7
    <3> QED BY <1>3, <1>4, <2>4, <3>1, <3>2 DEF CandidateTimed
  <2>8. CASE l # 0
    <3>1. l - 1 \in 0..MaxWait /\ l - 1 < MaxWait /\ (l - 1) + 1 = l
      BY <1>1, <2>6, <2>8
    <3>2. timers'[l - 1] > 0
      BY <1>1, <1>2, <2>5, <2>6, <3>1
    <3>3. l - 1 \in left..MaxWait
      BY <1>1, <2>1, <2>2, <2>6, <2>8, <3>1
    <3> QED BY <1>3, <1>4, <2>4, <3>2, <3>3 DEF CandidateTimed
  <2> QED BY <2>7, <2>8
<1> QED BY <1>5, <1>6
-----------------------------------------------------------------------------
(* Forge: the tasks *)

\* A task keeps the parts of its record.
LEMMA TaskTypes ==
    ASSUME TypeOK, NEW t \in Tasks, task[t] # None
    PROVE  /\ task[t] \in Task
           /\ [task[t] EXCEPT !.res = "cancelled"] \in Task
           /\ [task[t] EXCEPT !.res = "cancelled"].res = "cancelled"
           /\ [task[t] EXCEPT !.stop = TRUE] \in Task
           /\ [task[t] EXCEPT !.stop = TRUE].stop = TRUE
           /\ \A p \in 0..MaxHeight : /\ [task[t] EXCEPT !.res = "block", !.prev = p] \in Task
                                       /\ [task[t] EXCEPT !.res = "block", !.prev = p].res = "block"
<1>1. task[t] \in Task
  BY DEF TypeOK
<1> QED BY <1>1 DEF Task

\* The task that create replaces is told, so that the new one is the only one
\* that waits.
LEMMA CreateStep ==
    ASSUME TypeOK, NobodyForgotten, NEW t \in Tasks, NEW b, create(t, b)
    PROVE  task' \in [Tasks -> {None} \cup Task] /\ NobodyForgotten'
<1> DEFINE fresh == [stop |-> FALSE, res |-> "waits", prev |-> 0]
<1>1. fresh \in Task
  BY ForgeAssumption DEF Task
<1>2. on_block' = t /\ task' = [Cancelled(t) EXCEPT ![t] = fresh]
  BY DEF create
<1>3. /\ Cancelled(t) \in [Tasks -> {None} \cup Task]
      /\ \A u \in Tasks : u = on_block /\ task[u] # None /\ task[u].res = "waits"
                            => Cancelled(t)[u].res = "cancelled"
      /\ \A u \in Tasks : u # on_block => Cancelled(t)[u] = task[u]
      /\ \A u \in Tasks : task[u] = None => Cancelled(t)[u] = None
      /\ \A u \in Tasks : task[u] # None /\ task[u].res # "waits" => Cancelled(t)[u] = task[u]
  BY TaskTypes DEF Cancelled, TypeOK
<1> HIDE DEF fresh
<1>4. task' \in [Tasks -> {None} \cup Task] /\ \A u \in Tasks \ {t} : task'[u] = Cancelled(t)[u]
  BY <1>1, <1>2, <1>3
<1>5. ASSUME NEW u \in Tasks, Waits(u)', ~task'[u].stop, u # t
      PROVE  FALSE
  <2>1. task'[u] = Cancelled(t)[u] /\ task'[u] # None /\ task'[u].res = "waits"
    BY <1>4, <1>5 DEF Waits
  <2>2. task'[u] = task[u] /\ u # on_block
    BY <1>3, <2>1
  <2> QED BY <1>5, <2>1, <2>2 DEF NobodyForgotten, Waits
<1> QED BY <1>2, <1>4, <1>5 DEF NobodyForgotten

\* The block goes to the task that waits for it.
LEMMA PropagateTasks ==
    ASSUME TypeOK, NobodyForgotten, propagate_block
    PROVE  /\ task' \in [Tasks -> {None} \cup Task] /\ bcast' \subseteq Block
           /\ NobodyForgotten'
<1>1. CASE UNCHANGED <<on_block, task, bcast>>
  BY <1>1 DEF TypeOK, NobodyForgotten, Waits
<1>2. CASE /\ best # None /\ UNCHANGED <<on_block, task>>
           /\ bcast' = bcast \cup {best.block}
  <2>1. best.block \in Block
    BY <1>2 DEF TypeOK, Candidate
  <2> QED BY <1>2, <2>1 DEF TypeOK, NobodyForgotten, Waits
<1>3. CASE /\ best # None /\ UNCHANGED bcast
           /\ task' = [u \in Tasks |-> IF u = on_block /\ task[u] # None
                                       THEN [task[u] EXCEPT !.res = "block", !.prev = best.block.prev] ELSE task[u]]
  <2>1. best.block.prev \in 0..MaxHeight
    BY <1>3 DEF TypeOK, Candidate, Block
  <2>2. /\ \A u \in Tasks : u = on_block /\ task[u] # None => task'[u] \in Task /\ task'[u].res = "block"
        /\ \A u \in Tasks : ~(u = on_block /\ task[u] # None) => task'[u] = task[u]
    BY <1>3, <2>1, TaskTypes
  <2>3. task' \in [Tasks -> {None} \cup Task]
    BY <1>3, <2>2 DEF TypeOK
  <2>4. ASSUME NEW u \in Tasks, Waits(u)', ~task'[u].stop
        PROVE  FALSE
    <3>1. task'[u] # None /\ task'[u].res = "waits"
      BY <2>4 DEF Waits
    <3>2. task'[u] = task[u] /\ u # on_block
      BY <2>2, <3>1
    <3> QED BY <2>4, <3>1, <3>2 DEF NobodyForgotten, Waits
  <2> QED BY <1>3, <2>3, <2>4 DEF TypeOK, NobodyForgotten
<1> QED BY <1>1, <1>2, <1>3 DEF propagate_block, TooEarly

\* The one who got the next block leaves its place when it is done.
LEMMA SelectStep ==
    ASSUME TypeOK, NobodyForgotten, NEW t \in Tasks, Select(t)
    PROVE  task' \in [Tasks -> {None} \cup Task] /\ NobodyForgotten'
<1>1. task' = [task EXCEPT ![t] = None] /\ on_block' = IF on_block = t THEN None ELSE on_block
  BY DEF Select
<1>2. /\ task' \in [Tasks -> {None} \cup Task]
      /\ task'[t] = None /\ \A u \in Tasks \ {t} : task'[u] = task[u]
  BY <1>1 DEF TypeOK
<1>3. ASSUME NEW u \in Tasks, Waits(u)', ~task'[u].stop
      PROVE  on_block' = u
  <2>1. u # t /\ task'[u] = task[u] /\ Waits(u)
    BY <1>2, <1>3 DEF Waits
  <2>2. on_block = u
    BY <1>3, <2>1 DEF NobodyForgotten
  <2> QED BY <1>1, <2>1, <2>2
<1> QED BY <1>2, <1>3 DEF NobodyForgotten

\* A new block stops tasks and starts none.
LEMMA NotifyStep ==
    ASSUME TypeOK, NobodyForgotten, NEW uncled \in BOOLEAN, notify(uncled), UNCHANGED on_block
    PROVE  task' \in [Tasks -> {None} \cup Task] /\ NobodyForgotten'
<1>1. task' = [t \in Tasks |-> IF task[t] # None /\ ~uncled THEN [task[t] EXCEPT !.stop = TRUE] ELSE task[t]]
  BY DEF notify
<1>2. /\ \A t \in Tasks : task[t] # None /\ ~uncled => task'[t] \in Task /\ task'[t].stop = TRUE
      /\ \A t \in Tasks : ~(task[t] # None /\ ~uncled) => task'[t] = task[t]
  BY <1>1, TaskTypes
<1>3. task' \in [Tasks -> {None} \cup Task]
  BY <1>1, <1>2 DEF TypeOK
<1>4. ASSUME NEW u \in Tasks, Waits(u)', ~task'[u].stop
      PROVE  on_block' = u
  <2>1. task'[u] = task[u]
    BY <1>2, <1>4
  <2> QED BY <1>4, <2>1 DEF NobodyForgotten, Waits
<1> QED BY <1>3, <1>4 DEF NobodyForgotten

-----------------------------------------------------------------------------
(* Forge: the invariant and the theorems *)

\* A step that leaves the EPoS state and the tasks alone.
LEMMA Elsewhere ==
    ASSUME IInv, head' \in 0..MaxHeight, UNCHANGED <<task, epos, bcast>>
    PROVE  IInv'
  BY DEF IInv, TypeOK, CandidateTimed, NobodyForgotten, Waits, epos

\* A step of the chain: the listeners hear of it, the algorithm does not.
LEMMA AddBlockStep ==
    ASSUME IInv, NEW prev, add_block(prev), UNCHANGED <<epos, bcast>>
    PROVE  IInv'
<1>1. head' \in 0..MaxHeight
  <2>1. head \in 0..MaxHeight /\ MaxHeight \in Nat
    BY ForgeAssumption DEF IInv, TypeOK
  <2>2. (head < MaxHeight /\ head' = head + 1) \/ head' = head
    BY DEF add_block
  <2> QED BY <2>1, <2>2
<1>2. \E uncled \in BOOLEAN : notify(uncled)
  BY DEF add_block
<1>3. task' \in [Tasks -> {None} \cup Task] /\ NobodyForgotten'
  BY <1>2, NotifyStep DEF IInv, epos
<1> QED BY <1>1, <1>3 DEF IInv, TypeOK, CandidateTimed, epos

\* Each step keeps the candidate timed and the tasks known.
LEMMA Invariance == Spec => []IInv
<1>1. Init => IInv
  <2> SUFFICES ASSUME Init PROVE IInv
    OBVIOUS
  <2>1. MaxHeight \in Nat /\ MaxWait \in Nat
    BY ForgeAssumption
  <2>2. TypeOK
    BY <2>1 DEF Init, EPoSInit, TypeOK
  <2> QED BY <2>2 DEF Init, EPoSInit, IInv, CandidateTimed, NobodyForgotten, Waits
<1>2. IInv /\ [Next]_vars => IInv'
  <2> SUFFICES ASSUME IInv, [Next]_vars PROVE IInv'
    OBVIOUS
  <2> USE DEF IInv
  <2>0. head \in 0..MaxHeight /\ MaxHeight \in Nat
    BY ForgeAssumption DEF TypeOK
  <2>1. CASE ForEach
    BY <2>0, <2>1, Elsewhere DEF ForEach
  <2>2. CASE ShouldForge
    BY <2>0, <2>2, Elsewhere DEF ShouldForge
  <2>3. CASE Tick
    <3>1. NobodyForgotten' /\ UNCHANGED <<head, task>>
      BY <2>3 DEF Tick, NobodyForgotten, Waits
    <3> QED BY <2>3, <3>1, TickStep DEF TypeOK
  <2>4. CASE propagate_block
    <3>1. UNCHANGED head
      BY <2>4 DEF propagate_block
    <3> QED BY <2>4, <3>1, PropagateStep, PropagateTasks DEF TypeOK
  <2>5. CASE Submit
    <3>1. UNCHANGED <<epos, bcast>>
      BY <2>5 DEF Submit
    <3>2. CASE add_block(Head(submit))
      BY <3>1, <3>2, AddBlockStep
    <3>3. CASE UNCHANGED <<head, inbox, task, uncles>>
      BY <2>0, <3>1, <3>3, Elsewhere
    <3> QED BY <2>5, <3>2, <3>3 DEF Submit
  <2>6. ASSUME NEW t \in Tasks, fun(t)
        PROVE  IInv'
    <3>1. UNCHANGED <<head, bcast>>
      BY <2>6 DEF fun
    <3>2. CASE UNCHANGED <<task, epos>>
      BY <2>0, <3>1, <3>2, Elsewhere
    <3>3. CASE create(t, [prev |-> head, signers |-> <<>>, age |-> 0])
      <4> DEFINE b == [prev |-> head, signers |-> <<>>, age |-> 0]
      <4>1. b \in Block
        BY <2>0, ForgeAssumption DEF Block
      <4>2. evaluate_block(b)
        BY <3>3 DEF create
      <4> HIDE DEF b
      <4>3. best' \in {None} \cup Candidate /\ timers' \in [0..MaxWait -> Nat] /\ CandidateTimed'
        BY <4>1, <4>2, EvaluateStep
      <4>4. task' \in [Tasks -> {None} \cup Task] /\ NobodyForgotten'
        BY <3>3, CreateStep
      <4> QED BY <3>1, <4>3, <4>4 DEF TypeOK
    <3> QED BY <2>6, <3>2, <3>3 DEF fun
  <2>7. ASSUME NEW t \in Tasks, Select(t)
        PROVE  IInv'
    <3>1. UNCHANGED <<head, best, timers, bcast>>
      BY <2>7 DEF Select
    <3>2. CandidateTimed'
      BY <3>1 DEF CandidateTimed
    <3> QED BY <2>7, <3>1, <3>2, SelectStep DEF TypeOK
  <2>8. ASSUME NEW b \in bcast, SendBroadcast(b)
        PROVE  IInv'
    <3>1. b \in Block /\ bcast' \subseteq Block
      BY <2>8 DEF TypeOK, SendBroadcast
    <3>2. UNCHANGED <<head, task, on_block>> /\ evaluate_block(b)
      BY <2>8 DEF SendBroadcast, receive_broadcast
    <3>3. NobodyForgotten'
      BY <3>2 DEF NobodyForgotten, Waits
    <3> QED BY <3>1, <3>2, <3>3, EvaluateStep DEF TypeOK
  <2>9. ASSUME NEW prev \in 0..MaxHeight, NewBlock(prev)
        PROVE  IInv'
    BY <2>9, AddBlockStep DEF NewBlock
  <2>10. CASE SyncStarts \/ SyncEnds
    BY <2>0, <2>10, Elsewhere DEF SyncStarts, SyncEnds
  <2>11. CASE ImportPkg
    <3>1. UNCHANGED <<epos, bcast>> /\ notify(TRUE) /\ head' = Min({head + 1, MaxHeight})
      BY <2>11 DEF ImportPkg
    <3>2. head' \in 0..MaxHeight
      BY <2>0, <3>1, MinOfTwo
    <3>3. task' \in [Tasks -> {None} \cup Task] /\ NobodyForgotten'
      BY <3>1, NotifyStep DEF epos
    <3> QED BY <3>1, <3>2, <3>3 DEF TypeOK, CandidateTimed, epos
  <2>12. CASE UNCHANGED vars
    BY <2>0, <2>12, Elsewhere DEF vars
  <2> QED BY <2>1, <2>2, <2>3, <2>4, <2>5, <2>6, <2>7, <2>8, <2>9, <2>10, <2>11, <2>12 DEF Next
<1> QED BY <1>1, <1>2, PTL DEF Spec

\* A candidate that waits always has a timer that goes off when it is due or
\* later, whatever arrives, is broadcast or is forged meanwhile.
THEOREM CandidateTimedAlways == Spec => []CandidateTimed
<1>1. IInv => CandidateTimed
  BY DEF IInv
<1> QED BY <1>1, Invariance, PTL

\* Of the forging tasks that nothing has stopped, only the one that gets the
\* next block waits: create tells the one that it replaces.
THEOREM NobodyForgottenAlways == Spec => []NobodyForgotten
<1>1. IInv => NobodyForgotten
  BY DEF IInv
<1> QED BY <1>1, Invariance, PTL

-----------------------------------------------------------------------------
(* Sessions: the invariant *)

\* The strikes that the next check would find.
Due(s) == IF s.ping THEN s.strikes + 1 ELSE s.strikes

\* p's introduction is on its way to q, or q resolves p's address to answer it.
Reintroducing(q) ==
    \/ opening[q].answer > 0
    \/ \E pkt \in net : pkt.to = q /\ pkt.msg = "Introduce"

\* p's ping is on its way to the peer, or the answer on its way back.
Probing(p) ==
    \E pkt \in net : /\ pkt.port = "shard"
                     /\ \/ pkt.to = Peer(p) /\ pkt.msg = "Ping"
                        \/ pkt.to = p /\ pkt.msg = "Pong"

\* Sessions are those of nodes that run.
Kept(p) ==
    /\ p \notin up => sess[p] = Nothing /\ opening[p] = [call |-> 0, answer |-> 0]
    /\ sess[p] # Nothing => /\ sess[p].strikes <= TIMEOUT_TOLERANCE
                            /\ sess[p].ping = TRUE => sess[p].intro = TRUE

\* A strike against a peer that is there was paid for by a fault, and so is the
\* one that is due unless the ping or its answer is still on its way.
Paid(p) ==
    Connected(p) =>
       /\ Reintroducing(Peer(p)) => Due(sess[p]) <= faults
       /\ Connected(Peer(p)) => /\ sess[p].strikes <= faults
                                /\ Due(sess[p]) <= faults \/ Probing(p)

SessionInv == SessionTypeOK /\ \A p \in Peers : Kept(p) /\ Paid(p)

-----------------------------------------------------------------------------
(* Sessions: the operators *)

\* The two nodes are each other's peers.
LEMMA PeerFacts ==
    ASSUME NEW p \in Peers
    PROVE  /\ Peer(p) \in Peers /\ Peer(p) # p
           /\ Peer(Peer(p)) = p
           /\ \A r \in Peers : r = p \/ r = Peer(p)
<1>1. PICK a \in Peers, b \in Peers : a # b /\ Peers = {a, b}
  BY SessionAssumption
<1>2. \A r \in Peers : Peer(r) \in Peers /\ Peer(r) # r
  <2>1. \A r \in Peers : \E q \in Peers : q # r
    BY <1>1
  <2> QED BY <2>1 DEF Peer
<1> QED BY <1>1, <1>2

\* A new session waits for the introduction.
LEMMA NewType == new \in Sessions /\ new.intro = FALSE /\ new.done = Nothing /\ new.strikes = 0 /\ new.ping = FALSE
BY SessionAssumption DEF new, Sessions

\* The fields of a session.
LEMMA SessionFields ==
    ASSUME NEW s \in Sessions
    PROVE  /\ s.intro \in BOOLEAN /\ s.ping \in BOOLEAN
           /\ s.strikes \in Nat /\ s.strikes <= TIMEOUT_TOLERANCE + 1
           /\ s.done \in {Nothing, "Exit", "Timeout"}
           /\ TIMEOUT_TOLERANCE \in Nat
BY SessionAssumption DEF Sessions

\* An introduction clears the strikes unless it is an unsigned repeat.
LEMMA IntroduceFacts ==
    ASSUME NEW p \in Peers, NEW s \in Sessions, NEW pkt \in Packets, NEW r, r = handle_introduce(p, s, pkt)
    PROVE  /\ r.s \in Sessions /\ r.s.intro = TRUE /\ r.s.done = s.done /\ r.s.ping = s.ping
           /\ r.s = s \/ r.s.strikes = 0
           /\ s.intro = FALSE => r.s.strikes = 0
           /\ r.out \subseteq Packets
           /\ \A m \in r.out : m.to = Peer(p) /\ m.msg = "Introduce" /\ s.intro = FALSE
<1> DEFINE t == [s EXCEPT !.intro = TRUE, !.strikes = 0]
<1>0. s.intro \in BOOLEAN /\ 0 \in 0..TIMEOUT_TOLERANCE + 1
  BY SessionFields
<1>1. t \in Sessions
  BY <1>0 DEF Sessions
<1>2. t.intro = TRUE /\ t.done = s.done /\ t.ping = s.ping /\ t.strikes = 0
  BY DEF Sessions
<1> HIDE DEF t
<1>3. /\ send_introduce(p, t) \in Packets
      /\ send_introduce(p, t).to = Peer(p) /\ send_introduce(p, t).msg = "Introduce"
  BY <1>2, PeerFacts DEF send_introduce, send, Packets
<1>4. CASE s.intro = TRUE
  <2>1. r.s \in {s, t} /\ r.out = {}
    BY <1>4 DEF handle_introduce, Result, t
  <2> QED BY <1>1, <1>2, <1>4, <2>1
<1>5. CASE s.intro = FALSE
  <2>1. r = [s |-> t, out |-> {send_introduce(p, t)}]
    BY <1>5 DEF handle_introduce, Result, t
  <2>2. r.s = t /\ r.out = {send_introduce(p, t)}
    BY <2>1
  <2> QED BY <1>1, <1>2, <1>3, <1>5, <2>2
<1> QED BY <1>0, <1>4, <1>5

\* What a session makes of a packet other than an introduction.
Handled(p, s, pkt, r) ==
    /\ r.s \in Sessions /\ r.s.intro = s.intro
    /\ \/ r.s.strikes = s.strikes /\ r.s.ping = s.ping
       \/ r.s.strikes = 0 /\ r.s.ping = FALSE
    /\ r.out \subseteq Packets
    /\ \A m \in r.out : m.to = Peer(p) /\ m.msg # "Introduce"
    /\ r.s.done = Nothing =>
         /\ s.done = Nothing /\ s.intro = TRUE
         /\ pkt.msg = "Pong" => r.s.ping = FALSE
         /\ pkt.msg = "Ping" => \E m \in r.out : m.to = Peer(p) /\ m.port = "shard" /\ m.msg = "Pong"

\* recv answers a ping and clears the strikes at a pong.
LEMMA RecvFacts ==
    ASSUME NEW p \in Peers, NEW s \in Sessions, NEW pkt \in Packets, pkt.msg # "Introduce",
           NEW r, r = recv(p, s, pkt)
    PROVE  Handled(p, s, pkt, r)
<1> USE DEF Handled
<1>0. s.intro \in BOOLEAN /\ s.ping \in BOOLEAN /\ Nothing # "Exit"
  BY SessionFields, NothingAssumption
<1> DEFINE gone == [s EXCEPT !.done = "Exit"]
<1>a. gone \in Sessions
  BY DEF Sessions
<1>b. gone.intro = s.intro /\ gone.ping = s.ping /\ gone.strikes = s.strikes /\ gone.done = "Exit"
  BY DEF Sessions
<1>1. CASE s.done # Nothing
  <2>1. r.s = s /\ r.out = {}
    BY <1>1 DEF recv, Result
  <2> QED BY <1>1, <2>1
<1>2. CASE s.done = Nothing /\ s.intro = FALSE
  <2>1. r.s = gone /\ r.out = {}
    BY <1>2 DEF recv, Result
  <2> HIDE DEF gone
  <2> QED BY <1>0, <1>a, <1>b, <2>1
<1>3. CASE s.done = Nothing /\ s.intro = TRUE
  <2>0. r = handle(p, s, pkt)
    BY <1>3 DEF recv
  <2>1. CASE pkt.msg = "Ping"
    <3> DEFINE m == [to |-> Peer(p), port |-> "shard", signed |-> FALSE, msg |-> "Pong"]
    <3>1. r.s = s /\ r.out = {m}
      BY <1>3, <2>0, <2>1 DEF handle, Result, send
    <3>2. m \in Packets /\ m.to = Peer(p) /\ m.msg = "Pong" /\ m.port = "shard"
      BY PeerFacts DEF Packets
    <3> HIDE DEF m
    <3> QED BY <1>3, <2>1, <3>1, <3>2
  <2>2. CASE pkt.msg = "Pong"
    <3> DEFINE t == [s EXCEPT !.ping = FALSE, !.strikes = 0]
    <3>1. r.s = (IF s.ping = TRUE THEN t ELSE s) /\ r.out = {}
      BY <1>0, <2>0, <2>2 DEF handle, Result, recv_ping
    <3>2. t \in Sessions
      <4>1. 0 \in 0..TIMEOUT_TOLERANCE + 1
        BY SessionFields
      <4> QED BY <4>1 DEF Sessions
    <3>3. t.ping = FALSE /\ t.strikes = 0 /\ t.intro = s.intro
      BY DEF Sessions
    <3> HIDE DEF t
    <3> QED BY <1>0, <1>3, <2>2, <3>1, <3>2, <3>3
  <2>3. CASE pkt.msg = "Bye"
    <3> DEFINE m == [to |-> Peer(p), port |-> "shard", signed |-> FALSE, msg |-> "Bye"]
    <3>1. r.s = gone /\ r.out = {m}
      BY <1>3, <2>0, <2>3 DEF handle, close, Result, send
    <3>2. m \in Packets /\ m.to = Peer(p) /\ m.msg = "Bye"
      BY PeerFacts DEF Packets
    <3> HIDE DEF gone, m
    <3> QED BY <1>0, <1>a, <1>b, <3>1, <3>2
  <2>4. CASE pkt.msg = "Broadcast"
    <3>1. r.s = s /\ r.out = {}
      BY <2>0, <2>4 DEF handle, Result
    <3> QED BY <1>3, <2>4, <3>1
  <2> QED BY <2>1, <2>2, <2>3, <2>4 DEF Packets
<1> QED BY <1>0, <1>1, <1>2, <1>3

\* Struck sets the strikes, and ends the session when they are too many.
LEMMA StruckFacts ==
    ASSUME NEW s \in Sessions, NEW k \in Nat, k <= TIMEOUT_TOLERANCE + 1
    PROVE  /\ Struck(s, k) \in Sessions
           /\ Struck(s, k).intro = s.intro /\ Struck(s, k).ping = s.ping /\ Struck(s, k).strikes = k
           /\ k > TIMEOUT_TOLERANCE => Struck(s, k).done # Nothing
           /\ ~(k > TIMEOUT_TOLERANCE) => Struck(s, k).done = Nothing
<1>0. k \in 0..TIMEOUT_TOLERANCE + 1
  BY SessionFields
<1> DEFINE d == IF k > TIMEOUT_TOLERANCE THEN "Timeout" ELSE Nothing
<1>1. d \in {Nothing, "Exit", "Timeout"}
  OBVIOUS
<1>2. Struck(s, k) = [s EXCEPT !.strikes = k, !.done = d]
  BY DEF Struck
<1>3. (k > TIMEOUT_TOLERANCE => d # Nothing) /\ (~(k > TIMEOUT_TOLERANCE) => d = Nothing)
  BY NothingAssumption
<1> HIDE DEF d
<1>4. Struck(s, k) \in Sessions
  BY <1>0, <1>1, <1>2 DEF Sessions
<1>5. Struck(s, k).intro = s.intro /\ Struck(s, k).ping = s.ping
  BY <1>2 DEF Sessions
<1>6. Struck(s, k).strikes = k /\ Struck(s, k).done = d
  BY <1>2 DEF Sessions
<1> QED BY <1>3, <1>4, <1>5, <1>6

\* What a check makes of a session: it ends, or what is due is struck and a
\* ping goes out.
Checked(p, s, r) ==
    /\ r.out \subseteq Packets
    /\ \A m \in r.out : m.to = Peer(p) /\ m.msg \in {"Introduce", "Ping"}
    /\ s.done = Nothing /\ s.intro = TRUE => \A m \in r.out : m.msg = "Ping"
    /\ r.s.done = Nothing => /\ r.s \in Sessions /\ r.s.strikes <= TIMEOUT_TOLERANCE
                             /\ r.s.intro = s.intro /\ s.done = Nothing
                             /\ r.s.ping = TRUE => s.intro = TRUE
    /\ r.s.done = Nothing /\ s.intro = TRUE =>
         /\ r.s.strikes = Due(s) /\ r.s.ping = TRUE
         /\ \E m \in r.out : m.to = Peer(p) /\ m.port = "shard" /\ m.msg = "Ping"
    /\ r.s.done # Nothing /\ s.intro = TRUE /\ s.done = Nothing => Due(s) > TIMEOUT_TOLERANCE

\* check_conn strikes out a session only when too much is due.
LEMMA CheckFacts ==
    ASSUME NEW p \in Peers, NEW s \in Sessions, s.strikes <= TIMEOUT_TOLERANCE, s.ping = TRUE => s.intro = TRUE,
           NEW r, r = check_conn(p, s)
    PROVE  Checked(p, s, r)
<1> USE DEF Checked
<1>0. s.strikes \in Nat /\ s.intro \in BOOLEAN /\ s.ping \in BOOLEAN /\ TIMEOUT_TOLERANCE \in Nat
  BY SessionFields
<1>1. CASE s.done # Nothing
  <2>1. r.s = s /\ r.out = {}
    BY <1>1 DEF check_conn, Result
  <2> QED BY <1>1, <2>1
<1>2. CASE s.done = Nothing /\ s.intro = FALSE
  <2> DEFINE t == Struck(s, s.strikes + 1)
  <2> DEFINE m == [to |-> Peer(p), port |-> "open", signed |-> FALSE, msg |-> "Introduce"]
  <2>1. r.s = t /\ r.out = {m}
    BY <1>2 DEF check_conn, Result, send
  <2>2. s.strikes + 1 \in Nat /\ s.strikes + 1 <= TIMEOUT_TOLERANCE + 1
    BY <1>0
  <2>3. /\ t \in Sessions /\ t.intro = s.intro /\ t.ping = s.ping /\ t.strikes = s.strikes + 1
        /\ s.strikes + 1 > TIMEOUT_TOLERANCE => t.done # Nothing
    BY <2>2, StruckFacts
  <2>4. m \in Packets /\ m.to = Peer(p) /\ m.msg = "Introduce"
    BY PeerFacts DEF Packets
  <2> HIDE DEF t, m
  <2>5. r.s.done = Nothing => r.s.strikes <= TIMEOUT_TOLERANCE
    BY <1>0, <2>1, <2>3
  <2> QED BY <1>0, <1>2, <2>1, <2>3, <2>4, <2>5
<1>3. CASE s.done = Nothing /\ s.intro = TRUE
  <2> DEFINE t == Struck(s, Due(s))
  <2> DEFINE u == [t EXCEPT !.ping = TRUE]
  <2> DEFINE m == [to |-> Peer(p), port |-> "shard", signed |-> FALSE, msg |-> "Ping"]
  <2>0. Due(s) \in Nat /\ Due(s) <= TIMEOUT_TOLERANCE + 1
    BY <1>0 DEF Due
  <2>1. /\ t \in Sessions /\ t.intro = s.intro /\ t.strikes = Due(s)
        /\ Due(s) > TIMEOUT_TOLERANCE => t.done # Nothing
        /\ ~(Due(s) > TIMEOUT_TOLERANCE) => t.done = Nothing
    BY <2>0, StruckFacts
  <2>2. r = IF t.done # Nothing THEN [s |-> t, out |-> {}] ELSE [s |-> u, out |-> {m}]
    BY <1>3 DEF check_conn, Result, Due, send
  <2>3. m \in Packets /\ m.to = Peer(p) /\ m.msg = "Ping" /\ m.port = "shard"
    BY PeerFacts DEF Packets
  <2> HIDE DEF t
  <2>4. u \in Sessions
    BY <2>1 DEF Sessions
  <2>5. u.ping = TRUE /\ u.strikes = Due(s) /\ u.intro = s.intro /\ u.done = t.done
    BY <2>1 DEF Sessions
  <2> HIDE DEF u, m
  <2>6. CASE Due(s) > TIMEOUT_TOLERANCE
    <3>1. r.s = t /\ r.out = {} /\ t.done # Nothing
      BY <2>1, <2>2, <2>6
    <3> QED BY <2>6, <3>1
  <2>7. CASE ~(Due(s) > TIMEOUT_TOLERANCE)
    <3>1. r.s = u /\ r.out = {m} /\ t.done = Nothing
      BY <2>1, <2>2, <2>7
    <3>2. u.strikes <= TIMEOUT_TOLERANCE
      BY <1>0, <2>0, <2>5, <2>7
    <3> QED BY <1>3, <2>3, <2>4, <2>5, <3>1, <3>2
  <2> QED BY <2>6, <2>7
<1> QED BY <1>0, <1>1, <1>2, <1>3

-----------------------------------------------------------------------------
(* Sessions: the steps *)

\* What a step may do to an introduced session, as NoFalseTimeout has it.
Fair(p) ==
    Connected(p) /\ sess'[p] = Nothing /\ p \in up'
       => ~Connected(Peer(p)) \/ faults' > TIMEOUT_TOLERANCE

\* The state of one node.
LEMMA NodeFacts ==
    ASSUME SessionTypeOK, NEW p \in Peers
    PROVE  /\ sess[p] = Nothing \/ sess[p] \in Sessions
           /\ opening[p].call \in 0..MaxOpening /\ opening[p].answer \in 0..MaxOpening
           /\ opening[p] = [call |-> opening[p].call, answer |-> opening[p].answer]
           /\ faults \in Nat /\ MaxFaults \in Nat /\ MaxOpening \in Nat /\ TIMEOUT_TOLERANCE \in Nat
BY SessionAssumption DEF SessionTypeOK

\* The count of faults.
LEMMA FaultsFacts ==
    ASSUME SessionTypeOK
    PROVE  faults \in Nat /\ MaxFaults \in Nat /\ faults <= MaxFaults /\ faults <= faults
BY SessionAssumption DEF SessionTypeOK

\* A session that a step leaves alone stays paid for, if the peer was there or
\* was being introduced, and if it costs a fault to end a probe.
LEMMA PaidKept ==
    ASSUME SessionTypeOK, SessionTypeOK', NEW p \in Peers, Paid(p), sess'[p] = sess[p], faults <= faults',
           Reintroducing(Peer(p))' => Reintroducing(Peer(p)),
           Connected(Peer(p))' => Connected(Peer(p)) \/ Reintroducing(Peer(p)),
           Connected(p) /\ Connected(Peer(p))' /\ Probing(p) => Probing(p)' \/ faults < faults'
    PROVE  Paid(p)'
<1> SUFFICES ASSUME Connected(p)'
             PROVE  /\ Reintroducing(Peer(p))' => Due(sess'[p]) <= faults'
                    /\ Connected(Peer(p))' => /\ sess'[p].strikes <= faults'
                                              /\ Due(sess'[p]) <= faults' \/ Probing(p)'
  BY DEF Paid, Due
<1>1. Connected(p)
  BY DEF Connected
<1>2. sess[p] \in Sessions /\ faults \in Nat /\ faults' \in Nat
  BY <1>1, NodeFacts, SessionAssumption DEF Connected, SessionTypeOK
<1>3. /\ sess[p].strikes \in Nat /\ Due(sess[p]) \in Nat
      /\ sess[p].strikes <= Due(sess[p]) /\ Due(sess[p]) <= sess[p].strikes + 1
  BY <1>2, SessionFields DEF Due
<1>4. Reintroducing(Peer(p)) => Due(sess[p]) <= faults
  BY <1>1 DEF Paid
<1>5. Connected(Peer(p)) => sess[p].strikes <= faults /\ (Due(sess[p]) <= faults \/ Probing(p))
  BY <1>1 DEF Paid
<1> QED BY <1>1, <1>2, <1>3, <1>4, <1>5

\* A step of node r: what there is to show of r, and of what r's peer sees of it.
LEMMA NodeStep ==
    ASSUME SessionInv, SessionTypeOK', NEW r \in Peers,
           sess'[Peer(r)] = sess[Peer(r)], opening'[Peer(r)] = opening[Peer(r)],
           Peer(r) \in up <=> Peer(r) \in up', faults <= faults',
           Reintroducing(r)' => Reintroducing(r),
           Connected(r)' => Connected(r) \/ Reintroducing(r),
           Connected(Peer(r)) /\ Connected(r)' /\ Probing(Peer(r)) => Probing(Peer(r))' \/ faults < faults',
           Kept(r)', Paid(r)', Fair(r)
    PROVE  SessionInv' /\ \A p \in Peers : Fair(p)
<1> DEFINE q == Peer(r)
<1>1. q \in Peers /\ Peer(q) = r /\ \A p \in Peers : p = r \/ p = q
  BY PeerFacts
<1>2. Kept(q)'
  BY <1>1 DEF SessionInv, Kept
<1>3. Paid(q)'
  <2>1. SessionTypeOK /\ Paid(q)
    BY <1>1 DEF SessionInv
  <2> HIDE DEF q
  <2> QED BY <1>1, <2>1, PaidKept DEF q
<1>4. Fair(q)
  <2>1. Connected(q) => sess'[q] # Nothing
    BY DEF Connected
  <2> QED BY <2>1 DEF Fair
<1> HIDE DEF q
<1> QED BY <1>1, <1>2, <1>3, <1>4 DEF SessionInv

\* A step of node r that leaves its session alone.
LEMMA IdleStep ==
    ASSUME SessionInv, SessionTypeOK', NEW r \in Peers, sess' = sess,
           opening'[Peer(r)] = opening[Peer(r)], Peer(r) \in up <=> Peer(r) \in up', faults <= faults',
           r \in up \/ (r \notin up' => opening'[r] = opening[r]), r \in up => r \in up',
           \A p \in Peers : Reintroducing(p)' => Reintroducing(p),
           \A p \in Peers : Connected(p) /\ Connected(Peer(p)) /\ Probing(p) => Probing(p)' \/ faults < faults'
    PROVE  SessionInv' /\ \A p \in Peers : Fair(p)
<1>1. SessionTypeOK /\ Kept(r) /\ Paid(r) /\ Peer(r) \in Peers /\ Peer(Peer(r)) = r
  BY PeerFacts DEF SessionInv
<1>2. Connected(r)' = Connected(r) /\ Connected(Peer(r))' = Connected(Peer(r))
  BY DEF Connected
<1>3. Kept(r)'
  BY <1>1 DEF Kept
<1>4. Paid(r)'
  BY <1>1, <1>2, PaidKept
<1>5. Fair(r)
  BY DEF Fair, Connected
<1> QED BY <1>1, <1>2, <1>3, <1>4, <1>5, NodeStep

\* node_scan only counts a call.
LEMMA ScanStep ==
    ASSUME SessionInv, NEW r \in Peers, node_scan(r)
    PROVE  SessionInv' /\ \A p \in Peers : Fair(p)
<1>0. SessionTypeOK /\ r \in up /\ Peer(r) \in Peers /\ Peer(r) # r
  BY PeerFacts DEF SessionInv, node_scan
<1>1. opening' = [opening EXCEPT ![r]["call"] = @ + 1] /\ opening[r]["call"] < MaxOpening
  BY DEF node_scan, open_session
<1>2. opening' \in [Peers -> [call : 0..MaxOpening, answer : 0..MaxOpening]]
  BY <1>0, <1>1, NodeFacts DEF SessionTypeOK
<1>3. /\ opening'[Peer(r)] = opening[Peer(r)]
      /\ \A p \in Peers : opening'[p].answer = opening[p].answer
  BY <1>0, <1>1 DEF SessionTypeOK
<1>4. UNCHANGED <<up, sess, unsent, net, faults, events>>
  BY DEF node_scan
<1>5. SessionTypeOK'
  BY <1>0, <1>2, <1>4 DEF SessionTypeOK
<1>6. faults <= faults'
  BY <1>0, <1>4, FaultsFacts
<1>7. \A p \in Peers : Reintroducing(p)' => Reintroducing(p)
  BY <1>3, <1>4 DEF Reintroducing
<1>8. \A p \in Peers : Probing(p) => Probing(p)'
  BY <1>4 DEF Probing
<1> QED BY <1>0, <1>3, <1>4, <1>5, <1>6, <1>7, <1>8, IdleStep

\* An address that is not resolved costs a fault.
LEMMA ResolveFailsStep ==
    ASSUME SessionInv, NEW r \in Peers, NEW why \in {"call", "answer"}, ResolveFails(r, why)
    PROVE  SessionInv' /\ \A p \in Peers : Fair(p)
<1>0. SessionTypeOK /\ Peer(r) \in Peers /\ Peer(r) # r
  BY PeerFacts DEF SessionInv
<1>1. opening' = [opening EXCEPT ![r][why] = @ - 1] /\ opening[r][why] > 0
  BY DEF ResolveFails
<1>2. opening' \in [Peers -> [call : 0..MaxOpening, answer : 0..MaxOpening]]
  <2>1. CASE why = "call"
    BY <1>0, <1>1, <2>1, NodeFacts DEF SessionTypeOK
  <2>2. CASE why = "answer"
    BY <1>0, <1>1, <2>2, NodeFacts DEF SessionTypeOK
  <2> QED BY <2>1, <2>2
<1>3. opening'[Peer(r)] = opening[Peer(r)]
  BY <1>0, <1>1 DEF SessionTypeOK
<1>4. \A p \in Peers : opening'[p].answer > 0 => opening[p].answer > 0
  <2>1. CASE why = "call"
    BY <1>0, <1>1, <2>1, NodeFacts DEF SessionTypeOK
  <2>2. CASE why = "answer"
    BY <1>0, <1>1, <2>2, NodeFacts DEF SessionTypeOK
  <2> QED BY <2>1, <2>2
<1>5. /\ UNCHANGED <<up, sess, unsent, net, events>>
      /\ faults < MaxFaults /\ faults' = faults + 1
  BY DEF ResolveFails
<1>6. r \in up
  <2>1. r \notin up => opening[r].call = 0 /\ opening[r].answer = 0
    BY DEF SessionInv, Kept
  <2> QED BY <1>0, <1>1, <2>1, NodeFacts
<1>7. faults' \in 0..MaxFaults /\ faults <= faults' /\ faults < faults'
  BY <1>0, <1>5, FaultsFacts
<1>8. SessionTypeOK'
  BY <1>0, <1>2, <1>5, <1>7 DEF SessionTypeOK
<1>9. \A p \in Peers : Reintroducing(p)' => Reintroducing(p)
  BY <1>4, <1>5 DEF Reintroducing
<1> QED BY <1>0, <1>3, <1>5, <1>6, <1>7, <1>8, <1>9, IdleStep

\* A broadcast neither introduces nor answers.
LEMMA FloodStep ==
    ASSUME SessionInv, NEW r \in Peers, reliable_flood(r)
    PROVE  SessionInv' /\ \A p \in Peers : Fair(p)
<1>0. SessionTypeOK /\ r \in up /\ Peer(r) \in Peers /\ Peer(r) # r
  BY PeerFacts DEF SessionInv, reliable_flood
<1>1. UNCHANGED <<up, sess, opening, faults>> /\ events < MaxUpsets /\ events' = events + 1
  BY DEF reliable_flood, Event
<1>2. /\ unsent' \in [Peers -> BOOLEAN]
      /\ net \subseteq net' /\ net' \subseteq Packets
      /\ \A m \in net' : m \in net \/ m.msg = "Broadcast"
  <2>1. CASE sess[r] = Nothing /\ unsent' = [unsent EXCEPT ![r] = TRUE] /\ UNCHANGED net
    BY <1>0, <2>1 DEF SessionTypeOK
  <2>2. CASE sess[r] # Nothing /\ net' = net \cup {send(r, sess[r], "Broadcast", TRUE)} /\ UNCHANGED unsent
    <3>1. /\ send(r, sess[r], "Broadcast", TRUE) \in Packets
          /\ send(r, sess[r], "Broadcast", TRUE).msg = "Broadcast"
      BY <1>0 DEF send, Packets
    <3> QED BY <1>0, <2>2, <3>1 DEF SessionTypeOK
  <2> QED BY <2>1, <2>2 DEF reliable_flood
<1>3. events' \in 0..MaxUpsets
  BY <1>0, <1>1, SessionAssumption DEF SessionTypeOK
<1>4. SessionTypeOK'
  BY <1>0, <1>1, <1>2, <1>3 DEF SessionTypeOK
<1>5. faults <= faults'
  BY <1>0, <1>1, FaultsFacts
<1>6. \A p \in Peers : Reintroducing(p)' => Reintroducing(p)
  BY <1>1, <1>2 DEF Reintroducing
<1>7. \A p \in Peers : Probing(p) => Probing(p)'
  BY <1>2 DEF Probing
<1> QED BY <1>0, <1>1, <1>4, <1>5, <1>6, <1>7, IdleStep

\* A node that starts has no session yet.
LEMMA StartStep ==
    ASSUME SessionInv, NEW r \in Peers, Start(r)
    PROVE  SessionInv' /\ \A p \in Peers : Fair(p)
<1>0. SessionTypeOK /\ Peer(r) \in Peers /\ Peer(r) # r
  BY PeerFacts DEF SessionInv
<1>1. UNCHANGED <<sess, opening, unsent, net, faults, events>> /\ up' = up \cup {r} /\ r \notin up
  BY DEF Start
<1>2. SessionTypeOK'
  BY <1>0, <1>1 DEF SessionTypeOK
<1>3. faults <= faults'
  BY <1>0, <1>1, FaultsFacts
<1>4. \A p \in Peers : (Reintroducing(p)' => Reintroducing(p)) /\ (Probing(p) => Probing(p)')
  BY <1>1 DEF Reintroducing, Probing
<1> QED BY <1>0, <1>1, <1>2, <1>3, <1>4, IdleStep

\* A packet that is lost costs a fault, unless nobody was there to get it.
LEMMA LoseStep ==
    ASSUME SessionInv, NEW pkt \in net, Lose(pkt)
    PROVE  SessionInv' /\ \A p \in Peers : Fair(p)
<1>0. SessionTypeOK /\ pkt \in Packets
  BY DEF SessionInv, SessionTypeOK
<1> DEFINE r == pkt.to
<1>1. r \in Peers /\ Peer(r) \in Peers /\ Peer(r) # r
  BY <1>0, PeerFacts DEF Packets
<1>2. /\ UNCHANGED <<up, sess, opening, unsent, events>> /\ net' = net \ {pkt}
      /\ r \in up => faults < MaxFaults
      /\ faults' = IF r \in up THEN faults + 1 ELSE faults
  BY DEF Lose
<1> HIDE DEF r
<1>3. faults' \in 0..MaxFaults /\ faults <= faults' /\ (r \in up => faults < faults')
  <2>1. faults \in 0..MaxFaults /\ MaxFaults \in Nat
    BY <1>0, SessionAssumption DEF SessionTypeOK
  <2>2. CASE r \in up
    BY <1>2, <2>1, <2>2
  <2>3. CASE r \notin up
    BY <1>2, <2>1, <2>3
  <2> QED BY <2>2, <2>3
<1>4. SessionTypeOK'
  BY <1>0, <1>2, <1>3 DEF SessionTypeOK
<1>5. \A p \in Peers : Reintroducing(p)' => Reintroducing(p)
  BY <1>2 DEF Reintroducing
<1>6. ASSUME NEW p \in Peers, Connected(p), Connected(Peer(p)), Probing(p)
      PROVE  Probing(p)' \/ faults < faults'
  <2>1. p \in up /\ Peer(p) \in up /\ Peer(p) \in Peers
    BY <1>6, PeerFacts DEF SessionInv, Kept, Connected
  <2>2. r = p \/ r = Peer(p)
    BY <1>1, PeerFacts
  <2> QED BY <1>3, <2>1, <2>2
<1> QED BY <1>1, <1>2, <1>3, <1>4, <1>5, <1>6, IdleStep

\* A session that was opened waits for an introduction again.
LEMMA OpenedStep ==
    ASSUME SessionInv, NEW r \in Peers, Opened(r)
    PROVE  SessionInv' /\ \A p \in Peers : Fair(p)
<1> DEFINE q == Peer(r)
           m == [to |-> q, port |-> "open", signed |-> TRUE, msg |-> "Introduce"]
<1>0. SessionTypeOK /\ q \in Peers /\ q # r
  BY PeerFacts DEF SessionInv
<1>1. /\ opening[r].call > 0 /\ opening' = [opening EXCEPT ![r].call = @ - 1]
      /\ sess' = [sess EXCEPT ![r] = new]
      /\ UNCHANGED <<up, unsent, faults, events>>
  BY DEF Opened
<1>2. net' = net \cup {m} /\ m \in Packets
  <2>1. send_introduce(r, new) = m
    BY NewType DEF send_introduce, send
  <2>2. m \in Packets
    BY <1>0 DEF Packets
  <2> HIDE DEF m
  <2> QED BY <2>1, <2>2 DEF Opened
<1>3. m.to = q /\ m.msg = "Introduce"
  OBVIOUS
<1> HIDE DEF m, q
<1>4. opening' \in [Peers -> [call : 0..MaxOpening, answer : 0..MaxOpening]]
  BY <1>0, <1>1, NodeFacts DEF SessionTypeOK
<1>5. /\ opening'[q] = opening[q] /\ opening'[r].answer = opening[r].answer
  BY <1>0, <1>1 DEF SessionTypeOK
<1>6. sess'[q] = sess[q] /\ sess'[r] = new
  BY <1>0, <1>1 DEF SessionTypeOK
<1>7. sess' \in [Peers -> {Nothing} \cup Sessions]
  BY <1>0, <1>1, NewType DEF SessionTypeOK
<1>8. SessionTypeOK'
  BY <1>0, <1>1, <1>2, <1>4, <1>7 DEF SessionTypeOK
<1>9. r \in up /\ r \in up'
  <2>1. r \notin up => opening[r].call = 0
    BY DEF SessionInv, Kept
  <2> QED BY <1>0, <1>1, <2>1, NodeFacts
<1>10. ~Connected(r)'
  BY <1>6, NewType DEF Connected
<1>11. Kept(r)' /\ Paid(r)' /\ Fair(r)
  <2>1. new # Nothing /\ TIMEOUT_TOLERANCE >= 0
    BY NewType, NothingAssumption, SessionAssumption
  <2>2. new.strikes <= TIMEOUT_TOLERANCE /\ new.ping = FALSE
    BY NewType, SessionAssumption
  <2>3. Kept(r)'
    BY <1>6, <1>9, <2>2 DEF Kept
  <2> QED BY <1>6, <1>10, <2>1, <2>3 DEF Paid, Fair
<1>12. Reintroducing(r)' => Reintroducing(r)
  BY <1>0, <1>2, <1>3, <1>5 DEF Reintroducing
<1>13. faults <= faults'
  BY <1>0, <1>1, FaultsFacts
<1> QED BY <1>0, <1>1, <1>5, <1>6, <1>8, <1>10, <1>11, <1>12, <1>13, NodeStep DEF q

\* An introduction that is handled: the session of r is clean, or only its
\* strikes are cleared.
LEMMA IntroducedStep ==
    ASSUME SessionInv, NEW r \in Peers, NEW s \in Sessions, NEW pkt \in Packets, NEW others,
           Introduced(r, s, pkt, others), UNCHANGED <<up, events>>,
           others \subseteq net, \A m \in net : m \in others \/ m.msg = "Introduce",
           s = new \/ s = sess[r], r \in up, Reintroducing(r),
           opening' \in [Peers -> [call : 0..MaxOpening, answer : 0..MaxOpening]],
           opening'[Peer(r)] = opening[Peer(r)], opening'[r].answer > 0 => opening[r].answer > 0,
           faults' \in 0..MaxFaults, faults <= faults'
    PROVE  SessionInv' /\ \A p \in Peers : Fair(p)
<1> DEFINE q == Peer(r)
           h == handle_introduce(r, s, pkt)
           b == IF unsent[r] THEN {send(r, h.s, "Broadcast", TRUE)} ELSE {}
<1>0. SessionTypeOK /\ q \in Peers /\ q # r /\ Peer(q) = r
  BY PeerFacts DEF SessionInv
<1>1. /\ sess' = [sess EXCEPT ![r] = h.s]
      /\ net' = others \cup h.out \cup b
      /\ unsent' = [unsent EXCEPT ![r] = FALSE]
  BY DEF Introduced
<1>2. /\ h.s \in Sessions /\ h.s.intro = TRUE /\ h.s.done = s.done /\ h.s.ping = s.ping
      /\ h.s = s \/ h.s.strikes = 0
      /\ s.intro = FALSE => h.s.strikes = 0
      /\ h.out \subseteq Packets
      /\ \A m \in h.out : m.to = q /\ m.msg = "Introduce" /\ s.intro = FALSE
  BY IntroduceFacts, ZenonT(30)
<1>3. b \subseteq Packets /\ \A m \in b : m.msg = "Broadcast"
  <2>1. send(r, h.s, "Broadcast", TRUE) \in Packets /\ send(r, h.s, "Broadcast", TRUE).msg = "Broadcast"
    BY <1>0 DEF send, Packets
  <2> HIDE DEF h
  <2> QED BY <2>1
<1> HIDE DEF q, h, b
<1>4. sess' \in [Peers -> {Nothing} \cup Sessions] /\ sess'[q] = sess[q] /\ sess'[r] = h.s
  BY <1>0, <1>1, <1>2 DEF SessionTypeOK
<1>5. SessionTypeOK'
  <2>1. unsent' \in [Peers -> BOOLEAN]
    BY <1>0, <1>1 DEF SessionTypeOK
  <2>2. net' \subseteq Packets
    BY <1>0, <1>1, <1>2, <1>3 DEF SessionTypeOK
  <2> QED BY <1>0, <1>4, <2>1, <2>2 DEF SessionTypeOK
<1>6. Reintroducing(r)' => Reintroducing(r)
  OBVIOUS
<1>7. \A p \in Peers : Probing(p) => Probing(p)'
  <2>1. \A m \in net : m.msg # "Introduce" => m \in net'
    BY <1>1
  <2> QED BY <2>1 DEF Probing
<1>8. /\ s.strikes <= TIMEOUT_TOLERANCE /\ s.strikes \in Nat /\ s.intro \in BOOLEAN /\ s.ping \in BOOLEAN
      /\ s.ping = TRUE => s.intro = TRUE
  <2>1. CASE s = new
    BY <2>1, NewType, SessionFields
  <2>2. CASE s = sess[r]
    BY <2>2, NothingAssumption, SessionFields DEF SessionInv, Kept
  <2> QED BY <2>1, <2>2
<1>9. h.s # Nothing /\ TIMEOUT_TOLERANCE \in Nat
  BY <1>2, NothingAssumption, SessionAssumption
<1>10. Kept(r)'
  <2>1. h.s.strikes <= TIMEOUT_TOLERANCE
    BY <1>2, <1>8, <1>9
  <2> QED BY <1>2, <1>4, <2>1 DEF Kept
<1>11. Fair(r)
  BY <1>4, <1>9 DEF Fair
<1>12. Paid(r)'
  <2> SUFFICES ASSUME Connected(r)' PROVE Paid(r)'
    BY DEF Paid
  <2>1. faults \in Nat /\ faults' \in Nat
    BY <1>0, <1>5, FaultsFacts, SessionAssumption DEF SessionTypeOK
  <2>2. CASE s.intro = FALSE
    <3>1. h.s.strikes = 0 /\ h.s.ping = FALSE
      BY <1>2, <1>8, <2>2
    <3>2. Due(h.s) = 0
      BY <3>1 DEF Due
    <3> QED BY <1>4, <2>1, <3>1, <3>2 DEF Paid, Due
  <2>3. CASE s.intro = TRUE
    <3>1. s = sess[r] /\ Connected(r)
      BY <1>2, <1>4, <2>3, NewType, NothingAssumption DEF Connected
    <3>2. /\ h.s.strikes \in Nat /\ h.s.strikes <= s.strikes /\ Due(h.s) <= Due(s)
          /\ Due(h.s) \in Nat /\ Due(s) \in Nat
      BY <1>2, <1>8 DEF Due
    <3>3. Reintroducing(q)' => Reintroducing(q)
      <4>1. h.out = {}
        BY <1>2, <2>3
      <4>2. \A m \in net' : m \in net \/ m.msg = "Broadcast"
        BY <1>1, <1>3, <4>1
      <4> QED BY <4>2 DEF Reintroducing, q
    <3>4. Connected(q)' = Connected(q)
      BY <1>4 DEF Connected
    <3>5. /\ Reintroducing(q) => Due(s) <= faults
          /\ Connected(q) => s.strikes <= faults /\ (Due(s) <= faults \/ Probing(r))
      BY <3>1 DEF SessionInv, Paid, q
    <3>6. Reintroducing(q)' => Due(h.s) <= faults'
      BY <2>1, <3>2, <3>3, <3>5
    <3>7. Connected(q)' => h.s.strikes <= faults' /\ (Due(h.s) <= faults' \/ Probing(r)')
      BY <1>7, <1>8, <2>1, <3>2, <3>4, <3>5
    <3> QED BY <1>4, <3>6, <3>7 DEF Paid, Due, q
  <2> QED BY <1>8, <2>2, <2>3
<1> QED BY <1>0, <1>4, <1>5, <1>6, <1>7, <1>10, <1>11, <1>12, NodeStep DEF q

\* The peer's introduction is answered once its address is known.
LEMMA AnsweredStep ==
    ASSUME SessionInv, NEW r \in Peers, Answered(r)
    PROVE  SessionInv' /\ \A p \in Peers : Fair(p)
<1>0. SessionTypeOK /\ Peer(r) \in Peers /\ Peer(r) # r /\ Peer(Peer(r)) = r
  BY PeerFacts DEF SessionInv
<1>1. /\ opening[r].answer > 0 /\ opening' = [opening EXCEPT ![r].answer = @ - 1]
      /\ Introduced(r, new, send_introduce(Peer(r), new), net)
      /\ UNCHANGED <<up, faults, events>>
  BY DEF Answered
<1>2. send_introduce(Peer(r), new) \in Packets
  BY <1>0, NewType DEF send_introduce, send, Packets
<1>3. opening' \in [Peers -> [call : 0..MaxOpening, answer : 0..MaxOpening]]
  BY <1>0, <1>1, NodeFacts DEF SessionTypeOK
<1>4. opening'[Peer(r)] = opening[Peer(r)]
  BY <1>0, <1>1 DEF SessionTypeOK
<1>5. r \in up
  <2>1. r \notin up => opening[r].answer = 0
    BY DEF SessionInv, Kept
  <2> QED BY <1>0, <1>1, <2>1, NodeFacts
<1>6. Reintroducing(r)
  BY <1>1 DEF Reintroducing
<1>7. faults' \in 0..MaxFaults /\ faults <= faults'
  BY <1>0, <1>1, FaultsFacts DEF SessionTypeOK
<1> QED BY <1>1, <1>2, <1>3, <1>4, <1>5, <1>6, <1>7, NewType, IntroducedStep

\* A packet that arrives: port 255 and the port of the shard.
LEMMA ReceiveOpenStep ==
    ASSUME SessionInv, NEW pkt \in net, NEW others, NEW r \in Peers, pkt.to = r, r \in up,
           ReceiveOpen(r, pkt, others), UNCHANGED <<up, events>>,
           others = net \/ others = net \ {pkt}, faults' \in 0..MaxFaults, faults <= faults'
    PROVE  SessionInv' /\ \A p \in Peers : Fair(p)
<1>0. SessionTypeOK /\ Peer(r) \in Peers /\ Peer(r) # r
  BY PeerFacts DEF SessionInv
<1>1. net' = others /\ UNCHANGED <<sess, unsent>> /\ pkt.port = "open"
  BY DEF ReceiveOpen
<1>2. \/ UNCHANGED opening
      \/ pkt.msg = "Introduce" /\ opening' = [opening EXCEPT ![r]["answer"] = @ + 1] /\ opening[r]["answer"] < MaxOpening
  BY DEF ReceiveOpen, open_session
<1>3. opening' \in [Peers -> [call : 0..MaxOpening, answer : 0..MaxOpening]]
  BY <1>0, <1>2, NodeFacts DEF SessionTypeOK
<1>4. opening'[Peer(r)] = opening[Peer(r)]
  BY <1>0, <1>2 DEF SessionTypeOK
<1>5. SessionTypeOK'
  BY <1>0, <1>1, <1>3 DEF SessionTypeOK
<1>6. ASSUME NEW p \in Peers, Reintroducing(p)'
      PROVE  Reintroducing(p)
  <2>1. \A m \in net' : m \in net
    BY <1>1
  <2>2. CASE p = r
    <3>1. CASE pkt.msg = "Introduce"
      BY <2>2, <3>1 DEF Reintroducing
    <3>2. CASE UNCHANGED opening
      BY <1>6, <2>1, <3>2 DEF Reintroducing
    <3> QED BY <1>2, <3>1, <3>2
  <2>3. CASE p = Peer(r)
    BY <1>4, <1>6, <2>1, <2>3 DEF Reintroducing
  <2> QED BY <2>2, <2>3, PeerFacts
<1>7. \A p \in Peers : Probing(p) => Probing(p)'
  <2>1. \A m \in net : m.port = "shard" => m \in net'
    BY <1>1
  <2> QED BY <2>1 DEF Probing
<1> QED BY <1>0, <1>1, <1>4, <1>5, <1>6, <1>7, IdleStep

\* A ping is answered, a pong clears the strikes, anything else does no harm to
\* an introduced session that goes on.
LEMMA RecvStep ==
    ASSUME SessionInv, NEW pkt \in net, NEW others, NEW r \in Peers, pkt.to = r, r \in up,
           sess[r] # Nothing, pkt.msg # "Introduce", pkt.port = "shard",
           NEW c, c = recv(r, sess[r], pkt),
           sess' = [sess EXCEPT ![r] = c.s], net' = others \cup c.out,
           UNCHANGED <<up, events, unsent, opening>>,
           others = net \/ others = net \ {pkt}, faults' \in 0..MaxFaults, faults <= faults'
    PROVE  SessionInv' /\ \A p \in Peers : Fair(p)
<1> DEFINE q == Peer(r)
           s == sess[r]
<1>0. SessionTypeOK /\ q \in Peers /\ q # r /\ Peer(q) = r /\ s \in Sessions /\ pkt \in Packets
  BY PeerFacts, NodeFacts DEF SessionInv, SessionTypeOK
<1>1. Handled(r, s, pkt, c)
  BY <1>0, RecvFacts
<1>2. sess' \in [Peers -> {Nothing} \cup Sessions] /\ sess'[q] = sess[q] /\ sess'[r] = c.s
  BY <1>0, <1>1 DEF SessionTypeOK, Handled
<1>3. SessionTypeOK'
  <2>1. net' \subseteq Packets
    BY <1>0, <1>1 DEF SessionTypeOK, Handled
  <2> QED BY <1>0, <1>2, <2>1 DEF SessionTypeOK
<1>4. \A p \in Peers : Reintroducing(p)' => Reintroducing(p)
  <2>1. \A m \in net' : m \in net \/ m.msg # "Introduce"
    BY <1>1 DEF Handled
  <2> QED BY <2>1 DEF Reintroducing
<1>5. /\ s.strikes <= TIMEOUT_TOLERANCE /\ s.strikes \in Nat /\ s.intro \in BOOLEAN /\ s.ping \in BOOLEAN
      /\ s.ping = TRUE => s.intro = TRUE
      /\ TIMEOUT_TOLERANCE \in Nat
  BY <1>0, SessionFields DEF SessionInv, Kept
<1>6. c.s # Nothing
  BY <1>1, NothingAssumption DEF Handled
<1> HIDE DEF q, s
<1>7. Kept(r)'
  <2>1. c.s.strikes <= TIMEOUT_TOLERANCE /\ (c.s.ping = TRUE => c.s.intro = TRUE)
    BY <1>1, <1>5 DEF Handled
  <2> QED BY <1>2, <2>1 DEF Kept
<1>8. Fair(r)
  BY <1>2, <1>6 DEF Fair
<1>9. Connected(r)' => Connected(r) /\ c.s.done = Nothing
  BY <1>1, <1>2 DEF Connected, s, Handled
<1>10. ASSUME Connected(r)', Probing(q)
       PROVE  Probing(q)'
  <2>1. PICK m \in net : /\ m.port = "shard"
                         /\ (m.to = r /\ m.msg = "Ping") \/ (m.to = q /\ m.msg = "Pong")
    BY <1>0, <1>10 DEF Probing
  <2>2. CASE m # pkt
    BY <1>0, <2>1, <2>2 DEF Probing
  <2>3. CASE m = pkt
    <3>1. pkt.msg = "Ping"
      BY <1>0, <2>1, <2>3
    <3>2. PICK a \in c.out : a.to = q /\ a.port = "shard" /\ a.msg = "Pong"
      BY <1>1, <1>9, <1>10, <3>1 DEF q, Handled
    <3> QED BY <3>2 DEF Probing
  <2> QED BY <2>2, <2>3
<1>11. ASSUME Connected(r)', Probing(r), c.s.ping = TRUE
       PROVE  Probing(r)'
  <2>1. PICK m \in net : /\ m.port = "shard"
                         /\ (m.to = q /\ m.msg = "Ping") \/ (m.to = r /\ m.msg = "Pong")
    BY <1>11 DEF Probing, q
  <2>2. m # pkt
    <3>1. pkt.msg # "Pong"
      BY <1>1, <1>9, <1>11 DEF Handled
    <3> QED BY <1>0, <2>1, <3>1
  <2> QED BY <2>1, <2>2 DEF Probing, q
<1>12. Paid(r)'
  <2> SUFFICES ASSUME Connected(r)' PROVE Paid(r)'
    BY DEF Paid
  <2>1. faults \in Nat /\ faults' \in Nat
    BY <1>0, <1>3, FaultsFacts, SessionAssumption DEF SessionTypeOK
  <2>2. Connected(q)' = Connected(q)
    BY <1>2 DEF Connected
  <2>3. /\ Reintroducing(q) => Due(s) <= faults
        /\ Connected(q) => s.strikes <= faults /\ (Due(s) <= faults \/ Probing(r))
    BY <1>9 DEF SessionInv, Paid, q, s
  <2>4. CASE c.s.strikes = 0 /\ c.s.ping = FALSE
    <3>1. Due(c.s) = 0
      BY <2>4 DEF Due
    <3> QED BY <1>2, <2>1, <2>4, <3>1 DEF Paid, Due
  <2>5. CASE c.s.strikes = s.strikes /\ c.s.ping = s.ping
    <3>1. Due(c.s) = Due(s) /\ Due(s) \in Nat
      BY <1>5, <2>5 DEF Due
    <3>2. Reintroducing(q)' => Due(c.s) <= faults'
      BY <1>0, <1>4, <2>1, <2>3, <3>1
    <3>3. c.s.ping = FALSE => Due(c.s) = c.s.strikes
      BY DEF Due
    <3>4. c.s.ping \in BOOLEAN
      BY <1>5, <2>5
    <3>5. Connected(q)' => c.s.strikes <= faults' /\ (Due(c.s) <= faults' \/ Probing(r)')
      <4>1. Connected(q)' => c.s.strikes <= faults'
        BY <1>5, <2>1, <2>2, <2>3, <2>5
      <4>2. CASE c.s.ping = FALSE
        BY <3>3, <4>1, <4>2
      <4>3. CASE c.s.ping = TRUE
        <5>1. Due(s) <= faults => Due(c.s) <= faults'
          BY <2>1, <3>1
        <5>2. Probing(r) => Probing(r)'
          BY <1>11, <4>3
        <5> QED BY <2>2, <2>3, <4>1, <5>1, <5>2
      <4> QED BY <3>4, <4>2, <4>3
    <3> QED BY <1>2, <3>2, <3>5 DEF Paid, Due, q
  <2> QED BY <1>1, <2>4, <2>5 DEF Handled
<1> QED BY <1>0, <1>2, <1>3, <1>4, <1>7, <1>8, <1>9, <1>10, <1>12, NodeStep DEF q

\* A packet that arrives.
LEMMA ReceiveStep ==
    ASSUME SessionInv, NEW pkt \in net, NEW others, Receive(pkt, others),
           others = net \/ others = net \ {pkt}, faults' \in 0..MaxFaults, faults <= faults'
    PROVE  SessionInv' /\ \A p \in Peers : Fair(p)
<1> DEFINE r == pkt.to
<1>0. SessionTypeOK /\ pkt \in Packets
  BY DEF SessionInv, SessionTypeOK
<1>1. r \in Peers /\ r \in up /\ UNCHANGED <<up, events>> /\ Peer(r) \in Peers /\ Peer(r) # r
  BY <1>0, PeerFacts DEF Receive, Packets
<1>2. ReceiveOpen(r, pkt, others) \/ ReceiveShard(r, pkt, others)
  BY DEF Receive
<1>3. r = pkt.to
  OBVIOUS
<1> HIDE DEF r
<1>4. CASE ReceiveOpen(r, pkt, others)
  BY <1>1, <1>3, <1>4, ReceiveOpenStep
<1>5. CASE ReceiveShard(r, pkt, others)
  <2>0. UNCHANGED opening /\ pkt.port = "shard"
    BY <1>5 DEF ReceiveShard
  <2>1. CASE sess[r] = Nothing /\ net' = others /\ UNCHANGED <<sess, unsent>>
    <3>1. SessionTypeOK'
      BY <1>0, <1>1, <2>0, <2>1 DEF SessionTypeOK
    <3>2. \A p \in Peers : Reintroducing(p)' => Reintroducing(p)
      BY <2>0, <2>1 DEF Reintroducing
    <3>3. \A p \in Peers : ~(Connected(p) /\ Connected(Peer(p)))
      <4>1. ~Connected(r)
        BY <2>1 DEF Connected
      <4> QED BY <1>1, <4>1, PeerFacts
    <3> QED BY <1>1, <2>0, <2>1, <3>1, <3>2, <3>3, IdleStep
  <2>2. CASE sess[r] # Nothing /\ pkt.msg = "Introduce" /\ Introduced(r, sess[r], pkt, others)
    <3>1. sess[r] \in Sessions
      BY <1>0, <1>1, <2>2, NodeFacts
    <3>2. Reintroducing(r)
      BY <1>3, <2>2 DEF Reintroducing
    <3>3. /\ opening' \in [Peers -> [call : 0..MaxOpening, answer : 0..MaxOpening]]
          /\ opening'[Peer(r)] = opening[Peer(r)]
          /\ opening'[r].answer > 0 => opening[r].answer > 0
      BY <1>0, <2>0 DEF SessionTypeOK
    <3>4. others \subseteq net /\ \A m \in net : m \in others \/ m.msg = "Introduce"
      BY <2>2
    <3> QED BY <1>0, <1>1, <2>2, <3>1, <3>2, <3>3, <3>4, IntroducedStep
  <2>3. CASE /\ sess[r] # Nothing /\ pkt.msg # "Introduce"
             /\ LET c == recv(r, sess[r], pkt)
                IN sess' = [sess EXCEPT ![r] = c.s] /\ net' = others \cup c.out
             /\ UNCHANGED unsent
    BY <1>1, <1>3, <2>0, <2>3, RecvStep
  <2> QED BY <1>5, <2>1, <2>2, <2>3 DEF ReceiveShard
<1> QED BY <1>2, <1>4, <1>5

\* A node that is gone has no session; its Bye may be on its way.
LEMMA GoneStep ==
    ASSUME SessionInv, NEW r \in Peers, Gone(r), events < MaxUpsets, events' = events + 1, UNCHANGED faults,
           net \subseteq net', net' \subseteq Packets, \A m \in net' : m \in net \/ m.msg = "Bye"
    PROVE  SessionInv' /\ \A p \in Peers : Fair(p)
<1> DEFINE q == Peer(r)
<1>0. SessionTypeOK /\ q \in Peers /\ q # r /\ Peer(q) = r
  BY PeerFacts DEF SessionInv
<1>1. /\ up' = up \ {r} /\ sess' = [sess EXCEPT ![r] = Nothing]
      /\ opening' = [opening EXCEPT ![r] = [call |-> 0, answer |-> 0]]
      /\ unsent' = [unsent EXCEPT ![r] = FALSE]
  BY DEF Gone
<1> HIDE DEF q
<1>2. /\ sess' \in [Peers -> {Nothing} \cup Sessions]
      /\ sess'[q] = sess[q] /\ sess'[r] = Nothing
  BY <1>0, <1>1 DEF SessionTypeOK
<1>3. /\ opening' \in [Peers -> [call : 0..MaxOpening, answer : 0..MaxOpening]]
      /\ opening'[q] = opening[q] /\ opening'[r] = [call |-> 0, answer |-> 0]
  BY <1>0, <1>1, NodeFacts DEF SessionTypeOK
<1>4. events' \in 0..MaxUpsets /\ unsent' \in [Peers -> BOOLEAN]
  BY <1>0, <1>1, SessionAssumption DEF SessionTypeOK
<1>5. SessionTypeOK'
  BY <1>0, <1>1, <1>2, <1>3, <1>4 DEF SessionTypeOK
<1>6. ~Connected(r)' /\ Kept(r)' /\ Fair(r)
  BY <1>1, <1>2, <1>3 DEF Connected, Kept, Fair
<1>7. Reintroducing(r)' => Reintroducing(r)
  BY <1>3 DEF Reintroducing
<1>8. faults <= faults'
  BY <1>0, FaultsFacts
<1> QED BY <1>0, <1>1, <1>2, <1>3, <1>5, <1>6, <1>7, <1>8, NodeStep DEF Paid, q

\* A check strikes for a ping that is out: when all is quiet the ping or its
\* answer was lost before, and otherwise the check itself is a fault.
LEMMA CheckStep ==
    ASSUME SessionInv, NEW r \in Peers, check_sessions(r)
    PROVE  SessionInv' /\ \A p \in Peers : Fair(p)
<1> DEFINE q == Peer(r)
           s == sess[r]
           c == check_conn(r, s)
<1>0. /\ SessionTypeOK /\ q \in Peers /\ q # r /\ Peer(q) = r /\ r \in up
      /\ s \in Sessions /\ s # Nothing
  BY PeerFacts, NodeFacts DEF SessionInv, check_sessions
<1>1. /\ sess' = [sess EXCEPT ![r] = IF c.s.done # Nothing THEN Nothing ELSE c.s]
      /\ net' = net \cup c.out
      /\ UNCHANGED <<up, opening, unsent, events>>
  BY DEF check_sessions
<1>2. /\ s.strikes <= TIMEOUT_TOLERANCE /\ s.strikes \in Nat /\ s.intro \in BOOLEAN /\ s.ping \in BOOLEAN
      /\ s.ping = TRUE => s.intro = TRUE
      /\ TIMEOUT_TOLERANCE \in Nat
  BY <1>0, SessionFields DEF SessionInv, Kept
<1>3. /\ faults \in Nat /\ faults' \in 0..MaxFaults /\ faults' \in Nat
      /\ Quiet => faults' = faults
      /\ ~Quiet => faults' = faults + 1
  <2>1. (Quiet \/ faults < MaxFaults) /\ faults' = IF Quiet THEN faults ELSE faults + 1
    BY DEF check_sessions
  <2>2. CASE Quiet
    BY <1>0, <2>1, <2>2, FaultsFacts
  <2>3. CASE ~Quiet
    BY <1>0, <2>1, <2>3, FaultsFacts
  <2> QED BY <2>2, <2>3
<1>4. s = sess[r]
  OBVIOUS
<1> HIDE DEF s
<1>5. c = check_conn(r, s)
  OBVIOUS
<1> HIDE DEF c, q
<1>6. Checked(r, s, c)
  BY <1>0, <1>2, <1>5, CheckFacts
<1>7. /\ sess'[q] = sess[q]
      /\ c.s.done # Nothing => sess'[r] = Nothing
      /\ c.s.done = Nothing => sess'[r] = c.s
  BY <1>0, <1>1 DEF SessionTypeOK
<1>8. SessionTypeOK'
  <2>1. sess' \in [Peers -> {Nothing} \cup Sessions]
    BY <1>0, <1>1, <1>6 DEF SessionTypeOK, Checked
  <2>2. net' \subseteq Packets
    BY <1>0, <1>1, <1>6 DEF SessionTypeOK, Checked
  <2> QED BY <1>0, <1>1, <1>3, <2>1, <2>2 DEF SessionTypeOK
<1>9. ASSUME Connected(r)'
      PROVE  Connected(r) /\ c.s.done = Nothing /\ s.intro = TRUE /\ s.done = Nothing
  <2>1. sess'[r] # Nothing /\ sess'[r].intro
    BY <1>9 DEF Connected
  <2>2. c.s.done = Nothing /\ sess'[r] = c.s
    BY <1>7, <2>1
  <2>3. s.done = Nothing /\ c.s.intro = s.intro
    BY <1>6, <2>2 DEF Checked
  <2>4. s.intro = TRUE
    BY <1>2, <2>1, <2>2, <2>3
  <2> QED BY <1>0, <1>4, <2>2, <2>3, <2>4 DEF Connected
<1>10. Kept(r)'
  BY <1>0, <1>1, <1>6, <1>7 DEF Kept, Checked
<1>11. Reintroducing(r)' => Reintroducing(r)
  <2>1. \A m \in net' : m \in net \/ m.to # r
    BY <1>0, <1>1, <1>6 DEF q, Checked
  <2> QED BY <1>1, <2>1 DEF Reintroducing
<1>12. Probing(q) => Probing(q)'
  BY <1>1 DEF Probing
<1>13. Due(s) \in Nat /\ s.strikes <= Due(s) /\ Due(s) <= s.strikes + 1
  BY <1>2 DEF Due
<1>14. ASSUME Connected(r), Connected(q)
       PROVE  Due(s) <= faults'
  <2>1. s.strikes <= faults /\ (Due(s) <= faults \/ Probing(r))
    BY <1>4, <1>14 DEF SessionInv, Paid, q
  <2>2. CASE Quiet
    <3>1. ~Probing(r)
      BY <2>2 DEF Quiet, Probing
    <3> QED BY <1>3, <2>1, <2>2, <3>1
  <2>3. CASE ~Quiet
    <3>1. s.strikes <= faults
      BY <2>1
    <3> QED BY <1>2, <1>3, <1>13, <2>3, <3>1
  <2> QED BY <2>2, <2>3
<1>15. Fair(r)
  <2> SUFFICES ASSUME Connected(r), sess'[r] = Nothing, Connected(q)
               PROVE  faults' > TIMEOUT_TOLERANCE
    BY DEF Fair, q
  <2>1. s.intro = TRUE /\ s.done = Nothing
    BY <1>2, <1>4 DEF Connected
  <2>2. c.s.done # Nothing
    BY <1>6, <1>7, NothingAssumption DEF Checked
  <2>3. Due(s) > TIMEOUT_TOLERANCE
    BY <1>6, <2>1, <2>2 DEF Checked
  <2>4. Due(s) <= faults'
    BY <1>14
  <2> QED BY <1>2, <1>3, <1>13, <2>3, <2>4
<1>16. Paid(r)'
  <2> SUFFICES ASSUME Connected(r)' PROVE Paid(r)'
    BY DEF Paid
  <2>1. /\ Connected(r) /\ c.s.done = Nothing /\ c.s.strikes = Due(s) /\ c.s.ping = TRUE
        /\ \A m \in c.out : m.msg = "Ping"
        /\ \E m \in c.out : m.to = Peer(r) /\ m.port = "shard" /\ m.msg = "Ping"
    BY <1>6, <1>9 DEF Checked
  <2>2. Probing(r)'
    BY <1>1, <2>1 DEF Probing
  <2>3. Connected(q)' => c.s.strikes <= faults'
    <3>1. Connected(q)' => Connected(q)
      BY <1>7 DEF Connected
    <3> QED BY <1>14, <2>1, <3>1
  <2>4. Reintroducing(q)' => Reintroducing(q) /\ ~Quiet
    <3>1. Reintroducing(q)' => Reintroducing(q)
      BY <1>1, <2>1 DEF Reintroducing
    <3>2. Quiet => ~Reintroducing(q)
      <4>1. ASSUME Quiet PROVE net = {} /\ opening[q].answer = 0
        BY <1>0, <4>1 DEF Quiet
      <4> QED BY <4>1 DEF Reintroducing
    <3> QED BY <3>1, <3>2
  <2>5. Reintroducing(q)' => Due(c.s) <= faults'
    <3>1. Reintroducing(q) => Due(s) <= faults
      BY <1>4, <2>1 DEF SessionInv, Paid, q
    <3>2. Due(c.s) = Due(s) + 1
      BY <2>1 DEF Due
    <3> QED BY <1>3, <1>13, <2>4, <3>1, <3>2
  <2>6. sess'[r] = c.s
    BY <1>7, <2>1
  <2> QED BY <2>2, <2>3, <2>5, <2>6 DEF Paid, Due, q
<1>17. faults <= faults'
  BY <1>3
<1> QED BY <1>0, <1>1, <1>7, <1>8, <1>9, <1>10, <1>11, <1>12, <1>15, <1>16, <1>17, NodeStep DEF q

\* The quit signal and a crash.
LEMMA QuitStep ==
    ASSUME SessionInv, NEW r \in Peers, Quit(r) \/ Crash(r)
    PROVE  SessionInv' /\ \A p \in Peers : Fair(p)
<1>1. net \subseteq Packets /\ Peer(r) \in Peers
  BY PeerFacts DEF SessionInv, SessionTypeOK
<1>2. /\ Gone(r) /\ events < MaxUpsets /\ events' = events + 1 /\ UNCHANGED faults
  BY DEF Quit, Crash, Event
<1>3. /\ net \subseteq net' /\ net' \subseteq Packets
      /\ \A m \in net' : m \in net \/ m.msg = "Bye"
  <2> DEFINE m == [to |-> Peer(r), port |-> IF sess[r].intro THEN "shard" ELSE "open",
                   signed |-> FALSE, msg |-> "Bye"]
  <2>1. net' = net \/ net' = net \cup {m}
    <3>1. close(r, sess[r]).out = {m}
      BY DEF close, Result, send
    <3> HIDE DEF m
    <3> QED BY <3>1 DEF Quit, Crash
  <2>2. m \in Packets /\ m.msg = "Bye"
    BY <1>1 DEF Packets
  <2> HIDE DEF m
  <2> QED BY <1>1, <2>1, <2>2
<1> QED BY <1>2, <1>3, GoneStep

-----------------------------------------------------------------------------
(* Sessions: the theorems *)

\* Every step keeps the invariant and ends no session too early.
LEMMA SessionStep ==
    ASSUME SessionInv, [SessionNext]_sessionVars
    PROVE  SessionInv' /\ \A p \in Peers : Fair(p)
<1>1. CASE UNCHANGED sessionVars
  <2>1. SessionInv'
    BY <1>1 DEF sessionVars, SessionInv, SessionTypeOK, Kept, Paid, Connected, Reintroducing, Probing, Due
  <2> QED BY <1>1, <2>1 DEF sessionVars, Fair, Connected
<1>2. ASSUME NEW r \in Peers,
             \/ node_scan(r) \/ Opened(r) \/ Answered(r)
             \/ \E why \in {"call", "answer"} : ResolveFails(r, why)
             \/ check_sessions(r) \/ reliable_flood(r)
             \/ Quit(r) \/ Crash(r) \/ Start(r)
      PROVE  SessionInv' /\ \A p \in Peers : Fair(p)
  BY <1>2, ScanStep, OpenedStep, AnsweredStep, ResolveFailsStep, CheckStep, FloodStep, QuitStep, StartStep
<1>3. ASSUME NEW pkt \in net, Deliver(pkt)
      PROVE  SessionInv' /\ \A p \in Peers : Fair(p)
  <2>1. Receive(pkt, net \ {pkt}) /\ UNCHANGED faults
    BY <1>3 DEF Deliver
  <2>2. faults' \in 0..MaxFaults /\ faults <= faults'
    BY <2>1, FaultsFacts DEF SessionInv, SessionTypeOK
  <2> QED BY <2>1, <2>2, ReceiveStep
<1>4. ASSUME NEW pkt \in net, Duplicate(pkt)
      PROVE  SessionInv' /\ \A p \in Peers : Fair(p)
  <2>1. Receive(pkt, net) /\ faults < MaxFaults /\ faults' = faults + 1
    BY <1>4 DEF Duplicate
  <2>2. faults' \in 0..MaxFaults /\ faults <= faults'
    BY <2>1, FaultsFacts DEF SessionInv
  <2> QED BY <2>1, <2>2, ReceiveStep
<1> QED BY <1>1, <1>2, <1>3, <1>4, LoseStep DEF SessionNext

\* The nodes start without sessions, so nothing is due.
LEMMA SessionStart ==
    ASSUME SessionInit
    PROVE  SessionInv
<1>1. SessionTypeOK
  BY SessionAssumption DEF SessionInit, SessionTypeOK
<1>2. ASSUME NEW p \in Peers
      PROVE  Kept(p) /\ Paid(p)
  BY DEF SessionInit, Kept, Paid, Connected
<1> QED BY <1>1, <1>2 DEF SessionInv

\* Strikes are paid for by faults at every moment.
THEOREM SessionInvariance == SessionSpec => []SessionInv
<1>1. SessionInit => SessionInv
  BY SessionStart
<1>2. SessionInv /\ [SessionNext]_sessionVars => SessionInv'
  BY SessionStep
<1> QED BY <1>1, <1>2, PTL DEF SessionSpec

\* check_conn ends an introduced session for lack of answers only if the peer
\* has no session for it, or if packets failed more often than
\* TIMEOUT_TOLERANCE: for any tolerance and any number of faults and upsets.
THEOREM TimeoutsNeverFalse == SessionSpec => NoFalseTimeout
<1>1. SessionInv /\ [SessionNext]_sessionVars =>
         [\A p \in Peers : Connected(p) /\ sess'[p] = Nothing /\ p \in up'
             => ~Connected(Peer(p)) \/ faults' > TIMEOUT_TOLERANCE]_sessionVars
  BY SessionStep DEF Fair
<1> QED BY <1>1, SessionInvariance, PTL DEF SessionSpec, NoFalseTimeout

=============================================================================
