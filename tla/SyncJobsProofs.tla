-------------------------- MODULE SyncJobsProofs ---------------------------
(* Proofs about SyncJobs. *)
EXTENDS SyncJobs, InductionFacts, FiniteSetTheorems, TLAPS

-----------------------------------------------------------------------------
(* The packages at hand *)

\* What a list has.
Has(list) == {list[k] : k \in DOMAIN list}

\* Its types.
LEMMA HasTypes ==
    ASSUME NEW S, NEW list \in Seq(S)
    PROVE  Has(list) \subseteq S
BY DEF Has

\* A task or package at the end.
LEMMA AppendHas ==
    ASSUME NEW S, NEW list \in Seq(S), NEW t \in S
    PROVE  /\ Append(list, t) \in Seq(S) /\ Len(Append(list, t)) = Len(list) + 1
           /\ Has(Append(list, t)) = Has(list) \cup {t}
<1> DEFINE long == Append(list, t)
<1>1. long \in Seq(S) /\ Len(long) = Len(list) + 1 /\ Len(list) \in Nat
  OBVIOUS
<1>2. long[Len(list) + 1] = t /\ \A k \in 1..Len(list) : long[k] = list[k]
  OBVIOUS
<1>3. DOMAIN long = 1..Len(list) + 1 /\ DOMAIN list = 1..Len(list)
  OBVIOUS
<1> HIDE DEF long
<1>4. Has(long) = Has(list) \cup {t}
  BY <1>1, <1>2, <1>3 DEF Has
<1> QED BY <1>1, <1>4 DEF long

\* The queue without its first task.
LEMMA TailHas ==
    ASSUME NEW S, NEW list \in Seq(S), list # <<>>
    PROVE  /\ Head(list) \in S
           /\ Tail(list) \in Seq(S) /\ Len(Tail(list)) = Len(list) - 1
           /\ Has(list) = Has(Tail(list)) \cup {Head(list)}
<1> DEFINE rest == Tail(list)
           n == Len(list)
<1>1. /\ rest \in Seq(S) /\ Len(rest) = n - 1 /\ n \in Nat /\ n > 0
      /\ Head(list) = list[1] /\ Head(list) \in S
  OBVIOUS
<1>2. \A k \in 1..n - 1 : rest[k] = list[k + 1]
  OBVIOUS
<1>3. DOMAIN rest = 1..n - 1 /\ DOMAIN list = 1..n
  OBVIOUS
<1> HIDE DEF rest, n
<1>4. \A k \in 1..n : k = 1 \/ (k - 1 \in 1..n - 1 /\ rest[k - 1] = list[k])
  BY <1>1, <1>2
<1>5. \A k \in 1..n - 1 : k + 1 \in 1..n
  BY <1>1
<1>6. 1 \in 1..n
  BY <1>1
<1>7. Has(list) = Has(rest) \cup {list[1]}
  BY <1>2, <1>3, <1>4, <1>5, <1>6 DEF Has
<1> QED BY <1>1, <1>7 DEF rest, n

\* The packages without the one at k.
LEMMA RemoveHas ==
    ASSUME NEW S, NEW list \in Seq(S), NEW k \in DOMAIN list
    PROVE  /\ RemoveAt(list, k) \in Seq(S) /\ Len(RemoveAt(list, k)) = Len(list) - 1
           /\ list[k] \in S
           /\ Has(list) = Has(RemoveAt(list, k)) \cup {list[k]}
<1> DEFINE n == Len(list)
           low == SubSeq(list, 1, k - 1)
           high == SubSeq(list, k + 1, n)
           rest == low \o high
<1>1. n \in Nat /\ k \in 1..n /\ list[k] \in S /\ DOMAIN list = 1..n /\ \A i \in 1..n : list[i] \in S
  OBVIOUS
<1>2. low \in Seq(S) /\ Len(low) = k - 1 /\ \A i \in 1..k - 1 : low[i] = list[i]
  BY <1>1
<1>3. high \in Seq(S) /\ Len(high) = n - k /\ \A i \in 1..n - k : high[i] = list[i + k]
  BY <1>1
<1> HIDE DEF low, high, n
<1>4. rest \in Seq(S) /\ Len(rest) = n - 1
  <2>1. rest \in Seq(S)
    BY <1>2, <1>3
  <2>2. Len(rest) = Len(low) + Len(high)
    <3> HIDE DEF rest
    <3>1. \A x, y \in Seq(S) : Len(x \o y) = Len(x) + Len(y)
      OBVIOUS
    <3> QED BY <1>2, <1>3, <3>1 DEF rest
  <2> QED BY <1>1, <1>2, <1>3, <2>1, <2>2
<1>5. \A i \in 1..k - 1 : rest[i] = list[i]
  BY <1>1, <1>2, <1>3
<1>6. \A i \in k..n - 1 : rest[i] = list[i + 1]
  <2> SUFFICES ASSUME NEW i \in k..n - 1 PROVE rest[i] = list[i + 1]
    OBVIOUS
  <2>1. i - (k - 1) \in 1..n - k /\ (i - (k - 1)) + k = i + 1
    BY <1>1
  <2>2. rest[i] = high[i - (k - 1)]
    BY <1>1, <1>2, <1>3, <2>1
  <2> QED BY <1>3, <2>1, <2>2
<1>7. DOMAIN rest = 1..n - 1
  BY <1>4
<1> HIDE DEF rest
<1>8. ASSUME NEW i \in 1..n PROVE list[i] = list[k] \/ \E j \in 1..n - 1 : rest[j] = list[i]
  <2>1. CASE i < k
    BY <1>1, <1>5, <2>1
  <2>2. CASE i > k
    <3>1. i - 1 \in k..n - 1 /\ (i - 1) + 1 = i /\ i - 1 \in 1..n - 1
      BY <1>1, <2>2
    <3> QED BY <1>6, <3>1
  <2> QED BY <1>1, <2>1, <2>2
<1>9. ASSUME NEW j \in 1..n - 1 PROVE \E i \in 1..n : list[i] = rest[j]
  <2>1. CASE j < k
    BY <1>1, <1>5, <2>1
  <2>2. CASE j >= k
    <3>1. j \in k..n - 1 /\ j + 1 \in 1..n
      BY <1>1, <2>2
    <3> QED BY <1>6, <3>1
  <2> QED BY <1>1, <2>1, <2>2
<1>10. Has(list) = Has(rest) \cup {list[k]}
  <2>1. Has(list) = {list[i] : i \in 1..n} /\ Has(rest) = {rest[j] : j \in 1..n - 1}
    BY <1>1, <1>7 DEF Has
  <2>2. {list[i] : i \in 1..n} \subseteq {rest[j] : j \in 1..n - 1} \cup {list[k]}
    BY <1>8
  <2>3. {rest[j] : j \in 1..n - 1} \subseteq {list[i] : i \in 1..n}
    BY <1>9
  <2> QED BY <1>1, <2>1, <2>2, <2>3
<1> QED BY <1>1, <1>4, <1>10 DEF RemoveAt, rest, low, high, n

\* Where the packages at hand are.
LEMMA AtHandFacts == AtHand = {t.pkg : t \in Has(queue)} \cup Has(unzipped)
BY DEF AtHand, Has

\* They are packages.
LEMMA AtHandTypes ==
    ASSUME queue \in Seq(Tasks), unzipped \in Seq(Packages)
    PROVE  \A g \in AtHand : g \in Packages /\ g.from \in Nat /\ g.to \in Nat
<1>1. \A t \in Has(queue) : t.pkg \in Packages
  <2>1. Has(queue) \subseteq Tasks
    BY HasTypes
  <2> QED BY <2>1 DEF Tasks
<1>2. \A g \in Has(unzipped) : g \in Packages
  BY DEF Has
<1>3. \A g \in Packages : g.from \in Nat /\ g.to \in Nat
  BY SyncAssumption DEF Packages, Heights
<1> QED BY <1>1, <1>2, <1>3, AtHandFacts

\* Also after a step.
LEMMA AtHandNext ==
    ASSUME queue' \in Seq(Tasks), unzipped' \in Seq(Packages)
    PROVE  \A g \in AtHand' : g \in Packages /\ g.from \in Nat /\ g.to \in Nat
<1>1. \A t \in Has(queue') : t.pkg \in Packages
  <2>1. Has(queue') \subseteq Tasks
    BY HasTypes
  <2> QED BY <2>1 DEF Tasks
<1>2. \A g \in Has(unzipped') : g \in Packages
  BY DEF Has
<1>3. \A g \in Packages : g.from \in Nat /\ g.to \in Nat
  BY SyncAssumption DEF Packages, Heights
<1>4. AtHand' = {t.pkg : t \in Has(queue')} \cup Has(unzipped')
  BY DEF AtHand, Has
<1> QED BY <1>1, <1>2, <1>3, <1>4

-----------------------------------------------------------------------------
(* The invariant *)

\* The heights up to which everything was received.
Covered == {n \in Heights : \A h \in 1..n : Received(h)}

\* The jobs, and the requests, that begin at one of these heights.
Owed(C) == {j \in Jobs : j.cur \in C}
Packets(C) == {c \in Calls : c.last \in C}

\* What assign_job makes of the jobs that are held and the requests that are sent.
\* A request whose answer the session waits for is that of a job it holds.
Waited(held, sent) == \A c \in sent : c.mine => held[c.peer] # None
States(C) ==
    {st \in [held : [Peers -> {None} \cup Owed(C)], sent : SUBSET Packets(C)] : Waited(st.held, st.sent)}

\* Jobs and requests begin where all was received. The requests are needed too:
\* an answer, of any age, sets where a job goes on.
Held(C) ==
    /\ job \in [Peers -> {None} \cup Owed(C)] /\ calls \subseteq Packets(C)
    /\ Waited(job, calls)

\* So do the packages.
Packed == \A g \in AtHand : \A h \in 1..g.from - 1 : Received(h)

Frame ==
    /\ have \in Heights /\ tip \in [Peers -> Heights]
    /\ sess \in [Peers -> {None, "open", "done"}]
    /\ tasks \subseteq [block : Heights, missing : BOOLEAN]
    /\ queue \in Seq(Tasks) /\ unzipped \in Seq(Packages)
    /\ Len(queue) + Len(unzipped) <= MaxQueue
    /\ failed \subseteq Heights
    /\ panicked \in BOOLEAN /\ faults \in 0..MaxFaults

IInv == Frame /\ Held(Covered) /\ Packed

\* What was received, was: no step but the panic forgets it.
Kept == \A h \in Nat \ {0} : Received(h) => Received(h)'

\* The heights that are covered stay so.
LEMMA CoveredGrows ==
    ASSUME Kept
    PROVE  Covered \subseteq Covered'
<1> SUFFICES ASSUME NEW n \in Covered PROVE n \in Covered'
  OBVIOUS
<1>1. n \in Heights /\ n \in Nat /\ \A h \in 1..n : Received(h)
  BY SyncAssumption DEF Covered, Heights
<1>2. \A h \in 1..n : h \in Nat \ {0}
  BY <1>1
<1>3. \A h \in 1..n : Received(h)'
  BY <1>1, <1>2 DEF Kept
<1> QED BY <1>1, <1>3 DEF Covered, Heights

\* The packages that were at hand begin where they did.
LEMMA PackedStill ==
    ASSUME Packed, Kept, queue' \in Seq(Tasks), unzipped' \in Seq(Packages),
           \A g \in AtHand' : g \in AtHand \/ \A h \in 1..g.from - 1 : Received(h)
    PROVE  Packed'
<1> SUFFICES ASSUME NEW g \in AtHand', NEW h \in 1..g.from - 1 PROVE Received(h)'
  BY DEF Packed
<1>1. g.from \in Nat
  BY AtHandNext
<1>2. h \in Nat \ {0}
  BY <1>1
<1>3. Received(h)
  BY DEF Packed
<1> QED BY <1>2, <1>3 DEF Kept

\* A step that leaves the packages, the head and what was refused alone.
LEMMA UnchangedKept ==
    ASSUME have' = have, queue' = queue, unzipped' = unzipped, failed' = failed
    PROVE  Kept /\ AtHand' = AtHand /\ Covered' = Covered
<1>1. AtHand' = AtHand
  BY DEF AtHand
<1>2. ASSUME NEW h PROVE Received(h)' <=> Received(h)
  BY <1>1 DEF Received
<1> QED BY <1>1, <1>2 DEF Kept, Covered, Heights

\* A head that is no lower, with no package gone.
LEMMA HigherKept ==
    ASSUME have \in Heights, have' \in Heights, have <= have', failed' = failed \ 1..have', AtHand \subseteq AtHand'
    PROVE  Kept
<1> SUFFICES ASSUME NEW h \in Nat \ {0}, Received(h) PROVE Received(h)'
  BY DEF Kept
<1>1. have \in Nat /\ have' \in Nat
  BY SyncAssumption DEF Heights
<1>2. CASE h <= have
  <2>1. h <= have'
    BY <1>1, <1>2
  <2> QED BY <2>1 DEF Received
<1>3. CASE h \in failed
  <2>1. h \in failed' \/ h <= have'
    BY <1>1, <1>3
  <2> QED BY <2>1 DEF Received
<1>4. CASE \E g \in AtHand : g.from <= h /\ h <= g.to
  BY <1>4 DEF Received
<1> QED BY <1>2, <1>3, <1>4 DEF Received

\* The blocks of a package that is imported are stored or refused.
LEMMA ImportKept ==
    ASSUME have \in Heights, failed \subseteq Heights, NEW g \in Packages, import_pkg(g), AtHand \subseteq AtHand' \cup {g}
    PROVE  Kept /\ have' \in Heights /\ failed' \subseteq Heights
<1>1. have \in Nat /\ g.from \in Nat /\ g.to \in Nat /\ g.to \in Heights /\ g.from..g.to \subseteq Heights
  BY SyncAssumption DEF Heights, Packages
<1>2. /\ have' = IF g.from <= have + 1 /\ have < g.to THEN g.to ELSE have
      /\ failed' = (IF g.from > have + 1 THEN failed \cup g.from..g.to ELSE failed) \ 1..have'
  BY DEF import_pkg
<1>3. have' \in Nat /\ have <= have' /\ have' \in Heights
  BY <1>1, <1>2
<1>4. failed' \subseteq Heights
  BY <1>1, <1>2
<1>5. ASSUME NEW h \in Nat \ {0}, Received(h) PROVE Received(h)'
  <2>1. CASE h <= have
    <3>1. h <= have'
      BY <1>1, <1>3, <2>1
    <3> QED BY <3>1 DEF Received
  <2>2. CASE h \in failed
    <3>1. h \in failed' \/ h <= have'
      BY <1>2, <1>3, <2>2
    <3> QED BY <3>1 DEF Received
  <2>3. CASE \E x \in AtHand' : x.from <= h /\ h <= x.to
    BY <2>3 DEF Received
  <2>4. CASE g.from <= h /\ h <= g.to
    <3>1. h <= have' \/ h \in failed'
      BY <1>1, <1>2, <1>3, <2>4
    <3> QED BY <3>1 DEF Received
  <2> QED BY <1>5, <2>1, <2>2, <2>3, <2>4 DEF Received
<1> QED BY <1>3, <1>4, <1>5 DEF Kept

-----------------------------------------------------------------------------
(* Jobs that are given out *)

\* What begins at a covered height still does.
LEMMA Widened ==
    ASSUME NEW C, NEW D, C \subseteq D
    PROVE  Owed(C) \subseteq Owed(D) /\ Packets(C) \subseteq Packets(D)
BY DEF Owed, Packets

\* A request for a covered job is covered.
LEMMA RequestFacts ==
    ASSUME NEW C, NEW j \in Owed(C), NEW p \in Peers, NEW mine \in BOOLEAN
    PROVE  make_req(j, p, mine) \in Packets(C)
<1>1. j \in Jobs /\ j.cur \in C
  BY DEF Owed
<1>2. j.kind \in {"SyncChain", "FindNodes"} /\ j.cur \in Heights /\ j.target \in Heights
  BY <1>1 DEF Jobs
<1>3. make_req(j, p, mine) \in Calls /\ make_req(j, p, mine).last = j.cur
  BY <1>2 DEF make_req, Calls
<1> QED BY <1>1, <1>3 DEF Packets

\* Forgetting who waits for a packet leaves it covered.
LEMMA OldFacts ==
    ASSUME NEW C, NEW packets, packets \subseteq Packets(C), NEW peers
    PROVE  Old(packets, peers) \subseteq Packets(C)
<1> SUFFICES ASSUME NEW c \in Packets(C)
             PROVE  [c EXCEPT !.mine = FALSE] \in Packets(C)
  BY DEF Old
<1>1. c \in Calls /\ c.last \in C
  BY DEF Packets
<1>2. [c EXCEPT !.mine = FALSE] \in Calls /\ [c EXCEPT !.mine = FALSE].last = c.last
  BY <1>1 DEF Calls
<1> QED BY <1>1, <1>2 DEF Packets

\* What remains to be waited for when some of the jobs are gone.
LEMMA OldWaited ==
    ASSUME NEW C, NEW packets, packets \subseteq Packets(C), NEW peers,
           NEW held, NEW new_held, Waited(held, packets),
           \A q \in Peers : q \notin peers => new_held[q] = held[q]
    PROVE  Waited(new_held, Old(packets, peers))
<1> SUFFICES ASSUME NEW c \in packets,
                    (IF c.peer \in peers THEN [c EXCEPT !.mine = FALSE] ELSE c).mine
             PROVE  new_held[(IF c.peer \in peers THEN [c EXCEPT !.mine = FALSE] ELSE c).peer] # None
  BY DEF Old, Waited
<1>1. c \in Calls
  BY DEF Packets
<1>2. c.peer \notin peers
  BY <1>1 DEF Calls
<1>3. c.peer \in Peers
  BY <1>1 DEF Calls
<1> QED BY <1>2, <1>3 DEF Waited

\* The sessions that are asked in vain, and the one that gets the job.
LEMMA AskedFacts ==
    ASSUME NEW C, NEW st \in States(C), NEW j \in Owed(C), NEW B, B \subseteq Peers
    PROVE  Asked(st, j, B) \in States(C)
<1> DEFINE more == {make_req(j, p, FALSE) : p \in B}
<1>1. more \subseteq Packets(C) /\ \A c \in more : c.mine = FALSE
  <2>1. \A p \in B : make_req(j, p, FALSE) \in Packets(C)
    BY RequestFacts
  <2>2. \A p \in B : make_req(j, p, FALSE).mine = FALSE
    BY DEF make_req
  <2> QED BY <2>1, <2>2
<1> HIDE DEF more
<1>2. st \in [held : [Peers -> {None} \cup Owed(C)], sent : SUBSET Packets(C)] /\ Waited(st.held, st.sent)
  BY DEF States
<1> DEFINE new_st == [st EXCEPT !.sent = @ \cup more]
<1>3. /\ new_st \in [held : [Peers -> {None} \cup Owed(C)], sent : SUBSET Packets(C)]
      /\ new_st.held = st.held /\ new_st.sent = st.sent \cup more
  BY <1>1, <1>2
<1> HIDE DEF new_st
<1>4. Waited(new_st.held, new_st.sent)
  BY <1>1, <1>2, <1>3 DEF Waited
<1>5. new_st \in States(C)
  BY <1>3, <1>4 DEF States
<1> QED BY <1>5 DEF Asked, more, new_st

\* A session that takes a covered job.
LEMMA TakenFacts ==
    ASSUME NEW C, NEW st \in States(C), NEW j \in Owed(C), NEW p \in Peers
    PROVE  Taken(st, j, p) \in States(C)
<1>1. make_req(j, p, TRUE) \in Packets(C)
  BY RequestFacts
<1>2. /\ st.held \in [Peers -> {None} \cup Owed(C)] /\ st.sent \subseteq Packets(C)
      /\ Waited(st.held, st.sent)
  BY DEF States
<1> DEFINE held == [st.held EXCEPT ![p] = j]
           sent == st.sent \cup {make_req(j, p, TRUE)}
<1>3. held \in [Peers -> {None} \cup Owed(C)] /\ sent \subseteq Packets(C)
  BY <1>1, <1>2
<1>4. j # None
  BY SyncAssumption DEF Owed
<1>5. make_req(j, p, TRUE).peer = p
  BY DEF make_req
<1>6. Waited(held, sent)
  <2> SUFFICES ASSUME NEW c \in sent, c.mine PROVE held[c.peer] # None
    BY DEF Waited
  <2>1. c.peer \in Peers
    BY <1>3 DEF Packets, Calls
  <2> QED BY <1>2, <1>4, <1>5, <2>1 DEF Waited
<1> HIDE DEF held, sent
<1>7. [held |-> held, sent |-> sent] \in States(C)
  BY <1>3, <1>6 DEF States
<1> QED BY <1>7 DEF Taken, held, sent

\* assign_job gives a covered job to some open session.
LEMMA AssignJobFacts ==
    ASSUME NEW C, NEW st \in States(C), NEW open, open \subseteq Peers, NEW j \in Owed(C)
    PROVE  assign_job(st, open, j) \subseteq States(C)
<1>1. \A B \in SUBSET open : Asked(st, j, B) \in States(C)
  BY AskedFacts
<1>2. \A B \in SUBSET open, p \in open : Taken(Asked(st, j, B), j, p) \in States(C)
  BY <1>1, TakenFacts
<1> QED BY <1>1, <1>2 DEF assign_job

\* The same for a set of jobs.
LEMMA AssignFacts ==
    ASSUME NEW C, NEW states, states \subseteq States(C), NEW open, open \subseteq Peers,
           NEW jobs, jobs \subseteq Owed(C)
    PROVE  Assign(states, open, jobs) \subseteq States(C)
BY AssignJobFacts DEF Assign

\* What is left of a job begins where it did, or where its package ended.
LEMMA CompleteFacts ==
    ASSUME NEW C, NEW j \in Owed(C), NEW msg, NEW to, msg = "ChainData" => to \in Heights /\ to \in C
    PROVE  complete(j, msg, to) \subseteq Owed(C)
<1> DEFINE try == IF msg = "ChainData" THEN j.try ELSE j.try + 1
           cur == IF msg = "ChainData" THEN to ELSE j.cur
           left == [j EXCEPT !.cur = IF msg = "ChainData" THEN to ELSE @, !.try = try]
<1>1. j \in Jobs /\ j.cur \in C
  BY DEF Owed
<1>2. /\ j.kind \in {"SyncChain", "FindNodes"} /\ j.cur \in Heights /\ j.target \in Heights
      /\ j.try \in 0..MAX_JOB_RETRIES
  BY <1>1 DEF Jobs
<1>3. left = [j EXCEPT !.cur = cur, !.try = try]
  OBVIOUS
<1>4. cur \in Heights /\ cur \in C
  BY <1>1, <1>2
<1>5. SUFFICES ASSUME ~(try > MAX_JOB_RETRIES) PROVE left \in Owed(C)
  BY DEF complete
<1>6. try \in 0..MAX_JOB_RETRIES
  BY <1>2, <1>5, SyncAssumption
<1> HIDE DEF left, cur, try
<1>7. left \in Jobs /\ left.cur = cur
  BY <1>1, <1>3, <1>4, <1>6 DEF Jobs
<1> QED BY <1>4, <1>7 DEF Owed

\* A retry goes on from where the job was.
LEMMA RetriedFacts ==
    ASSUME NEW C, NEW j \in Owed(C)
    PROVE  Retried(j) \subseteq Owed(C)
<1> DEFINE again == [j EXCEPT !.try = @ + 1]
<1>1. j \in Jobs /\ j.cur \in C
  BY DEF Owed
<1>2. j.try \in 0..MAX_JOB_RETRIES
  BY <1>1 DEF Jobs
<1>3. SUFFICES ASSUME ~(j.try + 1 > MAX_JOB_RETRIES) PROVE again \in Owed(C)
  BY DEF Retried
<1>4. j.try + 1 \in 0..MAX_JOB_RETRIES
  BY <1>2, <1>3, SyncAssumption
<1>5. again \in Jobs /\ again.cur = j.cur
  BY <1>1, <1>4 DEF Jobs
<1> QED BY <1>1, <1>5 DEF Owed

\* The jobs that expired, one after the other.
LEMMA ReassignedFacts ==
    ASSUME NEW C, NEW st \in States(C), NEW open, open \subseteq Peers, NEW n \in Nat, NEW order,
           order \in [1..n -> Peers], Len(order) = n,
           \A k \in 1..n : job[order[k]] \in Owed(C)
    PROVE  Reassigned(st, open, order) \subseteq States(C)
<1> DEFINE S == SUBSET States(C)
           Given(X, k) == Assign(X, open, Retried(job[order[k]]))
           F == [k \in 1..n |-> [X \in S |-> Given(X, k)]]
           after[k \in 0..Len(order)] ==
               IF k = 0 THEN {st} ELSE Assign(after[k - 1], open, Retried(job[order[k]]))
<1>1. ASSUME NEW k \in 1..n, NEW X \in S PROVE Given(X, k) \in S
  <2>1. Retried(job[order[k]]) \subseteq Owed(C)
    BY RetriedFacts
  <2> QED BY <2>1, AssignFacts
<1> HIDE DEF Given
<1>2. F \in [1..n -> [S -> S]] /\ {st} \in S
  BY <1>1
<1> HIDE DEF S
<1>3. PICK f : IsRun(f, S, {st}, F, n)
  BY <1>2, RunExists
<1>4. f \in [0..n -> S] /\ f[0] = {st} /\ \A k \in 1..n : f[k] = F[k][f[k - 1]]
  BY <1>3 DEF IsRun
<1>5. \A k \in 1..n : f[k] = Given(f[k - 1], k)
  <2> SUFFICES ASSUME NEW k \in 1..n PROVE f[k] = Given(f[k - 1], k)
    OBVIOUS
  <2>1. k - 1 \in 0..n
    OBVIOUS
  <2>2. f[k - 1] \in S
    BY <1>4, <2>1
  <2> QED BY <1>4, <2>2
<1>6. f = [k \in 0..Len(order) |-> IF k = 0 THEN {st} ELSE Given(f[k - 1], k)]
  BY <1>4, <1>5
<1>7. f = [k \in 0..Len(order) |-> IF k = 0 THEN {st} ELSE Assign(f[k - 1], open, Retried(job[order[k]]))]
  BY <1>6, Zenon DEF Given
<1>8. after = [k \in 0..Len(order) |-> IF k = 0 THEN {st} ELSE Assign(after[k - 1], open, Retried(job[order[k]]))]
  BY <1>7, Zenon
<1>9. Reassigned(st, open, order) = after[Len(order)]
  BY Zenon DEF Reassigned
<1>10. after = [k \in 0..Len(order) |-> IF k = 0 THEN {st} ELSE Given(after[k - 1], k)]
  BY <1>8, Zenon DEF Given
<1> HIDE DEF after, F
<1> DEFINE T == {k \in Nat : k <= n => after[k] \in S}
<1>11. 0 \in T
  BY <1>2, <1>10
<1>12. ASSUME NEW k \in Nat, k \in T PROVE k + 1 \in T
  <2> SUFFICES ASSUME k + 1 <= n PROVE after[k + 1] \in S
    OBVIOUS
  <2>1. after[k + 1] = Given(after[k], k + 1)
    <3>1. k + 1 \in 0..Len(order) /\ k + 1 # 0 /\ (k + 1) - 1 = k
      OBVIOUS
    <3>2. after[k + 1] = Given(after[(k + 1) - 1], k + 1)
      BY <1>10, <3>1, Zenon
    <3> QED BY <3>1, <3>2
  <2>2. after[k] \in S /\ k + 1 \in 1..n
    BY <1>12
  <2> QED BY <1>1, <2>1, <2>2
<1> HIDE DEF T
<1>13. n \in T
  BY <1>11, <1>12, SetInduction
<1> QED BY <1>9, <1>13 DEF T, S

-----------------------------------------------------------------------------
(* The invariant is kept *)

\* The invariant has the types.
LEMMA InvTypes == IInv => TypeOK
<1> SUFFICES ASSUME IInv PROVE TypeOK
  OBVIOUS
<1>1. Owed(Covered) \subseteq Jobs /\ Packets(Covered) \subseteq Calls
  BY DEF Owed, Packets
<1>2. job \in [Peers -> {None} \cup Jobs] /\ calls \subseteq Calls
  BY <1>1 DEF IInv, Held
<1> QED BY <1>2 DEF IInv, Frame, TypeOK

\* The invariant holds at the start.
LEMMA InvInit == Init => IInv
<1> SUFFICES ASSUME Init PROVE IInv
  OBVIOUS
<1>1. Frame
  <2>1. 0 \in Heights /\ 1 \in Heights /\ 0 \in 0..MaxFaults /\ Len(queue) = 0 /\ Len(unzipped) = 0
    BY SyncAssumption DEF Init, Heights
  <2>2. queue \in Seq(Tasks) /\ unzipped \in Seq(Packages)
    BY DEF Init
  <2>3. Len(queue) + Len(unzipped) <= MaxQueue
    BY <2>1, SyncAssumption
  <2> QED BY <2>1, <2>2, <2>3 DEF Init, Frame
<1>2. Held(Covered)
  BY DEF Init, Held, Waited
<1>3. Packed
  BY DEF Init, Packed, AtHand
<1> QED BY <1>1, <1>2, <1>3 DEF IInv

\* A job that has been given out, while what is covered is no less.
LEMMA HeldAgain ==
    ASSUME NEW C, C \subseteq Covered', NEW r \in States(C), job' = r.held, calls' = r.sent
    PROVE  Held(Covered)'
<1>1. Owed(C) \subseteq Owed(Covered') /\ Packets(C) \subseteq Packets(Covered')
  BY Widened
<1>2. /\ r.held \in [Peers -> {None} \cup Owed(C)] /\ r.sent \subseteq Packets(C)
      /\ Waited(r.held, r.sent)
  BY DEF States
<1>3. r.held \in [Peers -> {None} \cup Owed(Covered')] /\ r.sent \subseteq Packets(Covered')
  BY <1>1, <1>2
<1> QED BY <1>2, <1>3 DEF Held

\* The jobs as they are.
LEMMA HeldStill ==
    ASSUME Held(Covered), Covered \subseteq Covered', job' = job, calls' \subseteq calls
    PROVE  Held(Covered)'
<1>1. Owed(Covered) \subseteq Owed(Covered') /\ Packets(Covered) \subseteq Packets(Covered')
  BY Widened
<1>2. job' \in [Peers -> {None} \cup Owed(Covered')] /\ calls' \subseteq Packets(Covered')
  BY <1>1 DEF Held
<1>3. Waited(job', calls')
  BY DEF Held, Waited
<1> QED BY <1>2, <1>3 DEF Held

\* The steps that neither give out jobs nor bring packages.
LEMMA QuietKeeps ==
    ASSUME IInv, Frame', Kept, AtHand' \subseteq AtHand, job' = job, calls' \subseteq calls
    PROVE  IInv'
<1>1. Covered \subseteq Covered'
  BY CoveredGrows
<1>2. Held(Covered)'
  BY <1>1, HeldStill DEF IInv
<1>3. Packed'
  BY PackedStill DEF IInv, Frame
<1> QED BY <1>2, <1>3 DEF IInv

\* The steps that give out jobs, and leave the packages alone.
LEMMA GivenKeeps ==
    ASSUME IInv, Frame', have' = have, queue' = queue, unzipped' = unzipped, failed' = failed,
           \E r \in States(Covered) : job' = r.held /\ calls' = r.sent
    PROVE  IInv'
<1>1. Kept /\ AtHand' = AtHand /\ Covered' = Covered
  BY UnchangedKept
<1>2. Held(Covered)'
  BY <1>1, HeldAgain
<1>3. Packed'
  BY <1>1, PackedStill DEF IInv, Frame
<1> QED BY <1>2, <1>3 DEF IInv

\* An answer finishes the job of its session.
LEMMA FinishedFacts ==
    ASSUME NEW C, Held(C), NEW p \in Peers, job[p] # None, NEW msg, NEW to,
           msg = "ChainData" => to \in Heights /\ to \in C,
           NEW others, others \subseteq calls, Finished(p, msg, to, others)
    PROVE  \E r \in States(C) : job' = r.held /\ calls' = r.sent
<1> DEFINE st == [held |-> [job EXCEPT ![p] = None], sent |-> Old(others, {p})]
<1>1. st \in States(C)
  <2>1. Old(others, {p}) \subseteq Packets(C)
    BY OldFacts DEF Held
  <2>2. [job EXCEPT ![p] = None] \in [Peers -> {None} \cup Owed(C)]
    BY DEF Held
  <2>3. Waited([job EXCEPT ![p] = None], Old(others, {p}))
    <3>1. \A q \in Peers : q \notin {p} => [job EXCEPT ![p] = None][q] = job[q]
      BY DEF Held
    <3>2. Waited(job, others) /\ others \subseteq Packets(C)
      BY DEF Held, Waited
    <3> DEFINE now == [job EXCEPT ![p] = None]
    <3> HIDE DEF now
    <3>3. \A q \in Peers : q \notin {p} => now[q] = job[q]
      BY <3>1 DEF now
    <3>4. Waited(now, Old(others, {p}))
      BY <3>2, <3>3, OldWaited
    <3> QED BY <3>4 DEF now
  <2> HIDE DEF Held
  <2> QED BY <2>1, <2>2, <2>3 DEF States
<1>2. Introduced \subseteq Peers
  BY DEF Introduced
<1>3. complete(job[p], msg, to) \subseteq Owed(C)
  BY CompleteFacts DEF Held
<1> HIDE DEF st
<1>4. Assign({st}, Introduced, complete(job[p], msg, to)) \subseteq States(C)
  BY <1>1, <1>2, <1>3, AssignFacts
<1>5. \E r \in Assign({st}, Introduced, complete(job[p], msg, to)) : job' = r.held /\ calls' = r.sent
  BY DEF Finished, st
<1> QED BY <1>4, <1>5

\* The answer of a peer.
LEMMA AnswerFacts ==
    ASSUME NEW c \in Calls, Answer(c).msg = "ChainData"
    PROVE  /\ Answer(c).from = c.last + 1 /\ Answer(c).from \in Heights
           /\ Answer(c).to \in Heights
<1>1. c.last \in Nat /\ c.target \in Nat /\ c.target <= MaxHeight
  BY SyncAssumption DEF Calls, Heights
<1>2. Answer(c) = SyncBlocks(c) /\ c.last < c.target
  BY <1>1 DEF Answer, SyncBlocks
<1>3. /\ Answer(c).from = c.last + 1
      /\ Answer(c).to = IF c.last + PackageSize < c.target THEN c.last + PackageSize ELSE c.target
  BY <1>1, <1>2 DEF SyncBlocks
<1> QED BY <1>1, <1>2, <1>3, SyncAssumption DEF Heights

\* A package that comes begins where its request did, so it is covered as far as
\* it goes.
LEMMA PackageCovers ==
    ASSUME IInv, NEW g \in Packages, g.from - 1 \in Covered, have' = have, failed' = failed, unzipped' = unzipped,
           queue' = Append(queue, [op |-> "unzip", pkg |-> g])
    PROVE  /\ Kept /\ Packed' /\ g.to \in Covered'
           /\ queue' \in Seq(Tasks) /\ Len(queue') = Len(queue) + 1
<1> DEFINE t == [op |-> "unzip", pkg |-> g]
<1>1. t \in Tasks /\ t.pkg = g
  BY DEF Tasks
<1>2. queue \in Seq(Tasks) /\ unzipped \in Seq(Packages)
  BY DEF IInv, Frame
<1> HIDE DEF t
<1>3. queue' \in Seq(Tasks) /\ Len(queue') = Len(queue) + 1 /\ Has(queue') = Has(queue) \cup {t}
  BY <1>1, <1>2, AppendHas DEF t
<1>4. AtHand' = AtHand \cup {g}
  BY <1>1, <1>3 DEF AtHand, Has
<1>5. Kept
  BY <1>4 DEF Kept, Received
<1>6. g.from \in Nat /\ g.to \in Nat /\ g.to \in Heights
  BY SyncAssumption DEF Packages, Heights
<1>7. \A h \in 1..g.from - 1 : Received(h)
  BY DEF Covered
<1>8. Packed'
  <2>1. \A x \in AtHand' : x \in AtHand \/ \A h \in 1..x.from - 1 : Received(h)
    BY <1>4, <1>7
  <2>2. Packed /\ unzipped' \in Seq(Packages)
    BY <1>2 DEF IInv
  <2> QED BY <1>3, <1>5, <2>1, <2>2, PackedStill
<1>9. ASSUME NEW h \in 1..g.to PROVE Received(h)'
  <2>1. CASE h <= g.from - 1
    <3>1. h \in 1..g.from - 1 /\ h \in Nat \ {0}
      BY <1>6, <2>1
    <3> QED BY <1>5, <1>7, <3>1 DEF Kept
  <2>2. CASE g.from <= h
    <3>1. g \in AtHand' /\ g.from <= h /\ h <= g.to
      BY <1>4, <1>6, <2>2
    <3> QED BY <3>1 DEF Received
  <2> QED BY <1>6, <2>1, <2>2
<1>10. g.to \in Covered'
  BY <1>6, <1>9 DEF Covered, Heights
<1> QED BY <1>3, <1>5, <1>8, <1>10

\* An answer arrives.
LEMMA ReceiveKeeps ==
    ASSUME IInv, NEW c \in calls, Receive(c)
    PROVE  IInv'
<1> DEFINE a == Answer(c)
<1>1. c \in Calls /\ c.last \in Covered /\ c.peer \in Peers
  BY DEF IInv, Held, Packets, Calls
<1>2. c.last \in Nat
  BY <1>1, SyncAssumption DEF Calls, Heights
<1>3. have' = have /\ tip' = tip /\ faults' = faults /\ failed' = failed
  BY DEF Receive
<1>4. CASE sess[c.peer] = "open" /\ a.msg = "HashesNotFound"
  <2>1. /\ panicked' = TRUE
        /\ sess' = [p \in Peers |-> None] /\ job' = [p \in Peers |-> None]
        /\ calls' = {} /\ tasks' = {} /\ queue' = <<>> /\ unzipped' = <<>>
    BY <1>4 DEF Receive
  <2>2. Frame'
    <3>1. queue' \in Seq(Tasks) /\ Len(queue') = 0 /\ unzipped' \in Seq(Packages) /\ Len(unzipped') = 0
      BY <2>1
    <3>2. Len(queue') + Len(unzipped') <= MaxQueue
      BY <3>1, SyncAssumption
    <3> QED BY <1>3, <2>1, <3>1, <3>2 DEF IInv, Frame
  <2>3. Held(Covered)'
    BY <2>1 DEF Held, Waited
  <2>4. Packed'
    BY <2>1 DEF Packed, AtHand
  <2> QED BY <2>2, <2>3, <2>4 DEF IInv
<1>5. CASE ~(sess[c.peer] = "open" /\ a.msg = "HashesNotFound")
  <2> DEFINE g == [from |-> a.from, to |-> a.to]
  <2>1. /\ IF sess[c.peer] = "open" /\ a.msg = "ChainData"
           THEN /\ Len(queue) + Len(unzipped) < MaxQueue
                /\ queue' = Append(queue, [op |-> "unzip", pkg |-> g])
           ELSE UNCHANGED queue
        /\ IF sess[c.peer] = "open" /\ c.mine THEN Finished(c.peer, a.msg, a.to, calls \ {c})
           ELSE calls' = calls \ {c} /\ UNCHANGED job
        /\ UNCHANGED <<sess, tasks, unzipped, panicked>>
    BY <1>5 DEF Receive
  <2>2. /\ queue' \in Seq(Tasks) /\ Len(queue') + Len(unzipped') <= MaxQueue
        /\ Kept /\ Packed'
        /\ sess[c.peer] = "open" /\ a.msg = "ChainData" => a.to \in Heights /\ a.to \in Covered'
    <3>1. CASE sess[c.peer] = "open" /\ a.msg = "ChainData"
      <4>1. a.from = c.last + 1 /\ a.from \in Heights /\ a.to \in Heights
        BY <1>1, <3>1, AnswerFacts
      <4>2. g \in Packages /\ g.from = a.from /\ g.to = a.to
        BY <4>1 DEF Packages
      <4>3. queue' = Append(queue, [op |-> "unzip", pkg |-> g]) /\ Len(queue) + Len(unzipped) < MaxQueue
        BY <2>1, <3>1
      <4> HIDE DEF g, a
      <4>4. g.from - 1 \in Covered
        <5>1. g.from - 1 = c.last
          BY <1>2, <4>1, <4>2
        <5> QED BY <1>1, <5>1
      <4>5. /\ Kept /\ Packed' /\ g.to \in Covered'
            /\ queue' \in Seq(Tasks) /\ Len(queue') = Len(queue) + 1
        BY <1>3, <2>1, <4>2, <4>3, <4>4, PackageCovers
      <4>6. Len(queue) \in Nat /\ Len(unzipped) \in Nat /\ unzipped' = unzipped
        BY <2>1 DEF IInv, Frame
      <4>7. Len(queue') + Len(unzipped') <= MaxQueue
        BY <4>3, <4>5, <4>6, SyncAssumption
      <4> QED BY <4>1, <4>2, <4>5, <4>7
    <3>2. CASE ~(sess[c.peer] = "open" /\ a.msg = "ChainData")
      <4>1. queue' = queue /\ unzipped' = unzipped
        BY <2>1, <3>2
      <4>2. Kept /\ AtHand' = AtHand
        BY <1>3, <4>1, UnchangedKept
      <4>3. Packed'
        BY <4>1, <4>2, PackedStill DEF IInv, Frame
      <4> QED BY <3>2, <4>1, <4>2, <4>3 DEF IInv, Frame
    <3> QED BY <3>1, <3>2
  <2>3. Frame'
    BY <1>3, <2>1, <2>2 DEF IInv, Frame
  <2>4. Covered \subseteq Covered'
    BY <2>2, CoveredGrows
  <2>5. CASE sess[c.peer] = "open" /\ c.mine
    <3> DEFINE C == Covered'
    <3>1. job[c.peer] # None
      BY <2>5 DEF IInv, Held, Waited
    <3>2. Held(C)
      <4>1. Owed(Covered) \subseteq Owed(C) /\ Packets(Covered) \subseteq Packets(C)
        BY <2>4, Widened
      <4> HIDE DEF C
      <4> QED BY <4>1 DEF IInv, Held
    <3>3. a.msg = "ChainData" => a.to \in Heights /\ a.to \in C
      BY <2>2, <2>5
    <3>4. Finished(c.peer, a.msg, a.to, calls \ {c})
      BY <2>1, <2>5
    <3> HIDE DEF C, a
    <3>5. \E r \in States(C) : job' = r.held /\ calls' = r.sent
      BY <1>1, <3>1, <3>2, <3>3, <3>4, FinishedFacts
    <3>6. Held(Covered)'
      BY <3>5, HeldAgain DEF C
    <3> QED BY <2>2, <2>3, <3>6 DEF IInv
  <2>6. CASE ~(sess[c.peer] = "open" /\ c.mine)
    <3>1. job' = job /\ calls' \subseteq calls
      BY <2>1, <2>6
    <3>2. Held(Covered)'
      BY <2>4, <3>1, HeldStill DEF IInv
    <3> QED BY <2>2, <2>3, <3>2 DEF IInv
  <2> QED BY <2>5, <2>6
<1> QED BY <1>4, <1>5

\* A packet bears the number of a job by chance.
LEMMA SameNumberKeeps ==
    ASSUME IInv, NEW p \in Peers, SameNumber(p)
    PROVE  IInv'
<1>1. /\ job[p] # None /\ Fault
      /\ UNCHANGED <<have, tip, sess, tasks, queue, unzipped, failed, panicked>>
  BY DEF SameNumber, pkgVars
<1>2. Frame'
  BY <1>1, SyncAssumption DEF IInv, Frame, Fault
<1>3. CASE Finished(p, "Other", 0, calls)
  <2>1. \E r \in States(Covered) : job' = r.held /\ calls' = r.sent
    BY <1>1, <1>3, FinishedFacts DEF IInv
  <2> QED BY <1>1, <1>2, <2>1, GivenKeeps
<1>4. CASE /\ \E c \in calls : c.peer = p /\ calls' = (calls \ {c}) \cup {[c EXCEPT !.mine = TRUE]}
           /\ UNCHANGED job
  <2>1. PICK c \in calls : c.peer = p /\ calls' = (calls \ {c}) \cup {[c EXCEPT !.mine = TRUE]}
    BY <1>4
  <2> DEFINE d == [c EXCEPT !.mine = TRUE]
  <2>2. c \in Calls /\ c.last \in Covered
    BY DEF IInv, Held, Packets
  <2>3. d \in Calls /\ d.last = c.last /\ d.peer = p
    BY <2>1, <2>2 DEF Calls
  <2>4. calls' = (calls \ {c}) \cup {d}
    BY <2>1
  <2> HIDE DEF d
  <2>5. calls' \subseteq Packets(Covered)
    BY <2>2, <2>3, <2>4 DEF IInv, Held, Packets
  <2>6. Waited(job, calls')
    BY <1>1, <2>3, <2>4 DEF IInv, Held, Waited
  <2> DEFINE r == [held |-> job, sent |-> calls']
  <2>7. r \in States(Covered) /\ job' = r.held /\ calls' = r.sent
    BY <1>4, <2>5, <2>6 DEF IInv, Held, States
  <2> HIDE DEF r
  <2> QED BY <1>1, <1>2, <2>7, GivenKeeps
<1> QED BY <1>3, <1>4 DEF SameNumber

\* A block that WORKER could not add becomes a job.
LEMMA SyncChainKeeps ==
    ASSUME IInv, NEW t \in tasks, SyncChain(t)
    PROVE  IInv'
<1> DEFINE j == new(t.block, SyncFrom(t.block))
           st == [held |-> job, sent |-> calls]
<1>1. UNCHANGED <<have, queue, unzipped, failed>>
  BY DEF SyncChain, pkgVars
<1>2. Frame'
  BY DEF SyncChain, pkgVars, IInv, Frame
<1>3. j \in Owed(Covered)
  <2>1. t.block \in Heights /\ have \in Heights /\ 0 \in 0..MAX_JOB_RETRIES
    BY SyncAssumption DEF IInv, Frame
  <2>2. j \in Jobs /\ j.cur = have
    BY <2>1 DEF new, SyncFrom, Jobs
  <2>3. have \in Covered
    BY <2>1, SyncAssumption DEF Covered, Received, Heights
  <2> QED BY <2>2, <2>3 DEF Owed
<1>4. st \in States(Covered)
  BY DEF IInv, Held, States
<1>5. Introduced \subseteq Peers
  BY DEF Introduced
<1>6. \E r \in assign_job(st, Introduced, j) : job' = r.held /\ calls' = r.sent
  BY DEF SyncChain
<1> HIDE DEF j, st
<1>7. \E r \in States(Covered) : job' = r.held /\ calls' = r.sent
  BY <1>3, <1>4, <1>5, <1>6, AssignJobFacts
<1> QED BY <1>1, <1>2, <1>7, GivenKeeps

\* A search for nodes goes out.
LEMMA NodeScanKeeps ==
    ASSUME IInv, NEW p \in Peers, node_scan(p)
    PROVE  IInv'
<1> DEFINE st == [held |-> job, sent |-> calls]
<1>1. UNCHANGED <<have, queue, unzipped, failed>>
  BY DEF node_scan, pkgVars
<1>2. Frame'
  BY DEF node_scan, pkgVars, IInv, Frame
<1>3. FindNodes \in Owed(Covered)
  <2>1. 0 \in Heights /\ 0 \in 0..MAX_JOB_RETRIES
    BY SyncAssumption DEF Heights
  <2>2. FindNodes \in Jobs /\ FindNodes.cur = 0
    BY <2>1 DEF FindNodes, Jobs
  <2>3. 0 \in Covered
    BY <2>1 DEF Covered
  <2> QED BY <2>2, <2>3 DEF Owed
<1>4. st \in States(Covered) /\ st.held = job /\ st.sent = calls
  BY DEF IInv, Held, States
<1>5. job' = [job EXCEPT ![p] = FindNodes] /\ calls' = calls \cup {make_req(FindNodes, p, TRUE)}
  BY DEF node_scan
<1> HIDE DEF st
<1>6. Taken(st, FindNodes, p).held = job' /\ Taken(st, FindNodes, p).sent = calls'
  BY <1>4, <1>5 DEF Taken
<1>7. Taken(st, FindNodes, p) \in States(Covered)
  BY <1>3, <1>4, TakenFacts
<1> QED BY <1>1, <1>2, <1>6, <1>7, GivenKeeps

\* The timer: jobs that take too long are given up or tried again.
LEMMA CheckSessionsKeeps ==
    ASSUME IInv, check_sessions
    PROVE  IInv'
<1> DEFINE gone == {p \in Peers : sess[p] = "done"}
           open == Introduced \ gone
<1>1. PICK late \in SUBSET {p \in Peers : job[p] # None} :
        /\ Fault \/ UNCHANGED faults
        /\ sess' = [p \in Peers |-> IF p \in gone THEN None ELSE sess[p]]
        /\ \E order \in SetToSeqs(late) :
             \E r \in Reassigned([held |-> [p \in Peers |-> IF p \in late \cup gone THEN None ELSE job[p]],
                                  sent |-> Old(calls, late \cup gone)], open, order) :
                job' = r.held /\ calls' = r.sent
  BY DEF check_sessions
<1> DEFINE clear == late \cup gone
           now == [p \in Peers |-> IF p \in clear THEN None ELSE job[p]]
           st == [held |-> now, sent |-> Old(calls, clear)]
<1>2. UNCHANGED <<have, tip, tasks, queue, unzipped, failed, panicked>>
  BY DEF check_sessions, pkgVars
<1>3. Frame'
  <2>1. faults' \in 0..MaxFaults
    BY <1>1, SyncAssumption DEF IInv, Frame, Fault
  <2>2. sess' \in [Peers -> {None, "open", "done"}]
    BY <1>1 DEF IInv, Frame
  <2> QED BY <1>2, <2>1, <2>2 DEF IInv, Frame
<1>4. st \in States(Covered)
  <2>1. now \in [Peers -> {None} \cup Owed(Covered)]
    BY DEF IInv, Held
  <2>2. \A q \in Peers : q \notin clear => now[q] = job[q]
    OBVIOUS
  <2>3. calls \subseteq Packets(Covered) /\ Waited(job, calls)
    BY DEF IInv, Held
  <2> HIDE DEF now, clear
  <2>4. Old(calls, clear) \subseteq Packets(Covered)
    BY <2>3, OldFacts
  <2>5. Waited(now, Old(calls, clear))
    BY <2>2, <2>3, OldWaited
  <2> QED BY <2>1, <2>4, <2>5 DEF States
<1>5. PICK order \in SetToSeqs(late) :
        \E r \in Reassigned(st, open, order) : job' = r.held /\ calls' = r.sent
  BY <1>1
<1> HIDE DEF st
<1> DEFINE n == Cardinality(late)
<1>6. order \in [1..n -> late]
  BY DEF SetToSeqs
<1>7. n \in Nat
  <2>1. IsFiniteSet(late)
    BY SyncAssumption, FS_Subset
  <2> QED BY <2>1, FS_CardinalityType
<1> HIDE DEF n
<1>8. Len(order) = n /\ order \in [1..n -> Peers]
  BY <1>6, <1>7
<1>9. \A k \in 1..n : job[order[k]] \in Owed(Covered)
  BY <1>6 DEF IInv, Held
<1>10. open \subseteq Peers
  BY DEF Introduced
<1> HIDE DEF open
<1>11. Reassigned(st, open, order) \subseteq States(Covered)
  BY <1>4, <1>7, <1>8, <1>9, <1>10, ReassignedFacts
<1>12. \E r \in States(Covered) : job' = r.held /\ calls' = r.sent
  BY <1>5, <1>11
<1> QED BY <1>2, <1>3, <1>12, GivenKeeps

\* A block is added by WORKER.
LEMMA AddBlockKeeps ==
    ASSUME IInv, NEW t \in tasks, AddBlock(t)
    PROVE  IInv'
<1>1. t \in [block : Heights, missing : BOOLEAN] /\ have \in Nat /\ have \in Heights
  BY SyncAssumption DEF IInv, Frame, Heights
<1>2. have' \in Heights /\ have <= have'
  BY <1>1 DEF AddBlock
<1>3. tasks' \subseteq [block : Heights, missing : BOOLEAN]
  <2>1. [t EXCEPT !.missing = TRUE] \in [block : Heights, missing : BOOLEAN]
    BY <1>1
  <2> QED BY <2>1 DEF AddBlock, IInv, Frame
<1>4. UNCHANGED <<tip, sess, job, calls, queue, unzipped, panicked, faults>> /\ failed' = failed \ 1..have'
  BY DEF AddBlock, netVars
<1>5. Frame'
  BY <1>2, <1>3, <1>4 DEF IInv, Frame
<1>6. AtHand' = AtHand
  BY <1>4 DEF AtHand
<1>7. Kept
  BY <1>1, <1>2, <1>4, <1>6, HigherKept
<1> QED BY <1>4, <1>5, <1>6, <1>7, QuietKeeps

\* QUEUED_WORKER takes a task.
LEMMA WorkKeeps ==
    ASSUME IInv, Work
    PROVE  IInv'
<1> DEFINE t == Head(queue)
<1>1. queue # <<>> /\ queue' = Tail(queue) /\ UNCHANGED <<tip, sess, job, calls, tasks, panicked, faults>>
  BY DEF Work, netVars
<1>2. queue \in Seq(Tasks) /\ unzipped \in Seq(Packages) /\ have \in Heights /\ failed \subseteq Heights
  BY DEF IInv, Frame
<1>3. /\ t \in Tasks /\ queue' \in Seq(Tasks) /\ Len(queue') = Len(queue) - 1
      /\ Has(queue) = Has(queue') \cup {t}
  BY <1>1, <1>2, TailHas
<1>4. t.pkg \in Packages
  BY <1>3 DEF Tasks
<1>5. /\ Len(queue) \in Nat /\ Len(unzipped) \in Nat /\ Len(queue') \in Nat /\ MaxQueue \in Nat
      /\ Len(queue) + Len(unzipped) <= MaxQueue
  BY <1>2, <1>3, SyncAssumption DEF IInv, Frame
<1>6. AtHand = {x.pkg : x \in Has(queue)} \cup Has(unzipped)
  BY AtHandFacts
<1>7. AtHand' = {x.pkg : x \in Has(queue')} \cup Has(unzipped')
  BY DEF AtHand, Has
<1>8. CASE t.op = "unzip"
  <2>1. unzipped' = Append(unzipped, t.pkg) /\ UNCHANGED <<have, failed>>
    BY <1>8 DEF Work
  <2> HIDE DEF t
  <2>2. /\ unzipped' \in Seq(Packages) /\ Len(unzipped') = Len(unzipped) + 1
        /\ Has(unzipped') = Has(unzipped) \cup {t.pkg}
    BY <1>2, <1>4, <2>1, AppendHas
  <2>3. AtHand' = AtHand
    BY <1>3, <1>6, <1>7, <2>2
  <2>4. Kept
    BY <2>1, <2>3 DEF Kept, Received
  <2>5. Len(queue') + Len(unzipped') <= MaxQueue
    BY <1>3, <1>5, <2>2
  <2>6. Frame'
    BY <1>1, <1>3, <2>1, <2>2, <2>5 DEF IInv, Frame
  <2> QED BY <1>1, <2>3, <2>4, <2>6, QuietKeeps
<1>9. CASE t.op # "unzip"
  <2>1. import_pkg(t.pkg) /\ unzipped' = unzipped
    BY <1>9 DEF Work
  <2> HIDE DEF t
  <2>2. AtHand \subseteq AtHand' \cup {t.pkg} /\ AtHand' \subseteq AtHand
    BY <1>3, <1>6, <1>7, <2>1
  <2>3. Kept /\ have' \in Heights /\ failed' \subseteq Heights
    BY <1>2, <1>4, <2>1, <2>2, ImportKept
  <2>4. Len(queue') + Len(unzipped') <= MaxQueue
    BY <1>3, <1>5, <2>1
  <2>5. Frame'
    BY <1>1, <1>2, <1>3, <2>1, <2>3, <2>4 DEF IInv, Frame
  <2> QED BY <1>1, <2>2, <2>3, <2>5, QuietKeeps
<1> QED BY <1>8, <1>9

\* The event loop queues the import of any package that is unpacked.
LEMMA UnzippedKeeps ==
    ASSUME IInv, NEW k, Unzipped(k)
    PROVE  IInv'
<1> DEFINE g == unzipped[k]
           t == [op |-> "import", pkg |-> g]
<1>1. /\ k \in DOMAIN unzipped /\ queue' = Append(queue, t) /\ unzipped' = RemoveAt(unzipped, k)
      /\ UNCHANGED <<have, tip, sess, job, calls, tasks, failed, panicked, faults>>
  BY DEF Unzipped, netVars
<1>2. queue \in Seq(Tasks) /\ unzipped \in Seq(Packages)
  BY DEF IInv, Frame
<1>3. /\ unzipped' \in Seq(Packages) /\ Len(unzipped') = Len(unzipped) - 1 /\ g \in Packages
      /\ Has(unzipped) = Has(unzipped') \cup {g}
  BY <1>1, <1>2, RemoveHas
<1>4. t \in Tasks /\ t.pkg = g
  BY <1>3 DEF Tasks
<1> HIDE DEF t, g
<1>5. queue' \in Seq(Tasks) /\ Len(queue') = Len(queue) + 1 /\ Has(queue') = Has(queue) \cup {t}
  BY <1>1, <1>2, <1>4, AppendHas
<1>6. Len(queue) \in Nat /\ Len(unzipped) \in Nat /\ Len(queue) + Len(unzipped) <= MaxQueue
  BY <1>2 DEF IInv, Frame
<1>7. AtHand = {x.pkg : x \in Has(queue)} \cup Has(unzipped)
  BY AtHandFacts
<1>8. AtHand' = {x.pkg : x \in Has(queue')} \cup Has(unzipped')
  BY DEF AtHand, Has
<1>9. AtHand' = AtHand
  BY <1>3, <1>4, <1>5, <1>7, <1>8
<1>10. Kept
  BY <1>1, <1>9 DEF Kept, Received
<1>11. Len(queue') + Len(unzipped') <= MaxQueue
  BY <1>3, <1>5, <1>6, SyncAssumption
<1>12. Frame'
  BY <1>1, <1>3, <1>5, <1>11 DEF IInv, Frame
<1> QED BY <1>1, <1>9, <1>10, <1>12, QuietKeeps

\* Every step keeps the invariant.
LEMMA InvNext == IInv /\ [Next]_vars => IInv'
<1> SUFFICES ASSUME IInv, [Next]_vars PROVE IInv'
  OBVIOUS
<1>1. ASSUME NEW p \in Peers, NewBlock(p) PROVE IInv'
  <2>1. Frame'
    <3>1. tip[p] + 1 \in Heights
      BY <1>1, SyncAssumption DEF NewBlock, IInv, Frame, Heights
    <3>2. [block |-> tip[p] + 1, missing |-> FALSE] \in [block : Heights, missing : BOOLEAN]
      BY <3>1
    <3>3. tasks' \subseteq [block : Heights, missing : BOOLEAN]
      <4> DEFINE t == [block |-> tip[p] + 1, missing |-> FALSE]
      <4>1. tasks' = tasks \/ tasks' = tasks \cup {t}
        BY <1>1 DEF NewBlock
      <4>2. t \in [block : Heights, missing : BOOLEAN] /\ tasks \subseteq [block : Heights, missing : BOOLEAN]
        BY <3>2 DEF IInv, Frame
      <4> HIDE DEF t
      <4> QED BY <4>1, <4>2
    <3>4. tip' \in [Peers -> Heights]
      BY <1>1, <3>1 DEF NewBlock, IInv, Frame
    <3> QED BY <1>1, <3>3, <3>4 DEF NewBlock, IInv, Frame, netVars, pkgVars
  <2>2. Kept /\ AtHand' = AtHand
    BY <1>1, UnchangedKept DEF NewBlock, pkgVars
  <2> QED BY <1>1, <2>1, <2>2, QuietKeeps DEF NewBlock, netVars
<1>2. ASSUME NEW p \in Peers, Connect(p) PROVE IInv'
  <2>1. Frame'
    BY <1>2 DEF Connect, IInv, Frame, pkgVars
  <2>2. Kept /\ AtHand' = AtHand
    BY <1>2, UnchangedKept DEF Connect, pkgVars
  <2> QED BY <1>2, <2>1, <2>2, QuietKeeps DEF Connect
<1>3. ASSUME NEW p \in Peers, Ends(p) PROVE IInv'
  <2>1. Frame'
    BY <1>3, SyncAssumption DEF Ends, Fault, IInv, Frame, pkgVars
  <2>2. Kept /\ AtHand' = AtHand
    BY <1>3, UnchangedKept DEF Ends, pkgVars
  <2> QED BY <1>3, <2>1, <2>2, QuietKeeps DEF Ends
<1>4. ASSUME NEW c \in calls, Lose(c) PROVE IInv'
  <2>1. Frame'
    BY <1>4, SyncAssumption DEF Lose, Fault, IInv, Frame, pkgVars
  <2>2. Kept /\ AtHand' = AtHand
    BY <1>4, UnchangedKept DEF Lose, pkgVars
  <2> QED BY <1>4, <2>1, <2>2, QuietKeeps DEF Lose
<1>5. CASE UNCHANGED vars
  <2>1. Frame'
    BY <1>5 DEF vars, netVars, pkgVars, IInv, Frame
  <2>2. Kept /\ AtHand' = AtHand
    BY <1>5, UnchangedKept DEF vars, pkgVars
  <2> QED BY <1>5, <2>1, <2>2, QuietKeeps DEF vars, netVars
<1> QED
  BY <1>1, <1>2, <1>3, <1>4, <1>5, NodeScanKeeps, SameNumberKeeps, ReceiveKeeps, SyncChainKeeps,
     CheckSessionsKeeps, AddBlockKeeps, WorkKeeps, UnzippedKeeps DEF Next

-----------------------------------------------------------------------------
(* Theorems *)

\* The jobs of the sessions, the requests, the blocks that wait for WORKER and
\* the packages between QUEUED_WORKER and the event loop keep their types, and
\* the retries, the packages and the faults their bounds.
THEOREM TypeCorrect == Spec => []TypeOK
BY InvInit, InvNext, InvTypes, PTL DEF Spec

\* Each sync job asks for what comes after blocks that were all received: stored,
\* in a package at hand, or refused by import_pkg. That holds whatever answers
\* were lost, late, doubled or taken for those of another job, and in whatever
\* order the event loop takes the packages, for any number of peers, blocks,
\* retries and packages.
THEOREM CurrentAlwaysCovered == Spec => []CurrentCovered
<1>1. IInv => CurrentCovered
  BY DEF IInv, Held, CurrentCovered, SyncJobsHeld, Owed, Covered
<1> QED BY <1>1, InvInit, InvNext, PTL DEF Spec

\* So do each request on its way, also one that nobody waits for any more, and
\* each package at hand: what import_pkg may miss below a package was received
\* before.
THEOREM RequestsAlwaysCovered == Spec => []RequestsCovered
<1>1. IInv => RequestsCovered
  BY DEF IInv, Held, Packed, RequestsCovered, Packets, Covered
<1> QED BY <1>1, InvInit, InvNext, PTL DEF Spec

=============================================================================
