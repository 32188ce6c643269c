------------------------------ MODULE SyncJobs ------------------------------
(***************************************************************************)
(* How a node gets the blocks it missed: the jobs that its sessions hold,  *)
(* their requests and answers over a network that loses them, the timeouts *)
(* and retries, the one worker that unpacks and imports the packages, and  *)
(* the event loop between the two, which may take them in another order.   *)
(* The blocks are one chain, named by height (forks are in BlockPath); the *)
(* peers are honest and may lag behind.                                    *)
(***************************************************************************)
EXTENDS Integers, FiniteSets, Sequences, SequencesExt

CONSTANTS Peers, None,
          MaxHeight,         \* bound: the blocks
          PackageSize,       \* how many blocks MAX_PACKET_SIZE allows
          MAX_JOB_RETRIES,
          MaxQueue,          \* bound: the packages at hand
          MaxFaults          \* bound: requests lost or late, sessions that end, strange numbers

Heights == 0..MaxHeight

Jobs == [kind : {"SyncChain", "FindNodes"}, target : Heights, cur : Heights,
         try : 0..MAX_JOB_RETRIES]

\* A request whose answer is not there yet; `mine` is whether it bears the number
\* of the job that the session holds. Others are kept if they are for blocks: a
\* list of nodes changes nothing here.
Calls == [peer : Peers, mine : BOOLEAN, kind : {"SyncChain", "FindNodes"}, last : Heights, target : Heights]

Packages == [from : Heights, to : Heights]
Tasks == [op : {"unzip", "import"}, pkg : Packages]

ASSUME SyncAssumption ==
    /\ IsFiniteSet(Peers) /\ None \notin Peers \cup Jobs
    /\ {MAX_JOB_RETRIES, MaxQueue, MaxFaults} \subseteq Nat
    /\ MaxHeight \in Nat \ {0} /\ PackageSize \in Nat \ {0}

VARIABLES have,      \* our head
          tip,       \* the head of each peer
          sess,      \* the introduced sessions, by peer
          job,       \* current_job of each session
          calls,     \* requests, or their answers, in flight
          tasks,     \* blocks that WORKER adds, or that it found no parent for
          queue,     \* the tasks of QUEUED_WORKER, in order
          unzipped,  \* the packages it has unpacked, which wait for the event loop
          failed,    \* missing blocks of packages whose import found no parent
          panicked,  \* whether the network thread is dead
          faults

netVars == <<sess, job, calls>>
pkgVars == <<queue, unzipped, failed>>
vars == <<have, tip, netVars, tasks, pkgVars, panicked, faults>>

Introduced == {p \in Peers : sess[p] # None}

SyncJobsHeld == {p \in Peers : job[p] # None /\ job[p].kind = "SyncChain"}

\* ACTIVE_SYNCS counts the jobs that exist, which is those that a session holds:
\* within one step each is created, cloned and dropped as often.
chain_sync_exists == SyncJobsHeld # {}

ShouldForge == Introduced # {} /\ ~chain_sync_exists

-----------------------------------------------------------------------------
(* Jobs; `held` and `sent` are what job and calls become *)

new(target, cur) == [kind |-> "SyncChain", target |-> target, cur |-> cur, try |-> 0]
FindNodes == [kind |-> "FindNodes", target |-> 0, cur |-> 0, try |-> 0]

make_req(j, p, mine) == [peer |-> p, mine |-> mine, kind |-> j.kind, last |-> j.cur, target |-> j.target]

\* These sessions are sent the request of a job that none of them takes.
Asked(st, j, B) ==
    IF j.kind = "FindNodes" THEN st ELSE [st EXCEPT !.sent = @ \cup {make_req(j, p, FALSE) : p \in B}]

\* This one takes the job.
Taken(st, j, p) == [held |-> [st.held EXCEPT ![p] = j], sent |-> st.sent \cup {make_req(j, p, TRUE)}]

\* The sessions get the job in some order until one is free; those that are busy
\* have been sent the request all the same. Without a free one the job is gone.
assign_job(st, open, j) ==
    LET free == {p \in open : st.held[p] = None}
        busy == open \ free
    IN IF free = {} THEN {Asked(st, j, busy)}
       ELSE {Taken(Asked(st, j, B), j, p) : p \in free, B \in SUBSET busy}

\* Faulty variant: a package ends the job, wherever it ends.
complete_Any(j, msg, to) == IF msg = "ChainData" \/ j.kind = "FindNodes" THEN {} ELSE {[j EXCEPT !.try = @ + 1]}

\* Faulty variant: an answer that does not help is not counted.
complete_Uncounted(j, msg, to) ==
    IF j.kind = "FindNodes" \/ (msg = "ChainData" /\ to = j.target) THEN {}
    ELSE {[j EXCEPT !.cur = IF msg = "ChainData" THEN to ELSE @]}

\* What is left to do after an answer: from where the package ended, or again.
complete(j, msg, to) ==
    LET try == IF msg = "ChainData" THEN j.try ELSE j.try + 1
    IN IF \/ j.kind = "FindNodes"
          \/ msg = "ChainData" /\ to = j.target
          \/ try > MAX_JOB_RETRIES
       THEN {}
       ELSE {[j EXCEPT !.cur = IF msg = "ChainData" THEN to ELSE @, !.try = try]}

\* The numbers of the jobs that these peers held are no longer waited for.
Old(packets, peers) ==
    {IF c.peer \in peers THEN [c EXCEPT !.mine = FALSE] ELSE c :
        c \in {c \in packets : c.peer \in peers => c.kind = "SyncChain"}}

\* Each of a set of jobs is assigned.
Assign(states, open, jobs) ==
    IF jobs = {} THEN states ELSE UNION {assign_job(st, open, j) : st \in states, j \in jobs}

\* A packet finishes the job of peer p: the slot is free for what is left of it.
Finished(p, msg, to, others) ==
    LET st == [held |-> [job EXCEPT ![p] = None], sent |-> Old(others, {p})]
    IN \E r \in Assign({st}, Introduced, complete(job[p], msg, to)) :
          job' = r.held /\ calls' = r.sent

-----------------------------------------------------------------------------
(* What the peers do: they run the same program *)

\* A peer gets its next block, and we may hear of it.
NewBlock(p) ==
    /\ ~panicked
    /\ tip[p] < MaxHeight
    /\ tip' = [tip EXCEPT ![p] = @ + 1]
    /\ tasks' \in {tasks} \cup (IF p \in Introduced THEN {tasks \cup {[block |-> tip[p] + 1, missing |-> FALSE]}} ELSE {})
    /\ UNCHANGED <<have, netVars, pkgVars, panicked, faults>>

\* The answer to SyncBlocks: as many blocks as one package takes.
SyncBlocks(c) ==
    LET Reply(msg, to) == [msg |-> msg, from |-> c.last + 1, to |-> to]
    IN IF {c.last, c.target} \subseteq 0..tip[c.peer]
       THEN IF c.last >= c.target THEN Reply("InternalError", 0)
            ELSE Reply("ChainData", IF c.last + PackageSize < c.target THEN c.last + PackageSize ELSE c.target)
       ELSE Reply("HashesNotFound", 0)

Answer(c) == IF c.kind = "SyncChain" THEN SyncBlocks(c) ELSE [msg |-> "NodeList", from |-> 0, to |-> 0]

Fault == faults < MaxFaults /\ faults' = faults + 1

Lose(c) ==
    /\ Fault
    /\ calls' = calls \ {c}
    /\ UNCHANGED <<have, tip, sess, job, tasks, pkgVars, panicked>>

-----------------------------------------------------------------------------
(* The network thread *)

\* recv of the answer: the packet is handled, and the job whose number it bears
\* is finished. A package goes to the queue. For missing hashes there is no
\* code: the thread panics, and everything it holds is gone.
Receive(c) ==
    LET a == Answer(c) IN
    /\ UNCHANGED <<have, tip, failed, faults>>
    /\ IF sess[c.peer] = "open" /\ a.msg = "HashesNotFound"
       THEN /\ panicked' = TRUE
            /\ sess' = [p \in Peers |-> None] /\ job' = [p \in Peers |-> None]
            /\ calls' = {} /\ tasks' = {} /\ queue' = <<>> /\ unzipped' = <<>>
       ELSE /\ IF sess[c.peer] = "open" /\ a.msg = "ChainData"
               THEN /\ Len(queue) + Len(unzipped) < MaxQueue
                    /\ queue' = Append(queue, [op |-> "unzip", pkg |-> [from |-> a.from, to |-> a.to]])
               ELSE UNCHANGED queue
            /\ IF sess[c.peer] = "open" /\ c.mine THEN Finished(c.peer, a.msg, a.to, calls \ {c})
               ELSE calls' = calls \ {c} /\ UNCHANGED job
            /\ UNCHANGED <<sess, tasks, unzipped, panicked>>

\* A packet that the peer sent by itself, or an old answer, bears the number of
\* the job: each end of a session numbers its packets from 0.
SameNumber(p) ==
    /\ sess[p] = "open" /\ job[p] # None
    /\ Fault
    /\ \/ Finished(p, "Other", 0, calls)
       \/ /\ \E c \in calls : c.peer = p /\ calls' = (calls \ {c}) \cup {[c EXCEPT !.mine = TRUE]}
          /\ UNCHANGED job
    /\ UNCHANGED <<have, tip, sess, tasks, pkgVars, panicked>>

\* Faulty variant: the job starts from the block below the one that was announced.
SyncFrom_Missing(b) == b - 1

SyncFrom(b) == have

\* The block that WORKER could not add: a job to get what is below it.
SyncChain(t) ==
    /\ t.missing
    /\ tasks' = tasks \ {t}
    /\ \E r \in assign_job([held |-> job, sent |-> calls], Introduced, new(t.block, SyncFrom(t.block))) :
          job' = r.held /\ calls' = r.sent
    /\ UNCHANGED <<have, tip, sess, pkgVars, panicked, faults>>

\* A search for nodes goes to one session, which takes it if it is free (here:
\* one search at a time).
node_scan(p) ==
    /\ p \in Introduced /\ job[p] = None
    /\ \A q \in Peers : job[q] # None => job[q].kind # "FindNodes"
    /\ job' = [job EXCEPT ![p] = FindNodes]
    /\ calls' = calls \cup {make_req(FindNodes, p, TRUE)}
    /\ UNCHANGED <<have, tip, sess, tasks, pkgVars, panicked, faults>>

Connect(p) ==
    /\ ~panicked
    /\ sess[p] = None
    /\ sess' = [sess EXCEPT ![p] = "open"]
    /\ UNCHANGED <<have, tip, job, calls, tasks, pkgVars, panicked, faults>>

\* The session is over, but stays until the next check.
Ends(p) ==
    /\ sess[p] = "open"
    /\ Fault
    /\ sess' = [sess EXCEPT ![p] = "done"]
    /\ UNCHANGED <<have, tip, job, calls, tasks, pkgVars, panicked>>

\* A job that expired once too often is dropped.
Retried(j) == IF j.try + 1 > MAX_JOB_RETRIES THEN {} ELSE {[j EXCEPT !.try = @ + 1]}

\* What job and calls may become when the jobs of these peers are given out, in turn.
Reassigned(st, open, order) ==
    LET after[k \in 0..Len(order)] ==
            IF k = 0 THEN {st} ELSE Assign(after[k - 1], open, Retried(job[order[k]]))
    IN after[Len(order)]

\* check_sessions for the jobs: those whose answer did not come in JOB_TIMEOUT
\* have expired. The sessions that are done go, with what they hold; then the
\* jobs that expired are given to those that stay.
check_sessions ==
    /\ ~panicked
    /\ UNCHANGED <<have, tip, tasks, pkgVars, panicked>>
    /\ \E late \in SUBSET {p \in Peers : job[p] # None} :
         LET waits == {c.peer : c \in {c \in calls : c.mine}}
             gone  == {p \in Peers : sess[p] = "done"}
             clear == late \cup gone
             st == [held |-> [p \in Peers |-> IF p \in clear THEN None ELSE job[p]], sent |-> Old(calls, clear)]
         IN /\ {p \in Peers : job[p] # None} \ waits \subseteq late
            /\ IF late \cap waits # {} THEN Fault ELSE UNCHANGED faults
            /\ sess' = [p \in Peers |-> IF p \in gone THEN None ELSE sess[p]]
            /\ \E order \in SetToSeqs(late) : \E r \in Reassigned(st, Introduced \ gone, order) :
                  job' = r.held /\ calls' = r.sent

-----------------------------------------------------------------------------
(* The workers *)

\* WORKER: add_block, for the block of a packet.
AddBlock(t) ==
    /\ ~t.missing
    /\ have' = IF t.block = have + 1 THEN t.block ELSE have
    /\ tasks' = (tasks \ {t}) \cup (IF t.block > have + 1 THEN {[t EXCEPT !.missing = TRUE]} ELSE {})
    /\ failed' = failed \ 1..have'
    /\ UNCHANGED <<tip, netVars, queue, unzipped, panicked, faults>>

\* import_pkg: all the blocks of the package, or none without the parent of its
\* first. The error is logged, and the package is gone.
import_pkg(g) ==
    /\ have' = IF g.from <= have + 1 /\ have < g.to THEN g.to ELSE have
    /\ failed' = (IF g.from > have + 1 THEN failed \cup g.from..g.to ELSE failed) \ 1..have'

\* QUEUED_WORKER: the next task, a package to be unpacked or imported.
Work ==
    /\ queue # <<>>
    /\ queue' = Tail(queue)
    /\ LET t == Head(queue)
       IN IF t.op = "unzip" THEN unzipped' = Append(unzipped, t.pkg) /\ UNCHANGED <<have, failed>>
          ELSE import_pkg(t.pkg) /\ UNCHANGED unzipped
    /\ UNCHANGED <<tip, netVars, tasks, panicked, faults>>

\* The event loop finds a package unpacked and queues its import. Of several it
\* may find any first.
Unzipped(k) ==
    /\ k \in DOMAIN unzipped
    /\ queue' = Append(queue, [op |-> "import", pkg |-> unzipped[k]])
    /\ unzipped' = RemoveAt(unzipped, k)
    /\ UNCHANGED <<have, tip, netVars, tasks, failed, panicked, faults>>

Init ==
    /\ have = 0
    /\ tip = [p \in Peers |-> 1]
    /\ sess = [p \in Peers |-> None] /\ job = [p \in Peers |-> None]
    /\ calls = {} /\ tasks = {} /\ queue = <<>> /\ unzipped = <<>> /\ failed = {}
    /\ panicked = FALSE /\ faults = 0

Next ==
    \/ \E p \in Peers : NewBlock(p) \/ Connect(p) \/ Ends(p) \/ node_scan(p)
                        \/ SameNumber(p)
    \/ \E c \in calls : Receive(c) \/ Lose(c)
    \/ \E t \in tasks : SyncChain(t) \/ AddBlock(t)
    \/ check_sessions
    \/ Work
    \/ \E k \in 1..MaxQueue : Unzipped(k)

\* The timer goes off, the workers and the event loop go on while there is work,
\* and the request of a job is answered or lost.
Fairness ==
    /\ WF_vars(check_sessions)
    /\ WF_vars(Work \/ Unzipped(1) \/ \E t \in tasks : SyncChain(t) \/ AddBlock(t))
    /\ \A p \in Peers : WF_vars(\E c \in calls : c.peer = p /\ c.mine /\ (Receive(c) \/ Lose(c)))

Spec == Init /\ [][Next]_vars /\ Fairness

-----------------------------------------------------------------------------
(* Properties *)

TypeOK ==
    /\ have \in Heights /\ tip \in [Peers -> Heights]
    /\ sess \in [Peers -> {None, "open", "done"}]
    /\ job \in [Peers -> {None} \cup Jobs]
    /\ calls \subseteq Calls
    /\ tasks \subseteq [block : Heights, missing : BOOLEAN]
    /\ queue \in Seq(Tasks) /\ unzipped \in Seq(Packages)
    /\ Len(queue) + Len(unzipped) <= MaxQueue
    /\ failed \subseteq Heights
    /\ panicked \in BOOLEAN /\ faults \in 0..MaxFaults

\* The packages at hand.
AtHand == {queue[k].pkg : k \in DOMAIN queue} \cup {unzipped[k] : k \in DOMAIN unzipped}

\* The block at this height was received.
Received(h) == h <= have \/ h \in failed \/ \E g \in AtHand : g.from <= h /\ h <= g.to

\* A job asks for what comes after the blocks that were received: whoever held it
\* before, and whatever answer bore its number, none below is left out. (It may
\* be a block that import_pkg refused for its missing parent.)
CurrentCovered == \A p \in SyncJobsHeld : \A h \in 1..job[p].cur : Received(h)

\* The same for every request on its way and for every package at hand, however
\* late: if an import fails for a missing parent, another package has overtaken
\* the one with the parent.
RequestsCovered ==
    /\ \A c \in calls : \A h \in 1..c.last : Received(h)
    /\ \A g \in AtHand : \A h \in 1..g.from - 1 : Received(h)

\* Whatever is lost, late or refused, jobs come to an end: a node that has
\* peers is not kept from forging for good.
JobsEnd == []<>(ShouldForge \/ Introduced = {} \/ panicked)

\* A sync that nothing disturbs brings the block it is for, unless the event loop
\* takes two packages in another order than they came in.
SyncBringsTarget ==
    \A h \in Heights \ {0, 1} :
       (\E p \in SyncJobsHeld : job[p].target = h) ~> (have >= h \/ failed # {} \/ faults > 0 \/ panicked)

=============================================================================
