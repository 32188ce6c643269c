------------------------------- MODULE Forge --------------------------------
(***************************************************************************)
(* How a node forges: the loop that reacts to new blocks, the question to  *)
(* the network whether it should, and the EPoS algorithm with its best     *)
(* candidate, its timers and the broadcast that collects signatures. The   *)
(* main thread, the network thread and the worker run side by side. Blocks *)
(* are known by the height of their parent. How a signature becomes a      *)
(* waiting time is left open, time is counted from now.                    *)
(***************************************************************************)
EXTENDS Integers, FiniteSets, Sequences, FiniteSetsExt

CONSTANTS Keys,             \* our signing keys
          None,
          ReqValidators,    \* signatures that a block on each height needs
          Epoch,            \* what the clock shows now, in the units of the waits
          Tasks,            \* bound: forging tasks at once
          MaxWait, MaxHeight, MaxEvents,
          MaxUncles,        \* bound: blocks that do not become the head
          MaxErrors         \* bound: evaluations, creations and additions that fail

ASSUME ForgeAssumption ==
    /\ ReqValidators \in [0..MaxHeight -> Nat \ {0}]
    /\ \A h \in 0..MaxHeight : ReqValidators[h] < Epoch
    /\ {MaxWait, MaxHeight, MaxEvents, MaxUncles, MaxErrors} \subseteq Nat

VARIABLES head,      \* the height of the current block
          syncing,   \* whether there is a sync job, or its blocks are to be imported
          inbox,     \* what the loop has not seen yet: is the new block an uncle?
          asking,    \* the ShouldForge messages and their answers, in order
          task,      \* the forging tasks
          on_block,  \* the task that gets the next block
          best,      \* best_block
          evaluated, \* what evaluate_block returned last
          timers,    \* how many timers have how long to go
          bcast,     \* SendBroadcast messages that the network has not seen
          submit,    \* blocks that wait for the worker, by the height of the parent
          uncles, errors

epos == <<on_block, best, evaluated, timers>>
vars == <<head, syncing, inbox, asking, task, epos, bcast, submit, uncles, errors>>

Blocks == [prev : 0..MaxHeight, signers : UNION {[1..n -> Keys] : n \in 0..MaxWait + 2}, age : 0..MaxWait]

-----------------------------------------------------------------------------
(* EPoS *)

\* Every account has the same stake so far.
get_validator_stake(k) == 1

Error == errors < MaxErrors /\ errors' = errors + 1

\* The signatures that a block needs depend on who validated the blocks below. (If
\* the data of one of these cannot be decoded, see EvaluationFails.)
calculate_validator_info(prev) == ReqValidators[prev]

apply_block(b, k) == [b EXCEPT !.signers = Append(@, k)]

\* The waits of a signature, from the time stamp of the block on.
gen_wait(k) == IF get_validator_stake(k) = 0 THEN {} ELSE 1..MaxWait

\* A block with one more of our signatures, by the key that is fastest, and how
\* long it has to wait. A key without stake does not count.
Signed(b) ==
    UNION {{[req   |-> calculate_validator_info(b.prev),
             left  |-> Max({w - b.age, 0}),
             block |-> apply_block(b, k)] : w \in gen_wait(k)} : k \in Keys}

\* Whether candidate c takes the place of b: on a higher block, or if its time is
\* less than the number of validators.
Better(c, b) == c.block.prev > b.block.prev \/ Epoch + c.left < b.req

\* Faulty variant: only the first candidate gets a timer.
Timed_First(c) == IF best = None THEN [timers EXCEPT ![c.left] = @ + 1] ELSE timers

\* Each candidate that is accepted gets a timer.
Timed(c) == [timers EXCEPT ![c.left] = @ + 1]

\* The data of a block below, or of this one, cannot be decoded, its difficulty is
\* not the one expected, or the database or a signature gives an error: there is
\* no candidate, and false is returned.
EvaluationFails == Error /\ evaluated' = FALSE /\ UNCHANGED <<best, timers>>

\* What becomes of best_block and the timers.
evaluate_block(b) ==
    \/ EvaluationFails
    \/ /\ evaluated' = TRUE /\ UNCHANGED errors
       /\ \/ Signed(b) = {} /\ UNCHANGED <<best, timers>>
          \/ \E c \in Signed(b) :
                IF best = None \/ (best # None /\ Better(c, best))
                THEN best' = c /\ timers' = Timed(c)
                ELSE UNCHANGED <<best, timers>>

\* Faulty variant: the one who asked before is left waiting.
Cancelled_Not(t) == task

\* The sender for an earlier task is dropped, which cancels it.
Cancelled(t) ==
    [u \in Tasks |-> IF u = on_block /\ task[u] # None /\ task[u].res = "waits"
                     THEN [task[u] EXCEPT !.res = "cancelled"] ELSE task[u]]

\* What evaluate_block returns is not looked at: the task waits all the same.
create(t, b) ==
    /\ on_block' = t
    /\ task' = [Cancelled(t) EXCEPT ![t] = [stop |-> FALSE, res |-> "waits", prev |-> 0]]
    /\ evaluate_block(b)

\* Faulty variant: a timer that is too early drops the candidate.
TooEarly_Drops == best' = None /\ UNCHANGED <<on_block, task, bcast>>

\* A timer of an earlier candidate: nothing is done yet.
TooEarly == UNCHANGED <<best, on_block, task, bcast>>

\* A timer goes off. A block with too few signatures is broadcast, else it goes
\* to the task that asked last, if that still waits.
propagate_block ==
    /\ timers[0] > 0
    /\ timers' = [timers EXCEPT ![0] = @ - 1]
    /\ IF best = None THEN UNCHANGED <<best, on_block, task, bcast>>
       ELSE IF best.left > 0 THEN TooEarly
       ELSE /\ best' = None
            /\ IF Len(best.block.signers) < best.req
               THEN bcast' = bcast \cup {best.block} /\ UNCHANGED <<on_block, task>>
               ELSE /\ on_block' = None
                    /\ task' = [u \in Tasks |-> IF u = on_block /\ task[u] # None
                                                THEN [task[u] EXCEPT !.res = "block", !.prev = best.block.prev] ELSE task[u]]
                    /\ UNCHANGED bcast
    /\ UNCHANGED <<head, syncing, inbox, asking, evaluated, submit, uncles, errors>>

\* The answer is false: the broadcast goes no further.
receive_broadcast(b) == evaluate_block(b)

\* On the network thread our own receiver gets the block, and nobody else does.
SendBroadcast(b) ==
    /\ bcast' = bcast \ {b}
    /\ receive_broadcast(b)
    /\ UNCHANGED <<head, syncing, inbox, asking, task, on_block, submit, uncles>>

Aged(b) == [b EXCEPT !.age = Min({@ + 1, MaxWait})]

\* Time passes.
Tick ==
    /\ best' = IF best = None THEN None
               ELSE [best EXCEPT !.left = Max({@ - 1, 0}), !.block = Aged(@)]
    /\ timers' = [l \in 0..MaxWait |->
                    (IF l < MaxWait THEN timers[l + 1] ELSE 0) + (IF l = 0 THEN timers[0] ELSE 0)]
    /\ bcast' = {Aged(b) : b \in bcast}
    /\ UNCHANGED <<head, syncing, inbox, asking, task, on_block, evaluated, submit, uncles, errors>>

-----------------------------------------------------------------------------
(* The loop of the forger *)

\* start_forging takes an event; that of an uncle is ignored, else the network is
\* asked.
ForEach ==
    /\ inbox # <<>>
    /\ inbox' = Tail(inbox)
    /\ asking' = IF Head(inbox).uncled THEN asking ELSE Append(asking, "asks")
    /\ UNCHANGED <<head, syncing, task, epos, bcast, submit, uncles, errors>>

\* The network answers (a node without peers is as one that syncs).
ShouldForge ==
    \E k \in DOMAIN asking :
       /\ asking[k] = "asks" /\ \A j \in 1..k - 1 : asking[j] # "asks"
       /\ asking' = [asking EXCEPT ![k] = IF syncing = "job" THEN "no" ELSE "yes"]
       /\ UNCHANGED <<head, syncing, inbox, task, epos, bcast, submit, uncles, errors>>

\* The answer is there: a block is made on the head (which may fail) and handed to
\* the algorithm, in a task that also listens for new blocks.
fun(t) ==
    /\ asking # <<>> /\ Head(asking) # "asks"
    /\ asking' = Tail(asking)
    /\ task[t] = None
    /\ IF Head(asking) = "no" THEN UNCHANGED <<task, epos, errors>>
       ELSE \/ create(t, [prev |-> head, signers |-> <<>>, age |-> 0])
            \/ Error /\ UNCHANGED <<task, epos>>
    /\ UNCHANGED <<head, syncing, inbox, bcast, submit, uncles>>

\* select2: a new block comes first, then what the algorithm gave.
Select(t) ==
    /\ task[t] # None
    /\ task[t].stop \/ task[t].res # "waits"
    /\ task' = [task EXCEPT ![t] = None]
    /\ submit' = IF ~task[t].stop /\ task[t].res = "block" THEN Append(submit, task[t].prev) ELSE submit
    /\ on_block' = IF on_block = t THEN None ELSE on_block
    /\ UNCHANGED <<head, syncing, inbox, asking, best, evaluated, timers, bcast, uncles, errors>>

\* The listeners hear of a block: the loop, and for one that is no uncle the tasks.
notify(uncled) ==
    /\ Len(inbox) + Len(asking) < MaxEvents
    /\ inbox' = Append(inbox, [uncled |-> uncled])
    /\ task' = [t \in Tasks |-> IF task[t] # None /\ ~uncled THEN [task[t] EXCEPT !.stop = TRUE] ELSE task[t]]

\* add_block: on the head it becomes the head, else it is an uncle.
add_block(prev) ==
    \/ prev = head /\ head < MaxHeight /\ head' = head + 1 /\ notify(FALSE) /\ UNCHANGED uncles
    \/ prev < head /\ uncles < MaxUncles /\ uncles' = uncles + 1 /\ notify(TRUE) /\ UNCHANGED head

\* The worker adds our block, or add_block rejects it (or there is no room for
\* more in this model).
Submit ==
    /\ submit # <<>>
    /\ submit' = Tail(submit)
    /\ \/ add_block(Head(submit)) /\ UNCHANGED errors
       \/ Error /\ UNCHANGED <<head, inbox, task, uncles>>
       \/ /\ head = MaxHeight \/ (Head(submit) < head /\ uncles = MaxUncles)
          /\ UNCHANGED <<head, inbox, task, uncles, errors>>
    /\ UNCHANGED <<syncing, asking, epos, bcast>>

\* A block of a peer.
NewBlock(prev) ==
    /\ add_block(prev)
    /\ UNCHANGED <<syncing, asking, epos, bcast, submit, errors>>

SyncStarts ==
    /\ syncing = None /\ head < MaxHeight
    /\ syncing' = "job"
    /\ UNCHANGED <<head, inbox, asking, task, epos, bcast, submit, uncles, errors>>

\* The job has its last answer, or is dropped.
SyncEnds ==
    /\ syncing = "job"
    /\ syncing' \in {"import", None}
    /\ UNCHANGED <<head, inbox, asking, task, epos, bcast, submit, uncles, errors>>

\* import_pkg: blocks of the current chain are announced as uncles.
ImportPkg ==
    /\ syncing = "import"
    /\ syncing' = None
    /\ head' = Min({head + 1, MaxHeight})
    /\ notify(TRUE)
    /\ UNCHANGED <<asking, epos, bcast, submit, uncles, errors>>

EPoSInit == on_block = None /\ best = None /\ evaluated = TRUE /\ timers = [l \in 0..MaxWait |-> 0]

\* start_forging sends the first event itself.
Init ==
    /\ head = 0 /\ syncing = None
    /\ inbox = <<[uncled |-> FALSE]>> /\ asking = <<>>
    /\ task = [t \in Tasks |-> None]
    /\ EPoSInit
    /\ bcast = {} /\ submit = <<>> /\ uncles = 0 /\ errors = 0

Next ==
    \/ ForEach \/ ShouldForge \/ Tick \/ propagate_block \/ Submit
    \/ \E t \in Tasks : fun(t) \/ Select(t)
    \/ \E b \in bcast : SendBroadcast(b)
    \/ \E prev \in 0..MaxHeight : NewBlock(prev)
    \/ SyncStarts \/ SyncEnds \/ ImportPkg

\* Every thread goes on, and time does: the main thread, the network, the worker,
\* the clock and its timers.
Fairness ==
    /\ WF_vars(ForEach \/ \E t \in Tasks : fun(t) \/ Select(t))
    /\ WF_vars(ShouldForge \/ \E b \in bcast : SendBroadcast(b))
    /\ WF_vars(Submit)
    /\ WF_vars(Tick) /\ WF_vars(propagate_block)

\* As SyncJobs shows, a sync comes to an end.
Spec == Init /\ [][Next]_vars /\ Fairness /\ WF_vars(SyncEnds) /\ WF_vars(ImportPkg)

-----------------------------------------------------------------------------
(* Properties *)

Waits(t) == task[t] # None /\ task[t].res = "waits"

\* A timer that finds the candidate too early leaves it to a later one: there is
\* always one that goes off when the candidate is due.
CandidateTimed == best # None => \E l \in best.left..MaxWait : timers[l] > 0

\* A task that waits is the one that gets the next block: the one it replaced was
\* told.
NobodyForgotten == \A t \in Tasks : Waits(t) /\ ~task[t].stop => on_block = t

\* Forging on a block comes to an end, by a block of ours or of others, unless an
\* evaluation fails: create does not look at what evaluate_block returns, and its
\* task then waits for something that nobody will send.
ForgingEnds == \A t \in Tasks : Waits(t) ~> (~Waits(t) \/ ~evaluated)

\* "Forger is waiting for chain to sync...": when the sync has brought its blocks
\* it forges again, unless the next sync begins.
ForgingResumes ==
    (syncing = "import" /\ \A t \in Tasks : task[t] = None) ~> (syncing = "job" \/ \E t \in Tasks : task[t] # None)

=============================================================================
