------------------------------- MODULE Shard --------------------------------
(***************************************************************************)
(* A shard of one node: its table of sessions by address, the repository   *)
(* of nodes it scans, the sessions it is opening, and the messages it      *)
(* floods. Of a session it keeps who the peer is, whether it introduced    *)
(* itself and whether the session is done; Session shows that one that is  *)
(* not introduced ends. What the peers do comes from the environment.      *)
(***************************************************************************)
EXTENDS RepoOps

CONSTANTS Own,            \* the endpoint that each node with a key announces
          Reach,          \* the addresses from where each of them may send
          Tcp,            \* the endpoints that are called over TCP
          Incompatible,   \* nodes with another key length, or with our own key
          MyId,           \* the hash of our own key
          MinNodes,       \* ClientConfig.min_nodes
          AttachNodes,    \* the nodes that attach_network scans for
          MAX_ABUSES,
          Files,          \* bound: what the file may hold at the start
          MaxOpening,     \* bound: open_session calls at once that are not from a scan
          MaxUnsent,      \* bound: the messages kept
          IdxCycle        \* last_peer_idx counts modulo a multiple of all list lengths

ASSUME ShardAssumption ==
    /\ Own \in [Ids \ {NoKey} -> Endpoints]
    /\ Reach \in [Ids \ {NoKey} -> SUBSET Endpoints]
    /\ Tcp \subseteq Endpoints /\ Incompatible \subseteq Ids /\ MyId # NoKey
    /\ {MinNodes, AttachNodes, MAX_ABUSES, MaxOpening, MaxUnsent} \subseteq Nat
    /\ IdxCycle \in Nat \ {0} /\ None \notin {"Exit", "ExitPermanent", "Abuse"}
    /\ \A f \in Files \ {None} : /\ IsFiniteSet(DOMAIN f) /\ DOMAIN f \subseteq Ids
                                /\ f \in [DOMAIN f -> [ep : Endpoints, score : 0..MaxScore]]

VARIABLES nodes, sorted,   \* available_nodes and sorted_nodes of node_repo
          attached,
          sessions,   \* the session at each address, if any
          peer_ids,
          idx,        \* last_peer_idx
          opening,    \* the calls of open_session that wait
          unsent      \* how many messages unsent_broadcasts holds

repoVars == <<nodes, sorted>>
vars == <<repoVars, attached, sessions, peer_ids, idx, opening, unsent>>

repo == [nodes |-> nodes, sorted |-> sorted, dirty |-> TRUE]
Become(r) == nodes' = r.nodes /\ sorted' = r.sorted

Addrs == Endpoints

SessionRecords == [id : Ids, ep : Endpoints, addr : Addrs, intro : BOOLEAN,
                   done : {None, "Exit", "ExitPermanent", "Abuse"}, abuses : 0..MAX_ABUSES + 1]

\* A call of open_session: for whom and for what, and whether it fails because
\* there is a session with that endpoint or that peer.
OpenCalls == [id : Ids, ep : Endpoints, why : {"scan", "list", "answer", "connect"}, exists : BOOLEAN]

Open == {a \in Addrs : sessions[a] # None}
Introduced == {a \in Open : sessions[a].intro}

-----------------------------------------------------------------------------
(* Opening sessions *)

Exists(id, ep) == \E a \in Open : sessions[a].ep = ep \/ sessions[a].id = id

open_session(id, ep, why) == [id |-> id, ep |-> ep, why |-> why, exists |-> Exists(id, ep)]

new(c) == [id |-> c.id, ep |-> c.ep, addr |-> c.ep, intro |-> FALSE, done |-> None, abuses |-> 0]

Waiting(whys) == Cardinality({c \in opening : c.why \in whys})

\* A node tells of another in its NodeList.
ListNode(id) ==
    /\ attached /\ Introduced # {}
    /\ Waiting({"list", "answer"}) < MaxOpening
    /\ opening' = opening \cup {open_session(id, Own[id], "list")}
    /\ UNCHANGED <<repoVars, attached, sessions, peer_ids, idx, unsent>>

\* The first packet of a node that calls us.
CalledBy(id) ==
    /\ attached /\ Waiting({"list", "answer"}) < MaxOpening
    /\ ~Exists(id, Own[id])
    /\ opening' = opening \cup {open_session(id, Own[id], "answer")}
    /\ UNCHANGED <<repoVars, attached, sessions, peer_ids, idx, unsent>>

\* handle_introduce of session s, from address a.
handle_introduce(s, a, id) ==
    IF s.intro /\ s.id # id THEN s
    ELSE [s EXCEPT !.id = id, !.ep = Own[id], !.intro = TRUE,
                   !.addr = IF s.intro THEN a ELSE @,
                   !.done = IF id \in Incompatible THEN "ExitPermanent" ELSE @]

\* Faulty variant: the session stays under the address it was found at.
Rekeyed_Stays(table, at, s) == [table EXCEPT ![at] = s]

\* The session is taken out at one address and put in under its own.
Rekeyed(table, at, s) == [a \in Addrs |-> IF a = s.addr THEN s ELSE IF a = at THEN None ELSE table[a]]

\* Faulty variant: the messages are left where they are.
Drain_Not(n) == n

\* The messages that found no session go to the first that introduces itself.
Drain(n) == 0

\* process_packet with an introduction of node id from address a, which goes to
\* the session of that address or else to one of that node.
Introduce(table, a, id) ==
    LET found == IF table[a] # None THEN {a} ELSE {b \in Addrs : table[b] # None /\ table[b].id = id}
    IN \/ found = {} /\ sessions' = table /\ UNCHANGED unsent
       \/ \E at \in found :
             LET s == handle_introduce(table[at], a, id)
             IN sessions' = Rekeyed(table, at, s) /\ unsent' = Drain(unsent)

Inserted(c) == [sessions EXCEPT ![c.ep] = new(c)]

\* Whether a call that comes back finds the shard, by the id of its network.
get_shard_by_id == attached

\* The scan passes over the peers that are noted here.
PeerIds(id) == peer_ids \cup {id}

\* The address is known. Over UDP, and for a connection that was accepted, the
\* session is put in the table, whatever is there; else a connection is made.
Resolved(c) ==
    /\ ~c.exists /\ c.why # "connect"
    /\ IF c.ep \in Tcp /\ c.why # "answer"
       THEN /\ opening' = (opening \ {c}) \cup {[c EXCEPT !.why = "connect"]}
            /\ UNCHANGED <<sessions, peer_ids, unsent>>
       ELSE /\ opening' = opening \ {c}
            /\ IF ~get_shard_by_id THEN UNCHANGED <<sessions, peer_ids, unsent>>
               ELSE /\ peer_ids' = PeerIds(c.id)
                    /\ IF c.why = "answer" THEN Introduce(Inserted(c), c.ep, c.id)
                       ELSE sessions' = Inserted(c) /\ UNCHANGED unsent
    /\ UNCHANGED <<repoVars, attached, idx>>

\* A connection over TCP is made, or not.
Connected(c) ==
    /\ c.why = "connect"
    /\ opening' = opening \ {c}
    /\ \/ /\ get_shard_by_id /\ sessions[c.ep] = None
          /\ sessions' = Inserted(c)
          /\ peer_ids' = PeerIds(c.id)
       \/ UNCHANGED <<sessions, peer_ids>>
    /\ UNCHANGED <<repoVars, attached, idx, unsent>>

\* open_session fails: a node from the repository is removed from it (and the
\* repository saved, see NodeRepo).
OpenFails(c) ==
    /\ c.why # "connect"
    /\ opening' = opening \ {c}
    /\ IF c.why = "scan" /\ get_shard_by_id THEN Become(remove(repo, c.id)) ELSE UNCHANGED repoVars
    /\ UNCHANGED <<attached, sessions, peer_ids, idx, unsent>>

-----------------------------------------------------------------------------
(* The timer *)

\* Faulty variant: every scan starts with the best node.
ScanFrom_Best == 0

ScanFrom == idx

\* node_scan: the nodes that are tried next, in turn, and where it stops.
node_scan(r, from, count, wanted, ids) ==
    LET limit    == Min({wanted * 3, Len(r.sorted)})
        Peer(k)  == get_nodes(r, (from + k) % IdxCycle)
        Queue(n) == {k \in 0..n - 1 : Peer(k) \notin ids \cup {MyId}}
        attempts == Min({n \in 0..limit : n = limit \/ count + Cardinality(Queue(n)) >= wanted})
    IN [idx   |-> (from + attempts) % IdxCycle,
        queue |-> {open_session(Peer(k), r.nodes[Peer(k)].ep, "scan") : k \in Queue(attempts)}]

\* check_sessions for the repository: a node that may not be called again is
\* removed, one that is introduced and not there is added.
checked(r, a) ==
    LET s == sessions[a]
        t == IF s.done \in {"ExitPermanent", "Abuse"} THEN remove(r, s.id) ELSE r
    IN IF s.intro /\ s.id \notin DOMAIN t.nodes THEN new_node(t, s.id, s.ep) ELSE t

\* The repository after the sessions at these addresses were checked, in turn.
CheckedAll(order) ==
    LET after[k \in 0..Len(order)] == IF k = 0 THEN repo ELSE checked(after[k - 1], order[k])
    IN after[Len(order)]

\* session_check_task: node_scan, then check_sessions (bound: one scan's calls at
\* a time).
session_check_task ==
    LET scan == node_scan(repo, ScanFrom, Cardinality(Open), MinNodes, peer_ids)
        kept == {a \in Open : sessions[a].done = None}
    IN /\ attached
       /\ Waiting({"scan", "connect"}) = 0 \/ scan.queue = {}
       /\ opening' = opening \cup scan.queue
       /\ idx' = scan.idx
       /\ \E order \in SetToSeqs(Open) : Become(CheckedAll(order))
       /\ sessions' = [a \in Addrs |-> IF a \in kept THEN sessions[a] ELSE None]
       /\ peer_ids' = {sessions[a].id : a \in kept}
       /\ UNCHANGED <<attached, unsent>>

-----------------------------------------------------------------------------
(* Packets and messages *)

\* From where the node is called, or from an address it has moved to.
IntroducedBy(a, id) ==
    /\ attached
    /\ a \in Reach[id]
    /\ Introduce(sessions, a, id)
    /\ UNCHANGED <<repoVars, attached, peer_ids, idx, opening>>

\* A session ends: the peer says goodbye, does not answer, or speaks too early.
Ends(a) ==
    /\ a \in Open /\ sessions[a].done = None
    /\ sessions' = [sessions EXCEPT ![a].done = "Exit"]
    /\ UNCHANGED <<repoVars, attached, peer_ids, idx, opening, unsent>>

\* One abuse too many ends the session.
mark_abuse(s) ==
    [s EXCEPT !.abuses = @ + 1, !.done = IF s.abuses + 1 > MAX_ABUSES THEN "Abuse" ELSE @]

\* A broadcast is accepted if it has not come before and its receiver says so.
handle_broadcast(known, accepts) == ~known /\ accepts

\* A broadcast from a peer; one that is not accepted is held against the peer.
BroadcastFrom(a, known, accepts) ==
    /\ a \in Introduced /\ sessions[a].done = None
    /\ sessions' = IF handle_broadcast(known, accepts) THEN sessions ELSE [sessions EXCEPT ![a] = mark_abuse(@)]
    /\ UNCHANGED <<repoVars, attached, peer_ids, idx, opening, unsent>>

\* With a table that is empty the message is kept, else it goes to those that
\* are introduced.
reliable_flood == unsent' = IF Open = {} THEN unsent + 1 ELSE unsent

\* A block or transaction that is fresh, or a broadcast that our own receiver
\* accepted.
Flood ==
    /\ attached /\ unsent < MaxUnsent
    /\ reliable_flood
    /\ UNCHANGED <<repoVars, attached, sessions, peer_ids, idx, opening>>

\* detach_network and the end of the program: every session is closed.
detach_network ==
    /\ attached
    /\ attached' = FALSE
    /\ Become(empty)
    /\ sessions' = [a \in Addrs |-> None]
    /\ peer_ids' = {} /\ unsent' = 0 /\ idx' = 0
    /\ UNCHANGED opening

\* attach_network scans for nodes at once if the repository has two entries.
FirstScan(r) ==
    IF Len(r.sorted) >= 2 THEN node_scan(r, 0, 0, AttachNodes, {}) ELSE [idx |-> 0, queue |-> {}]

\* A repository and a table of its own; calls of open_session from before
\* detach_network find the new shard under the same network id.
attach_network ==
    /\ ~attached /\ attached' = TRUE
    /\ \E f \in Files : \E r \in Loads(f) :
         /\ Become(r)
         /\ Waiting({"scan", "connect"}) = 0 \/ FirstScan(r).queue = {}
         /\ opening' = opening \cup FirstScan(r).queue
         /\ idx' = FirstScan(r).idx
    /\ UNCHANGED <<sessions, peer_ids, unsent>>

Init ==
    /\ attached = TRUE
    /\ sessions = [a \in Addrs |-> None]
    /\ peer_ids = {} /\ unsent = 0
    /\ \E f \in Files : \E r \in Loads(f) :
         /\ nodes = r.nodes /\ sorted = r.sorted
         /\ idx = FirstScan(r).idx /\ opening = FirstScan(r).queue

Next ==
    \/ attach_network \/ detach_network
    \/ session_check_task
    \/ \E c \in opening : Resolved(c) \/ Connected(c) \/ OpenFails(c)
    \/ \E id \in Ids \ {NoKey} :
          ListNode(id) \/ CalledBy(id) \/ \E a \in Addrs : IntroducedBy(a, id)
    \/ \E a \in Addrs : Ends(a) \/ \E known, accepts \in BOOLEAN : BroadcastFrom(a, known, accepts)
    \/ Flood

\* The timer goes off, addresses get resolved or not, and a session that is not
\* introduced ends, as Session shows.
Fairness ==
    /\ SF_vars(session_check_task)
    /\ \A id \in Ids, why \in {"scan", "list", "answer", "connect"} :
          WF_vars(\E c \in opening : c.id = id /\ c.why = why /\ (Resolved(c) \/ Connected(c) \/ OpenFails(c)))
    /\ \A a \in Addrs : WF_vars(a \notin Introduced /\ Ends(a))

Spec == Init /\ [][Next]_vars /\ Fairness

-----------------------------------------------------------------------------
(* Properties *)

TypeOK ==
    /\ repo.nodes \in UNION {[S -> [ep : Endpoints, score : 0..MaxScore]] : S \in SUBSET Ids}
    /\ sessions \in [Addrs -> {None} \cup SessionRecords]
    /\ peer_ids \subseteq Ids
    /\ opening \subseteq OpenCalls
    /\ unsent \in 0..MaxUnsent

\* process_packet finds a session under the address that its packets come from:
\* the table and the sessions agree, also after an introduction from elsewhere.
KeyedByAddress == \A a \in Open : sessions[a].addr = a

\* unsent_broadcasts is for the time without peers: once a session is
\* introduced none of its messages still waits.
UnsentOnlyWhileAlone == Introduced # {} => unsent = 0

Tried(id) == (\E c \in opening : c.id = id) \/ (\E a \in Open : sessions[a].id = id)

\* While no session is introduced, node_scan gets round to every node there is.
EveryNodeTried ==
    \A id \in Ids \ {NoKey} :
       []<>(Tried(id) \/ id \notin DOMAIN nodes \/ ~attached \/ Introduced # {})

=============================================================================
