------------------------------ MODULE Session -------------------------------
(***************************************************************************)
(* Two nodes that keep a session with each other over UDP: introduction,   *)
(* pings, strikes and goodbye, while packets are lost, doubled, reordered  *)
(* and late and the nodes quit, crash and come back. Sessions with         *)
(* different peers do not touch one another here; what a shard does across *)
(* its sessions is in Shard, what jobs do with them is in SyncJobs.        *)
(***************************************************************************)
EXTENDS Integers

CONSTANTS Peers, Nothing,
          TIMEOUT_TOLERANCE,   \* the strikes that a session survives
          MaxFaults,           \* bound: packets lost, doubled or late, names not resolved
          MaxUpsets,           \* bound: quits, crashes and broadcasts
          MaxOpening           \* bound: open_session calls at once

ASSUME SessionAssumption ==
    /\ \E p, q \in Peers : p # q /\ Peers = {p, q}
    /\ {TIMEOUT_TOLERANCE, MaxFaults, MaxUpsets, MaxOpening} \subseteq Nat

VARIABLES up,       \* the nodes that run
          sess,     \* the session of each node with the other, if any
          opening,  \* open_session calls that wait for the peer's address
          unsent,   \* whether unsent_broadcasts holds a message
          net,      \* the packets in flight
          faults,   \* how often the network was not perfect
          events    \* how often a node quit, crashed or had a broadcast

sessionVars == <<up, sess, opening, unsent, net, faults, events>>

Peer(p) == CHOOSE q \in Peers : q # p

\* remote_port is 255 until the peer has told its port: `intro` is whether it has.
Sessions == [intro : BOOLEAN, done : {Nothing, "Exit", "Timeout"},
             strikes : 0..TIMEOUT_TOLERANCE + 1, ping : BOOLEAN]

ASSUME NothingAssumption == Nothing \notin Peers \cup Sessions \cup {"Exit", "Timeout"}

\* Port 255 is "open"; the other is the one of the receiver's shard.
Packets == [to : Peers, port : {"open", "shard"}, signed : BOOLEAN,
            msg : {"Introduce", "Ping", "Pong", "Broadcast", "Bye"}]

-----------------------------------------------------------------------------
(* A session: each handler gives the session and the packets it sends *)

new == [intro |-> FALSE, done |-> Nothing, strikes |-> 0, ping |-> FALSE]

send(p, s, msg, signed) ==
    [to |-> Peer(p), port |-> IF s.intro THEN "shard" ELSE "open", signed |-> signed, msg |-> msg]

send_introduce(p, s) == send(p, s, "Introduce", TRUE)

Result(s, out) == [s |-> s, out |-> out]

\* An introduction is answered once; a later one must be signed.
handle_introduce(p, s, pkt) ==
    LET t == [s EXCEPT !.intro = TRUE, !.strikes = 0]
    IN IF s.intro THEN Result(IF pkt.signed THEN t ELSE s, {})
                  ELSE Result(t, {send_introduce(p, t)})

close(p, s) == Result([s EXCEPT !.done = "Exit"], {send(p, s, "Bye", FALSE)})

\* Any pong will do for a ping that is out.
recv_ping(s) == IF s.ping THEN [s EXCEPT !.ping = FALSE, !.strikes = 0] ELSE s

\* Packet::handle for what concerns the session.
handle(p, s, pkt) ==
    CASE pkt.msg = "Ping"      -> Result(s, {send(p, s, "Pong", FALSE)})
      [] pkt.msg = "Pong"      -> Result(recv_ping(s), {})
      [] pkt.msg = "Bye"       -> close(p, s)
      [] pkt.msg = "Broadcast" -> Result(s, {})

\* Whatever comes before the introduction ends the session.
recv(p, s, pkt) ==
    IF s.done # Nothing THEN Result(s, {})
    ELSE IF s.intro THEN handle(p, s, pkt)
    ELSE Result([s EXCEPT !.done = "Exit"], {})

\* Faulty variant: one strike too few.
Struck_Early(s, strikes) ==
    [s EXCEPT !.strikes = strikes, !.done = IF strikes >= TIMEOUT_TOLERANCE THEN "Timeout" ELSE Nothing]

\* The strikes are counted, and one too many ends the session.
Struck(s, strikes) ==
    [s EXCEPT !.strikes = strikes, !.done = IF strikes > TIMEOUT_TOLERANCE THEN "Timeout" ELSE Nothing]

\* Faulty variant: a ping that was not answered is forgotten.
check_conn_NoStrike(p, s) ==
    IF s.done # Nothing THEN Result(s, {})
    ELSE IF s.intro THEN Result([s EXCEPT !.ping = TRUE], {send(p, s, "Ping", FALSE)})
    ELSE Result(Struck(s, s.strikes + 1), {send(p, s, "Introduce", FALSE)})

\* Faulty variant: introductions are repeated without end.
check_conn_NoLimit(p, s) ==
    IF s.done # Nothing THEN Result(s, {})
    ELSE IF ~s.intro THEN Result(s, {send(p, s, "Introduce", FALSE)})
    ELSE LET t == Struck(s, IF s.ping THEN s.strikes + 1 ELSE s.strikes)
         IN IF t.done # Nothing THEN Result(t, {})
            ELSE Result([t EXCEPT !.ping = TRUE], {send(p, s, "Ping", FALSE)})

\* Every NODE_CHECK_INTERVAL, which is longer than PING_TIMEOUT: a ping that is
\* still out is a strike.
check_conn(p, s) ==
    IF s.done # Nothing THEN Result(s, {})
    ELSE IF ~s.intro THEN Result(Struck(s, s.strikes + 1), {send(p, s, "Introduce", FALSE)})
    ELSE LET t == Struck(s, IF s.ping THEN s.strikes + 1 ELSE s.strikes)
         IN IF t.done # Nothing THEN Result(t, {})
            ELSE Result([t EXCEPT !.ping = TRUE], {send(p, s, "Ping", FALSE)})

-----------------------------------------------------------------------------
(* The node *)

SessionInit ==
    /\ up = Peers
    /\ sess = [p \in Peers |-> Nothing]
    /\ opening = [p \in Peers |-> [call |-> 0, answer |-> 0]]
    /\ unsent = [p \in Peers |-> FALSE]
    /\ net = {}
    /\ faults = 0
    /\ events = 0

\* open_session finds no session with the peer and starts to resolve its
\* address: to call it (node_scan, AddNode, NodeList) or to answer it.
open_session(p, why) ==
    /\ sess[p] = Nothing
    /\ opening[p][why] < MaxOpening
    /\ opening' = [opening EXCEPT ![p][why] = @ + 1]

node_scan(p) ==
    /\ p \in up
    /\ open_session(p, "call")
    /\ UNCHANGED <<up, sess, unsent, net, faults, events>>

\* The address is known: a session for it replaces the one there may be by now.
Opened(p) ==
    /\ opening[p].call > 0
    /\ opening' = [opening EXCEPT ![p].call = @ - 1]
    /\ sess' = [sess EXCEPT ![p] = new]
    /\ net' = net \cup {send_introduce(p, new)}
    /\ UNCHANGED <<up, unsent, faults, events>>

\* An introduction that was routed to session s; the broadcasts that found no
\* session follow the answer.
Introduced(p, s, pkt, others) ==
    LET r == handle_introduce(p, s, pkt)
    IN /\ sess' = [sess EXCEPT ![p] = r.s]
       /\ net' = others \cup r.out \cup (IF unsent[p] THEN {send(p, r.s, "Broadcast", TRUE)} ELSE {})
       /\ unsent' = [unsent EXCEPT ![p] = FALSE]

\* As Opened, without a call: the introduction that came is now handled.
Answered(p) ==
    /\ opening[p].answer > 0
    /\ opening' = [opening EXCEPT ![p].answer = @ - 1]
    /\ Introduced(p, new, send_introduce(Peer(p), new), net)
    /\ UNCHANGED <<up, faults, events>>

\* The address cannot be resolved.
ResolveFails(p, why) ==
    /\ opening[p][why] > 0
    /\ faults < MaxFaults /\ faults' = faults + 1
    /\ opening' = [opening EXCEPT ![p][why] = @ - 1]
    /\ UNCHANGED <<up, sess, unsent, net, events>>

\* udp_process_packet on port 255: only an introduction by a peer without a
\* session gets anywhere.
ReceiveOpen(p, pkt, others) ==
    /\ pkt.port = "open"
    /\ net' = others
    /\ \/ pkt.msg = "Introduce" /\ open_session(p, "answer")
       \/ (pkt.msg # "Introduce" \/ sess[p] # Nothing) /\ UNCHANGED opening
    /\ UNCHANGED <<sess, unsent>>

\* process_packet on the port of the shard.
ReceiveShard(p, pkt, others) ==
    /\ pkt.port = "shard"
    /\ \/ sess[p] = Nothing /\ net' = others /\ UNCHANGED <<sess, unsent>>
       \/ /\ sess[p] # Nothing /\ pkt.msg = "Introduce"
          /\ Introduced(p, sess[p], pkt, others)
       \/ /\ sess[p] # Nothing /\ pkt.msg # "Introduce"
          /\ LET r == recv(p, sess[p], pkt)
             IN sess' = [sess EXCEPT ![p] = r.s] /\ net' = others \cup r.out
          /\ UNCHANGED unsent
    /\ UNCHANGED opening

Receive(pkt, others) ==
    /\ pkt.to \in up
    /\ ReceiveOpen(pkt.to, pkt, others) \/ ReceiveShard(pkt.to, pkt, others)
    /\ UNCHANGED <<up, events>>

\* Nothing is under way: packets and names take less than NODE_CHECK_INTERVAL,
\* and a check that finds otherwise is a fault of the network.
Quiet == net = {} /\ \A p \in Peers : opening[p] = [call |-> 0, answer |-> 0]

\* check_sessions: the session is checked and goes when it is done.
check_sessions(p) ==
    /\ p \in up /\ sess[p] # Nothing
    /\ Quiet \/ faults < MaxFaults
    /\ LET r == check_conn(p, sess[p])
       IN /\ sess' = [sess EXCEPT ![p] = IF r.s.done # Nothing THEN Nothing ELSE r.s]
          /\ net' = net \cup r.out
    /\ faults' = IF Quiet THEN faults ELSE faults + 1
    /\ UNCHANGED <<up, opening, unsent, events>>

Event == events < MaxUpsets /\ events' = events + 1

reliable_flood(p) ==
    /\ p \in up /\ Event
    /\ \/ /\ sess[p] = Nothing
          /\ unsent' = [unsent EXCEPT ![p] = TRUE]
          /\ UNCHANGED net
       \/ /\ sess[p] # Nothing /\ sess[p].intro /\ sess[p].done = Nothing
          /\ net' = net \cup {send(p, sess[p], "Broadcast", TRUE)}
          /\ UNCHANGED unsent
    /\ UNCHANGED <<up, sess, opening, faults>>

Gone(p) ==
    /\ up' = up \ {p}
    /\ sess' = [sess EXCEPT ![p] = Nothing]
    /\ opening' = [opening EXCEPT ![p] = [call |-> 0, answer |-> 0]]
    /\ unsent' = [unsent EXCEPT ![p] = FALSE]

\* The quit signal: the session is closed with a Bye.
Quit(p) ==
    /\ p \in up /\ Event
    /\ net' = net \cup (IF sess[p] = Nothing THEN {} ELSE close(p, sess[p]).out)
    /\ Gone(p)
    /\ UNCHANGED faults

Crash(p) ==
    /\ p \in up /\ Event
    /\ Gone(p)
    /\ UNCHANGED <<net, faults>>

Start(p) ==
    /\ p \notin up
    /\ up' = up \cup {p}
    /\ UNCHANGED <<sess, opening, unsent, net, faults, events>>

-----------------------------------------------------------------------------
(* The network *)

Deliver(pkt) == Receive(pkt, net \ {pkt}) /\ UNCHANGED faults

Duplicate(pkt) ==
    /\ faults < MaxFaults
    /\ Receive(pkt, net)
    /\ faults' = faults + 1

\* Lost on its way, which is a fault, or sent to a node that does not run.
Lose(pkt) ==
    /\ pkt.to \in up => faults < MaxFaults
    /\ net' = net \ {pkt}
    /\ faults' = IF pkt.to \in up THEN faults + 1 ELSE faults
    /\ UNCHANGED <<up, sess, opening, unsent, events>>

SessionNext ==
    \/ \E p \in Peers :
         \/ node_scan(p) \/ Opened(p) \/ Answered(p)
         \/ \E why \in {"call", "answer"} : ResolveFails(p, why)
         \/ check_sessions(p) \/ reliable_flood(p)
         \/ Quit(p) \/ Crash(p) \/ Start(p)
    \/ \E pkt \in net : Deliver(pkt) \/ Duplicate(pkt) \/ Lose(pkt)

\* A packet arrives or is lost; addresses are resolved; the timer of
\* session_check_task goes off however busy the node is.
SessionFairness ==
    /\ WF_sessionVars(\E pkt \in net : Deliver(pkt) \/ Lose(pkt))
    /\ \A p \in Peers : /\ WF_sessionVars(Opened(p)) /\ WF_sessionVars(Answered(p)) /\ WF_sessionVars(node_scan(p))
                        /\ SF_sessionVars(check_sessions(p))

SessionSpec == SessionInit /\ [][SessionNext]_sessionVars /\ SessionFairness

-----------------------------------------------------------------------------
(* Properties *)

SessionTypeOK ==
    /\ up \subseteq Peers
    /\ sess \in [Peers -> {Nothing} \cup Sessions]
    /\ opening \in [Peers -> [call : 0..MaxOpening, answer : 0..MaxOpening]]
    /\ unsent \in [Peers -> BOOLEAN]
    /\ net \subseteq Packets
    /\ faults \in 0..MaxFaults /\ events \in 0..MaxUpsets

Connected(p) == sess[p] # Nothing /\ sess[p].intro /\ sess[p].done = Nothing

\* An introduced session ends for lack of answers only if the peer has no
\* session for it or packets failed more often than check_conn tolerates, by now
\* (session.rs check_conn, which takes a late pong for a lost one).
NoFalseTimeout ==
    [][\A p \in Peers :
         Connected(p) /\ sess'[p] = Nothing /\ p \in up'
            => ~Connected(Peer(p)) \/ faults' > TIMEOUT_TOLERANCE]_sessionVars

\* An introduced session whose peer has none, or has one that waits for an
\* introduction that check_conn's repeats cannot bring, does not last.
HalfOpenEnds ==
    \A p \in Peers :
       (Connected(p) /\ ~Connected(Peer(p))) ~> (~Connected(p) \/ Connected(Peer(p)))

\* A session does not wait for the peer's introduction without end.
IntroductionEnds ==
    \A p \in Peers :
       (sess[p] # Nothing /\ ~Connected(p)) ~> (sess[p] = Nothing \/ Connected(p))

=============================================================================
