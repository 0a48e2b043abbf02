----------------------------- MODULE MeshGossip -----------------------------
(***************************************************************************)
(* The gossip side of P2PNode (p2p.rs): join_room, send_message and the    *)
(* Message branch of run, which hands an envelope to the program once and  *)
(* publishes it again with a lower ttl.                                    *)
(*                                                                         *)
(* libp2p's gossipsub is external: a publish is accepted or refused, and   *)
(* an accepted message reaches every subscriber of its topic, at most once *)
(* and at any time, never its own publisher.  An envelope that is          *)
(* published again is a new message for gossipsub, so only seen_mesh tells *)
(* that it is not new.                                                     *)
(***************************************************************************)
EXTENDS Integers, Sequences

CONSTANTS
    Nodes,
    Rooms,
    Ids,          \* the uuids of this program's envelopes
    Ttl,          \* the ttl of a new envelope, 7
    ForeignIds,   \* the ids of what other clients publish
    ForeignData,  \* what other clients on the same topics publish
    Foreigner,    \* ... and who they are
    MaxRuns       \* MaxRuns[n] bounds the processes of node n

U8 == 0..255

\* A MeshEnvelope, without the origin, which nobody reads.  A payload is "ok"
\* or, from another client, not base64.
Envelopes(ids) ==
    [form : {"envelope"}, mesh : U8, id : ids, room_id : Rooms, ttl : U8,
     payload : {"ok", "bad"}]

\* What does not parse as one.
Raws(ids) == [form : {"raw"}, id : ids]

ASSUME ConstantsAssumption ==
    /\ Ttl \in U8
    /\ ForeignData \subseteq Envelopes(ForeignIds) \cup Raws(ForeignIds)
    /\ MaxRuns \in [Nodes -> Nat \ {0}]
    /\ Foreigner \notin Nodes \X Nat

VARIABLES
    run,        \* run[n]: the number of the process (and PeerId) of node n
    rooms,      \* rooms[n]: the rooms its process has joined, and subscribes to
    seen_mesh,  \* seen_mesh[n]: the envelope ids it has seen
    events,     \* events[n]: the payloads queued for the program (their ids)
    gossip,     \* every message gossipsub has accepted
    heard,      \* heard[n]: those it has handed to n's process
    sent        \* history: [id, src], who first sent what

vars == <<run, rooms, seen_mesh, events, gossip, heard, sent>>

-----------------------------------------------------------------------------
(* Data *)

Peer(n) == <<n, run[n]>>

\* What send_message builds.
Envelope(id, room, ttl) ==
    [form |-> "envelope", mesh |-> 1, id |-> id, room_id |-> room, ttl |-> ttl,
     payload |-> "ok"]

Message(src, topic, data) == [src |-> src, topic |-> topic, data |-> data]

\* Mutants of Fresh: only what this process said itself is known; what it said
\* itself is not.
Fresh_NotMine(n, data) ==
    data.mesh = 1 /\ [id |-> data.id, src |-> Peer(n)] \notin sent

Fresh_NotHeard(n, data) ==
    data.mesh = 1 /\ \A m \in heard[n] : m.data.id # data.id

\* The condition of the Message branch.
Fresh(n, data) == data.mesh = 1 /\ data.id \notin seen_mesh[n]

\* A mutant of Queued: an envelope at its last hop is not read.
Queued_NotLast(queue, data) ==
    IF data.payload = "ok" /\ data.ttl > 0 THEN Append(queue, data.id) ELSE queue

\* The program is given the payload of an envelope, if it can be decoded.
Queued(queue, data) ==
    IF data.payload = "ok" THEN Append(queue, data.id) ELSE queue

\* Mutants of Rebroadcast: the ttl is not lowered; it is not looked at.
Rebroadcast_SameTtl(n, data) ==
    IF data.ttl > 0 THEN {Message(Peer(n), data.room_id, data)} ELSE {}

Rebroadcast_AnyTtl(n, data) ==
    {Message(Peer(n), data.room_id, [data EXCEPT !.ttl = @ - 1])}

\* The envelope that is published again, in the envelope's own room.
Rebroadcast(n, data) ==
    IF data.ttl > 0
    THEN {Message(Peer(n), data.room_id, [data EXCEPT !.ttl = @ - 1])}
    ELSE {}

-----------------------------------------------------------------------------
(* Actions *)

Init ==
    /\ run = [n \in Nodes |-> 1]
    /\ rooms = [n \in Nodes |-> {}]
    /\ seen_mesh = [n \in Nodes |-> {}]
    /\ events = [n \in Nodes |-> <<>>]
    /\ gossip = {}
    /\ heard = [n \in Nodes |-> {}]
    /\ sent = {}

\* P2PNode::join_room.  (The rooms record it also writes belongs to the DHT.)
JoinRoom(n, r) ==
    /\ r \notin rooms[n]
    /\ rooms' = [rooms EXCEPT ![n] = @ \cup {r}]
    /\ UNCHANGED <<run, seen_mesh, events, gossip, heard, sent>>

\* P2PNode::send_message: the id is marked as seen first; a refused publish
\* is an Err that the callers ignore.
SendMessage(n, r, id) ==
    /\ r \in rooms[n]
    /\ \A s \in sent : s.id # id
    /\ sent' = sent \cup {[id |-> id, src |-> Peer(n)]}
    /\ seen_mesh' = [seen_mesh EXCEPT ![n] = @ \cup {id}]
    /\ gossip' \in {gossip, gossip \cup {Message(Peer(n), r, Envelope(id, r, Ttl))}}
    /\ UNCHANGED <<run, rooms, events, heard>>

\* gossipsub hands a message over.
Hears(n, m) ==
    /\ m \in gossip \ heard[n]
    /\ m.topic \in rooms[n]
    /\ m.src # Peer(n)
    /\ heard' = [heard EXCEPT ![n] = @ \cup {m}]
    /\ UNCHANGED <<run, rooms, sent>>

\* The Message branch of P2PNode::run, for an envelope that is new: it goes to
\* the program if its payload can be decoded, and out again if its ttl allows.
\* The publish may be refused, which is ignored.
HearsNew(n, m) ==
    /\ Hears(n, m)
    /\ m.data.form = "envelope"
    /\ Fresh(n, m.data)
    /\ seen_mesh' = [seen_mesh EXCEPT ![n] = @ \cup {m.data.id}]
    /\ events' = [events EXCEPT ![n] = Queued(@, m.data)]
    /\ gossip' \in {gossip, gossip \cup Rebroadcast(n, m.data)}

\* For an envelope that has been seen, or of another version.
HearsOld(n, m) ==
    /\ Hears(n, m)
    /\ m.data.form = "envelope"
    /\ ~Fresh(n, m.data)
    /\ UNCHANGED <<seen_mesh, events, gossip>>

\* For data that is no envelope: it goes to the program as it is.
HearsRaw(n, m) ==
    /\ Hears(n, m)
    /\ m.data.form = "raw"
    /\ events' = [events EXCEPT ![n] = Append(@, m.data.id)]
    /\ UNCHANGED <<seen_mesh, gossip>>

\* Another client publishes.
ForeignPublish(data, r) ==
    /\ \A s \in sent : s.id # data.id
    /\ sent' = sent \cup {[id |-> data.id, src |-> Foreigner]}
    /\ gossip' = gossip \cup {Message(Foreigner, r, data)}
    /\ UNCHANGED <<run, rooms, seen_mesh, events, heard>>

\* The process of n ends and another one starts, with a new PeerId and
\* nothing remembered.
Restart(n) ==
    /\ run[n] < MaxRuns[n]
    /\ run' = [run EXCEPT ![n] = @ + 1]
    /\ rooms' = [rooms EXCEPT ![n] = {}]
    /\ seen_mesh' = [seen_mesh EXCEPT ![n] = {}]
    /\ events' = [events EXCEPT ![n] = <<>>]
    /\ heard' = [heard EXCEPT ![n] = {}]
    /\ UNCHANGED <<gossip, sent>>

Next ==
    \/ \E n \in Nodes, r \in Rooms : JoinRoom(n, r)
    \/ \E n \in Nodes, r \in Rooms, id \in Ids : SendMessage(n, r, id)
    \/ \E n \in Nodes, m \in gossip : HearsNew(n, m)
    \/ \E n \in Nodes, m \in gossip : HearsOld(n, m)
    \/ \E n \in Nodes, m \in gossip : HearsRaw(n, m)
    \/ \E data \in ForeignData, r \in Rooms : ForeignPublish(data, r)
    \/ \E n \in Nodes : Restart(n)

Spec == Init /\ [][Next]_vars

-----------------------------------------------------------------------------
(* Properties *)

Peers == UNION {{n} \X (1..MaxRuns[n]) : n \in Nodes}
AllIds == Ids \cup ForeignIds
Messages ==
    [src : Peers \cup {Foreigner}, topic : Rooms, data : Envelopes(AllIds) \cup Raws(AllIds)]

\* The types of the node's fields and of the messages.
TypeOK ==
    /\ \A n \in Nodes : Peer(n) \in Peers
    /\ run \in [Nodes -> Nat]
    /\ rooms \in [Nodes -> SUBSET Rooms]
    /\ seen_mesh \in [Nodes -> SUBSET AllIds]
    /\ events \in [Nodes -> Seq(AllIds)]
    /\ gossip \subseteq Messages
    /\ heard \in [Nodes -> SUBSET gossip]
    /\ sent \subseteq [id : AllIds, src : Peers \cup {Foreigner}]

\* The program is never given a message twice, although each of the other
\* nodes publishes it again and gossipsub takes each copy for a new message.
AtMostOnce ==
    \A n \in Nodes : \A i, j \in DOMAIN events[n] :
        events[n][i] = events[n][j] => i = j

\* No process is given back what it said itself, whoever repeats it.
NoEcho ==
    \A n \in Nodes : \A i \in DOMAIN events[n] :
        [id |-> events[n][i], src |-> Peer(n)] \notin sent

\* Repeating ends: a process publishes an envelope at most once, so that it
\* costs at most one message per process, whatever its ttl (README: "loop
\* prevention").
PublishesOnce ==
    \A m, k \in gossip : m.src = k.src /\ m.data.id = k.data.id => m = k

\* A published envelope is its sender's, or what somebody else published with
\* one more hop to go, in the same room and otherwise unchanged.
Provenance ==
    \A m \in gossip : m.src # Foreigner =>
        /\ m.topic = m.data.room_id
        /\ \/ [id |-> m.data.id, src |-> m.src] \in sent /\ m.data.ttl = Ttl
           \/ \E k \in gossip : /\ k.src # m.src
                                /\ k.data = [m.data EXCEPT !.ttl = @ + 1]

\* Nothing is swallowed: whatever gossipsub has handed to a process its program
\* has been given, unless it is the process's own or cannot be decoded.  So an
\* id is never marked as seen, by whichever copy and at whichever hop, without
\* the payload being passed on (p2p.rs 233, 274-280).
Readable(data) == data.form = "raw" \/ (data.mesh = 1 /\ data.payload = "ok")

NothingSwallowed ==
    \A n \in Nodes : \A m \in heard[n] : Readable(m.data) =>
        \/ [id |-> m.data.id, src |-> Peer(n)] \in sent
        \/ \E i \in DOMAIN events[n] : events[n][i] = m.data.id

\* The node keeps the promise of Broadcast.
Abstract == INSTANCE Broadcast WITH
    Speakers <- Peers \cup {Foreigner}, Ids <- AllIds, said <- sent

ImplementsBroadcast == Abstract!Spec
=============================================================================
