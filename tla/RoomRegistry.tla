---------------------------- MODULE RoomRegistry ----------------------------
(***************************************************************************)
(* The record of active rooms in the DHT (p2p.rs, advertise_room).  There  *)
(* is one key, ROOMS_DHT_KEY, for all nodes; each node puts a list of its  *)
(* own rooms under it, in its own store and at the servers it knows of.    *)
(*                                                                         *)
(* What libp2p's Kademlia does with a put is external: it stores the       *)
(* record at home and sends it to peers of the routing table, and a server *)
(* that is sent a record keeps it in place of the one it had.              *)
(***************************************************************************)
CONSTANTS
    Nodes,
    Rooms,
    Servers,    \* the nodes that store records for others
    NoRecord    \* the copy of a node that has none

VARIABLES
    up,     \* up: the nodes that run
    rooms,  \* rooms[n]: the node's field
    table,  \* table[n]: the peers in the node's routing table
    copy,   \* copy[n]: the record in the node's store, the rooms it lists
    puts    \* the records on their way to servers

vars == <<up, rooms, table, copy, puts>>

Init ==
    /\ up = {}
    /\ rooms = [n \in Nodes |-> {}]
    /\ table = [n \in Nodes |-> {}]
    /\ copy = [n \in Nodes |-> NoRecord]
    /\ puts = {}

\* P2PNode::new: no rooms, nobody known, an empty MemoryStore.
Start(n) ==
    /\ n \notin up
    /\ up' = up \cup {n}
    /\ rooms' = [rooms EXCEPT ![n] = {}]
    /\ table' = [table EXCEPT ![n] = {}]
    /\ copy' = [copy EXCEPT ![n] = NoRecord]
    /\ UNCHANGED puts

Stop(n) ==
    /\ n \in up
    /\ up' = up \ {n}
    /\ UNCHANGED <<rooms, table, copy, puts>>

\* Identify::Received and Mdns::Discovered, kademlia.add_address
PeerIdentified(n, m) ==
    /\ {n, m} \subseteq up /\ n # m
    /\ table' = [table EXCEPT ![n] = @ \cup {m}]
    /\ UNCHANGED <<up, rooms, copy, puts>>

\* join_room and advertise_room.
JoinRoom(n, r) ==
    LET own == rooms[n] \cup {r}
    IN /\ n \in up
       /\ rooms' = [rooms EXCEPT ![n] = own]
       /\ copy' = [copy EXCEPT ![n] = own]
       /\ puts' = puts \cup [to : table[n] \cap Servers, rooms : {own}]
       /\ UNCHANGED <<up, table>>

\* The record arrives at a server that runs, or nowhere.
PutArrives(put) ==
    /\ put \in puts
    /\ puts' = puts \ {put}
    /\ copy' = IF put.to \in up THEN [copy EXCEPT ![put.to] = put.rooms] ELSE copy
    /\ UNCHANGED <<up, rooms, table>>

Next ==
    \/ \E n \in Nodes : Start(n)
    \/ \E n \in Nodes : Stop(n)
    \/ \E n, m \in Nodes : PeerIdentified(n, m)
    \/ \E n \in Nodes, r \in Rooms : JoinRoom(n, r)
    \/ \E put \in puts : PutArrives(put)

Spec == Init /\ [][Next]_vars

\* A room that a running node has joined, and so advertised (the log line
\* "Advertising {} rooms to DHT", p2p.rs 153), is in a record that a running
\* node keeps, at least while no record is on its way.
RoomsAdvertised ==
    puts = {} =>
        \A n \in up : \A r \in rooms[n] :
            \E m \in up : copy[m] # NoRecord /\ r \in copy[m]
=============================================================================
