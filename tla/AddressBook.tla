---------------------------- MODULE AddressBook ----------------------------
(***************************************************************************)
(* How the addresses of devices spread (p2p.rs, cli.rs, tui.rs): what a     *)
(* node listens on, hears of by mDNS, by identify and from its front end,  *)
(* dials and reserves circuits at, and what front ends in one room tell    *)
(* each other by PeerExchange.                                             *)
(*                                                                         *)
(* A device is a node and a front end joined by two queues.  The queue of  *)
(* events is kept in order, as the code relies on it; of the queue of      *)
(* commands only the addresses count, each with its Dial and its Reserve.  *)
(* All users are in one room.  Connections do not close here (CliRoom).    *)
(* A dial is an attempt: nothing says that identify or a subscription ever *)
(* follows, so that it fails is among the behaviours.                      *)
(***************************************************************************)
EXTENDS Integers, Sequences, FiniteSets

CONSTANTS
    Devices,
    Relays,     \* the devices in no room: "rmsg relay", bootstrap nodes
    Bootstrap,  \* the nodes that every node dials when it is created
    Terminal,   \* the devices that run tui.rs; the others run cli.rs
    Lan,        \* the devices that find each other by mDNS
    MdnsWithId, \* does mDNS tell a port with the peer's id behind it?
    Initial,    \* Initial[d]: the addresses that d's user gives it
    Reservable, \* Reservable[d]: where d tries a reservation: a bound
    Accepted,   \* the devices whose reservations relays may accept
    MaxQueue    \* the node waits while so many events are queued: a bound

\* An address is a sequence of devices: first the one at whose IP address and
\* port it begins, then those whose peer ids follow.  <<d>> is where d listens,
\* <<d, d>> the same with d's id, <<r, r, d>> is d by a circuit through r.
\* An address that names a peer twice over is another address to known_addrs
\* and known_peers, which compare strings.
Addresses == Seq(Devices) \ {<<>>}
Owner(addr) == addr[Len(addr)]

\* format!("{}/p2p/{}"): the id is put behind the address whether or not the
\* address ends in it.
WithPeer(addr, d) == Append(addr, d)

\* The devices with a room.  Of a relay only the address counts: nobody is
\* told what it learns.
Users == Devices \ Relays

ASSUME ConstantsAssumption ==
    /\ Relays \subseteq Devices
    /\ Bootstrap \subseteq Relays
    /\ Terminal \subseteq Users
    /\ Lan \subseteq Devices
    /\ MdnsWithId \in BOOLEAN
    /\ Initial \in [Devices -> SUBSET Addresses]
    /\ \A d \in Devices : \A addr \in Initial[d] : Owner(addr) # d
    /\ Reservable \in [Devices -> SUBSET Addresses]
    /\ Accepted \subseteq Devices
    /\ MaxQueue \in Nat

VARIABLES
    known_addrs,   \* known_addrs[d]: the node's field
    met,           \* met[d]: the node's known_peers
    subs,          \* subs[d]: the devices whose subscription d's node knows
    listening,     \* listening[d]: the addresses d's node has reported as its own
    dialled,       \* dialled[d]: what d's node has tried to dial
    named,         \* named[d]: the addresses it had of peers when it met them
    events,        \* events[d]: the queue of P2PEvents
    cmds,          \* cmds[d]: addresses whose Dial and Reserve are queued
    known_peers    \* known_peers[d]: the front end's addresses

node_vars == <<known_addrs, met, subs, listening, dialled, named>>
vars == <<node_vars, events, cmds, known_peers>>

-----------------------------------------------------------------------------
(* The node *)

\* Events of one kind that a node queues in a row are one event with a set of
\* addresses.
Event(t, addrs) == [t |-> t, addrs |-> addrs]

\* The bound delays the node while MaxQueue events wait.
Queues(d, evs) ==
    /\ Len(events[d]) < MaxQueue
    /\ events' = [events EXCEPT ![d] = @ \o evs]

\* Swarm::dial, once or again, whatever comes of it.
Dials(d, addrs) == dialled' = [dialled EXCEPT ![d] = @ \cup addrs]

\* A relay runs already, and so does a device whose address is in an invite:
\* it has printed it before.
Printed(d) ==
    {addr \in (UNION {Initial[e] : e \in Devices}) \cup {<<r, r>> : r \in Relays} :
        Owner(addr) = d}

Init ==
    /\ known_addrs = [d \in Devices |-> {}]
    /\ met = [d \in Devices |-> {}]
    /\ subs = [d \in Devices |-> {}]
    /\ listening = [d \in Devices |-> Printed(d)]
    /\ dialled = [d \in Devices |-> {<<b, b>> : b \in Bootstrap \ {d}}]
    /\ named = [d \in Devices |-> {}]
    /\ events = [d \in Devices |-> <<>>]
    /\ cmds = Initial
    /\ known_peers = [d \in Devices |-> Initial[d] \cup Printed(d)]

\* The circuits that d's node has asked for, each with d's id at its end, if
\* relays may accept them.
Circuits(d) ==
    {addr \in listening[d] : d \in Accepted /\ Len(addr) > 1 /\ addr[Len(addr) - 1] # d}

\* SwarmEvent::NewListenAddr, of d's port or of a circuit that its relay has
\* accepted, which ends in d's id already.
NewListenAddr(d, addr) ==
    /\ addr \in {<<d>>} \cup Circuits(d)
    /\ WithPeer(addr, d) \notin listening[d]
    /\ listening' = [listening EXCEPT ![d] = @ \cup {WithPeer(addr, d)}]
    /\ Queues(d, <<Event("listening", {WithPeer(addr, d)})>>)
    /\ UNCHANGED <<known_addrs, met, subs, dialled, named, cmds, known_peers>>

\* What d's swarm listens on.
Listens(d) == {addr \in {<<d>>} \cup Circuits(d) : WithPeer(addr, d) \in listening[d]}

\* One of the two has dialled the other, who listens.
Connected(d, e) ==
    \/ Listens(e) # {} /\ \E addr \in dialled[d] : Owner(addr) = e
    \/ Listens(d) # {} /\ \E addr \in dialled[e] : Owner(addr) = d

\* A mutant of PeerEvents: the peer before its addresses.
PeerEvents_PeerFirst(new, isNew) ==
    (IF isNew THEN <<Event("peer_discovered", {})>> ELSE <<>>)
    \o (IF new = {} THEN <<>> ELSE <<Event("peer_address", new)>>)

\* The events about a peer: its new addresses, then the peer itself if new.
PeerEvents(new, isNew) ==
    (IF new = {} THEN <<>> ELSE <<Event("peer_address", new)>>)
    \o (IF isNew THEN <<Event("peer_discovered", {})>> ELSE <<>>)

\* What Identify::Received and Mdns::Discovered do with the addresses of e:
\* each is looked up and kept with e's id behind it, and dialled as it is.
Learns(d, e, addrs) ==
    LET unknown == {addr \in addrs : WithPeer(addr, e) \notin known_addrs[d]}
        new == {WithPeer(addr, e) : addr \in unknown}
        isNew == e \notin met[d]
    IN /\ known_addrs' = [known_addrs EXCEPT ![d] = @ \cup new]
       /\ Dials(d, unknown)
       /\ met' = [met EXCEPT ![d] = @ \cup {e}]
       /\ named' = [named EXCEPT ![d] =
              @ \cup {addr \in known_addrs'[d] : isNew /\ Owner(addr) = e}]
       /\ Queues(d, PeerEvents(new, isNew))
       /\ UNCHANGED <<subs, listening, cmds, known_peers>>

\* identify tells what the peer listens on; it may be older than some circuits.
PeerIdentified(d, e) ==
    /\ d # e /\ Connected(d, e)
    /\ \E circuits \in SUBSET (Listens(e) \ {<<e>>}) :
           Learns(d, e, circuits \cup (Listens(e) \cap {<<e>>}))

\* mDNS tells the peer's port.
MdnsDiscovered(d, e) ==
    /\ d # e /\ {d, e} \subseteq Lan
    /\ <<e>> \in Listens(e)
    /\ Learns(d, e, {IF MdnsWithId THEN WithPeer(<<e>>, e) ELSE <<e>>})

\* gossipsub's Subscribed.
PeerSubscribed(d, e) ==
    /\ d # e /\ Connected(d, e)
    /\ e \notin subs[d]
    /\ subs' = [subs EXCEPT ![d] = @ \cup {e}]
    /\ Queues(d, <<Event("subscribed", {})>>)
    /\ UNCHANGED <<known_addrs, met, listening, dialled, named, cmds, known_peers>>

\* A mutant of Advertised: the ids the other way round.
Advertised_Swapped(d, addr) ==
    IF addr \in Reservable[d] THEN {<<d>> \o addr} ELSE {}

\* reserve_relay, relay_reservation_addr: the circuit, with the own id after
\* it, is reported as listened on before any relay has accepted.
Advertised(d, addr) ==
    IF addr \in Reservable[d] THEN {WithPeer(addr, d)} ELSE {}

\* dial_addr: an address that is known is not dialled.
DialAddr(d, addr) ==
    /\ known_addrs' = [known_addrs EXCEPT ![d] = @ \cup {addr}]
    /\ Dials(d, {addr} \ known_addrs[d])

\* The commands Dial and Reserve of one address.
Executes(d, addr) ==
    /\ addr \in cmds[d]
    /\ cmds' = [cmds EXCEPT ![d] = @ \ {addr}]
    /\ DialAddr(d, addr)
    /\ listening' = [listening EXCEPT ![d] = @ \cup Advertised(d, addr)]
    /\ Queues(d, IF Advertised(d, addr) = {} THEN <<>>
                 ELSE <<Event("listening", Advertised(d, addr))>>)
    /\ UNCHANGED <<met, subs, named, known_peers>>

-----------------------------------------------------------------------------
(* The front end *)

\* What the exchanges in d's queue hold.
Waiting(d) == UNION {events[d][i].addrs : i \in
                    {i \in DOMAIN events[d] : events[d][i].t = "peer_exchange"}}

\* The PeerExchange of an intro, refused if nobody is known to subscribe, goes
\* to everybody in the room; how long it takes is how long it waits in the
\* queue.  Of its addresses those are left out that the recipient knows or has
\* waiting: they change nothing.  With no address left there is no message.
Intro(evs, d) ==
    [e \in Devices |->
        LET news == known_peers[d] \ (known_peers[e] \cup Waiting(e))
        IN IF subs[d] = {} \/ e \notin Users \ {d} \/ news = {} THEN evs[e]
           ELSE Append(evs[e], Event("peer_exchange", news))]

\* The front end takes the next event.
Popped(d) == [events EXCEPT ![d] = Tail(@)]
Handles(d, t) == events[d] # <<>> /\ Head(events[d]).t = t

\* A mutant of HandlesListening: own addresses are not kept.
HandlesListening_Ignored(d) ==
    /\ Handles(d, "listening")
    /\ events' = Popped(d)
    /\ UNCHANGED <<node_vars, cmds, known_peers>>

\* P2PEvent::Listening: an address of the device's own is known, not dialled.
HandlesListening(d) ==
    /\ Handles(d, "listening")
    /\ known_peers' = [known_peers EXCEPT ![d] = @ \cup Head(events[d]).addrs]
    /\ events' = Popped(d)
    /\ UNCHANGED <<node_vars, cmds>>

\* Addresses of other devices: those that are new are dialled and reserved at.
Adds(d, t) ==
    LET new == Head(events[d]).addrs \ known_peers[d]
    IN /\ Handles(d, t)
       /\ events' = Popped(d)
       /\ known_peers' = [known_peers EXCEPT ![d] = @ \cup new]
       /\ cmds' = [cmds EXCEPT ![d] = @ \cup new]
       /\ UNCHANGED node_vars

HandlesPeerAddress(d) == Adds(d, "peer_address")
HandlesPeerExchange(d) == Adds(d, "peer_exchange")

\* tui.rs only counts the peer.
HandlesPeerDiscovered(d) ==
    /\ Handles(d, "peer_discovered")
    /\ events' = IF d \in Terminal THEN Popped(d) ELSE Intro(Popped(d), d)
    /\ UNCHANGED <<node_vars, cmds, known_peers>>

HandlesSubscribed(d) ==
    /\ Handles(d, "subscribed")
    /\ events' = Intro(Popped(d), d)
    /\ UNCHANGED <<node_vars, cmds, known_peers>>

\* A session that is not ready sends its intro again; when it is ready is left
\* to CliRoom.
IntroTimer(d) ==
    /\ events' = Intro(events, d)
    /\ UNCHANGED <<node_vars, cmds, known_peers>>

\* One event, by run_chat or run_tui.
FrontEnd(d) ==
    \/ HandlesListening(d)
    \/ HandlesPeerAddress(d)
    \/ HandlesPeerExchange(d)
    \/ HandlesPeerDiscovered(d)
    \/ HandlesSubscribed(d)

Next ==
    \/ \E d \in Users : \E addr \in {<<d>>} \cup Circuits(d) : NewListenAddr(d, addr)
    \/ \E d \in Users, e \in Devices : PeerIdentified(d, e)
    \/ \E d \in Users, e \in Devices : MdnsDiscovered(d, e)
    \/ \E d, e \in Users : PeerSubscribed(d, e)
    \/ \E d \in Users : \E addr \in cmds[d] : Executes(d, addr)
    \/ \E d \in Users : FrontEnd(d)
    \/ \E d \in Users : IntroTimer(d)

Spec == Init /\ [][Next]_vars

\* Both front ends pass through their loops for ever.
Fairness == \A d \in Users : WF_vars(FrontEnd(d))

FairSpec == Spec /\ Fairness

-----------------------------------------------------------------------------
(* Properties *)

\* No device dials an address of its own, although the others send it back
\* what they heard from it: by then its front end has handled the Listening
\* event (cli.rs 236, tui.rs 134), as the queue of events is in order.  Except
\* for one spelling: if mDNS tells a port with the peer's id, others put the id
\* behind it once more (p2p.rs 355) and tell d what d's node never told it.
NoSelfDial ==
    \A d \in Devices : \A addr \in dialled[d] \cup cmds[d] :
        Owner(addr) = d => addr = <<d, d, d>>

\* An address that is kept anywhere is one that the device at its end has
\* reported as its own, but for that spelling: ids are put after the right
\* addresses (p2p.rs 253, 329, 355, 397), and although what is kept is told
\* to others, dialled and identified again, spellings do not go on growing.
Provenance ==
    \A d \in Devices : \A addr \in known_addrs[d] \cup known_peers[d] :
        LET e == Owner(addr) IN addr \in listening[e] \/ addr = <<e, e, e>>

\* What d's front end knows of when it comes to event i of its queue.
KnownBy(d, i) == known_peers[d] \cup UNION {events[d][j].addrs : j \in 1..(i - 1)}

\* An introduction that a command-line device owes is never forgotten: what it
\* knew of a peer's addresses when it met the peer, each that it hears
\* subscribe, e, has been told, or an event is queued that triggers an intro
\* and comes after whatever tells the address to the front end (p2p.rs
\* 329-342, 301; cli.rs 223, 250, 283).
IntroductionOwed ==
    \A d \in Users \ Terminal : \A addr \in named[d], e \in subs[d] :
        \/ addr \in known_peers[e] \cup Waiting(e)
        \/ \E i \in 1..Len(events[d]) :
               /\ events[d][i].t \in {"peer_discovered", "subscribed"}
               /\ addr \in KnownBy(d, i)

\* A command-line device introduces a peer that it meets to those that it hears
\* subscribe, whichever comes first: the peer's addresses are queued before the
\* event that triggers the intro (p2p.rs 333, 342), so the intro holds them,
\* however they are spelled.
Introducible(d, f) == {addr \in named[d] : Owner(addr) = f}

PeersIntroduced ==
    \A d, e \in Users, f \in Devices : Cardinality({d, e, f}) = 3 /\ d \notin Terminal =>
        (Introducible(d, f) # {} /\ e \in subs[d])
        ~> (Introducible(d, f) \subseteq known_peers[e])
=============================================================================
