-------------------------- MODULE AddressBookProofs --------------------------
(***************************************************************************)
(* Proofs about AddressBook, for any number of devices and relays, any     *)
(* invites, reservations accepted or not, mDNS that tells ids or does not, *)
(* and any bound on the queues.                                            *)
(***************************************************************************)
EXTENDS AddressBook, SequenceTheorems, TLAPS

-----------------------------------------------------------------------------
(* Types *)

Kinds == {"listening", "peer_address", "peer_discovered", "subscribed", "peer_exchange"}
Events == [t : Kinds, addrs : SUBSET Addresses]

TypeInv ==
    /\ known_addrs \in [Devices -> SUBSET Addresses]
    /\ listening \in [Devices -> SUBSET Addresses]
    /\ dialled \in [Devices -> SUBSET Addresses]
    /\ cmds \in [Devices -> SUBSET Addresses]
    /\ known_peers \in [Devices -> SUBSET Addresses]
    /\ events \in [Devices -> Seq(Events)]

LEMMA EventType ==
    \A t \in Kinds : \A addrs \in SUBSET Addresses :
        /\ Event(t, addrs) \in Events
        /\ Event(t, addrs).t = t
        /\ Event(t, addrs).addrs = addrs
BY DEF Event, Events

LEMMA OwnerType == \A addr \in Addresses : Owner(addr) \in Devices
BY DEF Addresses, Owner

LEMMA WithPeerAddress ==
    ASSUME NEW addr \in Addresses, NEW d \in Devices
    PROVE  WithPeer(addr, d) \in Addresses /\ Owner(WithPeer(addr, d)) = d
<1>1. addr \in Seq(Devices) /\ Len(addr) \in Nat
    BY DEF Addresses
<1>2. /\ Append(addr, d) \in Seq(Devices)
      /\ Len(Append(addr, d)) = Len(addr) + 1
      /\ Append(addr, d)[Len(addr) + 1] = d
    BY <1>1
<1>3. Append(addr, d) # <<>>
    BY <1>1, <1>2
<1> QED
    BY <1>2, <1>3 DEF Addresses, Owner, WithPeer

LEMMA OwnAddress ==
    \A d \in Devices :
        /\ <<d>> \in Addresses /\ Owner(<<d>>) = d
        /\ <<d, d>> \in Addresses /\ Owner(<<d, d>>) = d
        /\ WithPeer(<<d>>, d) = <<d, d>> /\ WithPeer(<<d, d>>, d) = <<d, d, d>>
<1> TAKE d \in Devices
<1>1. <<d>> \in Addresses /\ Owner(<<d>>) = d
    BY DEF Addresses, Owner
<1>2. WithPeer(<<d>>, d) = <<d, d>>
    <2>1. /\ <<d>> \in Seq(Devices) /\ <<d, d>> \in Seq(Devices)
          /\ Len(<<d>>) = 1 /\ Len(<<d, d>>) = 2
          /\ <<d>>[1] = d /\ <<d, d>>[1] = d /\ <<d, d>>[2] = d
        OBVIOUS
    <2>2. Append(<<d>>, d) \in Seq(Devices) /\ Len(Append(<<d>>, d)) = 2
        BY <2>1
    <2>3. \A i \in 1..2 : Append(<<d>>, d)[i] = <<d, d>>[i]
        BY <2>1
    <2>4. Append(<<d>>, d) = <<d, d>>
        BY <2>1, <2>2, <2>3, SeqEqual
    <2> QED
        BY <2>4 DEF WithPeer
<1>3. WithPeer(<<d, d>>, d) = <<d, d, d>>
    <2>1. /\ <<d, d>> \in Seq(Devices) /\ <<d, d, d>> \in Seq(Devices)
          /\ Len(<<d, d>>) = 2 /\ Len(<<d, d, d>>) = 3
          /\ <<d, d>>[1] = d /\ <<d, d>>[2] = d
          /\ <<d, d, d>>[1] = d /\ <<d, d, d>>[2] = d /\ <<d, d, d>>[3] = d
        OBVIOUS
    <2>2. Append(<<d, d>>, d) \in Seq(Devices) /\ Len(Append(<<d, d>>, d)) = 3
        BY <2>1
    <2>3. \A i \in 1..3 : Append(<<d, d>>, d)[i] = <<d, d, d>>[i]
        BY <2>1
    <2>4. Append(<<d, d>>, d) = <<d, d, d>>
        BY <2>1, <2>2, <2>3, SeqEqual
    <2> QED
        BY <2>4 DEF WithPeer
<1>4. <<d, d>> \in Addresses /\ Owner(<<d, d>>) = d
    BY <1>1, <1>2, WithPeerAddress
<1> QED
    BY <1>1, <1>2, <1>3, <1>4

LEMMA AdvertisedType ==
    ASSUME NEW addr \in Addresses, NEW d \in Devices
    PROVE  /\ Advertised(d, addr) \in SUBSET Addresses
           /\ \A a \in Advertised(d, addr) : Owner(a) = d
BY WithPeerAddress DEF Advertised

LEMMA PrintedType ==
    ASSUME NEW d \in Devices
    PROVE  /\ Printed(d) \in SUBSET Addresses
           /\ \A addr \in Printed(d) : Owner(addr) = d
<1>1. \A r \in Relays : <<r, r>> \in Addresses
    BY OwnAddress, ConstantsAssumption
<1>2. \A e \in Devices : Initial[e] \in SUBSET Addresses
    BY ConstantsAssumption
<1> QED
    <2> SUFFICES ASSUME NEW addr \in Printed(d)
                 PROVE  addr \in Addresses /\ Owner(addr) = d
        OBVIOUS
    <2>1. Owner(addr) = d
        BY DEF Printed
    <2>2. (\E e \in Devices : addr \in Initial[e]) \/ \E r \in Relays : addr = <<r, r>>
        BY DEF Printed
    <2> QED
        BY <1>1, <1>2, <2>1, <2>2

LEMMA BootstrapAddress ==
    \A b \in Bootstrap : <<b, b>> \in Addresses /\ Owner(<<b, b>>) = b
BY OwnAddress, ConstantsAssumption

LEMMA TypeInit == Init => TypeInv
<1> SUFFICES ASSUME Init PROVE TypeInv
    OBVIOUS
<1>1. \A d \in Devices : Printed(d) \in SUBSET Addresses /\ Initial[d] \in SUBSET Addresses
    BY PrintedType, ConstantsAssumption
<1>2. Initial \in [Devices -> SUBSET Addresses]
    BY ConstantsAssumption
<1>3. <<>> \in Seq(Events)
    OBVIOUS
<1>4. \A d \in Devices : {<<b, b>> : b \in Bootstrap \ {d}} \in SUBSET Addresses
    BY BootstrapAddress
<1> QED
    BY <1>1, <1>2, <1>3, <1>4 DEF Init, TypeInv

-----------------------------------------------------------------------------
(* What each action does to the addresses and to the queues *)

LEMMA PeerEventsType ==
    ASSUME NEW new \in SUBSET Addresses, NEW isNew \in BOOLEAN
    PROVE  PeerEvents(new, isNew) \in Seq(Events)
<1>1. Event("peer_address", new) \in Events /\ Event("peer_discovered", {}) \in Events
    BY EventType DEF Kinds
<1>2. (IF new = {} THEN <<>> ELSE <<Event("peer_address", new)>>) \in Seq(Events)
    BY <1>1
<1>3. (IF isNew THEN <<Event("peer_discovered", {})>> ELSE <<>>) \in Seq(Events)
    BY <1>1
<1> QED
    BY <1>2, <1>3 DEF PeerEvents

LEMMA QueuesType ==
    ASSUME TypeInv, NEW d \in Devices, NEW evs \in Seq(Events), Queues(d, evs)
    PROVE  /\ events' \in [Devices -> Seq(Events)]
           /\ events'[d] = events[d] \o evs
           /\ \A e \in Devices : e # d => events'[e] = events[e]
BY DEF TypeInv, Queues

LEMMA PoppedType ==
    ASSUME TypeInv, NEW d \in Devices, events[d] # <<>>
    PROVE  /\ Popped(d) \in [Devices -> Seq(Events)]
           /\ Popped(d)[d] = Tail(events[d])
           /\ \A e \in Devices : e # d => Popped(d)[e] = events[e]
           /\ Head(events[d]) \in Events
<1>1. events[d] \in Seq(Events)
    BY DEF TypeInv
<1>2. Tail(events[d]) \in Seq(Events) /\ Head(events[d]) \in Events
    BY <1>1
<1> QED
    BY <1>2 DEF TypeInv, Popped

\* The addresses of d that an intro appends to the queue of e.
News(d, e) == known_peers[d] \ (known_peers[e] \cup Waiting(e))

LEMMA IntroType ==
    ASSUME TypeInv, NEW d \in Devices, NEW evs \in [Devices -> Seq(Events)]
    PROVE  /\ Intro(evs, d) \in [Devices -> Seq(Events)]
           /\ Intro(evs, d)[d] = evs[d]
           /\ \A e \in Devices :
                 \/ Intro(evs, d)[e] = evs[e]
                 \/ /\ e \in Users \ {d}
                    /\ News(d, e) \in SUBSET known_peers[d]
                    /\ Intro(evs, d)[e] = Append(evs[e], Event("peer_exchange", News(d, e)))
<1>1. \A e \in Devices : News(d, e) \in SUBSET known_peers[d]
    BY DEF News
<1>2. \A e \in Devices : Event("peer_exchange", News(d, e)) \in Events
    BY <1>1, EventType DEF Kinds, TypeInv
<1>3. \A e \in Devices : Append(evs[e], Event("peer_exchange", News(d, e))) \in Seq(Events)
    BY <1>2
<1>4. \A e \in Devices :
          Intro(evs, d)[e] =
              IF subs[d] = {} \/ e \notin Users \ {d} \/ News(d, e) = {} THEN evs[e]
              ELSE Append(evs[e], Event("peer_exchange", News(d, e)))
    BY DEF Intro, News
<1>5. Intro(evs, d) \in [Devices -> Seq(Events)]
    BY <1>2, <1>3 DEF Intro, News
<1> QED
    BY <1>1, <1>4, <1>5

\* An address that is reported, and the event that reports it.
LEMMA ReportedType ==
    ASSUME TypeInv, NEW d \in Devices, NEW addr \in {<<d>>} \cup Circuits(d)
    PROVE  /\ addr \in Addresses
           /\ WithPeer(addr, d) \in Addresses /\ Owner(WithPeer(addr, d)) = d
           /\ Event("listening", {WithPeer(addr, d)}) \in Events
           /\ Event("listening", {WithPeer(addr, d)}).t = "listening"
           /\ Event("listening", {WithPeer(addr, d)}).addrs = {WithPeer(addr, d)}
<1>1. addr \in Addresses
    BY OwnAddress DEF Circuits, TypeInv
<1>2. WithPeer(addr, d) \in Addresses /\ Owner(WithPeer(addr, d)) = d
    BY <1>1, WithPeerAddress
<1>3. {WithPeer(addr, d)} \in SUBSET Addresses /\ "listening" \in Kinds
    BY <1>2 DEF Kinds
<1> HIDE DEF Circuits
<1> QED
    BY <1>1, <1>2, <1>3, EventType

LEMMA ListensType ==
    ASSUME TypeInv, NEW e \in Devices
    PROVE  /\ Listens(e) \in SUBSET Addresses
           /\ \A addr \in Listens(e) : WithPeer(addr, e) \in listening[e]
BY OwnAddress DEF Listens, Circuits, TypeInv

\* identify tells addresses at which the peer listens.
LEMMA IdentifiedSome ==
    ASSUME NEW d, NEW e, PeerIdentified(d, e)
    PROVE  d # e /\ \E addrs \in SUBSET Listens(e) : Learns(d, e, addrs)
<1>1. PICK circuits \in SUBSET (Listens(e) \ {<<e>>}) :
          Learns(d, e, circuits \cup (Listens(e) \cap {<<e>>}))
    BY DEF PeerIdentified
<1>2. circuits \cup (Listens(e) \cap {<<e>>}) \in SUBSET Listens(e)
    OBVIOUS
<1> QED
    BY <1>1, <1>2 DEF PeerIdentified

\* mDNS tells the peer's port, with its id or without.
LEMMA DiscoveredSome ==
    ASSUME NEW d, NEW e, MdnsDiscovered(d, e)
    PROVE  /\ d # e /\ <<e>> \in Listens(e)
           /\ \E addr \in {<<e>>, WithPeer(<<e>>, e)} : Learns(d, e, {addr})
BY DEF MdnsDiscovered

\* The addresses of e that d's node does not know yet, as it is told them and
\* as it keeps them.
Unknown(d, e, addrs) == {addr \in addrs : WithPeer(addr, e) \notin known_addrs[d]}
Kept(d, e, addrs) == {WithPeer(addr, e) : addr \in Unknown(d, e, addrs)}

LEMMA LearnsSteps ==
    ASSUME TypeInv, NEW d \in Devices, NEW e \in Devices,
           NEW addrs \in SUBSET Addresses, Learns(d, e, addrs)
    PROVE  /\ Unknown(d, e, addrs) \in SUBSET addrs
           /\ Kept(d, e, addrs) \in SUBSET Addresses
           /\ \A addr \in Kept(d, e, addrs) : Owner(addr) = e
           /\ known_addrs' = [known_addrs EXCEPT ![d] = @ \cup Kept(d, e, addrs)]
           /\ Dials(d, Unknown(d, e, addrs))
           /\ named' = [named EXCEPT ![d] =
                  @ \cup {addr \in known_addrs'[d] : e \notin met[d] /\ Owner(addr) = e}]
           /\ Queues(d, PeerEvents(Kept(d, e, addrs), e \notin met[d]))
           /\ UNCHANGED <<subs, listening, cmds, known_peers>>
<1>1. \A addr \in addrs :
          WithPeer(addr, e) \in Addresses /\ Owner(WithPeer(addr, e)) = e
    BY WithPeerAddress
<1>2. \A addr \in Kept(d, e, addrs) : addr \in Addresses /\ Owner(addr) = e
    BY <1>1 DEF Kept, Unknown
<1> QED
    BY <1>2 DEF Learns, Kept, Unknown

LEMMA TypeNext == TypeInv /\ [Next]_vars => TypeInv'
<1> SUFFICES ASSUME TypeInv, [Next]_vars PROVE TypeInv'
    OBVIOUS
<1> USE DEF TypeInv
<1>1. ASSUME NEW d \in Users, NEW addr \in {<<d>>} \cup Circuits(d), NewListenAddr(d, addr)
      PROVE  TypeInv'
    <2>1. d \in Devices
        BY DEF Users
    <2> DEFINE mine == WithPeer(addr, d)
               ev == Event("listening", {mine})
    <2>2. mine \in Addresses /\ ev \in Events
        BY <2>1, ReportedType
    <2>3. /\ listening' = [listening EXCEPT ![d] = @ \cup {mine}]
          /\ Queues(d, <<ev>>)
          /\ UNCHANGED <<known_addrs, dialled, cmds, known_peers>>
        BY <1>1 DEF NewListenAddr
    <2> HIDE DEF mine, ev
    <2>4. <<ev>> \in Seq(Events)
        BY <2>2
    <2>5. events' \in [Devices -> Seq(Events)]
        BY <2>1, <2>3, <2>4, QueuesType
    <2> QED
        BY <2>1, <2>2, <2>3, <2>5
<1>2. ASSUME NEW d \in Users, NEW e \in Devices, NEW addrs \in SUBSET Addresses,
             Learns(d, e, addrs)
      PROVE  TypeInv'
    <2> DEFINE unknown == Unknown(d, e, addrs)
               new == Kept(d, e, addrs)
               isNew == e \notin met[d]
    <2>1. /\ d \in Devices /\ unknown \in SUBSET Addresses /\ new \in SUBSET Addresses
          /\ known_addrs' = [known_addrs EXCEPT ![d] = @ \cup new]
          /\ Dials(d, unknown)
          /\ Queues(d, PeerEvents(new, isNew))
          /\ UNCHANGED <<subs, listening, cmds, known_peers>>
        BY <1>2, LearnsSteps DEF Users
    <2> HIDE DEF unknown, new
    <2>2. events' \in [Devices -> Seq(Events)]
        BY <2>1, PeerEventsType, QueuesType
    <2> QED
        BY <2>1, <2>2 DEF Dials
<1>3. ASSUME NEW d \in Users, NEW e \in Devices, PeerIdentified(d, e) PROVE TypeInv'
    <2>1. PICK addrs \in SUBSET Listens(e) : Learns(d, e, addrs)
        BY <1>3, IdentifiedSome
    <2>2. addrs \in SUBSET Addresses
        BY ListensType
    <2> QED
        BY <1>2, <2>1, <2>2
<1>4. ASSUME NEW d \in Users, NEW e \in Devices, MdnsDiscovered(d, e) PROVE TypeInv'
    <2>1. PICK addr \in {<<e>>, WithPeer(<<e>>, e)} : Learns(d, e, {addr})
        BY <1>4, DiscoveredSome
    <2>2. {addr} \in SUBSET Addresses
        <3>1. <<e>> \in Addresses /\ WithPeer(<<e>>, e) \in Addresses
            BY OwnAddress, WithPeerAddress
        <3> QED
            BY <2>1, <3>1
    <2> QED
        BY <1>2, <2>1, <2>2
<1>5. ASSUME NEW d \in Users, NEW e \in Users, PeerSubscribed(d, e) PROVE TypeInv'
    <2>1. d \in Devices /\ <<Event("subscribed", {})>> \in Seq(Events)
        BY EventType DEF Kinds, Users
    <2> QED
        BY <1>5, <2>1, QueuesType DEF PeerSubscribed
<1>6. ASSUME NEW d \in Users, NEW addr \in cmds[d], Executes(d, addr) PROVE TypeInv'
    <2>1. d \in Devices /\ addr \in Addresses
        BY DEF Users
    <2>2. Advertised(d, addr) \in SUBSET Addresses
        BY <2>1, AdvertisedType
    <2>3. (IF Advertised(d, addr) = {} THEN <<>>
           ELSE <<Event("listening", Advertised(d, addr))>>) \in Seq(Events)
        BY <2>2, EventType DEF Kinds
    <2>4. events' \in [Devices -> Seq(Events)]
        BY <1>6, <2>1, <2>3, QueuesType DEF Executes
    <2> QED
        BY <1>6, <2>1, <2>2, <2>4 DEF Executes, DialAddr, Dials
<1>7. ASSUME NEW d \in Users, FrontEnd(d) PROVE TypeInv'
    <2>1. d \in Devices /\ events[d] # <<>>
        BY <1>7 DEF Users, FrontEnd, Handles, HandlesListening, HandlesPeerAddress,
                    HandlesPeerExchange, HandlesPeerDiscovered, HandlesSubscribed, Adds
    <2>2. Popped(d) \in [Devices -> Seq(Events)] /\ Head(events[d]).addrs \in SUBSET Addresses
        BY <2>1, PoppedType DEF Events
    <2>3. Intro(Popped(d), d) \in [Devices -> Seq(Events)]
        BY <2>1, <2>2, IntroType
    <2>4. CASE HandlesListening(d)
        BY <2>1, <2>2, <2>4 DEF HandlesListening, node_vars
    <2>5. ASSUME NEW t, Adds(d, t) PROVE TypeInv'
        BY <2>1, <2>2, <2>5 DEF Adds, node_vars
    <2>6. CASE HandlesPeerDiscovered(d) \/ HandlesSubscribed(d)
        BY <2>1, <2>2, <2>3, <2>6 DEF HandlesPeerDiscovered, HandlesSubscribed, node_vars
    <2> QED
        BY <1>7, <2>4, <2>5, <2>6 DEF FrontEnd, HandlesPeerAddress, HandlesPeerExchange
<1>8. ASSUME NEW d \in Users, IntroTimer(d) PROVE TypeInv'
    BY <1>8, IntroType DEF IntroTimer, node_vars, Users
<1>9. CASE UNCHANGED vars
    BY <1>9 DEF vars, node_vars
<1> QED
    BY <1>1, <1>3, <1>4, <1>5, <1>6, <1>7, <1>8, <1>9 DEF Next

-----------------------------------------------------------------------------
(* Every address is one that its device has reported *)

\* The spelling that no device reports: mDNS has told the port with the id, and
\* a node has put the id behind it once more.
Tripled(addr) == addr = <<Owner(addr), Owner(addr), Owner(addr)>>

Heard == {addr \in Addresses : addr \in listening[Owner(addr)] \/ Tripled(addr)}

\* Queues whose addresses are in a set.
Within(q, set) == \A i \in DOMAIN q : q[i].addrs \subseteq set

\* A device listens on addresses of its own, and the addresses that are kept,
\* asked for or told to a front end are such.
HeardInv ==
    \A d \in Devices :
        /\ \A addr \in listening[d] : Owner(addr) = d
        /\ known_addrs[d] \subseteq Heard
        /\ known_peers[d] \subseteq Heard
        /\ cmds[d] \subseteq Heard
        /\ Within(events[d], Heard)

LEMMA HeardInit == Init => HeardInv
<1> SUFFICES ASSUME Init PROVE HeardInv
    OBVIOUS
<1>1. \A d \in Devices : listening[d] = Printed(d) /\ events[d] = <<>>
    BY DEF Init
<1>2. ASSUME NEW d \in Devices, NEW addr \in Initial[d] PROVE addr \in Heard
    <2>1. addr \in Addresses /\ Owner(addr) \in Devices
        BY OwnerType, ConstantsAssumption
    <2>2. addr \in Printed(Owner(addr))
        BY DEF Printed
    <2> QED
        BY <1>1, <2>1, <2>2 DEF Heard
<1>3. ASSUME NEW d \in Devices, NEW addr \in Printed(d)
      PROVE  addr \in Heard /\ Owner(addr) = d
    BY <1>1, PrintedType DEF Heard
<1>4. \A d \in Devices : Within(events[d], Heard)
    BY <1>1 DEF Within
<1>5. \A d \in Devices : /\ known_addrs[d] = {} /\ cmds[d] = Initial[d]
                        /\ known_peers[d] = Initial[d] \cup Printed(d)
    BY DEF Init
<1> QED
    BY <1>1, <1>2, <1>3, <1>4, <1>5 DEF HeardInv

\* Nobody stops listening.
LEMMA ListeningGrows ==
    ASSUME TypeInv, [Next]_vars
    PROVE  \A d \in Devices : listening[d] \subseteq listening'[d]
<1>1. CASE UNCHANGED listening
    BY <1>1
<1>2. ASSUME NEW d \in Users, NEW addr, NewListenAddr(d, addr)
      PROVE  \A e \in Devices : listening[e] \subseteq listening'[e]
    BY <1>2 DEF NewListenAddr, TypeInv
<1>3. ASSUME NEW d \in Users, NEW addr \in cmds[d], Executes(d, addr)
      PROVE  \A e \in Devices : listening[e] \subseteq listening'[e]
    BY <1>3 DEF Executes, TypeInv
<1> QED
    BY <1>1, <1>2, <1>3
    DEF Next, PeerIdentified, MdnsDiscovered, Learns, PeerSubscribed, FrontEnd,
        HandlesListening, HandlesPeerAddress, HandlesPeerExchange, Adds,
        HandlesPeerDiscovered, HandlesSubscribed, IntroTimer, node_vars, vars

LEMMA WithinOne ==
    ASSUME NEW ev \in Events, NEW set, ev.addrs \subseteq set
    PROVE  <<ev>> \in Seq(Events) /\ Within(<<ev>>, set)
BY DEF Within

LEMMA WithinConcat ==
    ASSUME NEW q \in Seq(Events), NEW r \in Seq(Events), NEW set,
           Within(q, set), Within(r, set)
    PROVE  q \o r \in Seq(Events) /\ Within(q \o r, set)
<1>1. /\ Len(q) \in Nat /\ Len(r) \in Nat
      /\ DOMAIN q = 1..Len(q) /\ DOMAIN r = 1..Len(r)
      /\ q \o r \in Seq(Events) /\ DOMAIN (q \o r) = 1..(Len(q) + Len(r))
    OBVIOUS
<1>2. \A i \in 1..(Len(q) + Len(r)) :
          \/ i \in 1..Len(q) /\ (q \o r)[i] = q[i]
          \/ i - Len(q) \in 1..Len(r) /\ (q \o r)[i] = r[i - Len(q)]
    BY <1>1
<1> QED
    BY <1>1, <1>2 DEF Within

LEMMA WithinTail ==
    ASSUME NEW q \in Seq(Events), NEW set, q # <<>>, Within(q, set)
    PROVE  Within(Tail(q), set) /\ Head(q).addrs \subseteq set
<1>1. /\ DOMAIN q = 1..Len(q) /\ Len(q) \in Nat \ {0}
      /\ DOMAIN Tail(q) = 1..(Len(q) - 1)
      /\ \A i \in 1..(Len(q) - 1) : Tail(q)[i] = q[i + 1] /\ i + 1 \in 1..Len(q)
      /\ Head(q) = q[1] /\ 1 \in 1..Len(q)
    OBVIOUS
<1> QED
    BY <1>1 DEF Within

LEMMA WithinAppend ==
    ASSUME NEW q \in Seq(Events), NEW ev \in Events, NEW set,
           Within(q, set), ev.addrs \subseteq set
    PROVE  Within(Append(q, ev), set)
<1>1. /\ DOMAIN q = 1..Len(q) /\ Len(q) \in Nat
      /\ DOMAIN Append(q, ev) = 1..(Len(q) + 1)
      /\ \A i \in 1..(Len(q) + 1) :
             \/ i \in 1..Len(q) /\ Append(q, ev)[i] = q[i]
             \/ i = Len(q) + 1 /\ Append(q, ev)[i] = ev
    OBVIOUS
<1> QED
    BY <1>1 DEF Within

LEMMA HeardGrows ==
    ASSUME TypeInv, [Next]_vars
    PROVE  Heard \subseteq Heard'
<1>1. \A addr \in Addresses : listening[Owner(addr)] \subseteq listening'[Owner(addr)]
    BY ListeningGrows, OwnerType
<1> QED
    BY <1>1 DEF Heard, Tripled

LEMMA QueuesWithin ==
    ASSUME TypeInv, NEW set, NEW d \in Devices, NEW evs \in Seq(Events), Queues(d, evs),
           \A e \in Devices : Within(events[e], set), Within(evs, set)
    PROVE  \A e \in Devices : Within(events'[e], set)
<1>1. events[d] \in Seq(Events)
    BY DEF TypeInv
<1>2. Within(events[d] \o evs, set)
    BY <1>1, WithinConcat
<1> QED
    BY <1>2, QueuesType

LEMMA PeerEventsWithin ==
    ASSUME NEW new \in SUBSET Addresses, NEW isNew \in BOOLEAN, NEW set, new \subseteq set
    PROVE  Within(PeerEvents(new, isNew), set)
<1> DEFINE about == IF new = {} THEN <<>> ELSE <<Event("peer_address", new)>>
           met_now == IF isNew THEN <<Event("peer_discovered", {})>> ELSE <<>>
<1>1. about \in Seq(Events) /\ Within(about, set)
    BY EventType, WithinOne DEF Kinds, Within
<1>2. met_now \in Seq(Events) /\ Within(met_now, set)
    BY EventType, WithinOne DEF Kinds, Within
<1>3. Within(about \o met_now, set)
    BY <1>1, <1>2, WithinConcat
<1> QED
    BY <1>3 DEF PeerEvents

LEMMA IntroWithin ==
    ASSUME TypeInv, NEW set, NEW d \in Devices, NEW evs \in [Devices -> Seq(Events)],
           \A e \in Devices : Within(evs[e], set), known_peers[d] \subseteq set
    PROVE  \A e \in Devices : Within(Intro(evs, d)[e], set)
<1> SUFFICES ASSUME NEW e \in Devices PROVE Within(Intro(evs, d)[e], set)
    OBVIOUS
<1>1. CASE Intro(evs, d)[e] = evs[e]
    BY <1>1
<1>2. CASE /\ News(d, e) \in SUBSET known_peers[d]
           /\ Intro(evs, d)[e] = Append(evs[e], Event("peer_exchange", News(d, e)))
    <2>1. /\ Event("peer_exchange", News(d, e)) \in Events
          /\ Event("peer_exchange", News(d, e)).addrs = News(d, e)
        BY <1>2, EventType DEF TypeInv, Kinds
    <2>2. Event("peer_exchange", News(d, e)).addrs \subseteq set
        BY <1>2, <2>1
    <2>3. evs[e] \in Seq(Events) /\ Within(evs[e], set)
        OBVIOUS
    <2> QED
        BY <1>2, <2>1, <2>2, <2>3, WithinAppend
<1> QED
    BY <1>1, <1>2, IntroType

LEMMA PoppedWithin ==
    ASSUME TypeInv, NEW set, NEW d \in Devices, events[d] # <<>>,
           \A e \in Devices : Within(events[e], set)
    PROVE  /\ \A e \in Devices : Within(Popped(d)[e], set)
           /\ Head(events[d]).addrs \subseteq set
<1>1. events[d] \in Seq(Events)
    BY DEF TypeInv
<1>2. Within(Tail(events[d]), set) /\ Head(events[d]).addrs \subseteq set
    BY <1>1, WithinTail
<1> QED
    BY <1>2, PoppedType

LEMMA HeardNext == TypeInv /\ HeardInv /\ [Next]_vars => HeardInv'
<1> SUFFICES ASSUME TypeInv, HeardInv, [Next]_vars PROVE HeardInv'
    OBVIOUS
<1> DEFINE H == Heard'
<1>1. Heard \subseteq H
    BY HeardGrows
<1>2. /\ \A d \in Devices : known_addrs[d] \subseteq H /\ known_peers[d] \subseteq H
      /\ \A d \in Devices : cmds[d] \subseteq H /\ Within(events[d], H)
      /\ \A d \in Devices : \A addr \in listening[d] : Owner(addr) = d
    BY <1>1 DEF HeardInv, Within
<1>3. TypeInv'
    BY TypeNext
<1>4. ASSUME NEW d \in Devices, NEW addr \in listening'[d], Owner(addr) = d
      PROVE  addr \in H
    BY <1>3, <1>4 DEF Heard, TypeInv
<1> HIDE DEF H
<1>5. SUFFICES /\ \A d \in Devices : \A addr \in listening'[d] : Owner(addr) = d
               /\ \A d \in Devices : known_addrs'[d] \subseteq H /\ known_peers'[d] \subseteq H
               /\ \A d \in Devices : cmds'[d] \subseteq H /\ Within(events'[d], H)
    BY DEF HeardInv, H, Within
<1> DEFINE Goal ==
        /\ \A d \in Devices : \A addr \in listening'[d] : Owner(addr) = d
        /\ \A d \in Devices : known_addrs'[d] \subseteq H /\ known_peers'[d] \subseteq H
        /\ \A d \in Devices : cmds'[d] \subseteq H /\ Within(events'[d], H)
<1>6. ASSUME NEW d \in Users, NEW addr \in {<<d>>} \cup Circuits(d), NewListenAddr(d, addr)
      PROVE  Goal
    <2> DEFINE mine == WithPeer(addr, d)
               ev == Event("listening", {mine})
    <2>1. /\ d \in Devices /\ mine \in Addresses /\ Owner(mine) = d
          /\ ev \in Events /\ ev.addrs = {mine}
        BY ReportedType DEF Users
    <2>2. /\ listening' = [listening EXCEPT ![d] = @ \cup {mine}]
          /\ Queues(d, <<ev>>) /\ UNCHANGED <<known_addrs, cmds, known_peers>>
        BY <1>6 DEF NewListenAddr
    <2> HIDE DEF mine, ev
    <2>3. mine \in H
        BY <1>4, <2>1, <2>2 DEF TypeInv
    <2>4. <<ev>> \in Seq(Events) /\ Within(<<ev>>, H)
        BY <2>1, <2>3, WithinOne
    <2>5. \A e \in Devices : Within(events'[e], H)
        BY <1>2, <2>1, <2>2, <2>4, QueuesWithin
    <2> QED
        BY <1>2, <2>1, <2>2, <2>5 DEF TypeInv
<1>7. ASSUME NEW d \in Users, NEW e \in Devices, NEW addrs \in SUBSET Addresses,
             \A addr \in addrs : WithPeer(addr, e) \in H, Learns(d, e, addrs)
      PROVE  Goal
    <2> DEFINE new == Kept(d, e, addrs)
               isNew == e \notin met[d]
    <2>1. /\ d \in Devices /\ new \in SUBSET Addresses /\ isNew \in BOOLEAN
          /\ known_addrs' = [known_addrs EXCEPT ![d] = @ \cup new]
          /\ Queues(d, PeerEvents(new, isNew))
          /\ UNCHANGED <<listening, cmds, known_peers>>
        BY <1>7, LearnsSteps DEF Users
    <2>2. new \subseteq H
        BY <1>7 DEF Kept, Unknown
    <2> HIDE DEF new
    <2>3. PeerEvents(new, isNew) \in Seq(Events) /\ Within(PeerEvents(new, isNew), H)
        BY <2>1, <2>2, PeerEventsType, PeerEventsWithin
    <2>4. \A f \in Devices : Within(events'[f], H)
        BY <1>2, <2>1, <2>3, QueuesWithin
    <2> QED
        BY <1>2, <2>1, <2>2, <2>4 DEF TypeInv
<1>15. \A e \in Devices : \A addr \in Listens(e) : WithPeer(addr, e) \in H
    <2> SUFFICES ASSUME NEW e \in Devices, NEW addr \in Listens(e)
                 PROVE  WithPeer(addr, e) \in H
        OBVIOUS
    <2>1. addr \in Addresses /\ WithPeer(addr, e) \in listening[e]
        BY ListensType
    <2>2. WithPeer(addr, e) \in Addresses /\ Owner(WithPeer(addr, e)) = e
        BY <2>1, WithPeerAddress
    <2> QED
        BY <1>1, <2>1, <2>2 DEF Heard
<1>8. ASSUME NEW d \in Users, NEW e \in Devices, PeerIdentified(d, e) PROVE Goal
    <2>1. PICK addrs \in SUBSET Listens(e) : Learns(d, e, addrs)
        BY <1>8, IdentifiedSome
    <2>2. addrs \in SUBSET Addresses
        BY ListensType
    <2> QED
        BY <1>7, <1>15, <2>1, <2>2
<1>9. ASSUME NEW d \in Users, NEW e \in Devices, MdnsDiscovered(d, e) PROVE Goal
    <2>1. PICK addr \in {<<e>>, WithPeer(<<e>>, e)} : Learns(d, e, {addr})
        BY <1>9, DiscoveredSome
    <2>2. {addr} \in SUBSET Addresses
        <3>1. <<e>> \in Addresses /\ WithPeer(<<e>>, e) \in Addresses
            BY OwnAddress, WithPeerAddress
        <3> QED
            BY <2>1, <3>1
    <2>3. WithPeer(<<e>>, e) \in H
        BY <1>9, <1>15, DiscoveredSome
    <2>4. WithPeer(WithPeer(<<e>>, e), e) = <<e, e, e>>
        BY OwnAddress
    <2>5. WithPeer(WithPeer(<<e>>, e), e) \in Addresses
          /\ Owner(WithPeer(WithPeer(<<e>>, e), e)) = e
        BY OwnAddress, WithPeerAddress
    <2>6. <<e, e, e>> \in H
        BY <1>1, <2>4, <2>5 DEF Heard, Tripled
    <2>7. \A x \in {addr} : WithPeer(x, e) \in H
        BY <2>1, <2>3, <2>4, <2>6
    <2> QED
        BY <1>7, <2>1, <2>2, <2>7
<1>10. ASSUME NEW d \in Users, NEW e \in Users, PeerSubscribed(d, e) PROVE Goal
    <2>1. /\ d \in Devices /\ <<Event("subscribed", {})>> \in Seq(Events)
          /\ Within(<<Event("subscribed", {})>>, H)
        BY EventType, WithinOne DEF Kinds, Users
    <2>2. \A f \in Devices : Within(events'[f], H)
        BY <1>2, <1>10, <2>1, QueuesWithin DEF PeerSubscribed
    <2> QED
        BY <1>2, <1>10, <2>2 DEF PeerSubscribed
<1>11. ASSUME NEW d \in Users, NEW addr \in cmds[d], Executes(d, addr) PROVE Goal
    <2> DEFINE adv == Advertised(d, addr)
               evs == IF adv = {} THEN <<>> ELSE <<Event("listening", adv)>>
    <2>1. d \in Devices /\ addr \in Addresses /\ addr \in H
        BY <1>2 DEF Users, TypeInv
    <2>2. adv \in SUBSET Addresses /\ \A a \in adv : Owner(a) = d
        BY <2>1, AdvertisedType
    <2>3. adv \subseteq H
        BY <1>4, <1>11, <2>1, <2>2 DEF Executes, TypeInv
    <2>4. evs \in Seq(Events) /\ Within(evs, H)
        <3>1. Event("listening", adv) \in Events /\ Event("listening", adv).addrs \subseteq H
            BY <2>2, <2>3, EventType DEF Kinds
        <3>2. <<Event("listening", adv)>> \in Seq(Events)
              /\ Within(<<Event("listening", adv)>>, H)
            BY <3>1, WithinOne
        <3> QED
            BY <3>2 DEF Within
    <2>5. Queues(d, evs)
        BY <1>11 DEF Executes
    <2>6. \A f \in Devices : Within(events'[f], H)
        BY <1>2, <2>1, <2>4, <2>5, QueuesWithin
    <2> QED
        BY <1>2, <1>11, <2>1, <2>2, <2>6 DEF Executes, DialAddr, TypeInv
<1>12. ASSUME NEW d \in Users, FrontEnd(d) PROVE Goal
    <2>1. d \in Devices /\ events[d] # <<>>
        BY <1>12 DEF Users, FrontEnd, Handles, HandlesListening, HandlesPeerAddress,
                    HandlesPeerExchange, HandlesPeerDiscovered, HandlesSubscribed, Adds
    <2>2. /\ \A e \in Devices : Within(Popped(d)[e], H)
          /\ Head(events[d]).addrs \subseteq H
        BY <1>2, <2>1, PoppedWithin
    <2>3. \A e \in Devices : Within(Intro(Popped(d), d)[e], H)
        BY <1>2, <2>1, <2>2, PoppedType, IntroWithin
    <2>4. CASE HandlesListening(d)
        BY <1>2, <2>1, <2>2, <2>4 DEF HandlesListening, node_vars, TypeInv
    <2>5. ASSUME NEW t, Adds(d, t) PROVE Goal
        BY <1>2, <2>1, <2>2, <2>5 DEF Adds, node_vars, TypeInv
    <2>6. CASE HandlesPeerDiscovered(d) \/ HandlesSubscribed(d)
        BY <1>2, <2>1, <2>2, <2>3, <2>6
        DEF HandlesPeerDiscovered, HandlesSubscribed, node_vars
    <2> QED
        BY <1>12, <2>4, <2>5, <2>6 DEF FrontEnd, HandlesPeerAddress, HandlesPeerExchange
<1>13. ASSUME NEW d \in Users, IntroTimer(d) PROVE Goal
    <2>1. d \in Devices /\ events \in [Devices -> Seq(Events)]
        BY DEF Users, TypeInv
    <2> QED
        BY <1>2, <1>13, <2>1, IntroWithin DEF IntroTimer, node_vars
<1>14. CASE UNCHANGED vars
    BY <1>2, <1>14 DEF vars, node_vars
<1> QED
    BY <1>6, <1>8, <1>9, <1>10, <1>11, <1>12, <1>13, <1>14 DEF Next

\* An address that a node or a front end keeps is one that the device it leads
\* to has reported as its own, or its port with the id twice behind it: ids go
\* behind the right addresses (p2p.rs 253, 329, 355, 397).
THEOREM AddressesTraced == Spec => []Provenance
<1>1. HeardInv => Provenance
    BY DEF HeardInv, Heard, Tripled, Provenance
<1> QED
    BY <1>1, TypeInit, TypeNext, HeardInit, HeardNext, PTL DEF Spec

-----------------------------------------------------------------------------
(* No device dials itself *)

\* An address of d's own that d's node reports to its front end.
Own(d, addr) == Owner(addr) = d /\ addr # <<d, d, d>>

\* Event i of queue q announces the device's own address addr.
Announces(q, i, addr) == q[i].t = "listening" /\ addr \in q[i].addrs

\* An own address in the queue of d is known or has been announced before it.
InOrder(d, q, known) ==
    \A j \in 1..Len(q) : \A addr \in q[j].addrs :
        Own(d, addr) /\ q[j].t # "listening" =>
            addr \in known \/ \E i \in 1..(j - 1) : Announces(q, i, addr)

\* Every own address is known or in the queue.
Announced(q, known, own) ==
    \A addr \in own : addr \in known \/ \E i \in 1..Len(q) : Announces(q, i, addr)

\* Both, for the queue q of a device d that knows the addresses known.
Ordered(d, q, known) == InOrder(d, q, known) /\ Announced(q, known, listening[d])

OrderInv == \A d \in Users : Ordered(d, events[d], known_peers[d])

LEMMA Concatenation ==
    ASSUME NEW q \in Seq(Events), NEW r \in Seq(Events)
    PROVE  /\ Len(q) \in Nat /\ Len(r) \in Nat /\ Len(q \o r) = Len(q) + Len(r)
           /\ \A i \in 1..Len(q) : (q \o r)[i] = q[i]
           /\ \A i \in 1..Len(r) : (q \o r)[Len(q) + i] = r[i]
           /\ \A j \in 1..Len(q \o r) :
                  j \in 1..Len(q) \/ j - Len(q) \in 1..Len(r)
OBVIOUS

\* Announcements, and events about others, may be queued at any time.
LEMMA ConcatInOrder ==
    ASSUME NEW d, NEW known, NEW q \in Seq(Events), NEW r \in Seq(Events),
           InOrder(d, q, known),
           \A i \in 1..Len(r) : \A addr \in r[i].addrs :
               Own(d, addr) => r[i].t = "listening"
    PROVE  InOrder(d, q \o r, known)
<1> SUFFICES ASSUME NEW j \in 1..Len(q \o r), NEW addr \in (q \o r)[j].addrs,
                    Own(d, addr), (q \o r)[j].t # "listening"
             PROVE  addr \in known \/ \E i \in 1..(j - 1) : Announces(q \o r, i, addr)
    BY DEF InOrder
<1>1. CASE j \in 1..Len(q)
    <2>1. (q \o r)[j] = q[j]
        BY <1>1, Concatenation
    <2>2. addr \in known \/ \E i \in 1..(j - 1) : Announces(q, i, addr)
        BY <1>1, <2>1 DEF InOrder
    <2>3. \A i \in 1..(j - 1) : i \in 1..Len(q)
        BY <1>1, Concatenation
    <2>4. \A i \in 1..(j - 1) : (q \o r)[i] = q[i]
        BY <2>3, Concatenation
    <2> QED
        BY <2>2, <2>4 DEF Announces
<1>2. CASE j - Len(q) \in 1..Len(r)
    <2>1. Len(q) + (j - Len(q)) = j
        BY Concatenation
    <2>2. (q \o r)[j] = r[j - Len(q)]
        BY <1>2, <2>1, Concatenation
    <2> QED
        BY <1>2, <2>2
<1> QED
    BY <1>1, <1>2, Concatenation

LEMMA ConcatAnnounced ==
    ASSUME NEW known, NEW own, NEW q \in Seq(Events), NEW r \in Seq(Events),
           Announced(q, known, own), NEW added,
           \A addr \in added : \E i \in 1..Len(r) : Announces(r, i, addr)
    PROVE  Announced(q \o r, known, own \cup added)
<1>1. ASSUME NEW addr \in own, addr \notin known
      PROVE  \E i \in 1..Len(q \o r) : Announces(q \o r, i, addr)
    <2>1. PICK i \in 1..Len(q) : Announces(q, i, addr)
        BY <1>1 DEF Announced
    <2>2. i \in 1..Len(q \o r) /\ (q \o r)[i] = q[i]
        BY Concatenation
    <2> QED
        BY <2>1, <2>2 DEF Announces
<1>2. ASSUME NEW addr \in added
      PROVE  \E i \in 1..Len(q \o r) : Announces(q \o r, i, addr)
    <2>1. PICK i \in 1..Len(r) : Announces(r, i, addr)
        BY <1>2
    <2>2. Len(q) + i \in 1..Len(q \o r) /\ (q \o r)[Len(q) + i] = r[i]
        BY Concatenation
    <2> QED
        BY <2>1, <2>2 DEF Announces
<1> QED
    BY <1>1, <1>2 DEF Announced

\* An exchange may hold own addresses, as all of them have been announced.
LEMMA ExchangeInOrder ==
    ASSUME NEW d, NEW known, NEW own, NEW q \in Seq(Events), NEW ev \in Events,
           InOrder(d, q, known), Announced(q, known, own),
           \A addr \in ev.addrs : Own(d, addr) => addr \in own
    PROVE  InOrder(d, Append(q, ev), known) /\ Announced(Append(q, ev), known, own)
<1> DEFINE r == Append(q, ev)
<1>1. /\ Len(q) \in Nat /\ Len(r) = Len(q) + 1 /\ r[Len(q) + 1] = ev
      /\ \A i \in 1..Len(q) : r[i] = q[i]
    OBVIOUS
<1> HIDE DEF r
<1>2. \A addr : \A i \in 1..Len(q) : Announces(q, i, addr) => Announces(r, i, addr)
    BY <1>1 DEF Announces
<1>3. InOrder(d, r, known)
    <2> SUFFICES ASSUME NEW j \in 1..Len(r), NEW addr \in r[j].addrs,
                        Own(d, addr), r[j].t # "listening", addr \notin known
                 PROVE  \E i \in 1..(j - 1) : Announces(r, i, addr)
        BY DEF InOrder
    <2>1. CASE j \in 1..Len(q)
        <3>1. PICK i \in 1..(j - 1) : Announces(q, i, addr)
            BY <1>1, <2>1 DEF InOrder
        <3>2. i \in 1..Len(q)
            BY <1>1, <2>1
        <3> QED
            BY <1>2, <3>1, <3>2
    <2>2. CASE j = Len(q) + 1
        <3>1. PICK i \in 1..Len(q) : Announces(q, i, addr)
            BY <1>1, <2>2 DEF Announced
        <3>2. i \in 1..(j - 1)
            BY <1>1, <2>2
        <3> QED
            BY <1>2, <3>1, <3>2
    <2> QED
        BY <1>1, <2>1, <2>2
<1>4. Announced(r, known, own)
    <2>1. \A i \in 1..Len(q) : i \in 1..Len(r)
        BY <1>1
    <2> QED
        BY <1>2, <2>1 DEF Announced
<1> QED
    BY <1>3, <1>4 DEF r

\* The next event is taken, and what it announces is known from then on.
LEMMA TailInOrder ==
    ASSUME NEW d, NEW known, NEW later, NEW own, NEW q \in Seq(Events), q # <<>>,
           InOrder(d, q, known), Announced(q, known, own), known \subseteq later,
           Head(q).t = "listening" => Head(q).addrs \subseteq later
    PROVE  /\ InOrder(d, Tail(q), later) /\ Announced(Tail(q), later, own)
           /\ Head(q).t # "listening" =>
                  \A addr \in Head(q).addrs : Own(d, addr) => addr \in known
<1> DEFINE r == Tail(q)
<1>1. /\ Len(q) \in Nat /\ Len(q) > 0 /\ Len(r) = Len(q) - 1
      /\ Head(q) = q[1] /\ 1 \in 1..Len(q)
      /\ \A i \in 1..Len(r) : r[i] = q[i + 1]
    OBVIOUS
<1> HIDE DEF r
<1>2. ASSUME NEW i \in 1..Len(q), NEW addr, Announces(q, i, addr), addr \notin later
      PROVE  i - 1 \in 1..Len(r) /\ Announces(r, i - 1, addr)
    <2>1. i # 1
        BY <1>1, <1>2 DEF Announces
    <2>2. i - 1 \in 1..Len(r) /\ (i - 1) + 1 = i
        BY <1>1, <2>1
    <2> QED
        BY <1>1, <1>2, <2>2 DEF Announces
<1>3. InOrder(d, r, later)
    <2> SUFFICES ASSUME NEW j \in 1..Len(r), NEW addr \in r[j].addrs,
                        Own(d, addr), r[j].t # "listening", addr \notin later
                 PROVE  \E i \in 1..(j - 1) : Announces(r, i, addr)
        BY DEF InOrder
    <2>1. j + 1 \in 1..Len(q) /\ r[j] = q[j + 1] /\ (j + 1) - 1 = j
        BY <1>1
    <2>2. PICK i \in 1..j : Announces(q, i, addr)
        BY <2>1 DEF InOrder
    <2>3. i \in 1..Len(q)
        BY <2>1, <1>1
    <2>4. i - 1 \in 1..Len(r) /\ Announces(r, i - 1, addr)
        BY <1>2, <2>2, <2>3
    <2>5. i - 1 \in 1..(j - 1)
        BY <2>4, <1>1
    <2> QED
        BY <2>4, <2>5
<1>4. Announced(r, later, own)
    BY <1>2 DEF Announced
<1>5. ASSUME Head(q).t # "listening", NEW addr \in Head(q).addrs, Own(d, addr)
      PROVE  addr \in known
    <2>1. addr \in known \/ \E i \in 1..(1 - 1) : Announces(q, i, addr)
        BY <1>1, <1>5 DEF InOrder
    <2>2. 1..(1 - 1) = {}
        OBVIOUS
    <2> QED
        BY <2>1, <2>2
<1> QED
    BY <1>3, <1>4, <1>5 DEF r

LEMMA OrderInit == Init => NoSelfDial /\ OrderInv
<1> SUFFICES ASSUME Init PROVE NoSelfDial /\ OrderInv
    OBVIOUS
<1>1. NoSelfDial
    <2>1. \A d \in Devices : cmds[d] = Initial[d]
                              /\ dialled[d] = {<<b, b>> : b \in Bootstrap \ {d}}
        BY DEF Init
    <2>2. \A d \in Devices : \A addr \in dialled[d] \cup cmds[d] : Owner(addr) # d
        BY <2>1, BootstrapAddress, ConstantsAssumption
    <2> QED
        BY <2>2 DEF NoSelfDial
<1>2. ASSUME NEW d \in Users PROVE Ordered(d, events[d], known_peers[d])
    <2>1. events[d] = <<>> /\ listening[d] \subseteq known_peers[d] /\ 1..Len(<<>>) = {}
        BY DEF Init, Users
    <2> QED
        BY <2>1 DEF Ordered, InOrder, Announced
<1> QED
    BY <1>1, <1>2 DEF OrderInv

\* The node queues events: about others, or that it listens on what is added.
LEMMA QueuesOrdered ==
    ASSUME TypeInv, OrderInv, NEW d \in Users, NEW evs \in Seq(Events), Queues(d, evs),
           known_peers' = known_peers,
           NEW added \in SUBSET Addresses,
           listening' = [listening EXCEPT ![d] = @ \cup added],
           \A i \in 1..Len(evs) : \A addr \in evs[i].addrs :
               Own(d, addr) => evs[i].t = "listening",
           \A addr \in added : \E i \in 1..Len(evs) : Announces(evs, i, addr)
    PROVE  OrderInv'
<1>1. d \in Devices /\ events[d] \in Seq(Events)
    BY DEF Users, TypeInv
<1>2. ASSUME NEW e \in Users, e # d
      PROVE  Ordered(e, events[e], known_peers[e]) /\ events'[e] = events[e]
             /\ listening'[e] = listening[e]
    BY <1>1, <1>2, QueuesType DEF OrderInv, Users, TypeInv
<1>3. events'[d] = events[d] \o evs /\ listening'[d] = listening[d] \cup added
    BY <1>1, QueuesType DEF TypeInv
<1>4. InOrder(d, events[d], known_peers[d])
      /\ Announced(events[d], known_peers[d], listening[d])
    BY DEF OrderInv, Ordered
<1>5. InOrder(d, events[d] \o evs, known_peers[d])
    BY <1>1, <1>4, ConcatInOrder
<1>6. Announced(events[d] \o evs, known_peers[d], listening[d] \cup added)
    BY <1>1, <1>4, ConcatAnnounced
<1> QED
    BY <1>2, <1>3, <1>5, <1>6 DEF OrderInv, Ordered

\* The front end takes an event and knows later afterwards.
LEMMA PoppedOrdered ==
    ASSUME TypeInv, OrderInv, NEW d \in Users, events[d] # <<>>,
           NEW later, known_peers[d] \subseteq later,
           Head(events[d]).t = "listening" => Head(events[d]).addrs \subseteq later
    PROVE  /\ Ordered(d, Popped(d)[d], later)
           /\ \A e \in Users \ {d} : Ordered(e, Popped(d)[e], known_peers[e])
           /\ Head(events[d]).t # "listening" =>
                  \A addr \in Head(events[d]).addrs : Own(d, addr) => addr \in known_peers[d]
<1>1. d \in Devices /\ events[d] \in Seq(Events)
    BY DEF Users, TypeInv
<1>2. /\ InOrder(d, events[d], known_peers[d])
      /\ Announced(events[d], known_peers[d], listening[d])
    BY DEF OrderInv, Ordered
<1>3. /\ Popped(d)[d] = Tail(events[d])
      /\ \A e \in Users \ {d} : Popped(d)[e] = events[e]
    BY <1>1, PoppedType DEF Users
<1>4. /\ InOrder(d, Tail(events[d]), later) /\ Announced(Tail(events[d]), later, listening[d])
      /\ Head(events[d]).t # "listening" =>
             \A addr \in Head(events[d]).addrs : Own(d, addr) => addr \in known_peers[d]
    BY <1>1, <1>2, TailInOrder
<1> QED
    BY <1>3, <1>4 DEF OrderInv, Ordered

\* An intro holds an address of its recipient only if that listens on it.
LEMMA IntroOrdered ==
    ASSUME TypeInv, HeardInv, NEW d \in Users, NEW evs \in [Devices -> Seq(Events)],
           \A e \in Users : Ordered(e, evs[e], known_peers[e])
    PROVE  \A e \in Users : Ordered(e, Intro(evs, d)[e], known_peers[e])
<1> SUFFICES ASSUME NEW e \in Users PROVE Ordered(e, Intro(evs, d)[e], known_peers[e])
    OBVIOUS
<1>1. d \in Devices /\ e \in Devices
    BY DEF Users
<1>2. CASE Intro(evs, d)[e] = evs[e]
    BY <1>2
<1>3. CASE /\ News(d, e) \in SUBSET known_peers[d]
           /\ Intro(evs, d)[e] = Append(evs[e], Event("peer_exchange", News(d, e)))
    <2> DEFINE ev == Event("peer_exchange", News(d, e))
    <2>1. News(d, e) \in SUBSET Addresses /\ News(d, e) \subseteq Heard
        BY <1>1, <1>3 DEF TypeInv, HeardInv
    <2>2. ev \in Events /\ ev.addrs = News(d, e)
        BY <2>1, EventType DEF Kinds
    <2>3. \A addr \in ev.addrs : Own(e, addr) => addr \in listening[e]
        BY <2>1, <2>2 DEF Heard, Tripled, Own
    <2>4. evs[e] \in Seq(Events)
        BY <1>1
    <2>5. InOrder(e, evs[e], known_peers[e]) /\ Announced(evs[e], known_peers[e], listening[e])
        BY DEF Ordered
    <2> HIDE DEF ev
    <2>6. /\ InOrder(e, Append(evs[e], ev), known_peers[e])
          /\ Announced(Append(evs[e], ev), known_peers[e], listening[e])
        BY <2>2, <2>3, <2>4, <2>5, ExchangeInOrder
    <2> QED
        BY <1>3, <2>6 DEF Ordered, ev
<1>4. \/ Intro(evs, d)[e] = evs[e]
      \/ /\ News(d, e) \in SUBSET known_peers[d]
         /\ Intro(evs, d)[e] = Append(evs[e], Event("peer_exchange", News(d, e)))
    BY <1>1, IntroType
<1> QED
    BY <1>2, <1>3, <1>4

LEMMA OrderNext ==
    TypeInv /\ HeardInv /\ NoSelfDial /\ OrderInv /\ [Next]_vars => NoSelfDial' /\ OrderInv'
<1> SUFFICES ASSUME TypeInv, HeardInv, NoSelfDial, OrderInv, [Next]_vars
             PROVE  NoSelfDial' /\ OrderInv'
    OBVIOUS
<1>1. ASSUME UNCHANGED <<dialled, cmds>> PROVE NoSelfDial'
    BY <1>1 DEF NoSelfDial
<1>2. ASSUME NEW d \in Users, NEW addr \in {<<d>>} \cup Circuits(d), NewListenAddr(d, addr)
      PROVE  OrderInv'
    <2> DEFINE mine == WithPeer(addr, d)
               ev == Event("listening", {mine})
               evs == <<ev>>
               own == {mine}
    <2>1. mine \in Addresses /\ ev \in Events /\ ev.t = "listening" /\ ev.addrs = {mine}
        BY ReportedType DEF Users
    <2>2. /\ Queues(d, evs) /\ known_peers' = known_peers
          /\ listening' = [listening EXCEPT ![d] = @ \cup own]
        BY <1>2 DEF NewListenAddr
    <2> HIDE DEF mine, ev
    <2>3. /\ evs \in Seq(Events) /\ 1 \in 1..Len(evs) /\ evs[1] = ev
          /\ \A i \in 1..Len(evs) : evs[i] = ev
        BY <2>1
    <2>4. \A x \in own : \E i \in 1..Len(evs) : Announces(evs, i, x)
        BY <2>1, <2>3 DEF Announces
    <2>5. \A i \in 1..Len(evs) : \A x \in evs[i].addrs :
              Own(d, x) => evs[i].t = "listening"
        BY <2>1, <2>3
    <2> HIDE DEF evs, own
    <2>6. own \in SUBSET Addresses
        BY <2>1 DEF own
    <2> QED
        BY <2>2, <2>3, <2>4, <2>5, <2>6, QueuesOrdered
<1>3. ASSUME NEW d \in Users, NEW e \in Devices \ {d}, NEW addrs \in SUBSET Addresses,
             \A addr \in addrs : Owner(addr) = e, Learns(d, e, addrs)
      PROVE  NoSelfDial' /\ OrderInv'
    <2> DEFINE unknown == Unknown(d, e, addrs)
               new == Kept(d, e, addrs)
               isNew == e \notin met[d]
               others == {addr \in Addresses : Owner(addr) # d}
               evs == PeerEvents(new, isNew)
               none == {}
    <2>1. /\ d \in Devices /\ new \in SUBSET Addresses /\ new \subseteq others
          /\ isNew \in BOOLEAN
          /\ \A addr \in unknown : Owner(addr) # d
        BY <1>3, LearnsSteps DEF Users
    <2>2. evs \in Seq(Events) /\ Within(evs, others)
        BY <2>1, PeerEventsType, PeerEventsWithin
    <2>3. /\ Queues(d, evs) /\ Dials(d, unknown)
          /\ UNCHANGED <<listening, cmds, known_peers>>
        BY <1>3, <2>1, LearnsSteps
    <2>4. /\ listening' = [listening EXCEPT ![d] = @ \cup none] /\ none \in SUBSET Addresses
          /\ \A addr \in none : \E i \in 1..Len(evs) : Announces(evs, i, addr)
        BY <2>3 DEF TypeInv
    <2> HIDE DEF unknown, new, evs, none
    <2>5. \A i \in 1..Len(evs) : \A addr \in evs[i].addrs :
              Own(d, addr) => evs[i].t = "listening"
        BY <2>2 DEF Within, Own
    <2>6. OrderInv'
        BY <2>2, <2>3, <2>4, <2>5, QueuesOrdered
    <2>7. NoSelfDial'
        BY <2>1, <2>3 DEF NoSelfDial, Dials, TypeInv
    <2> QED
        BY <2>6, <2>7
<1>11. \A e \in Devices : \A addr \in Listens(e) : addr \in Addresses /\ Owner(addr) = e
    <2> SUFFICES ASSUME NEW e \in Devices, NEW addr \in Listens(e)
                 PROVE  addr \in Addresses /\ Owner(addr) = e
        OBVIOUS
    <2>1. addr \in Addresses /\ (addr = <<e>> \/ addr \in listening[e])
        BY ListensType DEF Listens, Circuits
    <2> QED
        BY <2>1, OwnAddress DEF HeardInv
<1>4. ASSUME NEW d \in Users, NEW e \in Devices, PeerIdentified(d, e)
      PROVE  NoSelfDial' /\ OrderInv'
    <2>1. PICK addrs \in SUBSET Listens(e) : Learns(d, e, addrs)
        BY <1>4, IdentifiedSome
    <2>2. e \in Devices \ {d}
        BY <1>4, IdentifiedSome
    <2>3. addrs \in SUBSET Addresses /\ \A addr \in addrs : Owner(addr) = e
        BY <1>11
    <2> QED
        BY <1>3, <2>1, <2>2, <2>3
<1>5. ASSUME NEW d \in Users, NEW e \in Devices, MdnsDiscovered(d, e)
      PROVE  NoSelfDial' /\ OrderInv'
    <2>1. e \in Devices \ {d}
        BY <1>5, DiscoveredSome
    <2>2. PICK addr \in {<<e>>, WithPeer(<<e>>, e)} : Learns(d, e, {addr})
        BY <1>5, DiscoveredSome
    <2>3. addr \in Addresses /\ Owner(addr) = e
        BY <2>2, OwnAddress, WithPeerAddress
    <2>4. {addr} \in SUBSET Addresses /\ \A x \in {addr} : Owner(x) = e
        BY <2>3
    <2> QED
        BY <1>3, <2>1, <2>2, <2>4
<1>6. ASSUME NEW d \in Users, NEW e \in Users, PeerSubscribed(d, e) PROVE OrderInv'
    <2> DEFINE ev == Event("subscribed", {})
               evs == <<ev>>
               none == {}
    <2>1. ev \in Events /\ ev.addrs = {}
        BY EventType DEF Kinds
    <2>2. /\ Queues(d, evs) /\ known_peers' = known_peers
          /\ listening' = [listening EXCEPT ![d] = @ \cup none] /\ none \in SUBSET Addresses
          /\ \A addr \in none : \E i \in 1..Len(evs) : Announces(evs, i, addr)
        BY <1>6 DEF PeerSubscribed, TypeInv
    <2> HIDE DEF ev, none
    <2>3. evs \in Seq(Events) /\ \A i \in 1..Len(evs) : evs[i] = ev
        BY <2>1
    <2> HIDE DEF evs
    <2>4. \A i \in 1..Len(evs) : \A addr \in evs[i].addrs :
              Own(d, addr) => evs[i].t = "listening"
        BY <2>1, <2>3
    <2> QED
        BY <2>2, <2>3, <2>4, QueuesOrdered
<1>7. ASSUME NEW d \in Users, NEW addr \in cmds[d], Executes(d, addr)
      PROVE  NoSelfDial' /\ OrderInv'
    <2> DEFINE adv == Advertised(d, addr)
               ev == Event("listening", adv)
               evs == IF adv = {} THEN <<>> ELSE <<ev>>
    <2>1. d \in Devices /\ addr \in Addresses /\ ~Own(d, addr)
        BY DEF Users, TypeInv, NoSelfDial, Own
    <2>2. adv \in SUBSET Addresses
        BY <2>1, AdvertisedType
    <2>3. ev \in Events /\ ev.t = "listening" /\ ev.addrs = adv
        BY <2>2, EventType DEF Kinds
    <2>4. /\ Queues(d, evs) /\ known_peers' = known_peers
          /\ listening' = [listening EXCEPT ![d] = @ \cup adv]
          /\ cmds' = [cmds EXCEPT ![d] = @ \ {addr}]
          /\ Dials(d, {addr} \ known_addrs[d])
        BY <1>7 DEF Executes, DialAddr
    <2> HIDE DEF ev, adv
    <2>5. /\ evs \in Seq(Events) /\ \A i \in 1..Len(evs) : evs[i] = ev
          /\ adv # {} => 1 \in 1..Len(evs)
        BY <2>3
    <2>6. \A a \in adv : \E i \in 1..Len(evs) : Announces(evs, i, a)
        BY <2>3, <2>5 DEF Announces
    <2> HIDE DEF evs
    <2>7. OrderInv'
        BY <2>2, <2>3, <2>4, <2>5, <2>6, QueuesOrdered
    <2>8. NoSelfDial'
        BY <2>1, <2>4 DEF NoSelfDial, Own, Dials, TypeInv
    <2> QED
        BY <2>7, <2>8
<1>8. ASSUME NEW d \in Users, FrontEnd(d) PROVE NoSelfDial' /\ OrderInv'
    <2>1. d \in Devices /\ events[d] # <<>> /\ Popped(d) \in [Devices -> Seq(Events)]
        BY <1>8, PoppedType
        DEF Users, FrontEnd, Handles, HandlesListening, HandlesPeerAddress,
            HandlesPeerExchange, HandlesPeerDiscovered, HandlesSubscribed, Adds
    <2>2. CASE HandlesListening(d)
        <3>1. /\ events' = Popped(d) /\ UNCHANGED <<dialled, cmds, listening>>
              /\ known_peers' = [known_peers EXCEPT ![d] = @ \cup Head(events[d]).addrs]
            BY <2>2 DEF HandlesListening, node_vars
        <3>2. /\ known_peers'[d] = known_peers[d] \cup Head(events[d]).addrs
              /\ \A e \in Users \ {d} : known_peers'[e] = known_peers[e]
            BY <2>1, <3>1 DEF TypeInv, Users
        <3>3. /\ Ordered(d, Popped(d)[d], known_peers'[d])
              /\ \A e \in Users \ {d} : Ordered(e, Popped(d)[e], known_peers[e])
            BY <2>1, <3>2, PoppedOrdered
        <3> QED
            BY <1>1, <3>1, <3>2, <3>3 DEF OrderInv, Ordered
    <2>3. ASSUME NEW t, t # "listening", Adds(d, t) PROVE NoSelfDial' /\ OrderInv'
        <3> DEFINE new == Head(events[d]).addrs \ known_peers[d]
        <3>1. /\ Head(events[d]).t # "listening"
              /\ events' = Popped(d) /\ UNCHANGED <<dialled, listening>>
              /\ known_peers' = [known_peers EXCEPT ![d] = @ \cup new]
              /\ cmds' = [cmds EXCEPT ![d] = @ \cup new]
            BY <2>3 DEF Adds, Handles, node_vars
        <3> HIDE DEF new
        <3>2. /\ known_peers'[d] = known_peers[d] \cup new
              /\ \A e \in Users \ {d} : known_peers'[e] = known_peers[e]
            BY <2>1, <3>1 DEF TypeInv, Users
        <3>3. /\ Ordered(d, Popped(d)[d], known_peers'[d])
              /\ \A e \in Users \ {d} : Ordered(e, Popped(d)[e], known_peers[e])
              /\ \A addr \in new : ~Own(d, addr)
            BY <2>1, <3>1, <3>2, PoppedOrdered DEF new
        <3>4. OrderInv'
            BY <3>1, <3>2, <3>3 DEF OrderInv, Ordered
        <3>5. NoSelfDial'
            BY <2>1, <3>1, <3>3 DEF NoSelfDial, Own, TypeInv
        <3> QED
            BY <3>4, <3>5
    <2>4. CASE HandlesPeerDiscovered(d) \/ HandlesSubscribed(d)
        <3>1. /\ events' = Popped(d) \/ events' = Intro(Popped(d), d)
              /\ UNCHANGED <<dialled, cmds, listening, known_peers>>
              /\ Head(events[d]).t # "listening"
            BY <2>4 DEF HandlesPeerDiscovered, HandlesSubscribed, Handles, node_vars
        <3>2. \A e \in Users : Ordered(e, Popped(d)[e], known_peers[e])
            BY <2>1, <3>1, PoppedOrdered
        <3>3. \A e \in Users : Ordered(e, Intro(Popped(d), d)[e], known_peers[e])
            BY <2>1, <3>2, IntroOrdered
        <3> QED
            BY <1>1, <3>1, <3>2, <3>3 DEF OrderInv, Ordered
    <2> QED
        BY <1>8, <2>2, <2>3, <2>4 DEF FrontEnd, HandlesPeerAddress, HandlesPeerExchange
<1>9. ASSUME NEW d \in Users, IntroTimer(d) PROVE NoSelfDial' /\ OrderInv'
    <2>1. /\ events \in [Devices -> Seq(Events)]
          /\ \A e \in Users : Ordered(e, events[e], known_peers[e])
        BY DEF TypeInv, OrderInv
    <2>2. \A e \in Users : Ordered(e, Intro(events, d)[e], known_peers[e])
        BY <2>1, IntroOrdered
    <2> QED
        BY <1>1, <1>9, <2>2 DEF IntroTimer, node_vars, OrderInv, Ordered
<1>10. CASE UNCHANGED vars
    BY <1>1, <1>10 DEF vars, node_vars, OrderInv, Ordered
<1> QED
    BY <1>1, <1>2, <1>4, <1>5, <1>6, <1>7, <1>8, <1>9, <1>10
    DEF Next, NewListenAddr, PeerSubscribed

\* Whatever others send back, and however late, no device dials itself, unless
\* under the one spelling that its node never reports (cli.rs 236, tui.rs 134).
THEOREM NeverDialsItself == Spec => []NoSelfDial
BY TypeInit, TypeNext, HeardInit, HeardNext, OrderInit, OrderNext, PTL DEF Spec

-----------------------------------------------------------------------------
(* No introduction is forgotten *)

Triggers == {"peer_discovered", "subscribed"}

\* An address that is known, or will be when the queue has been handled.
Comes(q, known, addr) == addr \in known \/ \E j \in 1..Len(q) : addr \in q[j].addrs

\* An exchange that holds the address is in the queue.
Offered(q, addr) == \E j \in 1..Len(q) : q[j].t = "peer_exchange" /\ addr \in q[j].addrs

\* An intro will be sent that holds the address.
Owes(q, known, addr) ==
    \E i \in 1..Len(q) :
        /\ q[i].t \in Triggers
        /\ addr \in known \/ \E j \in 1..(i - 1) : addr \in q[j].addrs

\* What triggers an intro tells no address.
Silent(q) == \A i \in 1..Len(q) : q[i].t \in Triggers => q[i].addrs = {}

LEMMA WaitingOffered ==
    ASSUME TypeInv, NEW d \in Devices
    PROVE  \A addr : addr \in Waiting(d) <=> Offered(events[d], addr)
<1>1. events[d] \in Seq(Events) /\ DOMAIN events[d] = 1..Len(events[d])
    BY DEF TypeInv
<1> QED
    BY <1>1 DEF Waiting, Offered

\* What is queued stays owed, offered and to come when more is queued.
LEMMA ConcatKeeps ==
    ASSUME NEW q \in Seq(Events), NEW r \in Seq(Events), NEW known
    PROVE  /\ \A addr : Comes(q, known, addr) => Comes(q \o r, known, addr)
           /\ \A addr : Offered(q, addr) => Offered(q \o r, addr)
           /\ \A addr : Owes(q, known, addr) => Owes(q \o r, known, addr)
           /\ Silent(q) /\ Silent(r) => Silent(q \o r)
<1> DEFINE p == q \o r
<1>1. /\ Len(q) \in Nat /\ Len(r) \in Nat /\ Len(p) = Len(q) + Len(r)
      /\ \A i \in 1..Len(q) : p[i] = q[i]
      /\ \A i \in 1..Len(r) : p[Len(q) + i] = r[i]
      /\ \A j \in 1..Len(p) : j \in 1..Len(q) \/ j - Len(q) \in 1..Len(r)
    BY Concatenation
<1> HIDE DEF p
<1>2. \A i \in 1..Len(q) : i \in 1..Len(p) /\ \A j \in 1..(i - 1) : j \in 1..Len(q)
    BY <1>1
<1>3. \A addr : Comes(q, known, addr) => Comes(p, known, addr)
    BY <1>1, <1>2 DEF Comes
<1>4. \A addr : Offered(q, addr) => Offered(p, addr)
    BY <1>1, <1>2 DEF Offered
<1>5. ASSUME NEW addr, Owes(q, known, addr)
      PROVE  Owes(p, known, addr)
    <2>1. PICK i \in 1..Len(q) :
              /\ q[i].t \in Triggers
              /\ addr \in known \/ \E j \in 1..(i - 1) : addr \in q[j].addrs
        BY <1>5 DEF Owes
    <2>2. addr \in known \/ \E j \in 1..(i - 1) : addr \in p[j].addrs
        BY <1>1, <1>2, <2>1
    <2> QED
        BY <1>1, <1>2, <2>1, <2>2 DEF Owes
<1>6. ASSUME Silent(q), Silent(r), NEW j \in 1..Len(p), p[j].t \in Triggers
      PROVE  p[j].addrs = {}
    <2>1. CASE j \in 1..Len(q)
        BY <1>1, <1>6, <2>1 DEF Silent
    <2>2. CASE j - Len(q) \in 1..Len(r)
        <3>1. Len(q) + (j - Len(q)) = j
            BY <1>1
        <3>2. p[j] = r[j - Len(q)]
            BY <1>1, <2>2, <3>1
        <3> QED
            BY <1>6, <2>2, <3>2 DEF Silent
    <2> QED
        BY <1>1, <2>1, <2>2
<1> QED
    BY <1>3, <1>4, <1>5, <1>6 DEF p, Silent

\* A trigger that is queued after what tells an address makes it owed.
LEMMA ConcatOwes ==
    ASSUME NEW q \in Seq(Events), NEW r \in Seq(Events), NEW known, NEW addr,
           NEW i \in 1..Len(r), r[i].t \in Triggers,
           Comes(q, known, addr) \/ \E j \in 1..(i - 1) : addr \in r[j].addrs
    PROVE  Owes(q \o r, known, addr)
<1> DEFINE p == q \o r
           k == Len(q) + i
<1>1. /\ Len(q) \in Nat /\ Len(r) \in Nat /\ Len(p) = Len(q) + Len(r)
      /\ \A j \in 1..Len(q) : p[j] = q[j]
      /\ \A j \in 1..Len(r) : p[Len(q) + j] = r[j]
    BY Concatenation
<1> HIDE DEF p
<1>2. k \in 1..Len(p) /\ p[k] = r[i]
    BY <1>1
<1>3. CASE addr \in known
    BY <1>2, <1>3 DEF Owes
<1>4. ASSUME NEW j \in 1..Len(q), addr \in q[j].addrs
      PROVE  Owes(p, known, addr)
    <2>1. j \in 1..(k - 1) /\ p[j] = q[j]
        BY <1>1
    <2> QED
        BY <1>2, <1>4, <2>1 DEF Owes
<1>5. ASSUME NEW j \in 1..(i - 1), addr \in r[j].addrs
      PROVE  Owes(p, known, addr)
    <2>1. j \in 1..Len(r) /\ Len(q) + j \in 1..(k - 1)
        BY <1>1
    <2>2. p[Len(q) + j] = r[j]
        BY <1>1, <2>1
    <2> QED
        BY <1>2, <1>5, <2>1, <2>2 DEF Owes
<1> QED
    BY <1>3, <1>4, <1>5 DEF Comes, p

LEMMA ConcatComes ==
    ASSUME NEW q \in Seq(Events), NEW r \in Seq(Events), NEW known, NEW addr,
           NEW j \in 1..Len(r), addr \in r[j].addrs
    PROVE  Comes(q \o r, known, addr)
<1>1. Len(q) + j \in 1..Len(q \o r) /\ (q \o r)[Len(q) + j] = r[j]
    BY Concatenation
<1> QED
    BY <1>1 DEF Comes

\* The front end takes an event and knows what it told: nothing that was to
\* come is lost, and what was owed still is, or was owed by this very event.
LEMMA TailKeeps ==
    ASSUME NEW q \in Seq(Events), q # <<>>, NEW known, NEW later,
           known \subseteq later, Head(q).addrs \subseteq later
    PROVE  /\ \A addr : Comes(q, known, addr) => Comes(Tail(q), later, addr)
           /\ \A addr : Offered(q, addr) => addr \in later \/ Offered(Tail(q), addr)
           /\ \A addr : Owes(q, known, addr) =>
                  \/ Owes(Tail(q), later, addr)
                  \/ Head(q).t \in Triggers /\ addr \in known
           /\ Silent(q) => Silent(Tail(q))
<1> DEFINE r == Tail(q)
<1>1. /\ Len(q) \in Nat \ {0} /\ Len(r) = Len(q) - 1 /\ Head(q) = q[1]
      /\ \A i \in 1..Len(r) : r[i] = q[i + 1] /\ i + 1 \in 1..Len(q)
    OBVIOUS
<1> HIDE DEF r
<1>2. \A j \in 1..Len(q) : j = 1 \/ (j - 1 \in 1..Len(r) /\ r[j - 1] = q[j])
    <2>1. \A j \in 1..Len(q) : j # 1 => j - 1 \in 1..Len(r) /\ (j - 1) + 1 = j
        BY <1>1
    <2> QED
        BY <1>1, <2>1
<1>3. \A addr : Comes(q, known, addr) => Comes(r, later, addr)
    BY <1>1, <1>2 DEF Comes
<1>4. \A addr : Offered(q, addr) => addr \in later \/ Offered(r, addr)
    BY <1>1, <1>2 DEF Offered
<1>5. ASSUME NEW addr, Owes(q, known, addr),
             ~(Head(q).t \in Triggers /\ addr \in known)
      PROVE  Owes(r, later, addr)
    <2>1. PICK i \in 1..Len(q) :
              /\ q[i].t \in Triggers
              /\ addr \in known \/ \E j \in 1..(i - 1) : addr \in q[j].addrs
        BY <1>5 DEF Owes
    <2>2. i # 1
        <3>1. ASSUME i = 1 PROVE 1..(i - 1) = {}
            BY <3>1
        <3> QED
            BY <1>1, <1>5, <2>1, <3>1
    <2>3. i - 1 \in 1..Len(r) /\ r[i - 1] = q[i]
        BY <1>2, <2>2
    <2>4. ASSUME NEW j \in 1..(i - 1), addr \in q[j].addrs
          PROVE  addr \in later \/ \E k \in 1..((i - 1) - 1) : addr \in r[k].addrs
        <3>1. j \in 1..Len(q)
            BY <1>1
        <3>2. CASE j = 1
            BY <1>1, <2>4, <3>2
        <3>3. CASE j # 1
            <4>1. j - 1 \in 1..((i - 1) - 1)
                BY <3>3
            <4> QED
                BY <1>2, <2>4, <3>1, <3>3, <4>1
        <3> QED
            BY <3>2, <3>3
    <2>5. addr \in later \/ \E k \in 1..((i - 1) - 1) : addr \in r[k].addrs
        BY <2>1, <2>4
    <2> QED
        BY <2>1, <2>3, <2>5 DEF Owes
<1>6. Silent(q) => Silent(r)
    BY <1>1 DEF Silent
<1> QED
    BY <1>3, <1>4, <1>5, <1>6 DEF r

\* What d owes e of an address is done, or will be.
Told(d, e, addr) ==
    \/ addr \in known_peers[e] \/ Offered(events[e], addr)
    \/ Owes(events[d], known_peers[d], addr)

\* What a node keeps its front end knows or will know; what counts as named is
\* among it; and what is owed is told.
OweInv ==
    /\ named \in [Devices -> SUBSET Addresses]
    /\ subs \in [Devices -> SUBSET Devices]
    /\ \A d \in Users :
          /\ subs[d] \subseteq Users \ {d}
          /\ cmds[d] \subseteq known_peers[d]
          /\ named[d] \subseteq known_addrs[d]
          /\ \A addr \in known_addrs[d] : Comes(events[d], known_peers[d], addr)
          /\ Silent(events[d])
    /\ \A d \in Users \ Terminal : \A addr \in named[d], e \in subs[d] : Told(d, e, addr)

LEMMA OweInit == Init => OweInv
<1> SUFFICES ASSUME Init PROVE OweInv
    OBVIOUS
<1>1. \A d \in Devices : /\ named[d] = {} /\ subs[d] = {} /\ known_addrs[d] = {}
                        /\ cmds[d] \subseteq known_peers[d] /\ events[d] = <<>>
    BY DEF Init
<1>2. Silent(<<>>)
    BY DEF Silent
<1>3. named \in [Devices -> SUBSET Addresses] /\ subs \in [Devices -> SUBSET Devices]
    BY DEF Init
<1> QED
    BY <1>1, <1>2, <1>3 DEF OweInv, Users

\* Queues and addresses in which all of what was to come, offered and owed is
\* still so, but for what is now told.
Carries(evs, known) ==
    /\ \A e \in Users : \A addr :
          Comes(events[e], known_peers[e], addr) => Comes(evs[e], known[e], addr)
    /\ \A e \in Users : \A addr :
          addr \in known_peers[e] \/ Offered(events[e], addr)
          => addr \in known[e] \/ Offered(evs[e], addr)
    /\ \A e \in Users : Silent(evs[e])
    /\ \A d \in Users \ Terminal : \A addr :
          Owes(events[d], known_peers[d], addr)
          => \/ Owes(evs[d], known[d], addr)
             \/ \A e \in subs[d] : addr \in known[e] \/ Offered(evs[e], addr)

\* A step that carries all that, and owes what newly counts as owed.
LEMMA OweStep ==
    ASSUME OweInv, Carries(events', known_peers'),
           named' \in [Devices -> SUBSET Addresses], subs' \in [Devices -> SUBSET Devices],
           \A d \in Users :
               /\ subs'[d] \subseteq Users \ {d}
               /\ cmds'[d] \subseteq known_peers'[d]
               /\ named'[d] \subseteq known_addrs'[d]
               /\ \A addr \in known_addrs'[d] \ known_addrs[d] :
                      Comes(events'[d], known_peers'[d], addr),
           \A d \in Users \ Terminal : \A addr \in named'[d], e \in subs'[d] :
               \/ addr \in named[d] /\ e \in subs[d]
               \/ Owes(events'[d], known_peers'[d], addr)
    PROVE  OweInv'
<1>1. \A d \in Users : \A addr \in known_addrs'[d] : Comes(events'[d], known_peers'[d], addr)
    BY DEF OweInv, Carries
<1>2. ASSUME NEW d \in Users \ Terminal, NEW addr \in named'[d], NEW e \in subs'[d]
      PROVE  Told(d, e, addr)'
    <2>1. CASE Owes(events'[d], known_peers'[d], addr)
        BY <2>1 DEF Told
    <2>2. CASE addr \in named[d] /\ e \in subs[d]
        <3>1. Told(d, e, addr) /\ e \in Users
            BY <2>2 DEF OweInv
        <3>2. CASE addr \in known_peers[e] \/ Offered(events[e], addr)
            BY <3>1, <3>2 DEF Carries, Told
        <3>3. CASE Owes(events[d], known_peers[d], addr)
            BY <2>2, <3>3 DEF Carries, Told
        <3> QED
            BY <3>1, <3>2, <3>3 DEF Told
    <2> QED
        BY <2>1, <2>2
<1>3. \A d \in Users : Silent(events'[d])
    BY DEF Carries
<1> QED
    BY <1>1, <1>2, <1>3 DEF OweInv

\* Nothing but the queues and the addresses of the front ends changes.
LEMMA OweFrontEnd ==
    ASSUME OweInv, Carries(events', known_peers'), UNCHANGED node_vars,
           \A d \in Users : cmds'[d] \subseteq known_peers'[d]
    PROVE  OweInv'
<1>1. UNCHANGED <<named, subs, known_addrs>>
    BY DEF node_vars
<1>2. /\ named' \in [Devices -> SUBSET Addresses] /\ subs' \in [Devices -> SUBSET Devices]
      /\ \A d \in Users :
             /\ subs'[d] \subseteq Users \ {d}
             /\ cmds'[d] \subseteq known_peers'[d]
             /\ named'[d] \subseteq known_addrs'[d]
             /\ known_addrs'[d] \ known_addrs[d] = {}
    BY <1>1 DEF OweInv
<1>3. \A d \in Users : \A addr \in known_addrs'[d] \ known_addrs[d] :
          Comes(events'[d], known_peers'[d], addr)
    BY <1>2
<1> QED
    BY <1>1, <1>2, <1>3, OweStep

LEMMA QueuesCarry ==
    ASSUME TypeInv, OweInv, NEW d \in Devices, NEW evs \in Seq(Events), Silent(evs),
           Queues(d, evs), known_peers' = known_peers
    PROVE  Carries(events', known_peers')
<1>1. \A e \in Users : e \in Devices /\ events[e] \in Seq(Events)
    BY DEF TypeInv, Users
<1>2. \A e \in Users : events'[e] = events[e] \/ events'[e] = events[e] \o evs
    BY <1>1, QueuesType
<1>3. ASSUME NEW e \in Users
      PROVE  /\ \A addr : Comes(events[e], known_peers[e], addr)
                          => Comes(events'[e], known_peers[e], addr)
             /\ \A addr : Offered(events[e], addr) => Offered(events'[e], addr)
             /\ \A addr : Owes(events[e], known_peers[e], addr)
                          => Owes(events'[e], known_peers[e], addr)
             /\ Silent(events'[e])
    <2>1. Silent(events[e])
        BY DEF OweInv
    <2>2. CASE events'[e] = events[e]
        BY <2>1, <2>2
    <2>3. CASE events'[e] = events[e] \o evs
        BY <1>1, <2>1, <2>3, ConcatKeeps
    <2> QED
        BY <1>2, <2>2, <2>3
<1>4. known_peers' = known_peers
    OBVIOUS
<1> QED
    BY <1>3, <1>4 DEF Carries

\* The front end takes an event that makes it send nothing.
LEMMA PoppedCarries ==
    ASSUME TypeInv, OweInv, NEW d \in Users, events[d] # <<>>,
           NEW known, NEW addrs,
           known = [known_peers EXCEPT ![d] = @ \cup addrs],
           Head(events[d]).addrs \subseteq known_peers[d] \cup addrs,
           Head(events[d]).t \notin Triggers \/ d \in Terminal
    PROVE  Carries(Popped(d), known)
<1>1. /\ d \in Devices /\ events[d] \in Seq(Events) /\ Silent(events[d])
      /\ known[d] = known_peers[d] \cup addrs
      /\ Popped(d)[d] = Tail(events[d])
    BY PoppedType DEF TypeInv, Users, OweInv
<1>2. \A e \in Users : e # d => Popped(d)[e] = events[e] /\ known[e] = known_peers[e]
    BY <1>1, PoppedType DEF TypeInv, Users
<1>3. /\ known_peers[d] \subseteq known[d] /\ Head(events[d]).addrs \subseteq known[d]
    BY <1>1
<1> DEFINE q == events[d]
           here == known_peers[d]
           later == known[d]
<1>4. /\ \A addr : Comes(q, here, addr) => Comes(Tail(q), later, addr)
      /\ \A addr : Offered(q, addr) => addr \in later \/ Offered(Tail(q), addr)
      /\ \A addr : Owes(q, here, addr) => Owes(Tail(q), later, addr) \/ d \in Terminal
      /\ Silent(Tail(q))
    <2>1. q \in Seq(Events) /\ q # <<>> /\ Silent(q)
        BY <1>1
    <2>2. here \subseteq later /\ Head(q).addrs \subseteq later
        BY <1>3
    <2>3. Head(q).t \notin Triggers \/ d \in Terminal
        OBVIOUS
    <2> HIDE DEF q, here, later
    <2> QED
        BY <2>1, <2>2, <2>3, TailKeeps
<1>5. \A e \in Users : Silent(Popped(d)[e])
    BY <1>1, <1>2, <1>4 DEF OweInv
<1> QED
    BY <1>1, <1>2, <1>3, <1>4, <1>5 DEF Carries

\* An intro takes nothing out of the queues.
LEMMA IntroKeeps ==
    ASSUME TypeInv, NEW d \in Devices, NEW evs \in [Devices -> Seq(Events)],
           NEW e \in Devices, NEW known
    PROVE  /\ \A addr : Comes(evs[e], known, addr) => Comes(Intro(evs, d)[e], known, addr)
           /\ \A addr : Offered(evs[e], addr) => Offered(Intro(evs, d)[e], addr)
           /\ \A addr : Owes(evs[e], known, addr) => Owes(Intro(evs, d)[e], known, addr)
           /\ Silent(evs[e]) => Silent(Intro(evs, d)[e])
<1> DEFINE q == evs[e]
           p == Intro(evs, d)[e]
           ev == Event("peer_exchange", News(d, e))
<1>1. CASE p = q
    BY <1>1
<1>2. CASE News(d, e) \in SUBSET known_peers[d] /\ p = Append(q, ev)
    <2>1. ev \in Events /\ ev.t = "peer_exchange"
        BY <1>2, EventType DEF Kinds, TypeInv
    <2>2. q \in Seq(Events) /\ p = Append(q, ev)
        BY <1>2
    <2> HIDE DEF q, p, ev
    <2>3. <<ev>> \in Seq(Events) /\ p = q \o <<ev>>
        BY <2>1, <2>2
    <2>4. Silent(<<ev>>)
        BY <2>1 DEF Silent, Triggers
    <2>5. /\ \A addr : Comes(q, known, addr) => Comes(p, known, addr)
          /\ \A addr : Offered(q, addr) => Offered(p, addr)
          /\ \A addr : Owes(q, known, addr) => Owes(p, known, addr)
          /\ Silent(q) => Silent(p)
        BY <2>2, <2>3, <2>4, ConcatKeeps
    <2> QED
        BY <2>5 DEF q, p
<1> QED
    BY <1>1, <1>2, IntroType

\* After an intro everyone whom d heard subscribe knows each address of d's or
\* has it queued.
LEMMA IntroTells ==
    ASSUME TypeInv, NEW d \in Devices, NEW evs \in [Devices -> Seq(Events)],
           NEW x \in Users \ {d}, x \in subs[d], evs[x] = events[x],
           NEW addr \in known_peers[d]
    PROVE  addr \in known_peers[x] \/ Offered(Intro(evs, d)[x], addr)
<1> DEFINE news == News(d, x)
           ev == Event("peer_exchange", news)
           q == evs[x]
<1>1. x \in Devices /\ subs[d] # {} /\ q \in Seq(Events)
    BY DEF Users
<1>2. Intro(evs, d)[x] = IF news = {} THEN q ELSE Append(q, ev)
    BY <1>1 DEF Intro, News
<1>3. CASE addr \in news
    <2>1. news \in SUBSET Addresses
        BY <1>1 DEF News, TypeInv
    <2>2. ev \in Events /\ ev.t = "peer_exchange" /\ ev.addrs = news
        BY <2>1, EventType DEF Kinds
    <2>3. Intro(evs, d)[x] = Append(q, ev)
        BY <1>2, <1>3
    <2> HIDE DEF ev, q, news
    <2>4. Len(q) + 1 \in 1..Len(Append(q, ev)) /\ Append(q, ev)[Len(q) + 1] = ev
        BY <1>1, <2>2
    <2> QED
        BY <1>3, <2>2, <2>3, <2>4 DEF Offered
<1>4. CASE addr \notin news
    <2>1. addr \in known_peers[x] \/ addr \in Waiting(x)
        BY <1>4 DEF News
    <2>2. addr \in known_peers[x] \/ Offered(q, addr)
        BY <1>1, <2>1, WaitingOffered
    <2>3. addr \in known_peers[x] \/ Offered(Intro(evs, d)[x], addr)
        BY <1>1, <2>2, IntroKeeps
    <2> QED
        BY <2>3
<1> QED
    BY <1>3, <1>4

\* The front end takes an event that triggers an intro, or is reminded of one.
LEMMA IntroCarries ==
    ASSUME TypeInv, OweInv, NEW d \in Users, NEW evs,
           evs = events \/ (events[d] # <<>> /\ evs = Popped(d)
                            /\ Head(events[d]).t \in Triggers)
    PROVE  Carries(Intro(evs, d), known_peers)
<1>1. d \in Devices /\ evs \in [Devices -> Seq(Events)]
    BY PoppedType DEF TypeInv, Users
<1>2. \A e \in Users : e # d => evs[e] = events[e]
    BY <1>1, PoppedType DEF Users
<1> DEFINE q == events[d]
           r == evs[d]
           here == known_peers[d]
<1>3. /\ \A addr : Comes(q, here, addr) => Comes(r, here, addr)
      /\ \A addr : Offered(q, addr) => addr \in here \/ Offered(r, addr)
      /\ \A addr : Owes(q, here, addr) => Owes(r, here, addr) \/ addr \in here
      /\ Silent(r)
    <2>1. q \in Seq(Events) /\ Silent(q)
        BY <1>1 DEF TypeInv, OweInv
    <2>2. CASE evs = events
        BY <2>1, <2>2
    <2>3. CASE q # <<>> /\ evs = Popped(d) /\ Head(q).t \in Triggers
        <3>1. r = Tail(q)
            BY <1>1, <2>3, PoppedType
        <3> HIDE DEF q, here, r
        <3>2. 1 \in 1..Len(q) /\ Head(q) = q[1]
            BY <2>1, <2>3
        <3>3. Head(q).addrs \subseteq here
            BY <2>1, <2>3, <3>2 DEF Silent
        <3> QED
            BY <2>1, <2>3, <3>1, <3>3, TailKeeps
    <2> QED
        BY <2>2, <2>3
<1> HIDE DEF q, r, here
<1>4. ASSUME NEW e \in Users
      PROVE  /\ \A addr : Comes(events[e], known_peers[e], addr)
                          => Comes(evs[e], known_peers[e], addr)
             /\ \A addr : Offered(events[e], addr)
                          => addr \in known_peers[e] \/ Offered(evs[e], addr)
             /\ \A addr : Owes(events[e], known_peers[e], addr)
                          => \/ Owes(evs[e], known_peers[e], addr)
                             \/ e = d /\ addr \in known_peers[d]
             /\ Silent(evs[e])
    <2>1. CASE e = d
        BY <1>3, <2>1 DEF q, r, here
    <2>2. CASE e # d
        BY <1>2, <2>2 DEF OweInv
    <2> QED
        BY <2>1, <2>2
<1>5. ASSUME NEW e \in Users
      PROVE  /\ \A addr : Comes(evs[e], known_peers[e], addr)
                          => Comes(Intro(evs, d)[e], known_peers[e], addr)
             /\ \A addr : Offered(evs[e], addr) => Offered(Intro(evs, d)[e], addr)
             /\ \A addr : Owes(evs[e], known_peers[e], addr)
                          => Owes(Intro(evs, d)[e], known_peers[e], addr)
             /\ Silent(evs[e]) => Silent(Intro(evs, d)[e])
    <2>1. e \in Devices
        BY DEF Users
    <2> QED
        BY <1>1, <2>1, IntroKeeps
<1>6. ASSUME NEW addr \in known_peers[d], NEW e \in subs[d]
      PROVE  addr \in known_peers[e] \/ Offered(Intro(evs, d)[e], addr)
    <2>1. e \in Users \ {d} /\ evs[e] = events[e]
        BY <1>2 DEF OweInv
    <2> QED
        BY <1>1, <2>1, IntroTells
<1> QED
    BY <1>4, <1>5, <1>6 DEF Carries

\* A peer that now counts as named, or whose address is now known, is told to
\* the front end before the event that triggers the intro.
LEMMA OweLearns ==
    ASSUME TypeInv, OweInv, NEW d \in Users, NEW e \in Devices,
           NEW addrs \in SUBSET Addresses, Learns(d, e, addrs)
    PROVE  OweInv'
<1> DEFINE new == Kept(d, e, addrs)
           isNew == e \notin met[d]
           about == Event("peer_address", new)
           peer == Event("peer_discovered", {})
           evs == PeerEvents(new, isNew)
           q == events[d]
           here == known_peers[d]
<1>1. d \in Devices /\ new \in SUBSET Addresses /\ isNew \in BOOLEAN /\ q \in Seq(Events)
    BY LearnsSteps DEF Users, TypeInv
<1>2. /\ about \in Events /\ about.t = "peer_address" /\ about.addrs = new
      /\ peer \in Events /\ peer.t = "peer_discovered" /\ peer.addrs = {}
    BY <1>1, EventType DEF Kinds
<1>3. evs = (IF new = {} THEN <<>> ELSE <<about>>) \o (IF isNew THEN <<peer>> ELSE <<>>)
    BY DEF PeerEvents
<1>4. /\ known_addrs' = [known_addrs EXCEPT ![d] = @ \cup new]
      /\ named' = [named EXCEPT ![d] =
             @ \cup {addr \in known_addrs'[d] : isNew /\ Owner(addr) = e}]
      /\ Queues(d, evs)
      /\ UNCHANGED <<subs, cmds, known_peers>>
    BY <1>1, LearnsSteps
<1> HIDE DEF new, isNew, about, peer, evs, q, here
<1>5. /\ evs \in Seq(Events)
      /\ \A i \in 1..Len(evs) : evs[i] = about \/ evs[i] = peer
      /\ new # {} => 1 \in 1..Len(evs) /\ evs[1] = about
    BY <1>2, <1>3
<1>6. ASSUME isNew
      PROVE  /\ Len(evs) \in 1..Len(evs) /\ evs[Len(evs)] = peer
             /\ new # {} => 1 \in 1..(Len(evs) - 1)
    <2>1. CASE new = {}
        BY <1>2, <1>3, <1>6, <2>1
    <2>2. CASE new # {}
        BY <1>2, <1>3, <1>6, <2>2
    <2> QED
        BY <2>1, <2>2
<1>7. Silent(evs)
    BY <1>2, <1>5 DEF Silent, Triggers
<1>8. Carries(events', known_peers')
    BY <1>1, <1>4, <1>5, <1>7, QueuesCarry
<1>9. /\ events'[d] = q \o evs /\ known_peers'[d] = here
      /\ known_addrs'[d] = known_addrs[d] \cup new
      /\ \A x \in Devices : x # d => known_addrs'[x] = known_addrs[x] /\ named'[x] = named[x]
    BY <1>1, <1>4, <1>5, QueuesType DEF q, here, TypeInv, OweInv
<1>10. /\ named' \in [Devices -> SUBSET Addresses]
       /\ \A addr \in named'[d] : addr \in named[d] \/ (isNew /\ addr \in known_addrs'[d])
    BY <1>1, <1>4, <1>9 DEF OweInv, TypeInv
<1>11. ASSUME NEW addr \in new
       PROVE  Comes(q \o evs, here, addr)
    BY <1>1, <1>2, <1>5, ConcatComes
<1>12. ASSUME isNew, NEW addr \in known_addrs'[d]
       PROVE  Owes(q \o evs, here, addr)
    <2> DEFINE n == Len(evs)
    <2>1. n \in 1..Len(evs) /\ evs[n].t \in Triggers
        BY <1>2, <1>6, <1>12 DEF Triggers
    <2>2. CASE addr \in known_addrs[d]
        <3>1. Comes(q, here, addr)
            BY <2>2 DEF OweInv, q, here
        <3> HIDE DEF n
        <3> QED
            BY <1>1, <1>5, <2>1, <3>1, ConcatOwes
    <2>3. CASE addr \in new
        <3>1. \E j \in 1..(n - 1) : addr \in evs[j].addrs
            BY <1>2, <1>5, <1>6, <1>12, <2>3
        <3> HIDE DEF n
        <3> QED
            BY <1>1, <1>5, <2>1, <3>1, ConcatOwes
    <2> QED
        BY <1>9, <1>12, <2>2, <2>3
<1>13. ASSUME NEW x \in Users
       PROVE  /\ subs'[x] \subseteq Users \ {x} /\ cmds'[x] \subseteq known_peers'[x]
              /\ named'[x] \subseteq known_addrs'[x]
              /\ \A addr \in known_addrs'[x] \ known_addrs[x] :
                     Comes(events'[x], known_peers'[x], addr)
    <2>1. x \in Devices
        BY DEF Users
    <2>2. named'[x] \subseteq known_addrs'[x]
        <3>1. named[x] \subseteq known_addrs[x]
            BY DEF OweInv
        <3> QED
            BY <1>9, <1>10, <2>1, <3>1
    <2>3. \A addr \in known_addrs'[x] \ known_addrs[x] :
              Comes(events'[x], known_peers'[x], addr)
        BY <1>9, <1>11, <2>1
    <2> QED
        BY <1>4, <2>2, <2>3 DEF OweInv
<1>14. ASSUME NEW x \in Users \ Terminal, NEW addr \in named'[x], NEW z \in subs'[x]
       PROVE  \/ addr \in named[x] /\ z \in subs[x]
              \/ Owes(events'[x], known_peers'[x], addr)
    <2>1. x \in Devices /\ z \in subs[x]
        BY <1>4 DEF Users
    <2> QED
        BY <1>9, <1>10, <1>12, <2>1
<1>15. subs' \in [Devices -> SUBSET Devices]
    BY <1>4 DEF OweInv
<1> QED
    BY <1>8, <1>10, <1>13, <1>14, <1>15, OweStep

LEMMA OweSubscribed ==
    ASSUME TypeInv, OweInv, NEW d \in Users, NEW e \in Users, PeerSubscribed(d, e)
    PROVE  OweInv'
<1> DEFINE ev == Event("subscribed", {})
           evs == <<ev>>
           q == events[d]
           here == known_peers[d]
<1>1. /\ d \in Devices /\ e \in Devices /\ q \in Seq(Events)
      /\ ev \in Events /\ ev.t = "subscribed" /\ ev.addrs = {}
    BY EventType DEF Kinds, Users, TypeInv
<1>2. /\ d # e /\ Queues(d, evs) /\ subs' = [subs EXCEPT ![d] = @ \cup {e}]
      /\ UNCHANGED <<known_addrs, named, cmds, known_peers>>
    BY DEF PeerSubscribed
<1> HIDE DEF ev, q, here
<1>3. evs \in Seq(Events) /\ Len(evs) = 1 /\ 1 \in 1..Len(evs) /\ evs[1] = ev
    BY <1>1
<1> HIDE DEF evs
<1>4. Silent(evs)
    BY <1>1, <1>3 DEF Silent
<1>5. Carries(events', known_peers')
    BY <1>1, <1>2, <1>3, <1>4, QueuesCarry
<1>6. /\ events'[d] = q \o evs /\ known_peers'[d] = here
      /\ subs'[d] = subs[d] \cup {e}
      /\ \A x \in Devices : x # d => subs'[x] = subs[x]
      /\ subs' \in [Devices -> SUBSET Devices]
    BY <1>1, <1>2, <1>3, QueuesType DEF q, here, OweInv
<1>7. ASSUME NEW addr \in named[d]
      PROVE  Owes(q \o evs, here, addr)
    <2>1. Comes(q, here, addr)
        BY DEF OweInv, q, here
    <2>2. evs[1].t \in Triggers
        BY <1>1, <1>3 DEF Triggers
    <2> QED
        BY <1>1, <1>3, <2>1, <2>2, ConcatOwes
<1>8. ASSUME NEW x \in Users
      PROVE  /\ subs'[x] \subseteq Users \ {x} /\ cmds'[x] \subseteq known_peers'[x]
             /\ named'[x] \subseteq known_addrs'[x]
             /\ \A addr \in known_addrs'[x] \ known_addrs[x] :
                    Comes(events'[x], known_peers'[x], addr)
    <2>1. x \in Devices
        BY DEF Users
    <2> QED
        BY <1>2, <1>6, <2>1 DEF OweInv
<1>9. ASSUME NEW x \in Users \ Terminal, NEW addr \in named'[x], NEW z \in subs'[x]
      PROVE  \/ addr \in named[x] /\ z \in subs[x]
             \/ Owes(events'[x], known_peers'[x], addr)
    <2>1. x \in Devices /\ addr \in named[x]
        BY <1>2 DEF Users
    <2> QED
        BY <1>6, <1>7, <2>1
<1>10. named' \in [Devices -> SUBSET Addresses]
    BY <1>2 DEF OweInv
<1> QED
    BY <1>5, <1>6, <1>8, <1>9, <1>10, OweStep

\* A step in which the node only listens and dials.
LEMMA OweQueues ==
    ASSUME TypeInv, OweInv, NEW d \in Users, NEW evs \in Seq(Events), Silent(evs),
           Queues(d, evs), UNCHANGED <<named, subs, known_peers>>,
           \A x \in Users :
               /\ cmds'[x] \subseteq cmds[x]
               /\ known_addrs[x] \subseteq known_addrs'[x]
               /\ known_addrs'[x] \subseteq known_addrs[x] \cup known_peers[x]
    PROVE  OweInv'
<1>1. d \in Devices
    BY DEF Users
<1>2. Carries(events', known_peers')
    BY <1>1, QueuesCarry
<1>3. ASSUME NEW x \in Users
      PROVE  /\ subs'[x] \subseteq Users \ {x} /\ cmds'[x] \subseteq known_peers'[x]
             /\ named'[x] \subseteq known_addrs'[x]
             /\ \A addr \in known_addrs'[x] \ known_addrs[x] :
                    Comes(events'[x], known_peers'[x], addr)
    BY DEF OweInv, Comes
<1>4. named' \in [Devices -> SUBSET Addresses] /\ subs' \in [Devices -> SUBSET Devices]
    BY DEF OweInv
<1>5. \A x \in Users \ Terminal : \A addr \in named'[x], z \in subs'[x] :
          addr \in named[x] /\ z \in subs[x]
    OBVIOUS
<1> QED
    BY <1>2, <1>3, <1>4, <1>5, OweStep

LEMMA OweNext == TypeInv /\ OweInv /\ [Next]_vars => OweInv'
<1> SUFFICES ASSUME TypeInv, OweInv, [Next]_vars PROVE OweInv'
    OBVIOUS
<1>1. ASSUME NEW d \in Users, NEW addr \in {<<d>>} \cup Circuits(d), NewListenAddr(d, addr)
      PROVE  OweInv'
    <2> DEFINE ev == Event("listening", {WithPeer(addr, d)})
               evs == <<ev>>
    <2>1. ev \in Events /\ ev.t = "listening"
        BY ReportedType DEF Users
    <2>2. Queues(d, evs) /\ UNCHANGED <<named, subs, known_peers, cmds, known_addrs>>
        BY <1>1 DEF NewListenAddr
    <2> HIDE DEF ev
    <2>3. evs \in Seq(Events) /\ Silent(evs)
        BY <2>1 DEF Silent, Triggers
    <2> HIDE DEF evs
    <2> QED
        BY <2>2, <2>3, OweQueues
<1>2. ASSUME NEW d \in Users, NEW e \in Devices, PeerIdentified(d, e) PROVE OweInv'
    <2>1. PICK addrs \in SUBSET Listens(e) : Learns(d, e, addrs)
        BY <1>2, IdentifiedSome
    <2>2. addrs \in SUBSET Addresses
        BY ListensType
    <2> QED
        BY <2>1, <2>2, OweLearns
<1>3. ASSUME NEW d \in Users, NEW e \in Devices, MdnsDiscovered(d, e) PROVE OweInv'
    <2>1. PICK addr \in {<<e>>, WithPeer(<<e>>, e)} : Learns(d, e, {addr})
        BY <1>3, DiscoveredSome
    <2>2. addr \in Addresses
        BY <2>1, OwnAddress, WithPeerAddress
    <2>3. {addr} \in SUBSET Addresses
        BY <2>2
    <2> QED
        BY <2>1, <2>3, OweLearns
<1>4. ASSUME NEW d \in Users, NEW e \in Users, PeerSubscribed(d, e) PROVE OweInv'
    BY <1>4, OweSubscribed
<1>5. ASSUME NEW d \in Users, NEW addr \in cmds[d], Executes(d, addr) PROVE OweInv'
    <2> DEFINE adv == Advertised(d, addr)
               ev == Event("listening", adv)
               evs == IF adv = {} THEN <<>> ELSE <<ev>>
    <2>1. d \in Devices /\ addr \in Addresses /\ addr \in known_peers[d]
        BY DEF Users, TypeInv, OweInv
    <2>2. ev \in Events /\ ev.t = "listening"
        BY <2>1, AdvertisedType, EventType DEF Kinds
    <2>3. /\ Queues(d, evs) /\ UNCHANGED <<named, subs, known_peers>>
          /\ cmds' = [cmds EXCEPT ![d] = @ \ {addr}]
          /\ known_addrs' = [known_addrs EXCEPT ![d] = @ \cup {addr}]
        BY <1>5 DEF Executes, DialAddr
    <2> HIDE DEF ev, adv
    <2>4. evs \in Seq(Events) /\ Silent(evs)
        BY <2>2 DEF Silent, Triggers
    <2> HIDE DEF evs
    <2>5. ASSUME NEW x \in Users
          PROVE  /\ cmds'[x] \subseteq cmds[x]
                 /\ known_addrs[x] \subseteq known_addrs'[x]
                 /\ known_addrs'[x] \subseteq known_addrs[x] \cup known_peers[x]
        BY <2>1, <2>3 DEF Users, TypeInv
    <2> QED
        BY <2>3, <2>4, <2>5, OweQueues
<1>6. ASSUME NEW d \in Users, FrontEnd(d) PROVE OweInv'
    <2>1. d \in Devices /\ events[d] # <<>> /\ \A x \in Users : x \in Devices
        BY <1>6 DEF Users, FrontEnd, Handles, HandlesListening, HandlesPeerAddress,
                    HandlesPeerExchange, HandlesPeerDiscovered, HandlesSubscribed, Adds
    <2>2. known_peers = [known_peers EXCEPT ![d] = @ \cup {}]
        BY DEF TypeInv
    <2>3. CASE HandlesListening(d)
        <3> DEFINE told == Head(events[d]).addrs
        <3>1. /\ events' = Popped(d) /\ UNCHANGED <<node_vars, cmds>>
              /\ known_peers' = [known_peers EXCEPT ![d] = @ \cup told]
              /\ Head(events[d]).t \notin Triggers
            BY <2>3 DEF HandlesListening, Handles, Triggers
        <3>2. Carries(events', known_peers')
            BY <2>1, <3>1, PoppedCarries
        <3>3. \A x \in Users : cmds'[x] \subseteq known_peers'[x]
            BY <2>1, <3>1 DEF OweInv, TypeInv
        <3> QED
            BY <3>1, <3>2, <3>3, OweFrontEnd
    <2>4. ASSUME NEW t, t \notin Triggers, Adds(d, t) PROVE OweInv'
        <3> DEFINE new == Head(events[d]).addrs \ known_peers[d]
        <3>1. /\ events' = Popped(d) /\ UNCHANGED node_vars
              /\ known_peers' = [known_peers EXCEPT ![d] = @ \cup new]
              /\ cmds' = [cmds EXCEPT ![d] = @ \cup new]
              /\ Head(events[d]).t \notin Triggers
              /\ Head(events[d]).addrs \subseteq known_peers[d] \cup new
            BY <2>4 DEF Adds, Handles
        <3> HIDE DEF new
        <3>2. Carries(events', known_peers')
            BY <2>1, <3>1, PoppedCarries
        <3>3. \A x \in Users : cmds'[x] \subseteq known_peers'[x]
            BY <2>1, <3>1 DEF OweInv, TypeInv
        <3> QED
            BY <3>1, <3>2, <3>3, OweFrontEnd
    <2>5. CASE HandlesPeerDiscovered(d) \/ HandlesSubscribed(d)
        <3>1. /\ \/ events' = Intro(Popped(d), d)
                 \/ d \in Terminal /\ events' = Popped(d)
              /\ Head(events[d]).t \in Triggers
              /\ UNCHANGED <<node_vars, cmds, known_peers>>
            BY <2>5 DEF HandlesPeerDiscovered, HandlesSubscribed, Handles, Triggers
        <3>2. CASE events' = Intro(Popped(d), d)
            BY <2>1, <3>1, <3>2, IntroCarries, OweFrontEnd DEF OweInv
        <3>3. CASE d \in Terminal /\ events' = Popped(d)
            <4>1. Head(events[d]).addrs = {}
                <5>1. events[d] \in Seq(Events) /\ Silent(events[d])
                    BY <2>1 DEF TypeInv, OweInv
                <5>2. 1 \in 1..Len(events[d]) /\ Head(events[d]) = events[d][1]
                    BY <2>1, <5>1
                <5> QED
                    BY <3>1, <5>1, <5>2 DEF Silent
            <4>2. Carries(Popped(d), known_peers)
                BY <2>1, <2>2, <3>3, <4>1, PoppedCarries
            <4> QED
                BY <3>1, <3>3, <4>2, OweFrontEnd DEF OweInv
        <3> QED
            BY <3>1, <3>2, <3>3
    <2> QED
        BY <1>6, <2>3, <2>4, <2>5
        DEF FrontEnd, HandlesPeerAddress, HandlesPeerExchange, Triggers
<1>7. ASSUME NEW d \in Users, IntroTimer(d) PROVE OweInv'
    <2>1. Carries(events', known_peers') /\ UNCHANGED <<node_vars, cmds, known_peers>>
        BY <1>7, IntroCarries DEF IntroTimer
    <2> QED
        BY <2>1, OweFrontEnd DEF OweInv
<1>8. CASE UNCHANGED vars
    BY <1>8 DEF vars, node_vars, OweInv, Told
<1> QED
    BY <1>1, <1>2, <1>3, <1>4, <1>5, <1>6, <1>7, <1>8 DEF Next

LEMMA OweKept == TypeInv /\ OweInv => IntroductionOwed
<1> SUFFICES ASSUME TypeInv, OweInv,
                    NEW d \in Users \ Terminal, NEW addr \in named[d], NEW e \in subs[d]
             PROVE  \/ addr \in known_peers[e] \cup Waiting(e)
                    \/ \E i \in 1..Len(events[d]) :
                           /\ events[d][i].t \in {"peer_discovered", "subscribed"}
                           /\ addr \in KnownBy(d, i)
    BY DEF IntroductionOwed
<1>1. d \in Users /\ e \in Devices /\ Told(d, e, addr)
    BY DEF OweInv, Users
<1>2. CASE addr \in known_peers[e] \/ Offered(events[e], addr)
    BY <1>1, <1>2, WaitingOffered
<1>3. CASE Owes(events[d], known_peers[d], addr)
    <2>1. PICK i \in 1..Len(events[d]) :
              /\ events[d][i].t \in Triggers
              /\ \/ addr \in known_peers[d]
                 \/ \E j \in 1..(i - 1) : addr \in events[d][j].addrs
        BY <1>3 DEF Owes
    <2>2. addr \in KnownBy(d, i)
        BY <2>1 DEF KnownBy
    <2> QED
        BY <2>1, <2>2 DEF Triggers
<1> QED
    BY <1>1, <1>2, <1>3 DEF Told

\* Whatever order the node reports a peer, its addresses and a subscription in,
\* a command-line device has told the one of the other, or has an event left
\* that makes it do so (p2p.rs 331-342, 301; cli.rs 223, 250, 283).
THEOREM IntroductionsKept == Spec => []IntroductionOwed
BY TypeInit, TypeNext, OweInit, OweNext, OweKept, PTL DEF Spec
=============================================================================
