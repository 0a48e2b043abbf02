-------------------------- MODULE MeshGossipProofs --------------------------
(***************************************************************************)
(* What holds of the gossip layer for every number of nodes, rooms,        *)
(* envelopes, restarts and foreign messages: nothing is read twice, read   *)
(* by its own sender or published twice by one process, every published    *)
(* envelope has a provenance, and the layer implements Broadcast.          *)
(***************************************************************************)
EXTENDS MeshGossip, TLAPS

-----------------------------------------------------------------------------
(* Queues *)

Values(q) == {q[i] : i \in DOMAIN q}

Distinct(q) == \A i, j \in DOMAIN q : q[i] = q[j] => i = j

LEMMA AppendValues ==
    ASSUME NEW S, NEW q \in Seq(S), NEW e \in S
    PROVE  Values(Append(q, e)) = Values(q) \cup {e}
  <1>1. /\ DOMAIN q = 1..Len(q)
        /\ DOMAIN Append(q, e) = 1..(Len(q) + 1)
        /\ \A i \in 1..Len(q) : Append(q, e)[i] = q[i]
        /\ Append(q, e)[Len(q) + 1] = e
        /\ Len(q) \in Nat
    OBVIOUS
  <1>2. 1..(Len(q) + 1) = 1..Len(q) \cup {Len(q) + 1}
    BY <1>1
  <1> QED
    BY <1>1, <1>2, Zenon DEF Values

LEMMA AppendDistinct ==
    ASSUME NEW S, NEW q \in Seq(S), NEW e \in S, Distinct(q), e \notin Values(q)
    PROVE  Distinct(Append(q, e))
  <1>1. /\ DOMAIN q = 1..Len(q)
        /\ DOMAIN Append(q, e) = 1..(Len(q) + 1)
        /\ \A i \in 1..Len(q) : Append(q, e)[i] = q[i]
        /\ Append(q, e)[Len(q) + 1] = e
        /\ Len(q) \in Nat
    OBVIOUS
  <1>2. \A i \in 1..Len(q) : q[i] # e
    BY <1>1 DEF Values
  <1>3. \A i \in 1..(Len(q) + 1) : i \in 1..Len(q) \/ i = Len(q) + 1
    BY <1>1
  <1> QED
    BY <1>1, <1>2, <1>3 DEF Distinct

LEMMA EmptyQueue == Values(<<>>) = {} /\ Distinct(<<>>)
  BY DEF Values, Distinct

\* What the Message branch adds to the queue of the program.
LEMMA QueuedIs ==
    ASSUME NEW q, NEW data
    PROVE  Queued(q, data) \in {q, Append(q, data.id)}
  BY DEF Queued

-----------------------------------------------------------------------------
(* Messages *)

LEMMA PeerType ==
    ASSUME TypeOK, NEW n \in Nodes
    PROVE  /\ Peer(n) \in Nodes \X Nat
           /\ Peer(n) = <<n, run[n]>>
           /\ Peer(n) # Foreigner
           /\ run[n] \in Nat
  BY ConstantsAssumption DEF TypeOK, Peer

LEMMA EnvelopeType ==
    ASSUME NEW id \in Ids, NEW r \in Rooms
    PROVE  Envelope(id, r, Ttl) \in Envelopes(AllIds)
  BY ConstantsAssumption DEF Envelope, Envelopes, AllIds, U8

LEMMA ForeignType ==
    ASSUME NEW data \in ForeignData
    PROVE  /\ data \in Envelopes(AllIds) \cup Raws(AllIds)
           /\ data.id \in AllIds
  BY ConstantsAssumption DEF Envelopes, Raws, AllIds

LEMMA RebroadcastType ==
    ASSUME NEW n \in Nodes, NEW data \in Envelopes(AllIds), Peer(n) \in Peers
    PROVE  /\ Rebroadcast(n, data) \subseteq Messages
           /\ \A k \in Rebroadcast(n, data) :
                  k.src = Peer(n) /\ k.data.id = data.id /\ k.data.form = "envelope"
  <1> DEFINE next == [data EXCEPT !.ttl = @ - 1]
  <1>1. CASE data.ttl > 0
    <2>1. data.ttl - 1 \in U8
      BY <1>1 DEF Envelopes, U8
    <2>2. next \in Envelopes(AllIds) /\ next.id = data.id /\ next.form = "envelope"
      BY <2>1 DEF Envelopes
    <2>3. Rebroadcast(n, data) = {Message(Peer(n), data.room_id, next)}
      BY <1>1 DEF Rebroadcast
    <2>4. data.room_id \in Rooms
      BY DEF Envelopes
    <2> HIDE DEF next
    <2> QED
      BY <2>2, <2>3, <2>4 DEF Message, Messages
  <1>2. CASE ~(data.ttl > 0)
    BY <1>2 DEF Rebroadcast
  <1> QED
    BY <1>1, <1>2

LEMMA DataType ==
    ASSUME TypeOK, NEW m \in gossip
    PROVE  /\ m \in Messages
           /\ m.data.id \in AllIds
           /\ m.data.form = "envelope" => m.data \in Envelopes(AllIds)
           /\ m.data.form \in {"envelope", "raw"}
  BY DEF TypeOK, Messages, Envelopes, Raws

-----------------------------------------------------------------------------
(* The type invariant *)

LEMMA TypeInit == Init => TypeOK
  BY ConstantsAssumption DEF Init, TypeOK, Peer, Peers

LEMMA TypeStep == TypeOK /\ [Next]_vars => TypeOK'
  <1> SUFFICES ASSUME TypeOK, [Next]_vars
               PROVE  TypeOK'
    OBVIOUS
  <1>1. ASSUME NEW n \in Nodes, NEW r \in Rooms, JoinRoom(n, r)
        PROVE  TypeOK'
    BY <1>1 DEF JoinRoom, TypeOK, Peer
  <1>2. ASSUME NEW n \in Nodes, NEW r \in Rooms, NEW id \in Ids, SendMessage(n, r, id)
        PROVE  TypeOK'
    <2>1. /\ id \in AllIds
          /\ Peer(n) \in Peers
      BY DEF AllIds, TypeOK
    <2>2. Message(Peer(n), r, Envelope(id, r, Ttl)) \in Messages
      BY <2>1, EnvelopeType DEF Message, Messages
    <2>3. gossip \subseteq gossip' /\ gossip' \subseteq Messages
      BY <1>2, <2>2 DEF SendMessage, TypeOK
    <2>4. (sent \subseteq [id : AllIds, src : Peers \cup {Foreigner}])'
      BY <1>2, <2>1 DEF SendMessage, TypeOK
    <2> QED
      BY <1>2, <2>1, <2>3, <2>4 DEF SendMessage, TypeOK, Peer
  <1>3. ASSUME NEW n \in Nodes, NEW m \in gossip, HearsNew(n, m)
        PROVE  TypeOK'
    <2>1. m.data \in Envelopes(AllIds) /\ m.data.id \in AllIds
      BY <1>3, DataType DEF HearsNew
    <2>2. Rebroadcast(n, m.data) \subseteq Messages
      BY <2>1, RebroadcastType DEF TypeOK
    <2>3. gossip \subseteq gossip' /\ gossip' \subseteq Messages
      BY <1>3, <2>2 DEF HearsNew, TypeOK
    <2>4. Queued(events[n], m.data) \in Seq(AllIds)
      <3>1. /\ events[n] \in Seq(AllIds)
            /\ Append(events[n], m.data.id) \in Seq(AllIds)
        BY <2>1 DEF TypeOK
      <3> QED
        BY <3>1, QueuedIs, Zenon
    <2>5. /\ heard' \in [Nodes -> SUBSET gossip']
          /\ run' = run /\ rooms' = rooms /\ sent' = sent
      BY <1>3, <2>3 DEF HearsNew, Hears, TypeOK
    <2> QED
      BY <1>3, <2>1, <2>3, <2>4, <2>5 DEF HearsNew, TypeOK, Peer
  <1>4. ASSUME NEW n \in Nodes, NEW m \in gossip, HearsOld(n, m)
        PROVE  TypeOK'
    BY <1>4 DEF HearsOld, Hears, TypeOK, Peer
  <1>5. ASSUME NEW n \in Nodes, NEW m \in gossip, HearsRaw(n, m)
        PROVE  TypeOK'
    <2>1. Append(events[n], m.data.id) \in Seq(AllIds)
      BY DataType DEF TypeOK
    <2> QED
      BY <1>5, <2>1 DEF HearsRaw, Hears, TypeOK, Peer
  <1>6. ASSUME NEW data \in ForeignData, NEW r \in Rooms, ForeignPublish(data, r)
        PROVE  TypeOK'
    <2>1. Message(Foreigner, r, data) \in Messages
      BY ForeignType DEF Message, Messages
    <2>2. gossip \subseteq gossip' /\ gossip' \subseteq Messages
      BY <1>6, <2>1 DEF ForeignPublish, TypeOK
    <2>3. (sent \subseteq [id : AllIds, src : Peers \cup {Foreigner}])'
      BY <1>6, ForeignType DEF ForeignPublish, TypeOK
    <2> QED
      BY <1>6, <2>2, <2>3 DEF ForeignPublish, TypeOK, Peer
  <1>7. ASSUME NEW n \in Nodes, Restart(n)
        PROVE  TypeOK'
    <2>1. run[n] + 1 \in 1..MaxRuns[n] /\ run[n] + 1 \in Nat
      <3>1. run[n] \in Nat /\ MaxRuns[n] \in Nat /\ run[n] < MaxRuns[n]
        BY <1>7, ConstantsAssumption DEF Restart, TypeOK
      <3> QED
        BY <3>1
    <2>2. <<n, run[n] + 1>> \in Peers
      BY <2>1 DEF Peers
    <2>3. \A k \in Nodes : Peer(k)' \in Peers
      BY <1>7, <2>2 DEF Restart, TypeOK, Peer
    <2> QED
      BY <1>7, <2>1, <2>3 DEF Restart, TypeOK
  <1>8. CASE UNCHANGED vars
    BY <1>8 DEF vars, TypeOK, Peer
  <1> QED
    BY <1>1, <1>2, <1>3, <1>4, <1>5, <1>6, <1>7, <1>8 DEF Next

\* The fields of the node and the messages have their types, the ttl, a u8
\* that the Message branch lowers, among them.
THEOREM TypeCorrect == Spec => []TypeOK
  <1> QED
    BY TypeInit, TypeStep, PTL DEF Spec

-----------------------------------------------------------------------------
(* The inductive invariant.  Its parts relate what was said (sent), what   *)
(* is under way (gossip) and what a process remembers (seen_mesh): that is *)
(* why a repeated envelope, a message for gossipsub, is none for the node. *)

\* An id was first sent by one process.
SentOnce == \A s, k \in sent : s.id = k.id => s = k

\* No message is from a process that has not started.
NotFuture ==
    \A n \in Nodes, k \in Nat, m \in gossip \cup sent :
        m.src = <<n, k>> => k <= run[n]

\* Every message under way repeats something sent, data that is no envelope
\* is foreign, and it is published once.
GossipSent ==
    \A m \in gossip : \E s \in sent :
        s.id = m.data.id /\ (m.data.form = "raw" => s.src = Foreigner)

RawOnce ==
    \A m, k \in gossip : m.data.form = "raw" /\ m.data.id = k.data.id => m = k

\* A process has marked what it sent, and what it published again, as seen.
MineSeen ==
    \A n \in Nodes :
        /\ \A s \in sent : s.src = Peer(n) => s.id \in seen_mesh[n]
        /\ \A m \in gossip : m.src = Peer(n) => m.data.id \in seen_mesh[n]

\* What is marked as seen was sent, as an envelope.
SeenSent ==
    \A n \in Nodes : \A id \in seen_mesh[n] :
        /\ \E s \in sent : s.id = id
        /\ \A m \in gossip : m.data.form = "raw" => m.data.id # id

\* What the program was given is marked as seen, or was no envelope.
GivenKnown ==
    \A n \in Nodes : \A id \in Values(events[n]) :
        \/ id \in seen_mesh[n]
        \/ \E m \in heard[n] : m.data.form = "raw" /\ m.data.id = id

SayInv == SentOnce /\ NotFuture /\ GossipSent /\ RawOnce
SeenInv == MineSeen /\ SeenSent

\* What is said and published.
LEMMA SayStep == TypeOK /\ SayInv /\ [Next]_vars => SayInv'
  <1> SUFFICES ASSUME TypeOK, SentOnce, NotFuture, GossipSent, RawOnce, [Next]_vars
               PROVE  (SentOnce /\ NotFuture /\ GossipSent /\ RawOnce)'
    BY DEF SayInv
  <1>1. ASSUME NEW n \in Nodes, NEW r \in Rooms, NEW id \in Ids, SendMessage(n, r, id)
        PROVE  (SentOnce /\ NotFuture /\ GossipSent /\ RawOnce)'
    <2> DEFINE new == Message(Peer(n), r, Envelope(id, r, Ttl))
               mine == [id |-> id, src |-> Peer(n)]
    <2>1. /\ new.src = Peer(n) /\ new.data.id = id /\ new.data.form = "envelope"
          /\ mine.src = Peer(n) /\ mine.id = id
      BY DEF Message, Envelope
    <2>2. /\ sent' = sent \cup {mine} /\ gossip' \in {gossip, gossip \cup {new}}
          /\ run' = run /\ \A s \in sent : s.id # id
      BY <1>1 DEF SendMessage
    <2>3. \A m \in gossip : m.data.id # id
      BY <2>2 DEF GossipSent
    <2>4. \A k \in Nodes, j \in Nat : Peer(n) = <<k, j>> => j <= run[k]
      BY PeerType
    <2> HIDE DEF new, mine
    <2>5. SentOnce'
      BY <2>1, <2>2 DEF SentOnce
    <2>6. NotFuture'
      BY <2>1, <2>2, <2>4 DEF NotFuture
    <2>7. GossipSent'
      BY <2>1, <2>2 DEF GossipSent
    <2>8. RawOnce'
      BY <2>1, <2>2, <2>3 DEF RawOnce
    <2> QED
      BY <2>5, <2>6, <2>7, <2>8
  <1>2. ASSUME NEW n \in Nodes, NEW m \in gossip, HearsNew(n, m)
        PROVE  (SentOnce /\ NotFuture /\ GossipSent /\ RawOnce)'
    <2>1. \A k \in Rebroadcast(n, m.data) :
              k.src = Peer(n) /\ k.data.id = m.data.id /\ k.data.form = "envelope"
      BY <1>2, DataType, RebroadcastType DEF HearsNew, TypeOK
    <2>2. /\ gossip' \in {gossip, gossip \cup Rebroadcast(n, m.data)}
          /\ sent' = sent /\ run' = run /\ m.data.form = "envelope"
      BY <1>2 DEF HearsNew, Hears
    <2>3. \A k \in Nodes, j \in Nat : Peer(n) = <<k, j>> => j <= run[k]
      BY PeerType
    <2>4. SentOnce'
      BY <2>2 DEF SentOnce
    <2>5. NotFuture'
      BY <2>1, <2>2, <2>3 DEF NotFuture
    <2>6. GossipSent'
      BY <2>1, <2>2 DEF GossipSent
    <2>7. RawOnce'
      <3>1. \A k \in gossip : k.data.form = "raw" => k.data.id # m.data.id
        BY <2>2 DEF RawOnce
      <3> QED
        BY <2>1, <2>2, <3>1 DEF RawOnce
    <2> QED
      BY <2>4, <2>5, <2>6, <2>7
  <1>3. ASSUME NEW data \in ForeignData, NEW r \in Rooms, ForeignPublish(data, r)
        PROVE  (SentOnce /\ NotFuture /\ GossipSent /\ RawOnce)'
    <2> DEFINE new == Message(Foreigner, r, data)
               theirs == [id |-> data.id, src |-> Foreigner]
    <2>1. /\ new.src = Foreigner /\ new.data = data
          /\ theirs.src = Foreigner /\ theirs.id = data.id
      BY DEF Message
    <2>2. /\ sent' = sent \cup {theirs} /\ gossip' = gossip \cup {new}
          /\ run' = run /\ \A s \in sent : s.id # data.id
      BY <1>3 DEF ForeignPublish
    <2>3. \A m \in gossip : m.data.id # data.id
      BY <2>2 DEF GossipSent
    <2>4. \A k \in Nodes, j \in Nat : Foreigner # <<k, j>>
      BY ConstantsAssumption
    <2> HIDE DEF new, theirs
    <2>5. SentOnce'
      BY <2>1, <2>2 DEF SentOnce
    <2>6. NotFuture'
      BY <2>1, <2>2, <2>4 DEF NotFuture
    <2>7. GossipSent'
      BY <2>1, <2>2 DEF GossipSent
    <2>8. RawOnce'
      BY <2>1, <2>2, <2>3 DEF RawOnce
    <2> QED
      BY <2>5, <2>6, <2>7, <2>8
  <1>4. ASSUME NEW n \in Nodes, Restart(n)
        PROVE  (SentOnce /\ NotFuture /\ GossipSent /\ RawOnce)'
    <2>1. /\ gossip' = gossip /\ sent' = sent
          /\ \A k \in Nodes : run[k] \in Nat /\ run'[k] \in Nat /\ run[k] <= run'[k]
      BY <1>4 DEF Restart, TypeOK
    <2>2. NotFuture'
      BY <2>1 DEF NotFuture
    <2> QED
      BY <2>1, <2>2 DEF SentOnce, GossipSent, RawOnce
  <1>5. CASE gossip' = gossip /\ sent' = sent /\ run' = run
    BY <1>5 DEF SentOnce, NotFuture, GossipSent, RawOnce
  <1>6. [Next]_vars =>
           \/ \E n \in Nodes, r \in Rooms, id \in Ids : SendMessage(n, r, id)
           \/ \E n \in Nodes, m \in gossip : HearsNew(n, m)
           \/ \E data \in ForeignData, r \in Rooms : ForeignPublish(data, r)
           \/ \E n \in Nodes : Restart(n)
           \/ gossip' = gossip /\ sent' = sent /\ run' = run
    BY DEF Next, vars, JoinRoom, HearsOld, HearsRaw, Hears
  <1> QED
    BY <1>1, <1>2, <1>3, <1>4, <1>5, <1>6

\* What a process remembers.
LEMMA SeenStep == TypeOK /\ SayInv /\ SeenInv /\ [Next]_vars => SeenInv'
  <1> SUFFICES ASSUME TypeOK, SentOnce, NotFuture, GossipSent, RawOnce,
                      MineSeen, SeenSent, [Next]_vars
               PROVE  (MineSeen /\ SeenSent)'
    BY DEF SayInv, SeenInv
  <1>1. ASSUME NEW n \in Nodes, NEW r \in Rooms, NEW id \in Ids, SendMessage(n, r, id)
        PROVE  (MineSeen /\ SeenSent)'
    <2> DEFINE new == Message(Peer(n), r, Envelope(id, r, Ttl))
               mine == [id |-> id, src |-> Peer(n)]
    <2>1. /\ new.src = Peer(n) /\ new.data.id = id /\ new.data.form = "envelope"
          /\ mine.src = Peer(n) /\ mine.id = id
      BY DEF Message, Envelope
    <2>2. /\ sent' = sent \cup {mine} /\ gossip' \in {gossip, gossip \cup {new}}
          /\ \A k \in Nodes : Peer(k)' = Peer(k) /\ (Peer(k) = Peer(n) => k = n)
          /\ \A s \in sent : s.id # id
      BY <1>1 DEF SendMessage, Peer
    <2>3. \A m \in gossip : m.data.id # id
      BY <2>2 DEF GossipSent
    <2>4. /\ seen_mesh'[n] = seen_mesh[n] \cup {id}
          /\ \A k \in Nodes \ {n} : seen_mesh'[k] = seen_mesh[k]
      BY <1>1 DEF SendMessage, TypeOK
    <2> HIDE DEF new, mine
    <2>5. MineSeen'
      BY <2>1, <2>2, <2>4 DEF MineSeen
    <2>6. SeenSent'
      BY <2>1, <2>2, <2>3, <2>4 DEF SeenSent
    <2> QED
      BY <2>5, <2>6
  <1>2. ASSUME NEW n \in Nodes, NEW m \in gossip, HearsNew(n, m)
        PROVE  (MineSeen /\ SeenSent)'
    <2>1. \A k \in Rebroadcast(n, m.data) :
              k.src = Peer(n) /\ k.data.id = m.data.id /\ k.data.form = "envelope"
      BY <1>2, DataType, RebroadcastType DEF HearsNew, TypeOK
    <2>2. /\ gossip' \in {gossip, gossip \cup Rebroadcast(n, m.data)}
          /\ sent' = sent /\ m.data.form = "envelope"
          /\ \A k \in Nodes : Peer(k)' = Peer(k) /\ (Peer(k) = Peer(n) => k = n)
      BY <1>2 DEF HearsNew, Hears, Peer
    <2>3. /\ seen_mesh'[n] = seen_mesh[n] \cup {m.data.id}
          /\ \A k \in Nodes \ {n} : seen_mesh'[k] = seen_mesh[k]
      BY <1>2 DEF HearsNew, TypeOK
    <2>4. /\ \E s \in sent : s.id = m.data.id
          /\ \A k \in gossip : k.data.form = "raw" => k.data.id # m.data.id
      BY <2>2 DEF GossipSent, RawOnce
    <2>5. MineSeen'
      BY <2>1, <2>2, <2>3 DEF MineSeen
    <2>6. SeenSent'
      BY <2>1, <2>2, <2>3, <2>4 DEF SeenSent
    <2> QED
      BY <2>5, <2>6
  <1>3. ASSUME NEW data \in ForeignData, NEW r \in Rooms, ForeignPublish(data, r)
        PROVE  (MineSeen /\ SeenSent)'
    <2> DEFINE new == Message(Foreigner, r, data)
               theirs == [id |-> data.id, src |-> Foreigner]
    <2>1. /\ new.src = Foreigner /\ new.data = data
          /\ theirs.src = Foreigner /\ theirs.id = data.id
      BY DEF Message
    <2>2. /\ sent' = sent \cup {theirs} /\ gossip' = gossip \cup {new}
          /\ seen_mesh' = seen_mesh /\ \A s \in sent : s.id # data.id
          /\ \A k \in Nodes : Peer(k)' = Peer(k)
      BY <1>3 DEF ForeignPublish, Peer
    <2>3. \A k \in Nodes : Peer(k) # Foreigner
      BY PeerType
    <2> HIDE DEF new, theirs
    <2>4. MineSeen'
      BY <2>1, <2>2, <2>3 DEF MineSeen
    <2>5. SeenSent'
      BY <2>1, <2>2 DEF SeenSent
    <2> QED
      BY <2>4, <2>5
  <1>4. ASSUME NEW n \in Nodes, Restart(n)
        PROVE  (MineSeen /\ SeenSent)'
    <2>1. /\ gossip' = gossip /\ sent' = sent
          /\ seen_mesh'[n] = {}
          /\ \A k \in Nodes \ {n} : seen_mesh'[k] = seen_mesh[k] /\ Peer(k)' = Peer(k)
          /\ Peer(n)' = <<n, run[n] + 1>>
          /\ run[n] \in Nat
      BY <1>4 DEF Restart, TypeOK, Peer
    <2>2. \A m \in gossip \cup sent : m.src # <<n, run[n] + 1>>
      <3>1. run[n] + 1 \in Nat /\ ~(run[n] + 1 <= run[n])
        BY <2>1
      <3> QED
        BY <3>1 DEF NotFuture
    <2>3. MineSeen'
      BY <2>1, <2>2 DEF MineSeen
    <2>4. SeenSent'
      BY <2>1 DEF SeenSent
    <2> QED
      BY <2>3, <2>4
  <1>5. CASE gossip' = gossip /\ sent' = sent /\ run' = run /\ seen_mesh' = seen_mesh
    BY <1>5 DEF MineSeen, SeenSent, Peer
  <1>6. [Next]_vars =>
           \/ \E n \in Nodes, r \in Rooms, id \in Ids : SendMessage(n, r, id)
           \/ \E n \in Nodes, m \in gossip : HearsNew(n, m)
           \/ \E data \in ForeignData, r \in Rooms : ForeignPublish(data, r)
           \/ \E n \in Nodes : Restart(n)
           \/ gossip' = gossip /\ sent' = sent /\ run' = run /\ seen_mesh' = seen_mesh
    BY DEF Next, vars, JoinRoom, HearsOld, HearsRaw, Hears
  <1> QED
    BY <1>1, <1>2, <1>3, <1>4, <1>5, <1>6

-----------------------------------------------------------------------------
(* What the program is given *)

LEMMA AsQueues ==
    /\ AtMostOnce <=> \A n \in Nodes : Distinct(events[n])
    /\ NoEcho <=> \A n \in Nodes : \A id \in Values(events[n]) :
                      [id |-> id, src |-> Peer(n)] \notin sent
  BY DEF AtMostOnce, NoEcho, Distinct, Values

\* An envelope that is new to the node is new to the program, and is not what
\* this process said.
LEMMA NewIsNew ==
    ASSUME TypeOK, SayInv, SeenInv, GivenKnown,
           NEW n \in Nodes, NEW m \in gossip, HearsNew(n, m)
    PROVE  /\ m.data.id \notin Values(events[n])
           /\ [id |-> m.data.id, src |-> Peer(n)] \notin sent
  <1>1. m.data.id \notin seen_mesh[n] /\ m.data.form = "envelope"
    BY DEF HearsNew, Fresh
  <1>2. \A k \in heard[n] : k \in gossip
    BY DEF TypeOK
  <1>3. \A k \in gossip : k.data.form = "raw" => k.data.id # m.data.id
    BY <1>1 DEF SayInv, RawOnce
  <1>4. m.data.id \notin Values(events[n])
    BY <1>1, <1>2, <1>3 DEF GivenKnown
  <1>5. [id |-> m.data.id, src |-> Peer(n)] \notin sent
    BY <1>1 DEF SeenInv, MineSeen
  <1> QED
    BY <1>4, <1>5

\* So is data that is no envelope.
LEMMA RawIsNew ==
    ASSUME TypeOK, SayInv, SeenInv, GivenKnown,
           NEW n \in Nodes, NEW m \in gossip, HearsRaw(n, m)
    PROVE  /\ m.data.id \notin Values(events[n])
           /\ [id |-> m.data.id, src |-> Peer(n)] \notin sent
           /\ \E s \in sent : s.id = m.data.id /\ s.src # Peer(n)
  <1>1. m \notin heard[n] /\ m.data.form = "raw"
    BY DEF HearsRaw, Hears
  <1>2. \A k \in heard[n] : k \in gossip
    BY DEF TypeOK
  <1>3. \A k \in heard[n] : k.data.form = "raw" => k.data.id # m.data.id
    BY <1>1, <1>2 DEF SayInv, RawOnce
  <1>4. m.data.id \notin seen_mesh[n]
    BY <1>1 DEF SeenInv, SeenSent
  <1>5. m.data.id \notin Values(events[n])
    BY <1>3, <1>4 DEF GivenKnown
  <1>6. PICK s \in sent : s.id = m.data.id /\ s.src = Foreigner
    BY <1>1 DEF SayInv, GossipSent
  <1>7. s.src # Peer(n)
    BY <1>6, PeerType
  <1>8. \A k \in sent : k.id = m.data.id => k = s
    BY <1>6 DEF SayInv, SentOnce
  <1>9. [id |-> m.data.id, src |-> Peer(n)] \notin sent
    <2> SUFFICES ASSUME [id |-> m.data.id, src |-> Peer(n)] \in sent
                 PROVE  FALSE
      OBVIOUS
    <2>1. [id |-> m.data.id, src |-> Peer(n)] = s
      BY <1>8
    <2> QED
      BY <2>1, <1>7
  <1> QED
    BY <1>5, <1>6, <1>7, <1>9

\* A step that gives no program anything and says nothing.
NothingGiven ==
    /\ UNCHANGED <<run, seen_mesh, events, sent>>
    /\ \A k \in Nodes : heard[k] \subseteq heard'[k]

GivenInv == GivenKnown /\ AtMostOnce /\ NoEcho

LEMMA GivenStep ==
    TypeOK /\ SayInv /\ SeenInv /\ GivenInv /\ [Next]_vars => GivenInv'
  <1> SUFFICES ASSUME TypeOK, SayInv, SeenInv, GivenKnown, [Next]_vars,
                      \A n \in Nodes : Distinct(events[n]),
                      \A n \in Nodes : \A id \in Values(events[n]) :
                          [id |-> id, src |-> Peer(n)] \notin sent
               PROVE  /\ GivenKnown'
                      /\ (\A n \in Nodes : Distinct(events[n]))'
                      /\ (\A n \in Nodes : \A id \in Values(events[n]) :
                             [id |-> id, src |-> Peer(n)] \notin sent)'
    BY AsQueues, PTL DEF GivenInv
  <1> DEFINE Goal == /\ GivenKnown'
                     /\ (\A n \in Nodes : Distinct(events[n]))'
                     /\ (\A n \in Nodes : \A id \in Values(events[n]) :
                            [id |-> id, src |-> Peer(n)] \notin sent)'
  <1>1. ASSUME NEW n \in Nodes, NEW id,
               /\ events' = [events EXCEPT ![n] = Append(@, id)]
               /\ id \in AllIds /\ id \notin Values(events[n])
               /\ [id |-> id, src |-> Peer(n)] \notin sent,
               \/ id \in seen_mesh'[n]
               \/ \E m \in heard'[n] : m.data.form = "raw" /\ m.data.id = id,
               \A k \in Nodes : seen_mesh[k] \subseteq seen_mesh'[k]
                                /\ heard[k] \subseteq heard'[k],
               sent' = sent, run' = run
        PROVE  Goal
    <2>1. events[n] \in Seq(AllIds) /\ events \in [Nodes -> Seq(AllIds)]
      BY DEF TypeOK
    <2>2. /\ Values(events'[n]) = Values(events[n]) \cup {id}
          /\ Distinct(events'[n])
      BY <1>1, <2>1, AppendValues, AppendDistinct
    <2>3. \A k \in Nodes \ {n} : events'[k] = events[k]
      BY <1>1, <2>1
    <2>4. \A k \in Nodes : Peer(k)' = Peer(k)
      BY <1>1 DEF Peer
    <2>5. GivenKnown'
      BY <1>1, <2>2, <2>3 DEF GivenKnown
    <2>6. \A k \in Nodes : Distinct(events'[k])
      BY <2>2, <2>3
    <2>7. \A k \in Nodes : \A i \in Values(events'[k]) :
              [id |-> i, src |-> Peer(k)] \notin sent
      BY <1>1, <2>2, <2>3
    <2> QED
      BY <1>1, <2>4, <2>5, <2>6, <2>7
  <1>2. ASSUME NEW n \in Nodes, NEW m \in gossip, HearsNew(n, m)
        PROVE  Goal
    <2>1. /\ \A k \in Nodes : seen_mesh[k] \subseteq seen_mesh'[k]
                              /\ heard[k] \subseteq heard'[k]
          /\ sent' = sent /\ run' = run
          /\ m.data.id \in seen_mesh'[n]
          /\ events' = [events EXCEPT ![n] = Queued(@, m.data)]
      BY <1>2 DEF HearsNew, Hears, TypeOK
    <2>2. CASE Queued(events[n], m.data) = events[n]
      <3>1. events' = events
        BY <2>1, <2>2 DEF TypeOK
      <3> QED
        BY <2>1, <3>1 DEF GivenKnown, Peer
    <2>3. CASE Queued(events[n], m.data) = Append(events[n], m.data.id)
      <3>1. events' = [events EXCEPT ![n] = Append(@, m.data.id)]
        BY <2>1, <2>3
      <3> HIDE DEF Goal
      <3> QED
        BY <1>1, <1>2, <2>1, <3>1, NewIsNew, DataType
    <2> QED
      BY <2>2, <2>3, QueuedIs
  <1>3. ASSUME NEW n \in Nodes, NEW m \in gossip, HearsRaw(n, m)
        PROVE  Goal
    <2>1. /\ \A k \in Nodes : seen_mesh[k] \subseteq seen_mesh'[k]
                              /\ heard[k] \subseteq heard'[k]
          /\ sent' = sent /\ run' = run
          /\ m \in heard'[n] /\ m.data.form = "raw"
          /\ events' = [events EXCEPT ![n] = Append(@, m.data.id)]
      BY <1>3 DEF HearsRaw, Hears, TypeOK
    <2> HIDE DEF Goal
    <2> QED
      BY <1>1, <1>3, <2>1, RawIsNew, DataType
  <1>4. ASSUME NEW id, NEW src,
               \A s \in sent : s.id # id,
               sent' = sent \cup {[id |-> id, src |-> src]},
               events' = events, run' = run, heard' = heard,
               \A k \in Nodes : seen_mesh[k] \subseteq seen_mesh'[k]
        PROVE  Goal
    <2>1. \A k \in Nodes : \A m \in heard[k] : m \in gossip
      BY DEF TypeOK
    <2>2. \A k \in Nodes : id \notin Values(events[k])
      BY <1>4, <2>1 DEF GivenKnown, SayInv, GossipSent, SeenInv, SeenSent
    <2>3. \A k \in Nodes : \A i \in Values(events[k]) :
              [id |-> i, src |-> Peer(k)] \notin sent'
      BY <1>4, <2>2
    <2> QED
      BY <1>4, <2>3 DEF GivenKnown, Peer
  <1>5. ASSUME NEW n \in Nodes, NEW r \in Rooms, NEW id \in Ids, SendMessage(n, r, id)
        PROVE  Goal
    <2>1. \A k \in Nodes : seen_mesh[k] \subseteq seen_mesh'[k]
      BY <1>5 DEF SendMessage, TypeOK
    <2> HIDE DEF Goal
    <2> QED
      BY <1>4, <1>5, <2>1 DEF SendMessage
  <1>6. ASSUME NEW data \in ForeignData, NEW r \in Rooms, ForeignPublish(data, r)
        PROVE  Goal
    <2> HIDE DEF Goal
    <2> QED
      BY <1>4, <1>6 DEF ForeignPublish
  <1>7. ASSUME NEW n \in Nodes, Restart(n)
        PROVE  Goal
    <2>1. /\ events'[n] = <<>> /\ sent' = sent
          /\ \A k \in Nodes \ {n} : /\ events'[k] = events[k] /\ heard'[k] = heard[k]
                                    /\ seen_mesh'[k] = seen_mesh[k]
                                    /\ Peer(k)' = Peer(k)
      BY <1>7 DEF Restart, TypeOK, Peer
    <2>2. Values(events'[n]) = {} /\ Distinct(events'[n])
      BY <2>1, EmptyQueue
    <2>3. GivenKnown'
      BY <2>1, <2>2 DEF GivenKnown
    <2> QED
      BY <2>1, <2>2, <2>3
  <1>8. CASE NothingGiven
    BY <1>8 DEF NothingGiven, GivenKnown, Peer
  <1>9. [Next]_vars =>
           \/ \E n \in Nodes, r \in Rooms, id \in Ids : SendMessage(n, r, id)
           \/ \E n \in Nodes, m \in gossip : HearsNew(n, m)
           \/ \E n \in Nodes, m \in gossip : HearsRaw(n, m)
           \/ \E data \in ForeignData, r \in Rooms : ForeignPublish(data, r)
           \/ \E n \in Nodes : Restart(n)
           \/ NothingGiven
    BY DEF Next, vars, NothingGiven, JoinRoom, HearsOld, Hears, TypeOK
  <1> QED
    BY <1>2, <1>3, <1>5, <1>6, <1>7, <1>8, <1>9

-----------------------------------------------------------------------------
(* What is published *)

LEMMA PublishesOnceStep ==
    TypeOK /\ SayInv /\ SeenInv /\ PublishesOnce /\ [Next]_vars => PublishesOnce'
  <1> SUFFICES ASSUME TypeOK, SayInv, SeenInv, PublishesOnce, [Next]_vars
               PROVE  PublishesOnce'
    OBVIOUS
  <1>1. ASSUME NEW new, gossip' \in {gossip, gossip \cup {new}},
               \A m \in gossip : m.src = new.src => m.data.id # new.data.id
        PROVE  PublishesOnce'
    BY <1>1 DEF PublishesOnce
  <1>2. ASSUME NEW n \in Nodes, NEW r \in Rooms, NEW id \in Ids, SendMessage(n, r, id)
        PROVE  PublishesOnce'
    <2> DEFINE new == Message(Peer(n), r, Envelope(id, r, Ttl))
    <2>1. new.data.id = id
      BY DEF Message, Envelope
    <2>2. gossip' \in {gossip, gossip \cup {new}} /\ \A s \in sent : s.id # id
      BY <1>2 DEF SendMessage
    <2>3. \A m \in gossip : m.data.id # id
      BY <2>2 DEF SayInv, GossipSent
    <2> HIDE DEF new
    <2> QED
      BY <1>1, <2>1, <2>2, <2>3
  <1>3. ASSUME NEW n \in Nodes, NEW m \in gossip, HearsNew(n, m)
        PROVE  PublishesOnce'
    <2> DEFINE new == Message(Peer(n), m.data.room_id, [m.data EXCEPT !.ttl = @ - 1])
    <2>1. gossip' \in {gossip, gossip \cup {new}}
      BY <1>3 DEF HearsNew, Rebroadcast
    <2>2. m.data \in Envelopes(AllIds) /\ m.data.id \notin seen_mesh[n]
      BY <1>3, DataType DEF HearsNew, Fresh
    <2>3. new.src = Peer(n) /\ new.data.id = m.data.id
      BY <2>2 DEF Message, Envelopes
    <2>4. \A k \in gossip : k.src = Peer(n) => k.data.id # m.data.id
      BY <2>2 DEF SeenInv, MineSeen
    <2> HIDE DEF new
    <2> QED
      BY <1>1, <2>1, <2>3, <2>4
  <1>4. ASSUME NEW data \in ForeignData, NEW r \in Rooms, ForeignPublish(data, r)
        PROVE  PublishesOnce'
    <2> DEFINE new == Message(Foreigner, r, data)
    <2>1. new.data.id = data.id
      BY DEF Message
    <2>2. gossip' \in {gossip, gossip \cup {new}} /\ \A s \in sent : s.id # data.id
      BY <1>4 DEF ForeignPublish
    <2>3. \A m \in gossip : m.data.id # data.id
      BY <2>2 DEF SayInv, GossipSent
    <2> HIDE DEF new
    <2> QED
      BY <1>1, <2>1, <2>2, <2>3
  <1>5. CASE UNCHANGED gossip
    BY <1>5 DEF PublishesOnce
  <1> QED
    BY <1>2, <1>3, <1>4, <1>5
    DEF Next, vars, JoinRoom, HearsOld, HearsRaw, Hears, Restart

\* Where one envelope comes from.
Origin(m) ==
    /\ m.topic = m.data.room_id
    /\ \/ [id |-> m.data.id, src |-> m.src] \in sent /\ m.data.ttl = Ttl
       \/ \E k \in gossip : /\ k.src # m.src
                            /\ k.data = [m.data EXCEPT !.ttl = @ + 1]

LEMMA ProvenanceStep == TypeOK /\ Provenance /\ [Next]_vars => Provenance'
  <1> SUFFICES ASSUME TypeOK, \A m \in gossip : m.src # Foreigner => Origin(m),
                      [Next]_vars
               PROVE  \A m \in gossip' : m.src # Foreigner => Origin(m)'
    BY DEF Provenance, Origin
  <1>1. sent \subseteq sent' /\ gossip \subseteq gossip'
    BY DEF Next, vars, JoinRoom, SendMessage, HearsNew, HearsOld, HearsRaw,
           Hears, ForeignPublish, Restart
  <1>2. \A m \in gossip : m.src # Foreigner => Origin(m)'
    BY <1>1 DEF Origin
  <1>3. ASSUME NEW n \in Nodes, NEW r \in Rooms, NEW id \in Ids, SendMessage(n, r, id)
        PROVE  \A m \in gossip' \ gossip : Origin(m)'
    <2> SUFFICES ASSUME NEW m, m = Message(Peer(n), r, Envelope(id, r, Ttl))
                 PROVE  Origin(m)'
      BY <1>3 DEF SendMessage
    <2>1. /\ m.src = Peer(n) /\ m.topic = r /\ m.data.room_id = r
          /\ m.data.id = id /\ m.data.ttl = Ttl
      BY DEF Message, Envelope
    <2>2. [id |-> m.data.id, src |-> m.src] \in sent'
      BY <1>3, <2>1 DEF SendMessage
    <2> QED
      BY <2>1, <2>2 DEF Origin
  <1>4. ASSUME NEW n \in Nodes, NEW m \in gossip, HearsNew(n, m)
        PROVE  \A k \in gossip' \ gossip : Origin(k)'
    <2> SUFFICES ASSUME NEW k \in Rebroadcast(n, m.data)
                 PROVE  Origin(k)'
      BY <1>4 DEF HearsNew
    <2>1. m.data \in Envelopes(AllIds) /\ m.src # Peer(n)
      BY <1>4, DataType DEF HearsNew, Hears
    <2>2. k = Message(Peer(n), m.data.room_id, [m.data EXCEPT !.ttl = @ - 1])
      BY DEF Rebroadcast
    <2>3. k.src = Peer(n) /\ k.topic = m.data.room_id
          /\ k.data = [m.data EXCEPT !.ttl = @ - 1]
      BY <2>2 DEF Message
    <2>4. m.data.ttl \in Int /\ (m.data.ttl - 1) + 1 = m.data.ttl
      BY <2>1 DEF Envelopes, U8
    <2>5. /\ m.data = [k.data EXCEPT !.ttl = @ + 1]
          /\ k.data.room_id = m.data.room_id
      BY <2>1, <2>3, <2>4 DEF Envelopes
    <2> QED
      BY <1>1, <2>1, <2>3, <2>5 DEF Origin
  <1>5. ASSUME NEW data \in ForeignData, NEW r \in Rooms, ForeignPublish(data, r)
        PROVE  \A m \in gossip' \ gossip : m.src = Foreigner
    BY <1>5 DEF ForeignPublish, Message
  <1>6. CASE UNCHANGED gossip
    BY <1>2, <1>6
  <1> QED
    BY <1>2, <1>3, <1>4, <1>5, <1>6
    DEF Next, vars, JoinRoom, HearsOld, HearsRaw, Hears, Restart

-----------------------------------------------------------------------------
(* Theorems *)

IInv ==
    TypeOK /\ SayInv /\ SeenInv /\ GivenInv /\ PublishesOnce /\ Provenance

LEMMA InitInv == Init => IInv
  <1> SUFFICES ASSUME Init
               PROVE  IInv
    OBVIOUS
  <1>1. SayInv
    BY DEF Init, SayInv, SentOnce, NotFuture, GossipSent, RawOnce
  <1>2. SeenInv
    BY DEF Init, SeenInv, MineSeen, SeenSent
  <1>3. \A n \in Nodes : Values(events[n]) = {} /\ Distinct(events[n])
    BY EmptyQueue DEF Init
  <1>4. GivenInv
    BY <1>3, AsQueues DEF GivenInv, GivenKnown
  <1> QED
    BY <1>1, <1>2, <1>4, TypeInit DEF IInv, Init, PublishesOnce, Provenance

LEMMA Invariance == Spec => []IInv
  <1>1. IInv /\ [Next]_vars => IInv'
    BY TypeStep, SayStep, SeenStep, GivenStep, PublishesOnceStep, ProvenanceStep
    DEF IInv
  <1> QED
    BY <1>1, InitInv, PTL DEF Spec

\* The program is never given a message twice: seen_mesh catches each copy that
\* other nodes publish again, whatever their number and the ttl.
THEOREM GivenOnce == Spec => []AtMostOnce
  <1>1. IInv => AtMostOnce
    BY DEF IInv, GivenInv
  <1> QED
    BY <1>1, Invariance, PTL

\* No process is given back what it said itself.
THEOREM NeverEchoed == Spec => []NoEcho
  <1>1. IInv => NoEcho
    BY DEF IInv, GivenInv
  <1> QED
    BY <1>1, Invariance, PTL

\* A process publishes an envelope at most once: repeating ends even if the ttl
\* never would.
THEOREM RepeatedOnce == Spec => []PublishesOnce
  <1>1. IInv => PublishesOnce
    BY DEF IInv
  <1> QED
    BY <1>1, Invariance, PTL

\* Every envelope under way goes back, hop by hop, to one its sender published.
THEOREM EnvelopesTraced == Spec => []Provenance
  <1>1. IInv => Provenance
    BY DEF IInv
  <1> QED
    BY <1>1, Invariance, PTL

-----------------------------------------------------------------------------
(* Refinement *)

\* A message that is new to the program of n was said by somebody else.
LEMMA HeardWasSaid ==
    ASSUME IInv, NEW n \in Nodes, NEW m \in gossip,
           HearsNew(n, m) \/ HearsRaw(n, m)
    PROVE  /\ m.data.id \notin Values(events[n])
           /\ \E s \in sent : s.id = m.data.id /\ s.src # Peer(n)
  <1>1. TypeOK /\ SayInv /\ SeenInv /\ GivenKnown
    BY DEF IInv, GivenInv
  <1>2. CASE HearsRaw(n, m)
    BY <1>1, <1>2, RawIsNew
  <1>3. CASE HearsNew(n, m)
    <2>1. PICK s \in sent : s.id = m.data.id
      BY <1>1 DEF SayInv, GossipSent
    <2>2. s = [id |-> s.id, src |-> s.src]
      BY <1>1 DEF TypeOK
    <2>3. [id |-> m.data.id, src |-> Peer(n)] \notin sent
      BY <1>1, <1>3, NewIsNew
    <2>4. s.src # Peer(n)
      BY <2>1, <2>2, <2>3
    <2> QED
      BY <1>1, <1>3, <2>1, <2>4, NewIsNew
  <1> QED
    BY <1>2, <1>3

LEMMA StepRefines == IInv /\ [Next]_vars => [Abstract!Next]_(Abstract!vars)
  <1> SUFFICES ASSUME IInv, [Next]_vars
               PROVE  [Abstract!Next]_(Abstract!vars)
    OBVIOUS
  <1> USE DEF Abstract!Next, Abstract!vars
  <1>1. ASSUME NEW n \in Nodes, NEW r \in Rooms, NEW id \in Ids, SendMessage(n, r, id)
        PROVE  Abstract!Next
    <2>1. Peer(n) \in Peers \cup {Foreigner} /\ id \in AllIds
      BY DEF IInv, TypeOK, AllIds
    <2>2. Abstract!Say(Peer(n), id)
      BY <1>1 DEF SendMessage, Abstract!Say
    <2> QED
      BY <2>1, <2>2
  <1>2. ASSUME NEW data \in ForeignData, NEW r \in Rooms, ForeignPublish(data, r)
        PROVE  Abstract!Next
    <2>1. Foreigner \in Peers \cup {Foreigner} /\ data.id \in AllIds
      BY ForeignType
    <2>2. Abstract!Say(Foreigner, data.id)
      BY <1>2 DEF ForeignPublish, Abstract!Say
    <2> QED
      BY <2>1, <2>2
  <1>3. ASSUME NEW n \in Nodes, NEW m \in gossip,
               HearsNew(n, m) \/ HearsRaw(n, m),
               events' = [events EXCEPT ![n] = Append(@, m.data.id)],
               UNCHANGED <<run, sent>>
        PROVE  Abstract!Next
    <2>1. PICK s \in sent : s.id = m.data.id /\ s.src # Peer(n)
      BY <1>3, HeardWasSaid
    <2>2. m.data.id \notin Abstract!Read(n)
      BY <1>3, HeardWasSaid DEF Abstract!Read, Values
    <2>3. Abstract!Hear(n, s)
      BY <1>3, <2>1, <2>2 DEF Abstract!Hear, Peer
    <2> QED
      BY <2>3
  <1>4. ASSUME NEW n \in Nodes, NEW m \in gossip, HearsNew(n, m)
        PROVE  [Abstract!Next]_(Abstract!vars)
    <2>1. /\ UNCHANGED <<run, sent>>
          /\ events' = [events EXCEPT ![n] = Queued(@, m.data)]
          /\ events \in [Nodes -> Seq(AllIds)]
      BY <1>4 DEF HearsNew, Hears, IInv, TypeOK
    <2>2. CASE Queued(events[n], m.data) = events[n]
      BY <2>1, <2>2
    <2>3. CASE Queued(events[n], m.data) = Append(events[n], m.data.id)
      <3>1. events' = [events EXCEPT ![n] = Append(@, m.data.id)]
        BY <2>1, <2>3
      <3> QED
        BY <1>3, <1>4, <2>1, <3>1
    <2> QED
      BY <2>2, <2>3, QueuedIs
  <1>5. ASSUME NEW n \in Nodes, NEW m \in gossip, HearsRaw(n, m)
        PROVE  Abstract!Next
    BY <1>3, <1>5 DEF HearsRaw, Hears
  <1>6. ASSUME NEW n \in Nodes, Restart(n)
        PROVE  Abstract!Next
    <2>1. Abstract!Restart(n)
      BY <1>6 DEF Restart, Abstract!Restart
    <2> QED
      BY <2>1
  <1>7. CASE UNCHANGED <<run, events, sent>>
    BY <1>7
  <1> QED
    BY <1>1, <1>2, <1>4, <1>5, <1>6, <1>7
    DEF Next, vars, JoinRoom, HearsOld, Hears

\* The gossip layer implements Broadcast: each step of a node is what somebody
\* says, what one process reads for the first time from somebody else, a new
\* process, or nothing that the program can see.
THEOREM Refines == Spec => ImplementsBroadcast
  <1>1. Init => Abstract!Init
    BY DEF Init, Abstract!Init
  <1> QED
    BY <1>1, StepRefines, Invariance, PTL DEF Spec, ImplementsBroadcast, Abstract!Spec

-----------------------------------------------------------------------------
(* Nothing is swallowed *)

\* The process has said this itself, or its program has been given it.
Passed(n, id) ==
    [id |-> id, src |-> Peer(n)] \in sent \/ id \in Values(events[n])

\* All copies of a message can be decoded, or none.
SameText ==
    \A m, k \in gossip : m.data.id = k.data.id => (Readable(m.data) <=> Readable(k.data))

SeenPassed ==
    \A n \in Nodes : \A id \in seen_mesh[n] :
        Passed(n, id) \/ \A m \in gossip : m.data.id = id => ~Readable(m.data)

HeardPassed ==
    \A n \in Nodes : \A m \in heard[n] : Readable(m.data) => Passed(n, m.data.id)

PassInv == SameText /\ SeenPassed /\ HeardPassed

LEMMA QueuedKeeps ==
    ASSUME NEW S, NEW q \in Seq(S), NEW data, data.id \in S
    PROVE  /\ Values(q) \subseteq Values(Queued(q, data))
           /\ data.payload = "ok" => data.id \in Values(Queued(q, data))
  <1>1. Values(Append(q, data.id)) = Values(q) \cup {data.id}
    BY AppendValues
  <1> QED
    BY <1>1 DEF Queued

LEMMA RebroadcastText ==
    ASSUME NEW n, NEW data \in Envelopes(AllIds), NEW k \in Rebroadcast(n, data)
    PROVE  k.data.id = data.id /\ (Readable(k.data) <=> Readable(data))
  <1> DEFINE next == [data EXCEPT !.ttl = @ - 1]
  <1>1. /\ next.id = data.id /\ next.form = data.form /\ next.mesh = data.mesh
        /\ next.payload = data.payload
    BY DEF Envelopes
  <1>2. k.data = next
    BY DEF Rebroadcast, Message
  <1> HIDE DEF next
  <1> QED
    BY <1>1, <1>2 DEF Readable

\* A new id is published, or nothing is.
LEMMA PassNewId ==
    ASSUME TypeOK, SayInv, SeenInv, PassInv,
           NEW id, NEW new, new.data.id = id, \A s \in sent : s.id # id,
           gossip' \in {gossip, gossip \cup {new}}, sent \subseteq sent',
           \A n \in Nodes : \A i \in seen_mesh'[n] :
               i \in seen_mesh[n] \/ (i = id /\ [id |-> i, src |-> Peer(n)] \in sent'),
           UNCHANGED <<run, events, heard>>
    PROVE  PassInv'
  <1>1. \A m \in gossip : m.data.id # id
    BY DEF SayInv, GossipSent
  <1>2. \A n \in Nodes : \A i \in seen_mesh[n] : i # id
    BY DEF SeenInv, SeenSent
  <1>3. \A n \in Nodes : \A i : Passed(n, i) => Passed(n, i)'
    BY DEF Passed, Peer
  <1>4. SameText'
    BY <1>1 DEF PassInv, SameText
  <1>5. SeenPassed'
    <2> SUFFICES ASSUME NEW n \in Nodes, NEW i \in seen_mesh'[n]
                 PROVE  \/ Passed(n, i)'
                        \/ \A m \in gossip' : m.data.id = i => ~Readable(m.data)
      BY DEF SeenPassed
    <2>1. CASE i \in seen_mesh[n]
      BY <1>2, <1>3, <2>1 DEF PassInv, SeenPassed
    <2>2. CASE [id |-> i, src |-> Peer(n)] \in sent'
      BY <2>2 DEF Passed, Peer
    <2> QED
      BY <2>1, <2>2
  <1>6. HeardPassed'
    BY <1>3 DEF PassInv, HeardPassed
  <1> QED
    BY <1>4, <1>5, <1>6 DEF PassInv

\* A process hears a message, and passes it on if it can and has not before.
LEMMA PassHears ==
    ASSUME TypeOK, PassInv, NEW n \in Nodes, NEW m \in gossip, Hears(n, m),
           \A k \in gossip' : \/ k \in gossip
                              \/ /\ k.data.id = m.data.id
                                 /\ Readable(k.data) <=> Readable(m.data),
           \A k \in Nodes : Values(events[k]) \subseteq Values(events'[k]),
           \A k \in Nodes : \A i \in seen_mesh'[k] :
               i \in seen_mesh[k] \/ (k = n /\ i = m.data.id),
           Readable(m.data) => Passed(n, m.data.id)'
    PROVE  PassInv'
  <1>1. /\ sent' = sent /\ run' = run
        /\ \A k \in Nodes : \A h \in heard'[k] : h \in heard[k] \/ (k = n /\ h = m)
    BY DEF Hears, TypeOK
  <1>2. \A k \in Nodes : \A i : Passed(k, i) => Passed(k, i)'
    BY <1>1 DEF Passed, Peer
  <1>3. SameText'
    BY DEF PassInv, SameText
  <1>4. SeenPassed'
    <2> SUFFICES ASSUME NEW k \in Nodes, NEW i \in seen_mesh'[k], ~Passed(k, i)',
                        NEW h \in gossip', h.data.id = i
                 PROVE  ~Readable(h.data)
      BY DEF SeenPassed
    <2>1. CASE i \in seen_mesh[k]
      <3>1. \A g \in gossip : g.data.id = i => ~Readable(g.data)
        BY <1>2, <2>1 DEF PassInv, SeenPassed
      <3> QED
        BY <3>1
    <2>2. CASE k = n /\ i = m.data.id
      <3>1. ~Readable(m.data)
        BY <2>2
      <3> QED
        BY <2>2, <3>1 DEF PassInv, SameText
    <2> QED
      BY <2>1, <2>2
  <1>5. HeardPassed'
    BY <1>1, <1>2 DEF PassInv, HeardPassed
  <1> QED
    BY <1>3, <1>4, <1>5 DEF PassInv

LEMMA PassStep == IInv /\ PassInv /\ [Next]_vars => PassInv'
  <1> SUFFICES ASSUME IInv, PassInv, [Next]_vars PROVE PassInv'
    OBVIOUS
  <1>1. TypeOK /\ SayInv /\ SeenInv
    BY DEF IInv
  <1>2. ASSUME NEW n \in Nodes, NEW r \in Rooms, NEW id \in Ids, SendMessage(n, r, id)
        PROVE  PassInv'
    <2> DEFINE new == Message(Peer(n), r, Envelope(id, r, Ttl))
    <2>1. /\ new.data.id = id /\ \A s \in sent : s.id # id
          /\ gossip' \in {gossip, gossip \cup {new}}
          /\ sent' = sent \cup {[id |-> id, src |-> Peer(n)]}
          /\ UNCHANGED <<run, events, heard>>
      BY <1>2 DEF SendMessage, Message, Envelope
    <2>2. \A k \in Nodes : \A i \in seen_mesh'[k] :
              i \in seen_mesh[k] \/ (i = id /\ [id |-> i, src |-> Peer(k)] \in sent')
      BY <1>1, <1>2, <2>1 DEF SendMessage, TypeOK
    <2> HIDE DEF new
    <2> QED
      BY <1>1, <2>1, <2>2, PassNewId
  <1>3. ASSUME NEW data \in ForeignData, NEW r \in Rooms, ForeignPublish(data, r)
        PROVE  PassInv'
    <2> DEFINE new == Message(Foreigner, r, data)
               id == data.id
    <2>1. /\ new.data.id = id /\ \A s \in sent : s.id # id
          /\ gossip' \in {gossip, gossip \cup {new}} /\ sent \subseteq sent'
          /\ UNCHANGED <<run, events, heard, seen_mesh>>
      BY <1>3 DEF ForeignPublish, Message
    <2> HIDE DEF new, id
    <2> QED
      BY <1>1, <2>1, PassNewId
  <1>4. ASSUME NEW n \in Nodes, NEW m \in gossip, HearsNew(n, m)
        PROVE  PassInv'
    <2>1. m.data \in Envelopes(AllIds) /\ m.data.id \in AllIds /\ m.data.form = "envelope"
      BY <1>1, <1>4, DataType DEF HearsNew
    <2>2. \A k \in gossip' : \/ k \in gossip
                             \/ /\ k.data.id = m.data.id
                                /\ Readable(k.data) <=> Readable(m.data)
      BY <1>4, <2>1, RebroadcastText DEF HearsNew
    <2>3. /\ Hears(n, m) /\ events[n] \in Seq(AllIds) /\ sent' = sent /\ run' = run
          /\ events'[n] = Queued(events[n], m.data)
          /\ \A k \in Nodes \ {n} : events'[k] = events[k] /\ seen_mesh'[k] = seen_mesh[k]
          /\ seen_mesh'[n] = seen_mesh[n] \cup {m.data.id}
      BY <1>1, <1>4 DEF HearsNew, Hears, TypeOK
    <2>4. /\ Values(events[n]) \subseteq Values(events'[n])
          /\ m.data.payload = "ok" => m.data.id \in Values(events'[n])
      BY <2>1, <2>3, QueuedKeeps
    <2>5. Readable(m.data) => Passed(n, m.data.id)'
      BY <2>1, <2>4 DEF Readable, Passed
    <2>6. \A k \in Nodes : Values(events[k]) \subseteq Values(events'[k])
      BY <2>3, <2>4
    <2>7. \A k \in Nodes : \A i \in seen_mesh'[k] :
              i \in seen_mesh[k] \/ (k = n /\ i = m.data.id)
      BY <2>3
    <2> QED
      BY <1>1, <2>2, <2>3, <2>5, <2>6, <2>7, PassHears
  <1>5. ASSUME NEW n \in Nodes, NEW m \in gossip, HearsOld(n, m)
        PROVE  PassInv'
    <2>1. /\ Hears(n, m) /\ m.data.form = "envelope" /\ ~Fresh(n, m.data)
          /\ UNCHANGED <<seen_mesh, events, gossip, sent, run>>
      BY <1>5 DEF HearsOld, Hears
    <2>2. Readable(m.data) => Passed(n, m.data.id)
      BY <2>1 DEF Readable, Fresh, PassInv, SeenPassed
    <2>3. Readable(m.data) => Passed(n, m.data.id)'
      BY <2>1, <2>2 DEF Passed, Peer
    <2> QED
      BY <1>1, <2>1, <2>3, PassHears
  <1>6. ASSUME NEW n \in Nodes, NEW m \in gossip, HearsRaw(n, m)
        PROVE  PassInv'
    <2>1. /\ Hears(n, m) /\ UNCHANGED <<seen_mesh, gossip>>
          /\ events[n] \in Seq(AllIds) /\ m.data.id \in AllIds
          /\ events'[n] = Append(events[n], m.data.id)
          /\ \A k \in Nodes \ {n} : events'[k] = events[k]
      BY <1>1, <1>6, DataType DEF HearsRaw, TypeOK
    <2>2. Values(events'[n]) = Values(events[n]) \cup {m.data.id}
      BY <2>1, AppendValues
    <2>3. Readable(m.data) => Passed(n, m.data.id)'
      BY <2>2 DEF Passed
    <2>4. \A k \in Nodes : Values(events[k]) \subseteq Values(events'[k])
      BY <2>1, <2>2
    <2> QED
      BY <1>1, <2>1, <2>3, <2>4, PassHears
  <1>7. ASSUME NEW n \in Nodes, Restart(n)
        PROVE  PassInv'
    <2>1. /\ gossip' = gossip /\ sent' = sent /\ seen_mesh'[n] = {} /\ heard'[n] = {}
          /\ \A k \in Nodes \ {n} : /\ seen_mesh'[k] = seen_mesh[k] /\ heard'[k] = heard[k]
                                    /\ \A i : Passed(k, i) <=> Passed(k, i)'
      BY <1>1, <1>7 DEF Restart, TypeOK, Passed, Peer
    <2>2. SameText'
      BY <2>1 DEF PassInv, SameText
    <2>3. SeenPassed'
      BY <2>1 DEF PassInv, SeenPassed
    <2>4. HeardPassed'
      BY <2>1 DEF PassInv, HeardPassed
    <2> QED
      BY <2>2, <2>3, <2>4 DEF PassInv
  <1>8. ASSUME UNCHANGED <<run, seen_mesh, events, gossip, heard, sent>>
        PROVE  PassInv'
    BY <1>8 DEF PassInv, SameText, SeenPassed, HeardPassed, Passed, Peer
  <1> QED
    BY <1>2, <1>3, <1>4, <1>5, <1>6, <1>7, <1>8 DEF Next, JoinRoom, vars

\* Whatever gossipsub hands over, from whichever node, in whichever order and
\* at whichever hop, the program is given, or has said itself.
THEOREM NeverSwallowed == Spec => []NothingSwallowed
  <1>1. Init => PassInv
    BY DEF Init, PassInv, SameText, SeenPassed, HeardPassed
  <1>2. PassInv => NothingSwallowed
    BY DEF PassInv, HeardPassed, NothingSwallowed, Passed, Values
  <1> QED
    BY <1>1, <1>2, Invariance, PassStep, PTL DEF Spec
=============================================================================
