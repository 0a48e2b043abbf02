-------------------------- MODULE FrontEndsProofs --------------------------
(***************************************************************************)
(* What holds of the terminal and the graphical front end for every number *)
(* of devices, rooms, visits and chats: types, stores that implement the   *)
(* log of ChatLog although every session is given the messages of all      *)
(* rooms, and keys shared with a peer.                                     *)
(***************************************************************************)
EXTENDS FrontEnds, ChatSessionProofs, FiniteSetTheorems

-----------------------------------------------------------------------------
(* Types *)

LEMMA UserType ==
    ASSUME NEW d \in Devices, NEW visit \in Nat
    PROVE  User(d, visit) \in Users
  BY DEF User, Users

LEMMA PublishedType ==
    ASSUME NEW d \in Devices, NEW room \in Rooms, NEW msgs \in SUBSET Messages
    PROVE  Published(d, room, msgs) \subseteq Copies
  BY DEF Published, Copies

LEMMA IntroType ==
    ASSUME NEW d \in Devices, store[d] \in SUBSET Rows,
           NEW current \in SUBSET Sessions
    PROVE  Intro(d, current) \subseteq Copies
  <1>1. ASSUME NEW s \in current
        PROVE  Published(d, s.room_id, {Handshake(s), WantSince(s, store[d])})
                   \subseteq Copies
    <2>1. s \in Sessions /\ s.room_id \in Rooms
      BY DEF Sessions
    <2> QED
      BY <2>1, HandshakeType, WantSinceType, PublishedType
  <1> QED
    BY <1>1 DEF Intro

\* A process has one session or none.
SessionsOK ==
    /\ session \in [Devices -> SUBSET Sessions]
    /\ \A d \in Devices : Cardinality(session[d]) <= 1

LEMMA OneSession ==
    ASSUME SessionsOK, NEW d \in Devices, NEW s \in Sessions,
           session' = [session EXCEPT ![d] = {s}]
    PROVE  SessionsOK'
  <1>1. Cardinality({s}) = 1
    BY FS_Singleton
  <1> QED
    BY <1>1 DEF SessionsOK

LEMMA NoSession ==
    ASSUME SessionsOK, NEW d \in Devices, session' = [session EXCEPT ![d] = {}]
    PROVE  SessionsOK'
  <1>1. Cardinality({}) = 0
    BY FS_EmptySet
  <1> QED
    BY <1>1 DEF SessionsOK

LEMMA SavesType ==
    ASSUME TypeOK, NEW d \in Devices, NEW s \in Sessions, NEW m \in Messages,
           m.t \in {"chat", "history_chunk"}, Saves(d, s, m)
    PROVE  store' \in [Devices -> SUBSET Rows]
  <1> DEFINE rows == {Row(s, o) : o \in Opened(s, m)}
  <1>1. rows \subseteq Rows
    BY OpenedType
  <1>2. store' = [store EXCEPT ![d] = SaveAll(@, rows)]
    BY DEF Saves
  <1> HIDE DEF rows
  <1>3. SaveAll(store[d], rows) \subseteq Rows
    BY <1>1 DEF SaveAll, TypeOK
  <1> QED
    BY <1>2, <1>3 DEF TypeOK

\* A session that begins.
LEMMA NewVisitType ==
    ASSUME TypeOK, NEW d \in Devices, NEW r \in Rooms,
           visits' = [visits EXCEPT ![d] = @ + 1]
    PROVE  /\ visits' \in [Devices -> Nat]
           /\ NewSession(r, User(d, visits'[d]), d) \in Sessions
  <1>1. visits' \in [Devices -> Nat] /\ visits'[d] \in Nat
    BY DEF TypeOK
  <1> QED
    BY <1>1, UserType, NewSessionType

\* Every variable keeps its type, and no process ever has two sessions.
THEOREM TypeCorrect == Spec => []TypeOK
  <1>1. Init => TypeOK
    <2>1. Cardinality({}) = 0
      BY FS_EmptySet
    <2> QED
      BY <2>1 DEF Init, TypeOK
  <1>2. TypeOK /\ [Next]_vars => TypeOK'
    <2> SUFFICES ASSUME TypeOK, [Next]_vars PROVE TypeOK'
      OBVIOUS
    <2>0. SessionsOK
      BY DEF TypeOK, SessionsOK
    <2>1. ASSUME NEW d \in Devices, NEW r \in Rooms,
                 EnterRoom(d, r) \/ EnterRoomGraphical(d, r)
          PROVE  TypeOK'
      <3> DEFINE s == NewSession(r, User(d, visits'[d]), d)
      <3>1. /\ visits' = [visits EXCEPT ![d] = @ + 1]
            /\ session' = [session EXCEPT ![d] = {s}]
            /\ joined' = [joined EXCEPT ![d] = @ \cup {r}]
            /\ UNCHANGED <<store, subs, due, chats>>
        BY <2>1 DEF EnterRoom, EnterRoomGraphical
      <3>2. visits' \in [Devices -> Nat] /\ s \in Sessions
        BY <3>1, NewVisitType
      <3> HIDE DEF s
      <3>3. SessionsOK'
        BY <2>0, <3>1, <3>2, OneSession
      <3>4. send_hs' \in [Devices -> BOOLEAN]
        BY <2>1 DEF EnterRoom, EnterRoomGraphical, TypeOK
      <3>5. net' \subseteq Copies
        <4>1. Intro(d, session'[d]) \subseteq Copies
          BY <3>3, IntroType DEF SessionsOK, TypeOK
        <4> QED
          BY <2>1, <4>1 DEF EnterRoom, EnterRoomGraphical, TypeOK
      <3> QED
        BY <3>1, <3>2, <3>3, <3>4, <3>5 DEF TypeOK, SessionsOK
    <2>2. ASSUME NEW d \in Devices, LeaveRoom(d)
          PROVE  TypeOK'
      <3>1. SessionsOK'
        BY <2>0, <2>2, NoSession DEF LeaveRoom
      <3> QED
        BY <2>2, <3>1 DEF LeaveRoom, TypeOK, SessionsOK
    <2>3. ASSUME NEW d \in Devices, NEW e \in Devices, NEW r \in Rooms,
                 PeerSubscribed(d, e, r)
          PROVE  TypeOK'
      <3>1. [peer |-> e, room |-> r] \in Subscriptions
        BY DEF Subscriptions
      <3> QED
        BY <2>3, <3>1 DEF PeerSubscribed, TypeOK
    <2>4. ASSUME NEW d \in Devices, Intro(d, session[d]) \subseteq Copies
          PROVE  /\ \A x \in due[d] : AnswersSubscribed(d, x) => TypeOK'
                 /\ IntroTimer(d) => TypeOK'
      BY <2>4 DEF AnswersSubscribed, IntroTimer, TypeOK
    <2>5. ASSUME NEW d \in Devices
          PROVE  Intro(d, session[d]) \subseteq Copies
      BY IntroType DEF TypeOK
    <2>6. ASSUME NEW d \in Devices, NEW e \in Devices, ConnectionClosed(d, e)
          PROVE  TypeOK'
      BY <2>6 DEF ConnectionClosed, TypeOK
    <2>7. ASSUME NEW d \in Devices, NEW id \in ChatIds, NEW ts \in Times,
                 UserSends(d, id, ts)
          PROVE  TypeOK'
      <3>1. PICK s \in session[d] :
                /\ session' = [session EXCEPT ![d] = {AfterSeals(s, 1)}]
                /\ net' = net \cup Published(d, s.room_id, {ChatOf(s, id, ts)})
                /\ chats' = chats \cup {[id |-> id, room_id |-> s.room_id,
                                         from |-> s.user_id, ts |-> ts]}
                /\ UNCHANGED <<joined, visits, send_hs, store, subs, due>>
        BY <2>7 DEF UserSends
      <3>2. s \in Sessions /\ s.room_id \in Rooms /\ s.user_id \in Users
        BY DEF TypeOK, Sessions
      <3>3. SessionsOK'
        BY <2>0, <3>1, <3>2, AfterSealsType, OneSession
      <3>4. Published(d, s.room_id, {ChatOf(s, id, ts)}) \subseteq Copies
        BY <3>2, ChatOfType, PublishedType
      <3>5. [id |-> id, room_id |-> s.room_id, from |-> s.user_id, ts |-> ts] \in Chats
        BY <3>2 DEF Chats
      <3> QED
        BY <3>1, <3>3, <3>4, <3>5 DEF TypeOK, SessionsOK
    <2>8. ASSUME NEW d \in Devices, NEW c \in net,
                 DropsMessage(d, c) \/ IgnoresWantSince(d, c)
          PROVE  TypeOK'
      BY <2>8 DEF DropsMessage, IgnoresWantSince, TypeOK
    <2>9. ASSUME NEW d \in Devices, NEW c \in net, DeliverPublicKey(d, c)
          PROVE  TypeOK'
      <3>1. PICK s \in session[d] :
                session' = [session EXCEPT ![d] = {AfterPublicKey(s, c.msg)}]
        BY <2>9 DEF DeliverPublicKey
      <3>2. s \in Sessions /\ c.msg \in Messages /\ c.msg.t = "pk"
        BY <2>9 DEF DeliverPublicKey, TypeOK, Copies
      <3>3. SessionsOK'
        BY <2>0, <3>1, <3>2, AfterPublicKeyType, OneSession
      <3> QED
        BY <2>9, <3>3 DEF DeliverPublicKey, TypeOK, SessionsOK
    <2>10. ASSUME NEW d \in Devices, NEW c \in net, DeliverWantSince(d, c)
           PROVE  TypeOK'
      <3>1. PICK s \in session[d] :
                LET rows == Missing(s, store[d], c.msg.since)
                IN /\ Cardinality(rows) \in 0..(MaxSeq - s.seq)
                   /\ session' = [session EXCEPT ![d] = {AfterSeals(s, Cardinality(rows))}]
                   /\ \E numbering \in Numberings(rows) :
                          net' = (net \ {c}) \cup
                                 Published(d, s.room_id, {HistoryChunk(s, rows, numbering)})
        BY <2>10 DEF DeliverWantSince
      <3> DEFINE rows == Missing(s, store[d], c.msg.since)
                 n == Cardinality(rows)
      <3>2. PICK numbering \in Numberings(rows) :
                net' = (net \ {c}) \cup
                       Published(d, s.room_id, {HistoryChunk(s, rows, numbering)})
        BY <3>1
      <3>3. s \in Sessions /\ s.room_id \in Rooms /\ s.seq \in Nat
        BY DEF TypeOK, Sessions
      <3>4. rows \in SUBSET Rows
        BY DEF TypeOK, Missing, LoadAll
      <3>5. n \in Nat
        BY <3>1, <3>3, ConstantsAssumption
      <3>6. SessionsOK'
        BY <2>0, <3>1, <3>3, <3>5, AfterSealsType, OneSession
      <3>7. HistoryChunk(s, rows, numbering) \in Messages
        BY <3>3, <3>4, <3>5, HistoryChunkType
      <3>8. Published(d, s.room_id, {HistoryChunk(s, rows, numbering)}) \subseteq Copies
        BY <3>3, <3>7, PublishedType
      <3> HIDE DEF rows, n
      <3> QED
        BY <2>10, <3>2, <3>6, <3>8 DEF DeliverWantSince, TypeOK, SessionsOK
    <2>11. ASSUME NEW d \in Devices, NEW c \in net, DeliverChat(d, c)
           PROVE  TypeOK'
      <3>1. PICK s \in session[d] :
                /\ session' = [session EXCEPT ![d] = {AfterChat(s, c.msg)}]
                /\ Saves(d, s, c.msg)
        BY <2>11 DEF DeliverChat
      <3>2. s \in Sessions /\ c.msg \in Messages /\ c.msg.t = "chat"
        BY <2>11 DEF DeliverChat, TypeOK, Copies
      <3>3. SessionsOK'
        BY <2>0, <3>1, <3>2, AfterChatType, OneSession
      <3>4. store' \in [Devices -> SUBSET Rows]
        BY <3>1, <3>2, SavesType
      <3> QED
        BY <2>11, <3>3, <3>4 DEF DeliverChat, TypeOK, SessionsOK
    <2>12. ASSUME NEW d \in Devices, NEW c \in net, DeliverHistoryChunk(d, c)
           PROVE  TypeOK'
      <3>1. PICK s \in session[d] : Saves(d, s, c.msg)
        BY <2>12 DEF DeliverHistoryChunk
      <3>2. s \in Sessions /\ c.msg \in Messages /\ c.msg.t = "history_chunk"
        BY <2>12 DEF DeliverHistoryChunk, TypeOK, Copies
      <3>3. store' \in [Devices -> SUBSET Rows]
        BY <3>1, <3>2, SavesType
      <3> QED
        BY <2>12, <3>3 DEF DeliverHistoryChunk, TypeOK
    <2>13. CASE UNCHANGED vars
      BY <2>13 DEF TypeOK, vars
    <2> QED
      BY <2>1, <2>2, <2>3, <2>4, <2>5, <2>6, <2>7, <2>8, <2>9, <2>10, <2>11,
         <2>12, <2>13 DEF Next
  <1> QED
    BY <1>1, <1>2, PTL DEF Spec

-----------------------------------------------------------------------------
(* The log of messages *)

NetHonest == \A c \in net : Honest(c.msg, SaidRows)

\* Authentic alone is not inductive: a row comes out of a message.
LogInv == Authentic /\ NetHonest /\ UniqueIds(SaidRows)

LEMMA PublishedMsg ==
    ASSUME NEW d, NEW room, NEW msgs, NEW c \in Published(d, room, msgs)
    PROVE  c.msg \in msgs
  BY DEF Published

LEMMA IntroMsg ==
    ASSUME NEW d, NEW current, NEW c \in Intro(d, current)
    PROVE  \E s \in current : c.msg \in {Handshake(s), WantSince(s, store[d])}
  <1>1. PICK s \in current :
            c \in Published(d, s.room_id, {Handshake(s), WantSince(s, store[d])})
    BY DEF Intro
  <1> QED
    BY <1>1, PublishedMsg

LEMMA IntroSays ==
    ASSUME NEW d, NEW current, NEW c \in Intro(d, current)
    PROVE  Honest(c.msg, SaidRows)
  BY IntroMsg, IntroHonest

\* A step that touches neither a store nor the log, and sends what is honest.
LEMMA QuietStep ==
    ASSUME LogInv, UNCHANGED <<store, chats>>,
           \A c \in net' : c \in net \/ Honest(c.msg, SaidRows)
    PROVE  LogInv' /\ UNCHANGED Log!vars
  <1>1. SaidRows' = SaidRows
    BY DEF SaidRows
  <1> QED
    BY <1>1 DEF LogInv, Authentic, NetHonest, Log!vars

\* The user says something new.
LEMMA SayStep ==
    ASSUME LogInv, NEW d \in Devices, NEW id \in ChatIds, NEW ts \in Times,
           UserSends(d, id, ts)
    PROVE  LogInv' /\ Log!Next
  <1>1. PICK s \in session[d] :
            /\ \A x \in chats : x.id # id
            /\ chats' = chats \cup {[id |-> id, room_id |-> s.room_id,
                                     from |-> s.user_id, ts |-> ts]}
            /\ net' = net \cup Published(d, s.room_id, {ChatOf(s, id, ts)})
            /\ store' = store
    BY DEF UserSends
  <1> DEFINE new == [id |-> id, room_id |-> s.room_id, from |-> s.user_id, ts |-> ts]
             row == RowOf(new)
  <1>2. SaidRows' = SaidRows \cup {row}
    BY <1>1 DEF SaidRows
  <1>3. row.id = id /\ \A x \in SaidRows : x.id # row.id
    BY <1>1 DEF SaidRows, RowOf
  <1>4. Honest(ChatOf(s, id, ts), SaidRows')
    BY <1>2, ChatHonest
  <1>5. ASSUME NEW c \in net'
        PROVE  Honest(c.msg, SaidRows')
    <2>1. CASE c \in net
      <3>1. Honest(c.msg, SaidRows) /\ SaidRows \subseteq SaidRows'
        BY <1>2, <2>1 DEF LogInv, NetHonest
      <3> QED
        BY <3>1, HonestGrows
    <2>2. CASE c \in Published(d, s.room_id, {ChatOf(s, id, ts)})
      <3>1. c.msg = ChatOf(s, id, ts)
        BY <2>2, PublishedMsg
      <3> QED
        BY <1>4, <3>1
    <2> QED
      BY <1>1, <2>1, <2>2
  <1> HIDE DEF row
  <1>6. UniqueIds(SaidRows)'
    BY <1>2, <1>3 DEF LogInv, UniqueIds
  <1>7. Authentic'
    BY <1>1, <1>2 DEF LogInv, Authentic
  <1>8. Log!Say(row)
    BY <1>1, <1>2, <1>3 DEF Log!Say
  <1>9. Log!Next
    BY <1>2, <1>8 DEF Log!Next
  <1> QED
    BY <1>5, <1>6, <1>7, <1>9 DEF LogInv, NetHonest

\* A session saves what a copy opens to, in whatever room it was sent.
LEMMA KeepStep ==
    ASSUME TypeOK, LogInv, NEW d \in Devices, NEW c \in net, NEW s,
           c.msg.t \in {"chat", "history_chunk"}, Saves(d, s, c.msg),
           net' = net \ {c}, UNCHANGED chats
    PROVE  LogInv' /\ Log!Next
  <1> DEFINE rows == {Row(s, o) : o \in Opened(s, c.msg)}
  <1>1. store' = [store EXCEPT ![d] = SaveAll(@, rows)]
    BY DEF Saves
  <1>2. rows \subseteq SaidRows
    BY OpenedLogged DEF LogInv, NetHonest
  <1> HIDE DEF rows
  <1>3. SaveAll(store[d], rows) = store[d] \cup rows
    BY <1>2, SaveAllAdds DEF LogInv, Authentic
  <1>4. store' = [store EXCEPT ![d] = @ \cup rows]
    BY <1>1, <1>3 DEF TypeOK
  <1>5. SaidRows' = SaidRows
    BY DEF SaidRows
  <1>6. LogInv'
    BY <1>2, <1>4, <1>5 DEF LogInv, Authentic, NetHonest, TypeOK
  <1>7. Log!Keep(d, rows)
    BY <1>2, <1>4, <1>5 DEF Log!Keep
  <1>8. Log!Next
    BY <1>2, <1>7 DEF Log!Next
  <1> QED
    BY <1>6, <1>8

LEMMA LogStep ==
    ASSUME TypeOK, LogInv, [Next]_vars
    PROVE  LogInv' /\ [Log!Next]_(Log!vars)
  <1>1. ASSUME NEW d \in Devices, NEW r \in Rooms,
               EnterRoom(d, r) \/ EnterRoomGraphical(d, r)
        PROVE  LogInv' /\ UNCHANGED Log!vars
    BY <1>1, QuietStep, IntroSays DEF EnterRoom, EnterRoomGraphical
  <1>2. ASSUME NEW d \in Devices, LeaveRoom(d) \/ IntroTimer(d)
        PROVE  LogInv' /\ UNCHANGED Log!vars
    BY <1>2, QuietStep, IntroSays DEF LeaveRoom, IntroTimer
  <1>3. ASSUME NEW d \in Devices, NEW e \in Devices,
               ConnectionClosed(d, e) \/ \E r \in Rooms : PeerSubscribed(d, e, r)
        PROVE  LogInv' /\ UNCHANGED Log!vars
    BY <1>3, QuietStep DEF ConnectionClosed, PeerSubscribed
  <1>4. ASSUME NEW d \in Devices, NEW s \in due[d], AnswersSubscribed(d, s)
        PROVE  LogInv' /\ UNCHANGED Log!vars
    BY <1>4, QuietStep, IntroSays DEF AnswersSubscribed
  <1>5. ASSUME NEW d \in Devices, NEW c \in net,
               \/ DropsMessage(d, c) \/ IgnoresWantSince(d, c)
               \/ DeliverPublicKey(d, c)
        PROVE  LogInv' /\ UNCHANGED Log!vars
    BY <1>5, QuietStep DEF DropsMessage, IgnoresWantSince, DeliverPublicKey
  <1>6. ASSUME NEW d \in Devices, NEW c \in net, DeliverWantSince(d, c)
        PROVE  LogInv' /\ UNCHANGED Log!vars
    <2>1. UNCHANGED <<store, chats>>
      BY <1>6 DEF DeliverWantSince
    <2>2. PICK s \in session[d] :
              \E numbering \in Numberings(Missing(s, store[d], c.msg.since)) :
                  net' = (net \ {c}) \cup Published(d, s.room_id,
                      {HistoryChunk(s, Missing(s, store[d], c.msg.since), numbering)})
      BY <1>6 DEF DeliverWantSince
    <2> DEFINE rows == Missing(s, store[d], c.msg.since)
    <2>3. PICK numbering \in Numberings(rows) :
              net' = (net \ {c}) \cup
                     Published(d, s.room_id, {HistoryChunk(s, rows, numbering)})
      BY <2>2
    <2>4. store[d] \in SUBSET Rows /\ store[d] \subseteq SaidRows
      BY DEF TypeOK, LogInv, Authentic
    <2>5. Honest(HistoryChunk(s, rows, numbering), SaidRows)
      BY <2>4, HistoryHonest
    <2>6. ASSUME NEW k \in net', k \notin net
          PROVE  Honest(k.msg, SaidRows)
      <3>1. k.msg = HistoryChunk(s, rows, numbering)
        BY <2>3, <2>6, PublishedMsg
      <3> QED
        BY <2>5, <3>1
    <2> QED
      BY <2>1, <2>6, QuietStep
  <1>7. ASSUME UNCHANGED vars
        PROVE  LogInv' /\ UNCHANGED Log!vars
    BY <1>7, QuietStep DEF vars
  <1>8. ASSUME NEW d \in Devices, NEW c \in net,
               DeliverChat(d, c) \/ DeliverHistoryChunk(d, c)
        PROVE  LogInv' /\ Log!Next
    <2>1. PICK s \in session[d] : Saves(d, s, c.msg)
      BY <1>8 DEF DeliverChat, DeliverHistoryChunk
    <2> QED
      BY <1>8, <2>1, KeepStep DEF DeliverChat, DeliverHistoryChunk
  <1>9. ASSUME NEW d \in Devices, NEW id \in ChatIds, NEW ts \in Times,
               UserSends(d, id, ts)
        PROVE  LogInv' /\ Log!Next
    BY <1>9, SayStep
  <1> QED
    BY <1>1, <1>2, <1>3, <1>4, <1>5, <1>6, <1>7, <1>8, <1>9 DEF Next

LEMMA LogInit == Init => LogInv /\ Log!Init
  <1> SUFFICES ASSUME Init PROVE LogInv /\ Log!Init
    OBVIOUS
  <1>1. SaidRows = {}
    BY DEF Init, SaidRows
  <1> QED
    BY <1>1 DEF Init, LogInv, Authentic, NetHonest, UniqueIds, Log!Init

LEMMA LogInvariant == Spec => []LogInv
  <1>1. TypeOK /\ LogInv /\ [Next]_vars => LogInv'
    BY LogStep
  <1> QED
    BY <1>1, LogInit, TypeCorrect, PTL DEF Spec

\* No store ever holds a message its author did not send in that room, although
\* sessions are given the messages of every room the process ever entered, ask
\* for history in one and are answered in another.
THEOREM StoresAuthentic == Spec => []Authentic
  <1>1. LogInv => Authentic
    BY DEF LogInv
  <1> QED
    BY <1>1, LogInvariant, PTL

\* The stores of all devices implement the log of ChatLog: entering and leaving
\* rooms does not change what a save does.
THEOREM StoresImplementLog == Spec => ImplementsChatLog
  <1>1. TypeOK /\ LogInv /\ [Next]_vars => [Log!Next]_(Log!vars)
    BY LogStep
  <1> QED
    BY <1>1, LogInit, LogInvariant, TypeCorrect, PTL
       DEF Spec, ImplementsChatLog, Log!Spec

-----------------------------------------------------------------------------
(* The key is shared with a peer *)

\* A key on its way to a device is another device's.
ForeignKeys ==
    \A c \in net : c.msg.t = "pk" => c.msg.pk \in Devices \ {c.to}

OwnKeyPair == \A d \in Devices : \A s \in session[d] : s.kp = d

PeerInv == EstablishedWithPeer /\ ForeignKeys /\ OwnKeyPair

\* What EstablishedWithPeer and OwnKeyPair say of one session of d.
PeerSession(d, s) ==
    /\ s.kp = d
    /\ s.ready => \E e \in Devices \ {d} :
           /\ s.peer_pk = {e}
           /\ s.aes = {DeriveKey(s.room_id, d, e)}

\* Only an intro carries a key, its own.
LEMMA IntroForeign ==
    ASSUME NEW d \in Devices, NEW current, \A s \in current : s.kp = d,
           NEW c \in Intro(d, current), c.msg.t = "pk"
    PROVE  c.msg.pk \in Devices \ {c.to}
  <1>1. c.to \in Devices \ {d}
    BY DEF Intro, Published
  <1>2. PICK s \in current : c.msg = Handshake(s)
    BY IntroMsg DEF WantSince
  <1> QED
    BY <1>1, <1>2 DEF Handshake

\* A step changes the session of one device at most, to one that has its own
\* key pair and, if ready, a peer's key.
LEMMA PeerStepOf ==
    ASSUME TypeOK, PeerInv, NEW d \in Devices, NEW current,
           session' = [session EXCEPT ![d] = current],
           \A s \in current : PeerSession(d, s),
           \A c \in net' : \/ c \in net
                           \/ c.msg.t = "pk" => c.msg.pk \in Devices \ {c.to}
    PROVE  PeerInv'
  <1>1. \A e \in Devices : session'[e] = IF e = d THEN current ELSE session[e]
    BY DEF TypeOK
  <1>2. \A e \in Devices : \A s \in session[e] : PeerSession(e, s)
    BY DEF PeerInv, EstablishedWithPeer, OwnKeyPair, PeerSession
  <1>3. \A e \in Devices : \A s \in session'[e] : PeerSession(e, s)
    BY <1>1, <1>2
  <1>4. OwnKeyPair'
    BY <1>3 DEF OwnKeyPair, PeerSession
  <1>5. EstablishedWithPeer'
    <2> SUFFICES ASSUME NEW e \in Devices, NEW s \in session'[e], s.ready
                 PROVE  \E x \in Devices \ {e} :
                            /\ s.peer_pk = {x}
                            /\ s.aes = {DeriveKey(s.room_id, e, x)}
      BY DEF EstablishedWithPeer
    <2> QED
      BY <1>3 DEF PeerSession
  <1>6. ForeignKeys'
    BY DEF PeerInv, ForeignKeys
  <1> QED
    BY <1>4, <1>5, <1>6 DEF PeerInv

LEMMA PeerStep ==
    ASSUME TypeOK, PeerInv, [Next]_vars
    PROVE  PeerInv'
  <1>1. \A d \in Devices : \A s \in session[d] : s \in Sessions /\ PeerSession(d, s)
    BY DEF TypeOK, PeerInv, EstablishedWithPeer, OwnKeyPair, PeerSession
  <1>2. ASSUME UNCHANGED session,
               \A c \in net' : \/ c \in net
                               \/ c.msg.t = "pk" => c.msg.pk \in Devices \ {c.to}
        PROVE  PeerInv'
    BY <1>2 DEF PeerInv, EstablishedWithPeer, ForeignKeys, OwnKeyPair
  \* What follows the handshake leaves the keys alone.
  <1>3. ASSUME NEW d \in Devices, NEW s \in session[d], NEW z,
               z.kp = s.kp, z.ready = s.ready, z.room_id = s.room_id,
               z.peer_pk = s.peer_pk, z.aes = s.aes,
               session' = [session EXCEPT ![d] = {z}],
               \A c \in net' : c \in net \/ c.msg.t # "pk"
        PROVE  PeerInv'
    <2> DEFINE current == {z}
    <2>1. \A x \in current : PeerSession(d, x)
      BY <1>1, <1>3 DEF PeerSession
    <2>2. session' = [session EXCEPT ![d] = current]
      BY <1>3
    <2> HIDE DEF current
    <2> QED
      BY <1>3, <2>1, <2>2, PeerStepOf
  <1>4. ASSUME NEW d \in Devices, NEW r \in Rooms,
               EnterRoom(d, r) \/ EnterRoomGraphical(d, r)
        PROVE  PeerInv'
    <2> DEFINE current == {NewSession(r, User(d, visits'[d]), d)}
    <2>1. session' = [session EXCEPT ![d] = current]
      BY <1>4 DEF EnterRoom, EnterRoomGraphical
    <2>2. \A s \in current : PeerSession(d, s) /\ s.kp = d
      BY DEF PeerSession, NewSession
    <2> HIDE DEF current
    <2>3. session'[d] = current
      BY <2>1 DEF TypeOK
    <2>4. \A c \in net' : c \in net \/ c \in Intro(d, current)
      BY <1>4, <2>3 DEF EnterRoom, EnterRoomGraphical
    <2> QED
      BY <2>1, <2>2, <2>4, IntroForeign, PeerStepOf
  <1>5. ASSUME NEW d \in Devices, LeaveRoom(d)
        PROVE  PeerInv'
    <2> DEFINE current == {}
    <2>1. session' = [session EXCEPT ![d] = current] /\ net' = net
      BY <1>5 DEF LeaveRoom
    <2>2. \A s \in current : PeerSession(d, s)
      OBVIOUS
    <2> HIDE DEF current
    <2> QED
      BY <2>1, <2>2, PeerStepOf
  <1>6. ASSUME NEW d \in Devices,
               IntroTimer(d) \/ \E s \in due[d] : AnswersSubscribed(d, s)
        PROVE  PeerInv'
    <2>1. UNCHANGED session
          /\ \A c \in net' : c \in net \/ c \in Intro(d, session[d])
      BY <1>6 DEF IntroTimer, AnswersSubscribed
    <2>2. \A s \in session[d] : s.kp = d
      BY DEF PeerInv, OwnKeyPair
    <2> QED
      BY <1>2, <2>1, <2>2, IntroForeign
  <1>7. ASSUME NEW d \in Devices, NEW id \in ChatIds, NEW ts \in Times,
               UserSends(d, id, ts)
        PROVE  PeerInv'
    <2>1. PICK s \in session[d] :
              /\ session' = [session EXCEPT ![d] = {AfterSeals(s, 1)}]
              /\ net' = net \cup Published(d, s.room_id, {ChatOf(s, id, ts)})
      BY <1>7 DEF UserSends
    <2>2. \A c \in net' : c \in net \/ c.msg.t # "pk"
      BY <2>1, PublishedMsg DEF ChatOf
    <2>3. ASSUME NEW z, z = AfterSeals(s, 1)
          PROVE  /\ z.kp = s.kp /\ z.ready = s.ready /\ z.room_id = s.room_id
                 /\ z.peer_pk = s.peer_pk /\ z.aes = s.aes
      BY <1>1, <2>3 DEF AfterSeals, Sessions
    <2> QED
      BY <1>3, <2>1, <2>2, <2>3
  <1>8. ASSUME NEW d \in Devices, NEW c \in net, DeliverPublicKey(d, c)
        PROVE  PeerInv'
    <2>1. PICK s \in session[d] :
              session' = [session EXCEPT ![d] = {AfterPublicKey(s, c.msg)}]
      BY <1>8 DEF DeliverPublicKey
    <2>2. c.msg.pk \in Devices \ {d} /\ net' = net \ {c}
      BY <1>8 DEF DeliverPublicKey, Receives, PeerInv, ForeignKeys
    <2>3. PeerSession(d, AfterPublicKey(s, c.msg))
      BY <1>1, <2>2 DEF AfterPublicKey, SetPeerPk, PeerSession, Sessions
    <2> DEFINE current == {AfterPublicKey(s, c.msg)}
    <2>4. session' = [session EXCEPT ![d] = current]
          /\ \A x \in current : PeerSession(d, x)
      BY <2>1, <2>3
    <2> HIDE DEF current
    <2> QED
      BY <2>2, <2>4, PeerStepOf
  <1>9. ASSUME NEW d \in Devices, NEW c \in net, DeliverWantSince(d, c)
        PROVE  PeerInv'
    <2>1. PICK s \in session[d] :
              /\ session' = [session EXCEPT ![d] =
                     {AfterSeals(s, Cardinality(Missing(s, store[d], c.msg.since)))}]
              /\ \E numbering :
                     net' = (net \ {c}) \cup Published(d, s.room_id,
                         {HistoryChunk(s, Missing(s, store[d], c.msg.since), numbering)})
      BY <1>9 DEF DeliverWantSince
    <2>2. \A k \in net' : k \in net \/ k.msg.t # "pk"
      BY <2>1, PublishedMsg DEF HistoryChunk
    <2>3. ASSUME NEW n, NEW z, z = AfterSeals(s, n)
          PROVE  /\ z.kp = s.kp /\ z.ready = s.ready /\ z.room_id = s.room_id
                 /\ z.peer_pk = s.peer_pk /\ z.aes = s.aes
      BY <1>1, <2>3 DEF AfterSeals, Sessions
    <2> QED
      BY <1>3, <2>1, <2>2, <2>3
  <1>10. ASSUME NEW d \in Devices, NEW c \in net, DeliverChat(d, c)
         PROVE  PeerInv'
    <2>1. PICK s \in session[d] :
              session' = [session EXCEPT ![d] = {AfterChat(s, c.msg)}]
      BY <1>10 DEF DeliverChat
    <2>2. net' = net \ {c}
      BY <1>10 DEF DeliverChat
    <2>3. ASSUME NEW z, z = AfterChat(s, c.msg)
          PROVE  /\ z.kp = s.kp /\ z.ready = s.ready /\ z.room_id = s.room_id
                 /\ z.peer_pk = s.peer_pk /\ z.aes = s.aes
      BY <1>1, <2>3 DEF AfterChat, Sessions
    <2> QED
      BY <1>3, <2>1, <2>2, <2>3
  <1>11. ASSUME NEW d \in Devices, NEW c \in net,
                \/ DropsMessage(d, c) \/ IgnoresWantSince(d, c)
                \/ DeliverHistoryChunk(d, c)
         PROVE  PeerInv'
    BY <1>2, <1>11 DEF DropsMessage, IgnoresWantSince, DeliverHistoryChunk
  <1>12. ASSUME NEW d \in Devices, NEW e \in Devices,
                ConnectionClosed(d, e) \/ \E r \in Rooms : PeerSubscribed(d, e, r)
         PROVE  PeerInv'
    BY <1>2, <1>12 DEF ConnectionClosed, PeerSubscribed
  <1>13. CASE UNCHANGED vars
    BY <1>2, <1>13 DEF vars
  <1> QED
    BY <1>4, <1>5, <1>6, <1>7, <1>8, <1>9, <1>10, <1>11, <1>12, <1>13 DEF Next

\* A ready session holds the key of its room shared with another device, in
\* whatever room, and however long ago, that device sent its key.
THEOREM KeysSharedWithPeer == Spec => []EstablishedWithPeer
  <1>1. Init => PeerInv
    BY DEF Init, PeerInv, EstablishedWithPeer, ForeignKeys, OwnKeyPair
  <1>2. TypeOK /\ PeerInv /\ [Next]_vars => PeerInv'
    BY PeerStep
  <1>3. PeerInv => EstablishedWithPeer
    BY DEF PeerInv
  <1> QED
    BY <1>1, <1>2, <1>3, TypeCorrect, PTL DEF Spec
=============================================================================
