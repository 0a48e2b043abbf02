--------------------------- MODULE CliRoomProofs ---------------------------
(***************************************************************************)
(* What holds of the command-line chat for every number of devices, rooms, *)
(* chats and restarts: types, stores that are authentic, only grow and     *)
(* implement the log of ChatLog, keys that are another process's and never *)
(* forgotten while they are owed, sequence numbers used once.              *)
(***************************************************************************)
EXTENDS CliRoom, ChatSessionProofs

-----------------------------------------------------------------------------
(* Types of the operators of CliRoom *)

LEMMA NoProcessType ==
    ASSUME NEW d \in Devices
    PROVE  NoProcess(d) \in Sessions
  <1>1. (CHOOSE r \in Rooms : TRUE) \in Rooms
    BY ConstantsAssumption
  <1>2. <<d, 0>> \in Users
    BY DEF Users
  <1> QED
    BY <1>1, <1>2, NewSessionType DEF NoProcess

LEMMA PublishedType ==
    ASSUME TypeOK, NEW d \in Devices, NEW msgs \in SUBSET Messages
    PROVE  Published(d, msgs) \subseteq Copies
  BY DEF Published, Recipients, Copies, TypeOK, Sessions

LEMMA IntroType ==
    ASSUME TypeOK, NEW d \in Devices
    PROVE  Intro(d) \subseteq Copies
  <1>1. session[d] \in Sessions /\ store[d] \in SUBSET Rows
    BY DEF TypeOK
  <1> QED
    BY <1>1, HandshakeType, WantSinceType, PublishedType DEF Intro

LEMMA UserType ==
    ASSUME TypeOK, NEW d \in Devices
    PROVE  User(d) \in Users
  BY DEF TypeOK, User, Users

-----------------------------------------------------------------------------
(* Type correctness *)

LEMMA SavesType ==
    ASSUME TypeOK, NEW d \in Devices, NEW m \in Messages,
           m.t \in {"chat", "history_chunk"}, Saves(d, m)
    PROVE  store' \in [Devices -> SUBSET Rows]
  <1> DEFINE opened == Opened(session[d], m)
             rows == {Row(session[d], o) : o \in opened}
  <1>1. rows \subseteq Rows
    BY OpenedType DEF TypeOK
  <1>2. SaveAll(store[d], rows) \subseteq Rows
    BY <1>1 DEF SaveAll, TypeOK
  <1>3. store' = [store EXCEPT ![d] = SaveAll(@, rows)]
    BY DEF Saves
  <1> HIDE DEF rows
  <1> QED
    BY <1>1, <1>2, <1>3 DEF TypeOK

\* Every variable keeps its type: the session's u64, Option and set fields, the
\* columns of the message store, and the fields of the messages on their way.
THEOREM TypeCorrect == Spec => []TypeOK
  <1>1. Init => TypeOK
    BY NoProcessType DEF Init, TypeOK
  <1>2. TypeOK /\ [Next]_vars => TypeOK'
    <2> SUFFICES ASSUME TypeOK, [Next]_vars PROVE TypeOK'
      OBVIOUS
    <2>1. ASSUME NEW d \in Devices, NEW r \in Rooms, Start(d, r)
          PROVE  TypeOK'
      <3>1. <<d, run[d] + 1>> \in Users /\ run[d] + 1 \in Nat
        BY DEF TypeOK, Users
      <3>2. NewSession(r, <<d, run[d] + 1>>, d) \in Sessions
        BY <3>1, NewSessionType
      <3> QED
        BY <2>1, <3>1, <3>2 DEF Start, TypeOK
    <2>2. ASSUME NEW d \in Devices, Stop(d)
          PROVE  TypeOK'
      BY <2>2, NoProcessType DEF Stop, TypeOK
    <2>3. ASSUME NEW d \in Devices, NEW e \in Devices, PeerSubscribed(d, e)
          PROVE  TypeOK'
      <3>1. [peer |-> User(e), room |-> session[e].room_id] \in Subscriptions
        BY UserType DEF Subscriptions, TypeOK, Sessions
      <3> QED
        BY <2>3, <3>1 DEF PeerSubscribed, TypeOK
    <2>4. ASSUME NEW d \in Devices, NEW s \in due[d], AnswersSubscribed(d, s)
          PROVE  TypeOK'
      BY <2>4, IntroType DEF AnswersSubscribed, TypeOK
    <2>5. ASSUME NEW d \in Devices, NEW e \in Devices, PeerIdentified(d, e)
          PROVE  TypeOK'
      BY <2>5, IntroType, UserType DEF PeerIdentified, TypeOK
    <2>6. ASSUME NEW d \in Devices, NEW s \in subs[d], ConnectionClosed(d, s)
          PROVE  TypeOK'
      BY <2>6 DEF ConnectionClosed, TypeOK
    <2>7. ASSUME NEW d \in Devices, IntroTimer(d)
          PROVE  TypeOK'
      BY <2>7, IntroType DEF IntroTimer, TypeOK
    <2>8. ASSUME NEW d \in Devices, NEW id \in ChatIds, NEW ts \in Times,
                 UserSends(d, id, ts)
          PROVE  TypeOK'
      <3> DEFINE s == session[d]
      <3>1. s \in Sessions
        BY DEF TypeOK
      <3>2. AfterSeals(s, 1) \in Sessions
        BY <3>1, AfterSealsType
      <3>3. Published(d, {ChatOf(s, id, ts)}) \subseteq Copies
        BY <3>1, ChatOfType, PublishedType
      <3>4. [id |-> id, room_id |-> s.room_id, from |-> s.user_id, ts |-> ts] \in Chats
        BY <3>1 DEF Chats, Sessions
      <3> QED
        BY <2>8, <3>2, <3>3, <3>4 DEF UserSends, TypeOK
    <2>9. ASSUME NEW d \in Devices, NEW c \in net, DeliverPublicKey(d, c)
          PROVE  TypeOK'
      <3>1. AfterPublicKey(session[d], c.msg) \in Sessions
        BY <2>9, AfterPublicKeyType
           DEF DeliverPublicKey, Receives, TypeOK, Copies
      <3> QED
        BY <2>9, <3>1 DEF DeliverPublicKey, TypeOK
    <2>10. ASSUME NEW d \in Devices, NEW c \in net, DeliverWantSince(d, c)
           PROVE  TypeOK'
      <3> DEFINE s == session[d]
                 rows == Missing(s, store[d], c.msg.since)
                 n == Cardinality(rows)
      <3>1. s \in Sessions /\ rows \in SUBSET Rows
        BY DEF TypeOK, Missing, LoadAll
      <3>2. CASE s.ready
        <4>1. PICK numbering \in Numberings(rows) :
                 /\ n \in 0..(MaxSeq - s.seq)
                 /\ session' = [session EXCEPT ![d] = AfterSeals(s, n)]
                 /\ net' = (net \ {c}) \cup
                               Published(d, {HistoryChunk(s, rows, numbering)})
          BY <2>10, <3>2 DEF DeliverWantSince
        <4>2. n \in Nat
          BY <3>1, <4>1, ConstantsAssumption DEF Sessions
        <4>3. AfterSeals(s, n) \in Sessions
          BY <3>1, <4>2, AfterSealsType
        <4>4. HistoryChunk(s, rows, numbering) \in Messages
          BY <3>1, <4>2, HistoryChunkType
        <4>5. Published(d, {HistoryChunk(s, rows, numbering)}) \subseteq Copies
          BY <4>4, PublishedType
        <4> HIDE DEF rows, n, s
        <4> QED
          BY <2>10, <4>1, <4>3, <4>5 DEF DeliverWantSince, TypeOK
      <3>3. CASE ~s.ready
        BY <2>10, <3>3 DEF DeliverWantSince, TypeOK
      <3> QED
        BY <3>2, <3>3
    <2>11. ASSUME NEW d \in Devices, NEW c \in net, DeliverChat(d, c)
           PROVE  TypeOK'
      <3>1. c.msg \in Messages /\ c.msg.t = "chat"
        BY <2>11 DEF DeliverChat, Receives, TypeOK, Copies
      <3>2. AfterChat(session[d], c.msg) \in Sessions
        BY <3>1, AfterChatType DEF TypeOK
      <3>3. store' \in [Devices -> SUBSET Rows]
        BY <2>11, <3>1, SavesType DEF DeliverChat
      <3> QED
        BY <2>11, <3>2, <3>3 DEF DeliverChat, TypeOK
    <2>12. ASSUME NEW d \in Devices, NEW c \in net, DeliverHistoryChunk(d, c)
           PROVE  TypeOK'
      <3>1. c.msg \in Messages /\ c.msg.t = "history_chunk"
        BY <2>12 DEF DeliverHistoryChunk, Receives, TypeOK, Copies
      <3>2. store' \in [Devices -> SUBSET Rows]
        BY <2>12, <3>1, SavesType DEF DeliverHistoryChunk
      <3> QED
        BY <2>12, <3>2 DEF DeliverHistoryChunk, TypeOK
    <2>13. ASSUME NEW c \in net, Expire(c) \/ Lose(c)
           PROVE  TypeOK'
      BY <2>13 DEF Expire, Lose, TypeOK
    <2>14. CASE UNCHANGED vars
      BY <2>14 DEF TypeOK, vars
    <2> QED
      BY <2>1, <2>2, <2>3, <2>4, <2>5, <2>6, <2>7, <2>8, <2>9, <2>10, <2>11,
         <2>12, <2>13, <2>14 DEF Next
  <1> QED
    BY <1>1, <1>2, PTL DEF Spec

-----------------------------------------------------------------------------
(* The log of messages *)

NetHonest == \A c \in net : Honest(c.msg, SaidRows)

\* Authentic alone is not inductive: a row comes out of a message.
LogInv == Authentic /\ NetHonest /\ UniqueIds(SaidRows)

LEMMA PublishedMsg ==
    ASSUME NEW d, NEW msgs, NEW c \in Published(d, msgs)
    PROVE  c.msg \in msgs
  BY DEF Published

LEMMA IntroMsg ==
    ASSUME NEW d, NEW c \in Intro(d)
    PROVE  Honest(c.msg, SaidRows)
  <1>1. c.msg \in {Handshake(session[d]), WantSince(session[d], store[d])}
    BY PublishedMsg DEF Intro
  <1> QED
    BY <1>1, IntroHonest

\* A step that touches neither a store nor the log, and sends what is honest.
LEMMA QuietStep ==
    ASSUME LogInv, UNCHANGED <<store, chats>>,
           \A c \in net' : c \in net \/ Honest(c.msg, SaidRows)
    PROVE  LogInv' /\ UNCHANGED Log!vars
  <1>1. SaidRows' = SaidRows
    BY DEF SaidRows
  <1> QED
    BY <1>1 DEF LogInv, Authentic, NetHonest, Log!vars

\* The user says something new.
LEMMA SayStep ==
    ASSUME LogInv, NEW d \in Devices, NEW id \in ChatIds, NEW ts \in Times,
           UserSends(d, id, ts)
    PROVE  LogInv' /\ Log!Next
  <1> DEFINE s == session[d]
             new == [id |-> id, room_id |-> s.room_id, from |-> s.user_id, ts |-> ts]
             row == RowOf(new)
  <1>1. /\ \A x \in chats : x.id # id
        /\ chats' = chats \cup {new}
        /\ store' = store
        /\ net' = net \cup Published(d, {ChatOf(s, id, ts)})
    BY DEF UserSends
  <1>2. SaidRows' = SaidRows \cup {row}
    BY <1>1 DEF SaidRows
  <1>3. row.id = id /\ \A x \in SaidRows : x.id # row.id
    BY <1>1 DEF SaidRows, RowOf
  <1>4. Honest(ChatOf(s, id, ts), SaidRows')
    BY <1>2, ChatHonest
  <1>5. ASSUME NEW c \in net'
        PROVE  Honest(c.msg, SaidRows')
    <2>1. CASE c \in net
      <3>1. Honest(c.msg, SaidRows) /\ SaidRows \subseteq SaidRows'
        BY <1>2, <2>1 DEF LogInv, NetHonest
      <3> QED
        BY <3>1, HonestGrows
    <2>2. CASE c \in Published(d, {ChatOf(s, id, ts)})
      <3>1. c.msg = ChatOf(s, id, ts)
        BY <2>2, PublishedMsg
      <3> QED
        BY <1>4, <3>1
    <2> QED
      BY <1>1, <2>1, <2>2
  <1> HIDE DEF row
  <1>6. UniqueIds(SaidRows)'
    BY <1>2, <1>3 DEF LogInv, UniqueIds
  <1>7. Authentic'
    BY <1>1, <1>2 DEF LogInv, Authentic
  <1>8. Log!Say(row)
    BY <1>1, <1>2, <1>3 DEF Log!Say
  <1>9. Log!Next
    BY <1>2, <1>8 DEF Log!Next
  <1> QED
    BY <1>5, <1>6, <1>7, <1>9 DEF LogInv, NetHonest

\* A device saves what a copy opens to.
LEMMA KeepStep ==
    ASSUME TypeOK, LogInv, NEW d \in Devices, NEW c \in net,
           c.msg.t \in {"chat", "history_chunk"}, Saves(d, c.msg),
           net' = net \ {c}, UNCHANGED chats
    PROVE  LogInv' /\ Log!Next
  <1> DEFINE rows == {Row(session[d], o) : o \in Opened(session[d], c.msg)}
  <1>1. store' = [store EXCEPT ![d] = SaveAll(@, rows)]
    BY DEF Saves
  <1>2. rows \subseteq SaidRows
    BY OpenedLogged DEF LogInv, NetHonest
  <1> HIDE DEF rows
  <1>3. SaveAll(store[d], rows) = store[d] \cup rows
    BY <1>2, SaveAllAdds DEF LogInv, Authentic
  <1>4. store' = [store EXCEPT ![d] = @ \cup rows]
    BY <1>1, <1>3 DEF TypeOK
  <1>5. SaidRows' = SaidRows
    BY DEF SaidRows
  <1>6. LogInv'
    BY <1>2, <1>4, <1>5 DEF LogInv, Authentic, NetHonest, TypeOK
  <1>7. Log!Keep(d, rows)
    BY <1>2, <1>4, <1>5 DEF Log!Keep
  <1>8. Log!Next
    BY <1>2, <1>7 DEF Log!Next
  <1> QED
    BY <1>6, <1>8

LEMMA LogStep ==
    ASSUME TypeOK, LogInv, [Next]_vars
    PROVE  LogInv' /\ [Log!Next]_(Log!vars)
  <1>1. ASSUME NEW d \in Devices, NEW r \in Rooms, Start(d, r)
        PROVE  LogInv' /\ UNCHANGED Log!vars
    BY <1>1, QuietStep DEF Start
  <1>2. ASSUME NEW d \in Devices, Stop(d)
        PROVE  LogInv' /\ UNCHANGED Log!vars
    BY <1>2, QuietStep DEF Stop
  <1>3. ASSUME NEW d \in Devices, NEW e \in Devices,
               PeerSubscribed(d, e) \/ PeerIdentified(d, e)
        PROVE  LogInv' /\ UNCHANGED Log!vars
    BY <1>3, QuietStep, IntroMsg DEF PeerSubscribed, PeerIdentified
  <1>4. ASSUME NEW d \in Devices, NEW s,
               AnswersSubscribed(d, s) \/ ConnectionClosed(d, s) \/ IntroTimer(d)
        PROVE  LogInv' /\ UNCHANGED Log!vars
    BY <1>4, QuietStep, IntroMsg DEF AnswersSubscribed, ConnectionClosed, IntroTimer
  <1>5. ASSUME NEW d \in Devices, NEW c \in net, DeliverPublicKey(d, c)
        PROVE  LogInv' /\ UNCHANGED Log!vars
    BY <1>5, QuietStep DEF DeliverPublicKey
  <1>6. ASSUME NEW d \in Devices, NEW c \in net, DeliverWantSince(d, c)
        PROVE  LogInv' /\ UNCHANGED Log!vars
    <2> DEFINE s == session[d]
               rows == Missing(s, store[d], c.msg.since)
    <2>1. UNCHANGED <<store, chats>>
      BY <1>6 DEF DeliverWantSince
    <2>2. CASE s.ready
      <3>1. PICK numbering \in Numberings(rows) :
               net' = (net \ {c}) \cup
                          Published(d, {HistoryChunk(s, rows, numbering)})
        BY <1>6, <2>2 DEF DeliverWantSince
      <3>2. store[d] \in SUBSET Rows /\ store[d] \subseteq SaidRows
        BY DEF TypeOK, LogInv, Authentic
      <3>3. Honest(HistoryChunk(s, rows, numbering), SaidRows)
        BY <3>2, HistoryHonest
      <3>4. ASSUME NEW k \in net', k \notin net
            PROVE  Honest(k.msg, SaidRows)
        <4>1. k.msg = HistoryChunk(s, rows, numbering)
          BY <3>1, <3>4, PublishedMsg
        <4> QED
          BY <3>3, <4>1
      <3> QED
        BY <2>1, <3>4, QuietStep
    <2>3. CASE ~s.ready
      BY <1>6, <2>1, <2>3, QuietStep DEF DeliverWantSince
    <2> QED
      BY <2>2, <2>3
  <1>7. ASSUME NEW c \in net, Expire(c) \/ Lose(c)
        PROVE  LogInv' /\ UNCHANGED Log!vars
    BY <1>7, QuietStep DEF Expire, Lose
  <1>8. ASSUME UNCHANGED vars
        PROVE  LogInv' /\ UNCHANGED Log!vars
    BY <1>8, QuietStep DEF vars
  <1>9. ASSUME NEW d \in Devices, NEW c \in net,
               DeliverChat(d, c) \/ DeliverHistoryChunk(d, c)
        PROVE  LogInv' /\ Log!Next
    BY <1>9, KeepStep DEF DeliverChat, DeliverHistoryChunk, Receives
  <1>10. ASSUME NEW d \in Devices, NEW id \in ChatIds, NEW ts \in Times,
                UserSends(d, id, ts)
         PROVE  LogInv' /\ Log!Next
    BY <1>10, SayStep
  <1> QED
    BY <1>1, <1>2, <1>3, <1>4, <1>5, <1>6, <1>7, <1>8, <1>9, <1>10 DEF Next

LEMMA LogInit == Init => LogInv /\ Log!Init
  <1> SUFFICES ASSUME Init PROVE LogInv /\ Log!Init
    OBVIOUS
  <1>1. SaidRows = {}
    BY DEF Init, SaidRows
  <1> QED
    BY <1>1 DEF Init, LogInv, Authentic, NetHonest, UniqueIds, Log!Init

LEMMA LogInvariant == Spec => []LogInv
  <1>1. TypeOK /\ LogInv /\ [Next]_vars => LogInv'
    BY LogStep
  <1> QED
    BY <1>1, LogInit, TypeCorrect, PTL DEF Spec

\* No store ever holds a message its author did not send in that room, with
\* that text, at that time: however often devices restart, change rooms, and
\* hand on each other's messages as history.
THEOREM StoresAuthentic == Spec => []Authentic
  <1>1. LogInv => Authentic
    BY DEF LogInv
  <1> QED
    BY <1>1, LogInvariant, PTL

\* The stores of all devices implement the log of ChatLog: a save, although it
\* is an INSERT OR REPLACE of what came over the network, is a Keep, a line
\* from a keyboard is a Say, and everything else leaves log and stores alone.
THEOREM StoresImplementLog == Spec => ImplementsChatLog
  <1>1. TypeOK /\ LogInv /\ [Next]_vars => [Log!Next]_(Log!vars)
    BY LogStep
  <1> QED
    BY <1>1, LogInit, LogInvariant, TypeCorrect, PTL
       DEF Spec, ImplementsChatLog, Log!Spec

\* No step of the chat removes a stored message or changes a field of one,
\* although each save is an INSERT OR REPLACE and history repeats messages.
THEOREM StoresOnlyGrow == Spec => StoreOnlyGrows
  <1>1. ASSUME TypeOK, [Log!Next]_(Log!vars)
        PROVE  \A d \in Devices : store[d] \subseteq store'[d]
    BY <1>1 DEF Log!Next, Log!vars, Log!Say, Log!Keep, TypeOK
  <1>2. TypeOK /\ LogInv /\ [Next]_vars =>
            [\A d \in Devices : store[d] \subseteq store'[d]]_vars
    BY <1>1, LogStep
  <1> QED
    BY <1>2, LogInvariant, TypeCorrect, PTL DEF Spec, StoreOnlyGrows

-----------------------------------------------------------------------------
(* The key is another process's *)

\* A key on its way is that of the device whose process sent it.
StartedKey(c) ==
    c.msg.t = "pk" => \E e \in Devices : \E n \in 1..run[e] :
                          c.msg.from = <<e, n>> /\ c.msg.pk = e

StartedKeys == \A c \in net : StartedKey(c)

\* A running process has started, and its session goes by its user id.
StartedUsers ==
    \A d \in Devices : up[d] => run[d] >= 1 /\ session[d].user_id = <<d, run[d]>>

OwnKeyPair == \A d \in Devices : session[d].kp = d

\* What a session s of d is to hold once it is ready.
KeyOfAnother(d, s) ==
    \E e \in Devices : \E n \in 1..run[e] :
        /\ <<e, n>> # User(d)
        /\ s.peer_pk = {e}
        /\ s.aes = {DeriveKey(s.room_id, d, e)}

PeerInv == KeyOfAnotherProcess /\ StartedKeys /\ StartedUsers /\ OwnKeyPair

\* Only an intro carries a key, its sender's.
LEMMA IntroStarted ==
    ASSUME TypeOK, StartedUsers, OwnKeyPair, NEW d \in Devices, up[d], NEW c \in Intro(d)
    PROVE  StartedKey(c)
  <1>1. c.msg \in {Handshake(session[d]), WantSince(session[d], store[d])}
    BY PublishedMsg DEF Intro
  <1>2. session[d].user_id = <<d, run[d]>> /\ session[d].kp = d /\ run[d] \in 1..run[d]
    BY DEF StartedUsers, OwnKeyPair, TypeOK
  <1>3. CASE c.msg = Handshake(session[d])
    BY <1>2, <1>3 DEF StartedKey, Handshake
  <1>4. CASE c.msg = WantSince(session[d], store[d])
    BY <1>4 DEF StartedKey, WantSince
  <1> QED
    BY <1>1, <1>3, <1>4

\* A process that goes on running changes its session, but for its key pair
\* and its user id.
LEMMA PeerKept ==
    ASSUME TypeOK, PeerInv, NEW d \in Devices, NEW s,
           session' = [session EXCEPT ![d] = s],
           s.kp = session[d].kp, s.user_id = session[d].user_id,
           s.ready => KeyOfAnother(d, s),
           \A c \in net' : c \in net \/ c.msg.t # "pk",
           UNCHANGED <<up, run>>
    PROVE  PeerInv'
  <1>1. \A e \in Devices : session'[e] = IF e = d THEN s ELSE session[e]
    BY DEF TypeOK
  <1>2. OwnKeyPair' /\ StartedUsers'
    BY <1>1 DEF PeerInv, OwnKeyPair, StartedUsers
  <1>3. StartedKeys'
    BY DEF PeerInv, StartedKeys, StartedKey
  <1>4. ASSUME NEW e \in Devices, session'[e].ready
        PROVE  \E f \in Devices : \E n \in 1..run[f] :
                   /\ <<f, n>> # User(e)
                   /\ session'[e].peer_pk = {f}
                   /\ session'[e].aes = {DeriveKey(session'[e].room_id, e, f)}
    <2>1. CASE e = d
      BY <1>1, <1>4, <2>1 DEF KeyOfAnother
    <2>2. CASE e # d
      BY <1>1, <1>4, <2>2 DEF PeerInv, KeyOfAnotherProcess
    <2> QED
      BY <2>1, <2>2
  <1>5. KeyOfAnotherProcess'
    BY <1>4 DEF KeyOfAnotherProcess, User
  <1> QED
    BY <1>2, <1>3, <1>5 DEF PeerInv

\* Nor is a key lost or changed by what a session does once it is ready.
LEMMA KeyKept ==
    ASSUME PeerInv, NEW d \in Devices, NEW s,
           s.ready = session[d].ready, s.peer_pk = session[d].peer_pk,
           s.aes = session[d].aes, s.room_id = session[d].room_id
    PROVE  s.ready => KeyOfAnother(d, s)
  BY DEF PeerInv, KeyOfAnotherProcess, KeyOfAnother

\* A process starts or ends: its session is a new one.
LEMMA PeerRenewed ==
    ASSUME TypeOK, PeerInv, NEW d \in Devices, NEW s,
           session' = [session EXCEPT ![d] = s],
           s.kp = d, ~s.ready, UNCHANGED net,
           \A e \in Devices \ {d} : run'[e] = run[e] /\ up'[e] = up[e],
           run'[d] \in Nat, run[d] =< run'[d],
           up'[d] => run'[d] >= 1 /\ s.user_id = <<d, run'[d]>>
    PROVE  PeerInv'
  <1>1. \A e \in Devices : session'[e] = IF e = d THEN s ELSE session[e]
    BY DEF TypeOK
  <1>2. OwnKeyPair' /\ StartedUsers'
    BY <1>1 DEF PeerInv, OwnKeyPair, StartedUsers
  <1>3. \A e \in Devices : 1..run[e] \subseteq 1..run'[e]
    BY DEF TypeOK
  <1>4. StartedKeys'
    BY <1>3 DEF PeerInv, StartedKeys, StartedKey
  <1>5. ASSUME NEW e \in Devices, session'[e].ready
        PROVE  \E f \in Devices : \E n \in 1..run'[f] :
                   /\ <<f, n>> # User(e)'
                   /\ session'[e].peer_pk = {f}
                   /\ session'[e].aes = {DeriveKey(session'[e].room_id, e, f)}
    <2>1. e # d /\ session'[e] = session[e]
      BY <1>1, <1>5
    <2>2. User(e)' = User(e)
      BY <2>1 DEF User
    <2>3. PICK f \in Devices : \E n \in 1..run[f] :
              /\ <<f, n>> # User(e)
              /\ session[e].peer_pk = {f}
              /\ session[e].aes = {DeriveKey(session[e].room_id, e, f)}
      BY <1>5, <2>1 DEF PeerInv, KeyOfAnotherProcess
    <2> QED
      BY <1>3, <2>1, <2>2, <2>3
  <1>6. KeyOfAnotherProcess'
    BY <1>5 DEF KeyOfAnotherProcess
  <1> QED
    BY <1>2, <1>4, <1>6 DEF PeerInv

LEMMA PeerStep ==
    ASSUME TypeOK, PeerInv, [Next]_vars
    PROVE  PeerInv'
  <1>1. ASSUME UNCHANGED <<up, run, session>>, \A c \in net' : c \in net \/ StartedKey(c)
        PROVE  PeerInv'
    BY <1>1 DEF PeerInv, KeyOfAnotherProcess, StartedKeys, StartedKey, StartedUsers,
                OwnKeyPair, User
  <1>2. ASSUME NEW d \in Devices, NEW r \in Rooms, Start(d, r)
        PROVE  PeerInv'
    <2> DEFINE s == NewSession(r, <<d, run[d] + 1>>, d)
    <2>1. s.kp = d /\ ~s.ready /\ s.user_id = <<d, run[d] + 1>>
      BY DEF NewSession
    <2>2. /\ session' = [session EXCEPT ![d] = s] /\ UNCHANGED net
          /\ \A e \in Devices \ {d} : run'[e] = run[e] /\ up'[e] = up[e]
          /\ run'[d] = run[d] + 1 /\ run[d] \in Nat
      BY <1>2 DEF Start, TypeOK
    <2>3. run'[d] \in Nat /\ run[d] =< run'[d] /\ run'[d] >= 1
      BY <2>2
    <2>4. s.user_id = <<d, run'[d]>>
      BY <2>1, <2>2
    <2> HIDE DEF s
    <2> QED
      BY <2>1, <2>2, <2>3, <2>4, PeerRenewed
  <1>3. ASSUME NEW d \in Devices, Stop(d)
        PROVE  PeerInv'
    <2> DEFINE s == NoProcess(d)
    <2>1. s.kp = d /\ ~s.ready
      BY DEF NoProcess, NewSession
    <2>2. /\ session' = [session EXCEPT ![d] = s] /\ UNCHANGED net
          /\ \A e \in Devices \ {d} : run'[e] = run[e] /\ up'[e] = up[e]
          /\ run'[d] = run[d] /\ run[d] \in Nat /\ ~up'[d]
      BY <1>3 DEF Stop, TypeOK
    <2>3. run'[d] \in Nat /\ run[d] =< run'[d]
      BY <2>2
    <2> HIDE DEF s
    <2> QED
      BY <2>1, <2>2, <2>3, PeerRenewed
  <1>4. ASSUME NEW d \in Devices, NEW s,
               \/ AnswersSubscribed(d, s) \/ IntroTimer(d)
               \/ \E e \in Devices : PeerIdentified(d, e)
        PROVE  PeerInv'
    <2>1. UNCHANGED <<up, run, session>> /\ up[d] /\ net' = net \cup Intro(d)
      BY <1>4 DEF AnswersSubscribed, IntroTimer, PeerIdentified
    <2> QED
      BY <1>1, <2>1, IntroStarted DEF PeerInv
  <1>5. ASSUME NEW d \in Devices, NEW id \in ChatIds, NEW ts \in Times,
               UserSends(d, id, ts)
        PROVE  PeerInv'
    <2> DEFINE s == AfterSeals(session[d], 1)
    <2>1. ASSUME NEW c \in net', c \notin net
          PROVE  c.msg.t # "pk"
      BY <1>5, <2>1, PublishedMsg DEF UserSends, ChatOf
    <2>2. /\ s.kp = session[d].kp /\ s.ready = session[d].ready
          /\ s.peer_pk = session[d].peer_pk /\ s.aes = session[d].aes
          /\ s.room_id = session[d].room_id /\ s.user_id = session[d].user_id
      BY DEF AfterSeals, TypeOK, Sessions
    <2>3. session' = [session EXCEPT ![d] = s] /\ UNCHANGED <<up, run>>
      BY <1>5 DEF UserSends
    <2> HIDE DEF s
    <2>4. s.ready => KeyOfAnother(d, s)
      BY <2>2, KeyKept
    <2> QED
      BY <2>1, <2>2, <2>3, <2>4, PeerKept
  <1>6. ASSUME NEW d \in Devices, NEW c \in net, DeliverPublicKey(d, c)
        PROVE  PeerInv'
    <2> DEFINE s == AfterPublicKey(session[d], c.msg)
    <2>1. /\ c.msg.t = "pk" /\ c.to = d /\ c.msg.from # User(d)
          /\ net' = net \ {c} /\ UNCHANGED <<up, run>>
          /\ session' = [session EXCEPT ![d] = s]
      BY <1>6 DEF DeliverPublicKey, Receives, Deliverable
    <2>2. PICK e \in Devices : \E n \in 1..run[e] : c.msg.from = <<e, n>> /\ c.msg.pk = e
      BY <2>1 DEF PeerInv, StartedKeys, StartedKey
    <2>3. CASE AdoptsKey(session[d], c.msg)
      <3>1. /\ s.kp = session[d].kp /\ s.user_id = session[d].user_id
            /\ s.peer_pk = {e} /\ s.aes = {DeriveKey(s.room_id, d, e)}
        BY <2>2, <2>3 DEF AfterPublicKey, SetPeerPk, TypeOK, Sessions, PeerInv, OwnKeyPair
      <3> HIDE DEF s
      <3>2. KeyOfAnother(d, s)
        BY <2>1, <2>2, <3>1 DEF KeyOfAnother
      <3> QED
        BY <2>1, <3>1, <3>2, PeerKept
    <2>4. CASE ~AdoptsKey(session[d], c.msg)
      <3>1. s = session[d]
        BY <2>4 DEF AfterPublicKey
      <3>2. s.ready => KeyOfAnother(d, s)
        BY <3>1, KeyKept
      <3> HIDE DEF s
      <3> QED
        BY <2>1, <3>1, <3>2, PeerKept
    <2> QED
      BY <2>3, <2>4
  <1>7. ASSUME NEW d \in Devices, NEW c \in net, DeliverWantSince(d, c)
        PROVE  PeerInv'
    <2> DEFINE s == session[d]
               rows == Missing(s, store[d], c.msg.since)
               n == Cardinality(rows)
    <2>1. CASE s.ready
      <3>1. PICK numbering \in Numberings(rows) :
               /\ session' = [session EXCEPT ![d] = AfterSeals(s, n)]
               /\ net' = (net \ {c}) \cup
                             Published(d, {HistoryChunk(s, rows, numbering)})
        BY <1>7, <2>1 DEF DeliverWantSince
      <3>2. UNCHANGED <<up, run>>
        BY <1>7 DEF DeliverWantSince
      <3>3. ASSUME NEW k \in net', k \notin net
            PROVE  k.msg.t # "pk"
        BY <3>1, <3>3, PublishedMsg DEF HistoryChunk
      <3> HIDE DEF n, rows
      <3> DEFINE z == AfterSeals(s, n)
      <3>4. /\ z.kp = s.kp /\ z.ready = s.ready
            /\ z.peer_pk = s.peer_pk /\ z.aes = s.aes
            /\ z.room_id = s.room_id /\ z.user_id = s.user_id
        BY DEF AfterSeals, TypeOK, Sessions
      <3>5. session' = [session EXCEPT ![d] = z]
        BY <3>1
      <3> HIDE DEF z
      <3>6. z.ready => KeyOfAnother(d, z)
        BY <3>4, KeyKept
      <3> QED
        BY <3>2, <3>3, <3>4, <3>5, <3>6, PeerKept
    <2>2. CASE ~s.ready
      BY <1>1, <1>7, <2>2 DEF DeliverWantSince
    <2> QED
      BY <2>1, <2>2
  <1>8. ASSUME NEW d \in Devices, NEW c \in net, DeliverChat(d, c)
        PROVE  PeerInv'
    <2> DEFINE s == AfterChat(session[d], c.msg)
    <2>1. /\ net' = net \ {c} /\ UNCHANGED <<up, run>>
          /\ session' = [session EXCEPT ![d] = s]
      BY <1>8 DEF DeliverChat
    <2>2. /\ s.kp = session[d].kp /\ s.ready = session[d].ready
          /\ s.peer_pk = session[d].peer_pk /\ s.aes = session[d].aes
          /\ s.room_id = session[d].room_id /\ s.user_id = session[d].user_id
      BY DEF AfterChat, TypeOK, Sessions
    <2> HIDE DEF s
    <2>3. s.ready => KeyOfAnother(d, s)
      BY <2>2, KeyKept
    <2> QED
      BY <2>1, <2>2, <2>3, PeerKept
  <1>9. ASSUME NEW d \in Devices, NEW s,
               \/ ConnectionClosed(d, s)
               \/ \E e \in Devices : PeerSubscribed(d, e)
               \/ \E c \in net : DeliverHistoryChunk(d, c)
        PROVE  PeerInv'
    BY <1>1, <1>9 DEF ConnectionClosed, PeerSubscribed, DeliverHistoryChunk
  <1>10. ASSUME NEW c \in net, Expire(c) \/ Lose(c)
         PROVE  PeerInv'
    BY <1>1, <1>10 DEF Expire, Lose
  <1>11. CASE UNCHANGED vars
    BY <1>1, <1>11 DEF vars
  <1> QED
    BY <1>2, <1>3, <1>4, <1>5, <1>6, <1>7, <1>8, <1>9, <1>10, <1>11 DEF Next

\* Whatever gossip brings a device, its own earlier messages among it: what the
\* loop calls established is the key of this room shared with the device of
\* another process, one that has started.
THEOREM KeysOfAnotherProcess == Spec => []KeyOfAnotherProcess
  <1>1. Init => PeerInv
    BY DEF Init, PeerInv, KeyOfAnotherProcess, StartedKeys, StartedUsers, OwnKeyPair,
           NoProcess, NewSession
  <1>2. TypeOK /\ PeerInv /\ [Next]_vars => PeerInv'
    BY PeerStep
  <1>3. PeerInv => KeyOfAnotherProcess
    BY DEF PeerInv
  <1> QED
    BY <1>1, <1>2, <1>3, TypeCorrect, PTL DEF Spec

-----------------------------------------------------------------------------
(* Sequence numbers *)

\* Nothing is on its way from a process that has not started.
FromStarted == \A c \in net : c.msg.from[2] =< run[c.msg.from[1]]

RunsAsUser == \A d \in Devices : up[d] => session[d].user_id = User(d)

\* The counter of a running process is past every number it has used.
SealedUpTo ==
    \A d \in Devices : \A c \in net : up[d] /\ c.msg.from = User(d) =>
        \A x \in SealsOf(c.msg) : x.seq =< session[d].seq

\* A message of a started process that carries no seal.
Unsealed(m) == SealsOf(m) = {} /\ m.from[2] =< run[m.from[1]]

SealInv == FromStarted /\ RunsAsUser /\ SealedUpTo /\ SeqTellsSealsApart

LEMMA SealsType ==
    ASSUME NEW m \in Messages, NEW x \in SealsOf(m)
    PROVE  x.seq \in Nat
  BY DEF SealsOf, Messages, Items

\* The items of a chunk take the numbers after the counter, each one its own.
LEMMA ChunkSeals ==
    ASSUME NEW s \in Sessions, NEW rows, Cardinality(rows) \in Nat,
           NEW numbering \in Numberings(rows),
           NEW m, m = HistoryChunk(s, rows, numbering)
    PROVE  /\ \A x \in SealsOf(m) : s.seq < x.seq /\ x.seq =< s.seq + Cardinality(rows)
           /\ \A x, y \in SealsOf(m) : x.seq = y.seq => x.text = y.text
  <1> DEFINE n == Cardinality(rows)
  <1>1. s.seq \in Nat /\ n \in Nat
    BY DEF Sessions
  <1>2. \A r \in rows : numbering[r] \in 1..n
    BY DEF Numberings
  <1>3. \A r, q \in rows : numbering[r] = numbering[q] => r = q
    BY DEF Numberings
  <1>4. SealsOf(m) = {[seq |-> i.seq, text |-> i.ct.text] : i \in m.items}
    BY DEF SealsOf, HistoryChunk
  <1>5. \A x \in SealsOf(m) : \E r \in rows :
            x.seq = s.seq + numbering[r] /\ x.text = r.text
    BY <1>4 DEF HistoryChunk, HistoryItem, Encrypt
  <1>6. ASSUME NEW x \in SealsOf(m)
        PROVE  s.seq < x.seq /\ x.seq =< s.seq + n
    BY <1>1, <1>2, <1>5
  <1>7. ASSUME NEW x \in SealsOf(m), NEW y \in SealsOf(m), x.seq = y.seq
        PROVE  x.text = y.text
    <2>1. PICK r \in rows : x.seq = s.seq + numbering[r] /\ x.text = r.text
      BY <1>5
    <2>2. PICK q \in rows : y.seq = s.seq + numbering[q] /\ y.text = q.text
      BY <1>5
    <2>3. numbering[r] \in Nat /\ numbering[q] \in Nat
      BY <1>1, <1>2
    <2>4. \A i, j, k \in Nat : i + j = i + k => j = k
      OBVIOUS
    <2>5. numbering[r] = numbering[q]
      BY <1>1, <1>7, <2>1, <2>2, <2>3, <2>4
    <2> QED
      BY <1>3, <2>1, <2>2, <2>5
  <1> QED
    BY <1>6, <1>7

LEMMA IntroSeals ==
    ASSUME NEW d, NEW c \in Intro(d)
    PROVE  SealsOf(c.msg) = {} /\ c.msg.from = session[d].user_id
  BY PublishedMsg DEF Intro, Handshake, WantSince, SealsOf

\* A running process publishes one message, sealed under numbers past its
\* counter, and the counter moves past them.
LEMMA SealsMore ==
    ASSUME TypeOK, SealInv, NEW d \in Devices, up[d],
           NEW m, NEW s \in Sessions,
           UNCHANGED <<up, run>>,
           session' = [session EXCEPT ![d] = s],
           m.from = session[d].user_id, s.user_id = session[d].user_id,
           \A c \in net' : c \in net \/ c.msg = m,
           s.seq >= session[d].seq,
           \A x \in SealsOf(m) :
               x.seq \in Nat /\ session[d].seq < x.seq /\ x.seq =< s.seq,
           \A x, y \in SealsOf(m) : x.seq = y.seq => x.text = y.text
    PROVE  SealInv'
  <1>1. \A e \in Devices : session'[e] = IF e = d THEN s ELSE session[e]
    BY DEF TypeOK
  <1>2. session[d].user_id = User(d) /\ User(d)[1] = d /\ User(d)[2] = run[d]
    BY DEF SealInv, RunsAsUser, User
  <1>3. \A e \in Devices : User(e)' = User(e)
    BY DEF User
  <1>4. FromStarted'
    BY <1>2 DEF SealInv, FromStarted, TypeOK
  <1>5. RunsAsUser'
    BY <1>1, <1>3 DEF SealInv, RunsAsUser
  <1>6. \A e \in Devices : session[e].seq \in Nat /\ session'[e].seq \in Nat
                           /\ session[e].seq =< session'[e].seq
    BY <1>1 DEF TypeOK, Sessions
  <1>7. \A c \in net : \A x \in SealsOf(c.msg) : x.seq \in Nat
    BY SealsType DEF TypeOK, Copies
  <1>8. SealedUpTo'
    <2> SUFFICES ASSUME NEW e \in Devices, NEW c \in net', up[e], c.msg.from = User(e),
                        NEW x \in SealsOf(c.msg)
                 PROVE  x.seq =< session'[e].seq
      BY <1>3 DEF SealedUpTo
    <2>1. CASE c \in net
      BY <1>6, <1>7, <2>1 DEF SealInv, SealedUpTo
    <2>2. CASE c.msg = m
      <3>1. e = d
        BY <1>2, <2>2 DEF User
      <3> QED
        BY <1>1, <2>2, <3>1
    <2> QED
      BY <2>1, <2>2
  <1>9. ASSUME NEW c \in net, c.msg.from = m.from,
               NEW x \in SealsOf(c.msg), NEW y \in SealsOf(m)
        PROVE  x.seq # y.seq
    <2>1. x.seq =< session[d].seq
      BY <1>2, <1>9 DEF SealInv, SealedUpTo
    <2> QED
      BY <1>6, <1>7, <2>1
  <1>10. SeqTellsSealsApart'
    BY <1>9 DEF SealInv, SeqTellsSealsApart
  <1> QED
    BY <1>4, <1>5, <1>8, <1>10 DEF SealInv

LEMMA SealStep ==
    ASSUME TypeOK, SealInv, [Next]_vars
    PROVE  SealInv'
  <1>1. ASSUME UNCHANGED <<up, run>>,
               \A d \in Devices : /\ session'[d].user_id = session[d].user_id
                                  /\ session'[d].seq = session[d].seq,
               \A c \in net' : c \in net \/ Unsealed(c.msg)
        PROVE  SealInv'
    BY <1>1
       DEF SealInv, FromStarted, RunsAsUser, SealedUpTo, SeqTellsSealsApart, User, Unsealed
  <1>2. ASSUME NEW d \in Devices, NEW r \in Rooms, Start(d, r)
        PROVE  SealInv'
    <2>1. /\ up' = [up EXCEPT ![d] = TRUE]
          /\ run' = [run EXCEPT ![d] = @ + 1]
          /\ session' = [session EXCEPT ![d] = NewSession(r, <<d, run[d] + 1>>, d)]
          /\ net' = net
      BY <1>2 DEF Start
    <2>2. \A e \in Devices : run[e] \in Nat
      BY DEF TypeOK
    <2>3. \A c \in net : c.msg.from[1] \in Devices /\ c.msg.from[2] \in Nat
      BY DEF TypeOK, Copies, Messages, Users
    <2>4. \A e \in Devices \ {d} : /\ session'[e] = session[e]
                                   /\ up'[e] = up[e]
                                   /\ User(e)' = User(e)
                                   /\ run'[e] = run[e]
      BY <2>1 DEF TypeOK, User
    <2>5. run'[d] = run[d] + 1 /\ User(d)' = <<d, run[d] + 1>>
      BY <2>1 DEF TypeOK, User
    <2>6. FromStarted'
      BY <2>1, <2>2, <2>3, <2>4, <2>5 DEF SealInv, FromStarted
    <2>7. RunsAsUser'
      BY <2>1, <2>4, <2>5 DEF SealInv, RunsAsUser, NewSession, TypeOK
    <2>8. \A c \in net : c.msg.from # <<d, run[d] + 1>>
      BY <2>2, <2>3 DEF SealInv, FromStarted
    <2>9. SealedUpTo'
      BY <2>1, <2>4, <2>5, <2>8 DEF SealInv, SealedUpTo
    <2> QED
      BY <2>1, <2>6, <2>7, <2>9 DEF SealInv, SeqTellsSealsApart
  <1>3. ASSUME NEW d \in Devices, Stop(d)
        PROVE  SealInv'
    <2>1. /\ up' = [up EXCEPT ![d] = FALSE]
          /\ session' = [session EXCEPT ![d] = NoProcess(d)]
          /\ net' = net /\ run' = run
      BY <1>3 DEF Stop
    <2>2. \A e \in Devices : up'[e] => session'[e] = session[e] /\ up[e]
      BY <2>1 DEF TypeOK
    <2> QED
      BY <2>1, <2>2
         DEF SealInv, FromStarted, RunsAsUser, SealedUpTo, SeqTellsSealsApart, User
  <1>4. ASSUME NEW d \in Devices, up[d] /\ UNCHANGED <<up, run, session>>,
               net' = net \cup Intro(d)
        PROVE  SealInv'
    <2>1. ASSUME NEW c \in Intro(d)
          PROVE  Unsealed(c.msg)
      <3>1. SealsOf(c.msg) = {} /\ c.msg.from = session[d].user_id
        BY IntroSeals
      <3>2. c.msg.from = <<d, run[d]>> /\ run[d] \in Nat
        BY <1>4, <3>1 DEF SealInv, RunsAsUser, User, TypeOK
      <3> QED
        BY <3>1, <3>2 DEF Unsealed
    <2> QED
      BY <1>1, <1>4, <2>1
  <1>5. ASSUME NEW d \in Devices, NEW id \in ChatIds, NEW ts \in Times,
               UserSends(d, id, ts)
        PROVE  SealInv'
    <2> DEFINE s == AfterSeals(session[d], 1)
               m == ChatOf(session[d], id, ts)
    <2>1. session[d] \in Sessions /\ s \in Sessions
      BY AfterSealsType DEF TypeOK
    <2>2. s.seq = session[d].seq + 1 /\ s.user_id = session[d].user_id
      BY <2>1 DEF AfterSeals, Sessions
    <2>3. m.from = session[d].user_id
      BY DEF ChatOf
    <2>4. SealsOf(m) = {[seq |-> session[d].seq + 1, text |-> id]}
      BY DEF ChatOf, SealsOf, Encrypt
    <2>5. \A c \in net' : c \in net \/ c.msg = m
      BY <1>5, PublishedMsg DEF UserSends
    <2>6. up[d] /\ UNCHANGED <<up, run>> /\ session' = [session EXCEPT ![d] = s]
      BY <1>5 DEF UserSends
    <2>7. session[d].seq \in Nat
      BY <2>1 DEF Sessions
    <2>8. \A x \in SealsOf(m) : x.seq = session[d].seq + 1 /\ x.text = id
      BY <2>4
    <2>9. /\ s.seq >= session[d].seq
          /\ \A x \in SealsOf(m) :
                 x.seq \in Nat /\ session[d].seq < x.seq /\ x.seq =< s.seq
          /\ \A x, y \in SealsOf(m) : x.seq = y.seq => x.text = y.text
      BY <2>2, <2>7, <2>8
    <2> HIDE DEF s, m
    <2> QED
      BY <2>1, <2>2, <2>3, <2>5, <2>6, <2>9, SealsMore
  <1>6. ASSUME NEW d \in Devices, NEW c \in net, DeliverWantSince(d, c)
        PROVE  SealInv'
    <2> DEFINE rows == Missing(session[d], store[d], c.msg.since)
               n == Cardinality(rows)
               s == AfterSeals(session[d], n)
    <2>1. up[d] /\ UNCHANGED <<up, run>>
      BY <1>6 DEF DeliverWantSince, Receives, Deliverable
    <2>2. CASE session[d].ready
      <3>1. PICK numbering \in Numberings(rows) :
               /\ n \in 0..(MaxSeq - session[d].seq)
               /\ session' = [session EXCEPT ![d] = s]
               /\ net' = (net \ {c}) \cup
                             Published(d, {HistoryChunk(session[d], rows, numbering)})
        BY <1>6, <2>2 DEF DeliverWantSince
      <3>2. session[d] \in Sessions /\ n \in Nat
        BY <3>1, ConstantsAssumption DEF TypeOK, Sessions
      <3>3. s \in Sessions /\ s.seq = session[d].seq + n
            /\ s.user_id = session[d].user_id
        BY <3>2, AfterSealsType DEF AfterSeals, Sessions
      <3>4. PICK m : m = HistoryChunk(session[d], rows, numbering)
        OBVIOUS
      <3>5. m.from = session[d].user_id /\ m \in Messages
        <4>1. rows \in SUBSET Rows
          BY DEF TypeOK, Missing, LoadAll
        <4>2. m \in Messages
          BY <3>2, <3>4, <4>1, HistoryChunkType
        <4>3. m.from = session[d].user_id
          BY <3>4 DEF HistoryChunk
        <4> QED
          BY <4>2, <4>3
      <3>6. \A k \in net' : k \in net \/ k.msg = m
        BY <3>1, <3>4, PublishedMsg
      <3>7. /\ \A x \in SealsOf(m) : session[d].seq < x.seq /\ x.seq =< s.seq
            /\ \A x, y \in SealsOf(m) : x.seq = y.seq => x.text = y.text
        BY <3>2, <3>3, <3>4, ChunkSeals
      <3>8. \A x \in SealsOf(m) : x.seq \in Nat
        BY <3>5, SealsType
      <3>9. s.seq >= session[d].seq /\ session' = [session EXCEPT ![d] = s]
        BY <3>1, <3>2, <3>3 DEF Sessions
      <3> HIDE DEF rows, n, s
      <3> QED
        BY <2>1, <3>3, <3>5, <3>6, <3>7, <3>8, <3>9, SealsMore
    <2>3. CASE ~session[d].ready
      BY <1>1, <1>6, <2>1, <2>3 DEF DeliverWantSince
    <2> QED
      BY <2>2, <2>3
  <1>7. ASSUME NEW d \in Devices, NEW c \in net, DeliverPublicKey(d, c)
        PROVE  SealInv'
    <2>1. \A e \in Devices : /\ session'[e].user_id = session[e].user_id
                             /\ session'[e].seq = session[e].seq
      BY <1>7 DEF DeliverPublicKey, AfterPublicKey, SetPeerPk, TypeOK, Sessions
    <2> QED
      BY <1>1, <1>7, <2>1 DEF DeliverPublicKey
  <1>8. ASSUME NEW d \in Devices, NEW c \in net, DeliverChat(d, c)
        PROVE  SealInv'
    <2>1. \A e \in Devices : /\ session'[e].user_id = session[e].user_id
                             /\ session'[e].seq = session[e].seq
      BY <1>8 DEF DeliverChat, AfterChat, TypeOK, Sessions
    <2> QED
      BY <1>1, <1>8, <2>1 DEF DeliverChat
  <1>9. ASSUME UNCHANGED <<up, run, session>>, net' \subseteq net
        PROVE  SealInv'
    BY <1>1, <1>9
  <1> QED
    BY <1>2, <1>3, <1>4, <1>5, <1>6, <1>7, <1>8, <1>9
       DEF Next, vars, PeerSubscribed, AnswersSubscribed, PeerIdentified,
           ConnectionClosed, IntroTimer, DeliverHistoryChunk, Expire, Lose

LEMMA SealInvariant == Spec => []SealInv
  <1>1. Init => SealInv
    BY DEF Init, SealInv, FromStarted, RunsAsUser, SealedUpTo, SeqTellsSealsApart
  <1>2. TypeOK /\ SealInv /\ [Next]_vars => SealInv'
    BY SealStep
  <1> QED
    BY <1>1, <1>2, TypeCorrect, PTL DEF Spec

\* No process ever has two texts on their way under one sequence number: the
\* counter of encrypt_and_encode and build_history_chunk is moved before, and
\* past, every seal, and a restart is a new sender.
THEOREM SequenceNumbersUnique == Spec => []SeqTellsSealsApart
  <1>1. SealInv => SeqTellsSealsApart
    BY DEF SealInv
  <1> QED
    BY <1>1, SealInvariant, PTL

-----------------------------------------------------------------------------
(* No key that is owed is forgotten *)

\* d's key on its way to e.
KeyCopy(d, e) ==
    [to |-> e, room |-> session[d].room_id, msg |-> Handshake(session[d])]

\* Nobody is known to subscribe who has not started, and a device without a
\* process knows of nobody: so a process that starts is news to everybody.
SubsPast ==
    \A d \in Devices : \A s \in subs[d] : up[d] /\ s.peer[2] =< run[s.peer[1]]

\* One intro is a handshake for each other device, if one subscriber is known.
LEMMA IntroHasKey ==
    ASSUME NEW d \in Devices, NEW e \in Devices \ {d},
           NEW s \in subs[d], s.room = session[d].room_id
    PROVE  KeyCopy(d, e) \in Intro(d)
  BY DEF Intro, Published, Recipients, KeyCopy

\* A step of processes that go on running: who is ready stays so, what is no
\* longer due has been answered, and a key arrives if it does not stay in net.
LEMMA OwedStep ==
    ASSUME KeyOwed, SubsPast, UNCHANGED <<up, run>>,
           \A d \in Devices :
               /\ session'[d].room_id = session[d].room_id
               /\ Handshake(session'[d]) = Handshake(session[d])
               /\ session[d].ready => session'[d].ready,
           lost' = 0 => lost = 0,
           \A d \in Devices : \A s \in subs'[d] :
               \/ s \in subs[d]
               \/ s \in due'[d] /\ up[d] /\ s.peer[2] =< run[s.peer[1]],
           \A d, e \in Devices : \A s \in due[d] \cap subs'[d] :
               (d # e /\ s.room = session[d].room_id)
               => s \in due'[d] \/ KeyCopy(d, e) \in net',
           \A d, e \in Devices :
               (/\ d # e /\ lost' = 0 /\ up[d] /\ up[e]
                /\ session[d].room_id = session[e].room_id /\ KeyCopy(d, e) \in net)
               => session'[e].ready \/ KeyCopy(d, e) \in net'
    PROVE  KeyOwed' /\ SubsPast'
  <1>1. SubsPast'
    BY DEF SubsPast
  <1>2. ASSUME NEW d \in Devices, NEW e \in Devices, NEW s,
               s = [peer |-> User(e), room |-> session[d].room_id],
               lost' = 0, d # e, up[e], session[e].room_id = session[d].room_id,
               s \in subs'[d], s \notin due'[d]
        PROVE  session'[e].ready \/ KeyCopy(d, e) \in net'
    <2>1. s \in subs[d] /\ lost = 0 /\ up[d] /\ s.room = session[d].room_id
      BY <1>2 DEF SubsPast
    <2>2. session[e].ready \/ s \in due[d] \/ KeyCopy(d, e) \in net
      BY <1>2, <2>1 DEF KeyOwed, KeyCopy
    <2>3. CASE s \in due[d]
      BY <1>2, <2>1, <2>3
    <2>4. CASE KeyCopy(d, e) \in net
      BY <1>2, <2>1, <2>4
    <2> QED
      BY <2>2, <2>3, <2>4
  <1>3. \A d, e \in Devices : /\ User(e)' = User(e) /\ KeyCopy(d, e)' = KeyCopy(d, e)
                              /\ session'[d].room_id = session[d].room_id
    BY DEF User, KeyCopy
  <1>4. KeyOwed'
    <2> SUFFICES ASSUME NEW d \in Devices, NEW e \in Devices, NEW s,
                        s = [peer |-> User(e)', room |-> session'[d].room_id],
                        lost' = 0, d # e, up'[e], session'[e].room_id = s.room,
                        s \in subs'[d]
                 PROVE  \/ session'[e].ready
                        \/ s \in due'[d]
                        \/ [to |-> e, room |-> s.room, msg |-> Handshake(session'[d])] \in net'
      BY DEF KeyOwed
    <2>1. s = [peer |-> User(e), room |-> session[d].room_id]
      BY <1>3
    <2>2. s.room = session[d].room_id
      BY <2>1
    <2>3. /\ [to |-> e, room |-> s.room, msg |-> Handshake(session'[d])] = KeyCopy(d, e)
          /\ up[e] /\ session[e].room_id = session[d].room_id
      BY <2>2 DEF KeyCopy
    <2> QED
      BY <1>2, <2>1, <2>3
  <1> QED
    BY <1>1, <1>4

\* A key that is on its way to a process of its room can be delivered there,
\* and is adopted if none has been.
LEMMA KeyAdopted ==
    ASSUME TypeOK, RunsAsUser, NEW d \in Devices, NEW e \in Devices, d # e,
           up[d], up[e], session[d].room_id = session[e].room_id
    PROVE  /\ Deliverable(KeyCopy(d, e))
           /\ KeyCopy(d, e).to = e /\ KeyCopy(d, e).msg.t = "pk"
           /\ AfterPublicKey(session[e], KeyCopy(d, e).msg).ready
  <1> DEFINE m == KeyCopy(d, e).msg
  <1>1. /\ m.from = <<d, run[d]>> /\ m.t = "pk"
        /\ session[e].user_id = <<e, run[e]>> /\ User(e) = <<e, run[e]>>
    BY DEF KeyCopy, Handshake, RunsAsUser, User
  <1>2. KeyCopy(d, e).to = e /\ KeyCopy(d, e).room = session[d].room_id
    BY DEF KeyCopy
  <1>3. m.from # session[e].user_id /\ m.from # User(e)
    BY <1>1
  <1>4. session[e] \in Sessions
    BY DEF TypeOK
  <1> HIDE DEF m
  <1>5. AfterPublicKey(session[e], m).ready
    BY <1>3, <1>4 DEF AfterPublicKey, AdoptsKey, SetPeerPk, Sessions
  <1> QED
    BY <1>1, <1>2, <1>3, <1>5 DEF Deliverable, m

LEMMA KeyOwedStep ==
    ASSUME TypeOK, RunsAsUser, KeyOwed, SubsPast, [Next]_vars
    PROVE  KeyOwed' /\ SubsPast'
  <1>1. ASSUME UNCHANGED <<up, run, lost, session>>, net \subseteq net',
               \A d \in Devices : subs'[d] \subseteq subs[d] /\ due[d] \subseteq due'[d]
        PROVE  KeyOwed' /\ SubsPast'
    BY <1>1, OwedStep
  <1>2. ASSUME NEW d \in Devices, NEW r \in Rooms, Start(d, r)
        PROVE  KeyOwed' /\ SubsPast'
    <2>1. /\ subs[d] = {} /\ run[d] \in Nat /\ run'[d] = run[d] + 1
          /\ UNCHANGED <<subs, due, net, lost>>
          /\ \A e \in Devices \ {d} :
                 up'[e] = up[e] /\ run'[e] = run[e] /\ session'[e] = session[e]
      BY <1>2 DEF Start, SubsPast, TypeOK
    <2>2. \A e \in Devices : \A s \in subs[e] :
              s.peer[1] \in Devices /\ s.peer[2] \in Nat /\ s.peer[2] =< run[s.peer[1]]
      BY DEF SubsPast, TypeOK, Subscriptions, Users
    <2>3. \A e \in Devices : run[e] \in Nat /\ run[e] =< run'[e]
      BY <2>1 DEF TypeOK
    <2>4. SubsPast'
      BY <2>1, <2>2, <2>3 DEF SubsPast
    <2>5. ASSUME NEW x \in Devices, NEW s \in subs'[x]
          PROVE  s.peer # <<d, run'[d]>>
      <3>1. s.peer = <<d, run'[d]>> => s.peer[1] = d /\ s.peer[2] = run[d] + 1
        BY <2>1
      <3>2. s.peer[1] = d => s.peer[2] =< run[d]
        BY <2>1, <2>2, <2>5
      <3>3. ~(run[d] + 1 =< run[d])
        BY <2>1
      <3> QED
        BY <3>1, <3>2, <3>3
    <2>6. \A e \in Devices \ {d} : User(e)' = User(e)
      BY <2>1 DEF User
    <2>7. User(d)' = <<d, run'[d]>>
      BY DEF User
    <2>8. KeyOwed'
      <3> SUFFICES ASSUME NEW x \in Devices, NEW e \in Devices, NEW s,
                          s = [peer |-> User(e)', room |-> session'[x].room_id],
                          lost' = 0, x # e, up'[e], session'[e].room_id = s.room,
                          s \in subs'[x]
                   PROVE  \/ session'[e].ready
                          \/ s \in due'[x]
                          \/ [to |-> e, room |-> s.room, msg |-> Handshake(session'[x])] \in net'
        BY DEF KeyOwed
      <3>1. x # d /\ e # d
        BY <2>1, <2>5, <2>7
      <3>2. session'[x] = session[x] /\ session'[e] = session[e] /\ up[e] /\ User(e)' = User(e)
        BY <2>1, <2>6, <3>1
      <3> QED
        BY <2>1, <3>2 DEF KeyOwed
    <2> QED
      BY <2>4, <2>8
  <1>3. ASSUME NEW d \in Devices, Stop(d)
        PROVE  KeyOwed' /\ SubsPast'
    <2>1. /\ subs'[d] = {} /\ ~up'[d] /\ UNCHANGED <<run, net, lost>>
          /\ \A e \in Devices \ {d} : /\ up'[e] = up[e] /\ session'[e] = session[e]
                                      /\ subs'[e] = subs[e] /\ due'[e] = due[e]
      BY <1>3 DEF Stop, TypeOK
    <2>2. \A e \in Devices : User(e)' = User(e)
      BY <2>1 DEF User
    <2>3. SubsPast'
      BY <2>1 DEF SubsPast
    <2>4. KeyOwed'
      BY <2>1, <2>2 DEF KeyOwed
    <2> QED
      BY <2>3, <2>4
  <1>4. ASSUME NEW d \in Devices, NEW e \in Devices, PeerSubscribed(d, e)
        PROVE  KeyOwed' /\ SubsPast'
    <2> DEFINE s == [peer |-> User(e), room |-> session[e].room_id]
    <2>1. /\ UNCHANGED <<up, run, lost, session, net>> /\ up[d]
          /\ subs'[d] = subs[d] \cup {s} /\ due'[d] = due[d] \cup {s}
          /\ \A x \in Devices \ {d} : subs'[x] = subs[x] /\ due'[x] = due[x]
      BY <1>4 DEF PeerSubscribed, TypeOK
    <2>2. s.peer[2] =< run[s.peer[1]]
      BY DEF User, TypeOK
    <2> HIDE DEF s
    <2> QED
      BY <2>1, <2>2, OwedStep
  <1>5. ASSUME NEW d \in Devices, NEW s \in due[d], AnswersSubscribed(d, s)
        PROVE  KeyOwed' /\ SubsPast'
    <2>1. /\ UNCHANGED <<up, run, lost, session, subs>> /\ net' = net \cup Intro(d)
          /\ due'[d] = due[d] \ {s}
          /\ \A x \in Devices \ {d} : due'[x] = due[x]
      BY <1>5 DEF AnswersSubscribed, TypeOK
    <2>2. ASSUME NEW x \in Devices, NEW e \in Devices, NEW z \in due[x] \cap subs'[x],
                 x # e, z.room = session[x].room_id, z \notin due'[x]
          PROVE  KeyCopy(x, e) \in net'
      BY <2>1, <2>2, IntroHasKey
    <2> QED
      BY <2>1, <2>2, OwedStep
  <1>6. ASSUME NEW d \in Devices, NEW s \in subs[d], ConnectionClosed(d, s)
        PROVE  KeyOwed' /\ SubsPast'
    BY <1>1, <1>6 DEF ConnectionClosed, TypeOK
  <1>7. ASSUME NEW d \in Devices, IntroTimer(d) \/ \E e \in Devices : PeerIdentified(d, e)
        PROVE  KeyOwed' /\ SubsPast'
    BY <1>1, <1>7 DEF IntroTimer, PeerIdentified
  <1>8. ASSUME UNCHANGED <<up, run, lost, subs, due>>,
               \A d \in Devices :
                   /\ session'[d].room_id = session[d].room_id
                   /\ session'[d].user_id = session[d].user_id
                   /\ session'[d].kp = session[d].kp
                   /\ session[d].ready => session'[d].ready,
               \A c \in net : c \in net' \/ c.msg.t # "pk"
        PROVE  KeyOwed' /\ SubsPast'
    <2>1. \A d \in Devices : Handshake(session'[d]) = Handshake(session[d])
      BY <1>8 DEF Handshake
    <2>2. \A d, e \in Devices : KeyCopy(d, e).msg.t = "pk"
      BY DEF KeyCopy, Handshake
    <2> QED
      BY <1>8, <2>1, <2>2, OwedStep
  <1>9. ASSUME NEW d \in Devices, NEW id \in ChatIds, NEW ts \in Times,
               UserSends(d, id, ts)
        PROVE  KeyOwed' /\ SubsPast'
    BY <1>8, <1>9 DEF UserSends, AfterSeals, TypeOK, Sessions
  <1>10. ASSUME NEW d \in Devices, NEW c \in net, DeliverWantSince(d, c)
         PROVE  KeyOwed' /\ SubsPast'
    <2>1. UNCHANGED <<up, run, lost, subs, due>> /\ c.msg.t # "pk" /\ net \ {c} \subseteq net'
      BY <1>10 DEF DeliverWantSince, Receives
    <2>2. session' = session \/ \E n : session' = [session EXCEPT ![d] = AfterSeals(@, n)]
      BY <1>10 DEF DeliverWantSince
    <2>3. \A x \in Devices :
              /\ session'[x].room_id = session[x].room_id
              /\ session'[x].user_id = session[x].user_id
              /\ session'[x].kp = session[x].kp
              /\ session[x].ready => session'[x].ready
      <3>1. CASE session' = session
        BY <3>1
      <3>2. ASSUME NEW n, session' = [session EXCEPT ![d] = AfterSeals(@, n)]
            PROVE  \A x \in Devices :
                       /\ session'[x].room_id = session[x].room_id
                       /\ session'[x].user_id = session[x].user_id
                       /\ session'[x].kp = session[x].kp
                       /\ session[x].ready => session'[x].ready
        <4>1. /\ session'[d] = AfterSeals(session[d], n)
              /\ \A x \in Devices \ {d} : session'[x] = session[x]
          BY <3>2 DEF TypeOK
        <4>2. session[d] \in Sessions
          BY DEF TypeOK
        <4>3. /\ AfterSeals(session[d], n).room_id = session[d].room_id
              /\ AfterSeals(session[d], n).user_id = session[d].user_id
              /\ AfterSeals(session[d], n).kp = session[d].kp
              /\ AfterSeals(session[d], n).ready = session[d].ready
          BY <4>2 DEF AfterSeals, Sessions
        <4> QED
          BY <4>1, <4>3
      <3> QED
        BY <2>2, <3>1, <3>2
    <2> QED
      BY <1>8, <2>1, <2>3
  <1>11. ASSUME NEW d \in Devices, NEW c \in net, DeliverChat(d, c)
         PROVE  KeyOwed' /\ SubsPast'
    <2>1. /\ UNCHANGED <<up, run, lost, subs, due>> /\ c.msg.t # "pk" /\ net' = net \ {c}
          /\ session' = [session EXCEPT ![d] = AfterChat(@, c.msg)]
      BY <1>11 DEF DeliverChat, Receives
    <2>2. \A x \in Devices :
              /\ session'[x].room_id = session[x].room_id
              /\ session'[x].user_id = session[x].user_id
              /\ session'[x].kp = session[x].kp
              /\ session[x].ready => session'[x].ready
      BY <2>1 DEF AfterChat, TypeOK, Sessions
    <2> QED
      BY <1>8, <2>1, <2>2
  <1>12. ASSUME NEW d \in Devices, NEW c \in net, DeliverHistoryChunk(d, c)
         PROVE  KeyOwed' /\ SubsPast'
    BY <1>8, <1>12 DEF DeliverHistoryChunk, Receives
  <1>13. ASSUME NEW d \in Devices, NEW c \in net, DeliverPublicKey(d, c)
         PROVE  KeyOwed' /\ SubsPast'
    <2>1. /\ UNCHANGED <<up, run, lost, subs, due>> /\ net' = net \ {c}
          /\ session'[d] = AfterPublicKey(session[d], c.msg)
          /\ \A x \in Devices \ {d} : session'[x] = session[x]
          /\ c.to = d
      BY <1>13 DEF DeliverPublicKey, Receives, TypeOK
    <2>2. \A x \in Devices :
              /\ session'[x].room_id = session[x].room_id
              /\ session'[x].user_id = session[x].user_id
              /\ session'[x].kp = session[x].kp
              /\ session[x].ready => session'[x].ready
      <3>1. session[d] \in Sessions
        BY DEF TypeOK
      <3>2. ASSUME NEW k
            PROVE  /\ SetPeerPk(session[d], k).room_id = session[d].room_id
                   /\ SetPeerPk(session[d], k).user_id = session[d].user_id
                   /\ SetPeerPk(session[d], k).kp = session[d].kp
                   /\ SetPeerPk(session[d], k).ready
        BY <3>1 DEF SetPeerPk, Sessions
      <3>3. \/ session'[d] = session[d]
            \/ session'[d] = SetPeerPk(session[d], c.msg.pk)
        BY <2>1 DEF AfterPublicKey
      <3> QED
        BY <2>1, <3>2, <3>3
    <2>3. \A x \in Devices : Handshake(session'[x]) = Handshake(session[x])
      BY <2>2 DEF Handshake
    <2>4. ASSUME NEW x \in Devices, NEW e \in Devices, x # e, up[x], up[e],
                 session[x].room_id = session[e].room_id, KeyCopy(x, e) \in net,
                 KeyCopy(x, e) \notin net'
          PROVE  session'[e].ready
      <3>1. KeyCopy(x, e) = c
        BY <2>1, <2>4
      <3> QED
        BY <2>1, <2>4, <3>1, KeyAdopted
    <2> QED
      BY <2>1, <2>2, <2>3, <2>4, OwedStep
  <1>14. ASSUME NEW c \in net, Expire(c)
         PROVE  KeyOwed' /\ SubsPast'
    <2>1. /\ UNCHANGED <<up, run, session, subs, due, lost>>
          /\ net' = net \ {c} /\ ~Deliverable(c)
      BY <1>14 DEF Expire
    <2>2. \A x, e \in Devices :
              (/\ x # e /\ up[x] /\ up[e] /\ session[x].room_id = session[e].room_id
               /\ KeyCopy(x, e) \in net)
              => KeyCopy(x, e) \in net'
      BY <2>1, KeyAdopted
    <2> QED
      BY <2>1, <2>2, OwedStep
  <1>15. ASSUME NEW c \in net, Lose(c)
         PROVE  KeyOwed' /\ SubsPast'
    <2>1. UNCHANGED <<up, run, session, subs, due>> /\ lost' # 0
      BY <1>15 DEF Lose, TypeOK
    <2> QED
      BY <2>1, OwedStep
  <1>16. CASE UNCHANGED vars
    BY <1>1, <1>16 DEF vars
  <1> QED
    BY <1>2, <1>3, <1>4, <1>5, <1>6, <1>7, <1>9, <1>10, <1>11, <1>12, <1>13, <1>14,
       <1>15, <1>16 DEF Next

\* Whoever restarts, however connections come and go, and whether or not the
\* sender is ready itself: the key that a subscription asks for is on its way,
\* or still due, until its addressee is ready.
THEOREM KeysOwedAreKept == Spec => []KeyOwed
  <1>1. Init => KeyOwed /\ SubsPast
    BY DEF Init, KeyOwed, SubsPast
  <1>2. TypeOK /\ SealInv /\ KeyOwed /\ SubsPast /\ [Next]_vars => KeyOwed' /\ SubsPast'
    BY KeyOwedStep DEF SealInv
  <1> QED
    BY <1>1, <1>2, TypeCorrect, SealInvariant, PTL DEF Spec
=============================================================================
