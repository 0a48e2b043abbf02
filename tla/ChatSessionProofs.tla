------------------------- MODULE ChatSessionProofs -------------------------
(***************************************************************************)
(* What the methods of a ChatSession and of the message store return, for  *)
(* every session, message and table: the lemmas that the proofs about the  *)
(* programs that hold a session (CliRoomProofs, FrontEndsProofs) share.    *)
(***************************************************************************)
EXTENDS ChatTypes, TLAPS

-----------------------------------------------------------------------------
(* Types *)

LEMMA NewSessionType ==
    ASSUME NEW r \in Rooms, NEW u \in Users, NEW d \in Devices
    PROVE  NewSession(r, u, d) \in Sessions
  BY DEF NewSession, Sessions

LEMMA SetPeerPkType ==
    ASSUME NEW s \in Sessions, NEW pk \in Devices
    PROVE  SetPeerPk(s, pk) \in Sessions
  <1>1. DeriveKey(s.room_id, s.kp, pk) \in Keys
    BY DEF DeriveKey, Keys, Sessions
  <1> QED
    BY <1>1 DEF SetPeerPk, Sessions

LEMMA AfterSealsType ==
    ASSUME NEW s \in Sessions, NEW n \in Nat
    PROVE  AfterSeals(s, n) \in Sessions
  BY DEF AfterSeals, Sessions

LEMMA EncryptType ==
    ASSUME NEW s \in Sessions, NEW text \in ChatIds, NEW seq \in Nat
    PROVE  Encrypt(s, text, seq) \in Seals
  BY DEF Encrypt, Seals, Sessions

LEMMA HandshakeType ==
    ASSUME NEW s \in Sessions
    PROVE  Handshake(s) \in Messages
  BY DEF Handshake, Messages, Sessions

LEMMA WantSinceType ==
    ASSUME NEW s \in Sessions, NEW table \in SUBSET Rows
    PROVE  WantSince(s, table) \in Messages
  <1>1. LastTs(table, s.room_id) \subseteq Nat
    BY TimesAssumption DEF LastTs, LoadAll, Rows
  <1>2. WantSince(s, table).since \in Nat
    BY <1>1 DEF WantSince
  <1> QED
    BY <1>2 DEF WantSince, Messages, Sessions

LEMMA ChatOfType ==
    ASSUME NEW s \in Sessions, NEW id \in ChatIds, NEW ts \in Times
    PROVE  ChatOf(s, id, ts) \in Messages
  <1>1. s.seq + 1 \in Nat
    BY DEF Sessions
  <1>2. Encrypt(s, id, s.seq + 1) \in Seals
    BY <1>1, EncryptType
  <1> QED
    BY <1>1, <1>2 DEF ChatOf, Messages, Sessions

LEMMA HistoryChunkType ==
    ASSUME NEW s \in Sessions, NEW rows \in SUBSET Rows,
           Cardinality(rows) \in Nat, NEW numbering \in Numberings(rows)
    PROVE  HistoryChunk(s, rows, numbering) \in Messages
  <1>1. ASSUME NEW r \in rows
        PROVE  HistoryItem(s, r, s.seq + numbering[r]) \in Items
    <2>1. s.seq + numbering[r] \in Nat
      BY DEF Numberings, Sessions
    <2>2. Encrypt(s, r.text, s.seq + numbering[r]) \in Seals
      BY <2>1, EncryptType DEF Rows
    <2> QED
      BY <2>1, <2>2 DEF HistoryItem, Items, Rows
  <1> QED
    BY <1>1 DEF HistoryChunk, Messages, Sessions

LEMMA AfterChatType ==
    ASSUME NEW s \in Sessions, NEW m \in Messages, m.t = "chat"
    PROVE  AfterChat(s, m) \in Sessions
  BY DEF AfterChat, Sessions, Messages

LEMMA AfterPublicKeyType ==
    ASSUME NEW s \in Sessions, NEW m \in Messages, m.t = "pk"
    PROVE  AfterPublicKey(s, m) \in Sessions
  <1>1. m.pk \in Devices
    BY DEF Messages
  <1> QED
    BY <1>1, SetPeerPkType DEF AfterPublicKey

\* What a chat or a chunk opens to has the fields that rows are made of.
LEMMA OpenedType ==
    ASSUME NEW s \in Sessions, NEW m \in Messages,
           m.t \in {"chat", "history_chunk"}, NEW o \in Opened(s, m)
    PROVE  /\ Row(s, o) \in Rows
           /\ o.id \in ChatIds
  <1>1. /\ o.id \in ChatIds /\ o.from \in Users
        /\ o.ct \in Seals /\ o.ts \in Times
    <2>1. CASE m.t = "chat"
      BY <2>1 DEF Opened, Messages
    <2>2. CASE m.t = "history_chunk"
      BY <2>2 DEF Opened, Messages, Items
    <2> QED
      BY <2>1, <2>2
  <1> QED
    BY <1>1 DEF Row, Rows, Sessions, Seals

-----------------------------------------------------------------------------
(* Messages and the log *)

\* What a sealed message says, in the room it is sealed for: that of the
\* associated data, the only one in which it can be opened.
SealedRow(m) ==
    [id |-> m.id, room_id |-> m.ct.aad[1], from_id |-> m.from,
     text |-> m.ct.text, ts |-> m.ts]

\* All that a message says is in the log.
Honest(m, log) ==
    /\ m.t = "chat" => SealedRow(m) \in log
    /\ m.t = "history_chunk" => \A i \in m.items : SealedRow(i) \in log

UniqueIds(log) == \A x, y \in log : x.id = y.id => x = y

\* A message stays honest when the log grows.
LEMMA HonestGrows ==
    ASSUME NEW log, NEW longer, log \subseteq longer, NEW m, Honest(m, log)
    PROVE  Honest(m, longer)
  BY DEF Honest

\* An intro says nothing about any chat.
LEMMA IntroHonest ==
    ASSUME NEW s, NEW table, NEW log
    PROVE  Honest(Handshake(s), log) /\ Honest(WantSince(s, table), log)
  BY DEF Honest, Handshake, WantSince

\* A chat says what its row does.
LEMMA ChatHonest ==
    ASSUME NEW s, NEW id, NEW ts, NEW log,
           RowOf([id |-> id, room_id |-> s.room_id,
                  from |-> s.user_id, ts |-> ts]) \in log
    PROVE  Honest(ChatOf(s, id, ts), log)
  <1>1. SealedRow(ChatOf(s, id, ts)) \in log
    BY DEF SealedRow, ChatOf, Encrypt, RowOf
  <1> QED
    BY <1>1 DEF Honest, ChatOf

\* A history chunk says what the rows of its room do: sealing them anew keeps
\* author, text and time, and the rows of other rooms stay out of it.
LEMMA HistoryHonest ==
    ASSUME NEW s, NEW table \in SUBSET Rows, NEW log, table \subseteq log,
           NEW since, NEW numbering
    PROVE  Honest(HistoryChunk(s, Missing(s, table, since), numbering), log)
  <1> DEFINE m == HistoryChunk(s, Missing(s, table, since), numbering)
  <1>1. ASSUME NEW i \in m.items
        PROVE  SealedRow(i) \in log
    <2>1. PICK r \in Missing(s, table, since) :
              i = HistoryItem(s, r, s.seq + numbering[r])
      BY DEF HistoryChunk
    <2>2. r \in log /\ r \in Rows /\ r.room_id = s.room_id
      BY DEF Missing, LoadAll
    <2>3. SealedRow(i) = r
      BY <2>1, <2>2 DEF SealedRow, HistoryItem, Encrypt, Rows
    <2> QED
      BY <2>2, <2>3
  <1>2. m.t = "history_chunk"
    BY DEF HistoryChunk
  <1> QED
    BY <1>1, <1>2 DEF Honest

\* What an honest message opens to is saved as a row of the log, whatever
\* session it is given to: a seal does not open in another room.
LEMMA OpenedLogged ==
    ASSUME NEW s, NEW log, NEW m, m.t \in {"chat", "history_chunk"},
           Honest(m, log), NEW o \in Opened(s, m)
    PROVE  Row(s, o) \in log
  <1>1. SealedRow(o) \in log /\ Decrypts(s, o.ct, o.seq)
    BY DEF Opened, Honest
  <1> QED
    BY <1>1 DEF SealedRow, Decrypts, Row

\* Rows of a log replace themselves only: INSERT OR REPLACE adds them.
LEMMA SaveAllAdds ==
    ASSUME NEW log, UniqueIds(log),
           NEW table, table \subseteq log, NEW rows, rows \subseteq log
    PROVE  SaveAll(table, rows) = table \cup rows
  BY DEF SaveAll, UniqueIds
=============================================================================
