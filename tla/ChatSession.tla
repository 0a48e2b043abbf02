---------------------------- MODULE ChatSession ----------------------------
(***************************************************************************)
(* The ChatSession object of session.rs with the CryptoSession it owns     *)
(* (crypto.rs) and the wire messages of protocol.rs.                       *)
(*                                                                         *)
(* A session is a record; each method is an operator from a session to a   *)
(* session, or to the message it builds.  Conventions:                     *)
(*   - an Option is a set of at most one element;                          *)
(*   - a key pair is named by the device that owns it, and so is its       *)
(*     public half, which determines it;                                   *)
(*   - the text of a chat is represented by the chat's id, a value that no *)
(*     two chats share, so a text that ends up under another id shows;     *)
(*   - AES-GCM is the perfect cipher: a ciphertext opens under the key and *)
(*     the associated data it was sealed with, and under no other;         *)
(*   - a definition named X_Word is a mutant of X, a slip that the code of  *)
(*     X might have had; no definition uses it.                            *)
(***************************************************************************)
EXTENDS Integers, FiniteSets, Storage

\* CryptoSession::start: HKDF of the Diffie-Hellman secret, which both owners
\* of the two key pairs compute, with the room as the info string.
DeriveKey(room, sk, pk) == [room |-> room, pair |-> {sk, pk}]

\* ChatSession::new
NewSession(room, user, kp) ==
    [room_id |-> room, user_id |-> user, seq |-> 0, kp |-> kp,
     peer_pk |-> {}, aes |-> {}, ready |-> FALSE, seen |-> {}]

\* ChatSession::set_peer_pk.  HKDF cannot fail for 32 bytes of output, so
\* CryptoSession::start always succeeds.
SetPeerPk(s, pk) ==
    [s EXCEPT !.peer_pk = {pk},
              !.aes = {DeriveKey(s.room_id, s.kp, pk)},
              !.ready = TRUE]

\* CryptoSession::encrypt, called when a key is there.
Encrypt(s, text, seq) ==
    [keys |-> s.aes, aad |-> <<s.room_id, seq>>, text |-> text]

\* CryptoSession::decrypt returns the text, or an error.
Decrypts(s, ct, seq) ==
    /\ s.aes # {}
    /\ ct.keys = s.aes
    /\ ct.aad = <<s.room_id, seq>>

-----------------------------------------------------------------------------
(* Messages a session builds *)

\* Answers with the key it got.
Handshake_PeerKey(s) ==
    [t |-> "pk", from |-> s.user_id,
     pk |-> IF s.ready THEN CHOOSE pk \in s.peer_pk : TRUE ELSE s.kp]

\* ChatSession::mk_handshake
Handshake(s) == [t |-> "pk", from |-> s.user_id, pk |-> s.kp]

\* A sentinel for the empty room.
WantSince_Sentinel(s, table) == [t |-> "want_since", from |-> s.user_id, since |-> -1]

\* ChatSession::build_want_since: the newest stored ts of the room, or 0.
WantSince(s, table) ==
    LET last == LastTs(table, s.room_id)
    IN [t |-> "want_since", from |-> s.user_id,
        since |-> IF last = {} THEN 0 ELSE CHOOSE ts \in last : TRUE]

\* ChatSession::encrypt_and_encode: the message, and the session after it.
ChatOf(s, id, ts) ==
    [t |-> "chat", from |-> s.user_id, id |-> id,
     ct |-> Encrypt(s, id, s.seq + 1), seq |-> s.seq + 1, ts |-> ts]

AfterSeals(s, n) == [s EXCEPT !.seq = @ + n]

\* ChatSession::build_history_chunk: the rows newer than `since`, each sealed
\* anew for the current peer under the next sequence number, in the order of
\* their ts.  A numbering is one such order.
Missing(s, table, since) == {r \in LoadAll(table, s.room_id) : r.ts > since}

Numberings(rows) ==
    {f \in [rows -> 1..Cardinality(rows)] :
        \A m, n \in rows : m # n => /\ f[m] # f[n]
                                    /\ m.ts < n.ts => f[m] < f[n]}

\* The author is taken to be the device that has the row.
HistoryItem_Relayer(s, r, seq) ==
    [id |-> r.id, from |-> s.user_id, ct |-> Encrypt(s, r.text, seq),
     seq |-> seq, ts |-> r.ts]

HistoryItem(s, r, seq) ==
    [id |-> r.id, from |-> r.from_id, ct |-> Encrypt(s, r.text, seq),
     seq |-> seq, ts |-> r.ts]

\* Seals before it counts.
HistoryChunk_SealsFirst(s, rows, numbering) ==
    [t |-> "history_chunk", from |-> s.user_id,
     items |-> {HistoryItem(s, r, s.seq + numbering[r] - 1) : r \in rows}]

HistoryChunk(s, rows, numbering) ==
    [t |-> "history_chunk", from |-> s.user_id,
     items |-> {HistoryItem(s, r, s.seq + numbering[r]) : r \in rows}]

-----------------------------------------------------------------------------
(* ChatSession::process_wire, by kind of message *)

\* The guard of the handshake branch: the first key wins, for the whole life
\* of the session.
AdoptsKey(s, m) == m.from # s.user_id /\ ~s.ready

AfterPublicKey(s, m) == IF AdoptsKey(s, m) THEN SetPeerPk(s, m.pk) ELSE s

\* A chat is marked as seen before it is decrypted.
TakesChat(s, m) == m.from # s.user_id /\ m.id \notin s.seen

AfterChat(s, m) == IF TakesChat(s, m) THEN [s EXCEPT !.seen = @ \cup {m.id}] ELSE s

\* The row a decrypted chat or history item is saved as.
Row(s, m) ==
    [id |-> m.id, room_id |-> s.room_id, from_id |-> m.from,
     text |-> m.ct.text, ts |-> m.ts]

\* Looks a chat up after it has marked it as seen.
Opened_SeenFirst(s, m) ==
    IF m.t = "chat"
    THEN {c \in {m} : TakesChat(AfterChat(s, c), c) /\ Decrypts(s, c.ct, c.seq)}
    ELSE {i \in m.items : m.from # s.user_id /\ Decrypts(s, i.ct, i.seq)}

\* The messages that a chat or a history chunk makes the session save and
\* show: a chat at most itself, a chunk every item that decrypts.
Opened(s, m) ==
    IF m.t = "chat"
    THEN {c \in {m} : TakesChat(s, c) /\ Decrypts(s, c.ct, c.seq)}
    ELSE {i \in m.items : m.from # s.user_id /\ Decrypts(s, i.ct, i.seq)}
=============================================================================
