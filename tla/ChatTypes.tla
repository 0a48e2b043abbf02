----------------------------- MODULE ChatTypes -----------------------------
(***************************************************************************)
(* What the programs that hold chat sessions have in common: who and what  *)
(* there is, and the types of sessions, rows and wire messages.            *)
(***************************************************************************)
EXTENDS ChatSession

CONSTANTS
    Devices,    \* each has one identity file and one message store
    Rooms,
    ChatIds,    \* the supply of message uuids: a bound on the chats sent
    Times       \* the readings of the devices' clocks, which may disagree

ASSUME TimesAssumption == Times \subseteq Nat \ {0}

\* A user id is made of a device and what tells its processes, or visits,
\* apart.
Users == Devices \X Nat

Rows == [id : ChatIds, room_id : Rooms, from_id : Users, text : ChatIds, ts : Times]
Keys == [room : Rooms, pair : SUBSET Devices]
Seals == [keys : SUBSET Keys, aad : Rooms \X Nat, text : ChatIds]
Items == [id : ChatIds, from : Users, ct : Seals, seq : Nat, ts : Times]
Messages ==
    [t : {"pk"}, from : Users, pk : Devices]
    \cup [t : {"want_since"}, from : Users, since : Nat]
    \cup [t : {"chat"}, from : Users, id : ChatIds, ct : Seals, seq : Nat, ts : Times]
    \cup [t : {"history_chunk"}, from : Users, items : SUBSET Items]
Sessions ==
    [room_id : Rooms, user_id : Users, seq : Nat, kp : Devices,
     peer_pk : SUBSET Devices, aes : SUBSET Keys, ready : BOOLEAN,
     seen : SUBSET ChatIds]
Copies == [to : Devices, room : Rooms, msg : Messages]
Chats == [id : ChatIds, room_id : Rooms, from : Users, ts : Times]

\* The row that a chat is to be stored as, wherever it is stored.
RowOf(c) == [id |-> c.id, room_id |-> c.room_id, from_id |-> c.from,
             text |-> c.id, ts |-> c.ts]
=============================================================================
