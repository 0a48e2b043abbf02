------------------------------ MODULE Storage ------------------------------
(***************************************************************************)
(* The message store of storage.rs: one SQLite table whose primary key is  *)
(* the message id.  A table is the set of its rows; a row is a record      *)
(*   [id, room_id, from_id, text, ts].                                     *)
(***************************************************************************)
EXTENDS Integers

\* A mutant of SaveAll: the time as the key.
SaveAll_ByTime(table, rows) ==
    {r \in table : \A row \in rows : r.ts # row.ts} \cup rows

\* MessageStore::save, INSERT OR REPLACE on the primary key, for each row of a
\* set of rows of distinct ids, in any order.
SaveAll(table, rows) ==
    {r \in table : \A row \in rows : r.id # row.id} \cup rows

\* A mutant of LoadAll: the WHERE clause forgotten.
LoadAll_AnyRoom(table, room) == table

\* MessageStore::load_all: every row of one room (load_before without a limit;
\* no clock reaches i64::MAX).  The rows come ordered by ts, rows of equal ts
\* in no specified order: see ChatSession!Numberings.
LoadAll(table, room) == {r \in table : r.room_id = room}

\* MessageStore::last_ts: SELECT MAX(ts), which is NULL on an empty room.
\* An Option is a set of at most one element.
LastTs(table, room) ==
    {r.ts : r \in {m \in LoadAll(table, room) :
                      \A n \in LoadAll(table, room) : n.ts <= m.ts}}
=============================================================================
