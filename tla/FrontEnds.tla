----------------------------- MODULE FrontEnds -----------------------------
(***************************************************************************)
(* The terminal (tui.rs) and the graphical (app.rs) front end: processes   *)
(* that enter and leave rooms.  Their node joins a room when it is first   *)
(* entered and never leaves it, and P2PEvent::Message does not say which   *)
(* room a message came from: whatever session there is gets it.            *)
(*                                                                         *)
(* Each device runs one process for good; restarts are CliRoom's.  As      *)
(* there, an action is one event of the front end with the publishes it    *)
(* asks for, and a message that waits in a queue is still in `net`.  The   *)
(* screen, the address book and Typing are left out.                       *)
(***************************************************************************)
EXTENDS ChatTypes

CONSTANTS
    Graphical,  \* the devices that run app.rs, whose users have names of
                \* their own; the others run tui.rs
    MaxVisits,  \* bound on the rooms a process enters
    MaxSeq,     \* bound on a session's sequence number
    MaxInFlight \* bound on the copies on their way at one time

ASSUME ConstantsAssumption ==
    /\ Graphical \subseteq Devices
    /\ MaxVisits \in Nat
    /\ MaxSeq \in Nat
    /\ MaxInFlight \in Nat

VARIABLES
    joined,     \* joined[d]: the rooms d's node has joined
    visits,     \* visits[d]: how many sessions d's process has begun
    session,    \* session[d]: the ChatSession, an Option: none in the lobby
    send_hs,    \* send_hs[d]: app.rs owes the room its intro
    store,      \* store[d]: the rows of messages.db
    subs,       \* subs[d]: the subscriptions d's gossipsub knows of
    due,        \* due[d]: those whose Subscribed event is queued
    net,        \* copies of gossip messages on their way
    chats       \* history: every chat a user sent

vars == <<joined, visits, session, send_hs, store, subs, due, net, chats>>

-----------------------------------------------------------------------------
(* Users and gossip *)

\* tui.rs appends eight characters of a fresh uuid for each session, app.rs
\* takes the name as it is.
User(d, visit) == IF d \in Graphical THEN <<d, 0>> ELSE <<d, visit>>

\* P2PNode::send_message, refused as long as no subscriber is known.
Published(d, room, msgs) ==
    IF \E s \in subs[d] : s.room = room
    THEN [to : Devices \ {d}, room : {room}, msg : msgs]
    ELSE {}

\* send_intro, and the two messages of app.rs's Subscribed branch: of the
\* session there is, if there is one.
Intro(d, current) ==
    UNION {Published(d, s.room_id, {Handshake(s), WantSince(s, store[d])}) : s \in current}

-----------------------------------------------------------------------------
(* Rooms *)

Init ==
    /\ joined = [d \in Devices |-> {}]
    /\ visits = [d \in Devices |-> 0]
    /\ session = [d \in Devices |-> {}]
    /\ send_hs = [d \in Devices |-> FALSE]
    /\ store = [d \in Devices |-> {}]
    /\ subs = [d \in Devices |-> {}]
    /\ due = [d \in Devices |-> {}]
    /\ net = {}
    /\ chats = {}

\* enter_room of tui.rs: a new session, and its intro.
EnterRoom(d, r) ==
    /\ d \notin Graphical
    /\ session[d] = {}
    /\ visits[d] < MaxVisits
    /\ visits' = [visits EXCEPT ![d] = @ + 1]
    /\ session' = [session EXCEPT ![d] = {NewSession(r, User(d, visits'[d]), d)}]
    /\ joined' = [joined EXCEPT ![d] = @ \cup {r}]
    /\ net' = net \cup Intro(d, session'[d])
    /\ Cardinality(net') <= MaxInFlight
    /\ UNCHANGED <<send_hs, store, subs, due, chats>>

\* enter_room of app.rs: the intro waits for a subscription.
EnterRoomGraphical(d, r) ==
    /\ d \in Graphical
    /\ session[d] = {}
    /\ visits[d] < MaxVisits
    /\ visits' = [visits EXCEPT ![d] = @ + 1]
    /\ session' = [session EXCEPT ![d] = {NewSession(r, User(d, visits'[d]), d)}]
    /\ joined' = [joined EXCEPT ![d] = @ \cup {r}]
    /\ send_hs' = [send_hs EXCEPT ![d] = TRUE]
    /\ UNCHANGED <<store, subs, due, net, chats>>

\* Esc in a room of tui.rs, Back in one of app.rs: the node stays in the room.
LeaveRoom(d) ==
    /\ session[d] # {}
    /\ session' = [session EXCEPT ![d] = {}]
    /\ UNCHANGED <<joined, visits, send_hs, store, subs, due, net, chats>>

\* gossipsub::Event::Subscribed, of any room; only a node's first join of a
\* room, or a new connection, makes one.
PeerSubscribed(d, e, r) ==
    LET s == [peer |-> e, room |-> r]
    IN /\ d # e
       /\ r \in joined[e]
       /\ s \notin subs[d]
       /\ subs' = [subs EXCEPT ![d] = @ \cup {s}]
       /\ due' = [due EXCEPT ![d] = @ \cup {s}]
       /\ UNCHANGED <<joined, visits, session, send_hs, store, net, chats>>

\* The Subscribed branch: tui.rs always sends an intro, app.rs once per room.
AnswersSubscribed(d, s) ==
    /\ s \in due[d]
    /\ due' = [due EXCEPT ![d] = @ \ {s}]
    /\ send_hs' = [send_hs EXCEPT ![d] = FALSE]
    /\ net' = net \cup (IF d \in Graphical /\ ~send_hs[d] THEN {}
                        ELSE Intro(d, session[d]))
    /\ Cardinality(net') <= MaxInFlight
    /\ UNCHANGED <<joined, visits, session, store, subs, chats>>

\* SwarmEvent::ConnectionClosed.
ConnectionClosed(d, e) ==
    /\ \E s \in subs[d] : s.peer = e
    /\ subs' = [subs EXCEPT ![d] = {s \in @ : s.peer # e}]
    /\ UNCHANGED <<joined, visits, session, send_hs, store, due, net, chats>>

\* The two-second timer of tui.rs.
IntroTimer(d) ==
    /\ d \notin Graphical
    /\ \E s \in session[d] : ~s.ready
    /\ net' = net \cup Intro(d, session[d])
    /\ Cardinality(net') <= MaxInFlight
    /\ UNCHANGED <<joined, visits, session, send_hs, store, subs, due, chats>>

-----------------------------------------------------------------------------
(* Messages *)

\* Enter in a room.  Before the handshake the line goes to the screen only.
UserSends(d, id, ts) ==
    \E s \in session[d] :
        /\ s.ready
        /\ s.seq < MaxSeq
        /\ \A c \in chats : c.id # id
        /\ session' = [session EXCEPT ![d] = {AfterSeals(s, 1)}]
        /\ net' = net \cup Published(d, s.room_id, {ChatOf(s, id, ts)})
        /\ Cardinality(net') <= MaxInFlight
        /\ chats' = chats \cup
               {[id |-> id, room_id |-> s.room_id, from |-> s.user_id, ts |-> ts]}
        /\ UNCHANGED <<joined, visits, send_hs, store, subs, due>>

\* A copy reaches a node that is in its room, whatever room the user is in.
Receives(d, c) == c.to = d /\ c.room \in joined[d]

\* In the lobby a message is dropped.
DropsMessage(d, c) ==
    /\ Receives(d, c)
    /\ session[d] = {}
    /\ net' = net \ {c}
    /\ UNCHANGED <<joined, visits, session, send_hs, store, subs, due, chats>>

DeliverPublicKey(d, c) ==
    /\ Receives(d, c) /\ c.msg.t = "pk"
    /\ \E s \in session[d] :
           session' = [session EXCEPT ![d] = {AfterPublicKey(s, c.msg)}]
    /\ net' = net \ {c}
    /\ UNCHANGED <<joined, visits, send_hs, store, subs, due, chats>>

\* tui.rs answers with the history of the room it is in, in that room.
DeliverWantSince(d, c) ==
    /\ d \notin Graphical
    /\ Receives(d, c) /\ c.msg.t = "want_since"
    /\ \E s \in session[d] :
           LET rows == Missing(s, store[d], c.msg.since)
           IN /\ s.ready
              /\ Cardinality(rows) \in 0..(MaxSeq - s.seq)
              /\ session' = [session EXCEPT ![d] = {AfterSeals(s, Cardinality(rows))}]
              /\ \E numbering \in Numberings(rows) :
                     net' = (net \ {c}) \cup
                            Published(d, s.room_id, {HistoryChunk(s, rows, numbering)})
              /\ Cardinality(net') <= MaxInFlight
    /\ UNCHANGED <<joined, visits, send_hs, store, subs, due, chats>>

\* Before the handshake, and always in app.rs, there is no answer.
IgnoresWantSince(d, c) ==
    /\ Receives(d, c) /\ c.msg.t = "want_since"
    /\ \E s \in session[d] : d \in Graphical \/ ~s.ready
    /\ net' = net \ {c}
    /\ UNCHANGED <<joined, visits, session, send_hs, store, subs, due, chats>>

\* What opens is saved under the session's room.
Saves(d, s, m) ==
    store' = [store EXCEPT ![d] = SaveAll(@, {Row(s, o) : o \in Opened(s, m)})]

DeliverChat(d, c) ==
    /\ Receives(d, c) /\ c.msg.t = "chat"
    /\ \E s \in session[d] :
           /\ session' = [session EXCEPT ![d] = {AfterChat(s, c.msg)}]
           /\ Saves(d, s, c.msg)
    /\ net' = net \ {c}
    /\ UNCHANGED <<joined, visits, send_hs, subs, due, chats>>

DeliverHistoryChunk(d, c) ==
    /\ Receives(d, c) /\ c.msg.t = "history_chunk"
    /\ \E s \in session[d] : Saves(d, s, c.msg)
    /\ net' = net \ {c}
    /\ UNCHANGED <<joined, visits, session, send_hs, subs, due, chats>>

Next ==
    \/ \E d \in Devices, r \in Rooms : EnterRoom(d, r)
    \/ \E d \in Devices, r \in Rooms : EnterRoomGraphical(d, r)
    \/ \E d \in Devices : LeaveRoom(d)
    \/ \E d, e \in Devices, r \in Rooms : PeerSubscribed(d, e, r)
    \/ \E d \in Devices : \E s \in due[d] : AnswersSubscribed(d, s)
    \/ \E d, e \in Devices : ConnectionClosed(d, e)
    \/ \E d \in Devices : IntroTimer(d)
    \/ \E d \in Devices, id \in ChatIds, ts \in Times : UserSends(d, id, ts)
    \/ \E d \in Devices, c \in net : DropsMessage(d, c)
    \/ \E d \in Devices, c \in net : DeliverPublicKey(d, c)
    \/ \E d \in Devices, c \in net : DeliverWantSince(d, c)
    \/ \E d \in Devices, c \in net : IgnoresWantSince(d, c)
    \/ \E d \in Devices, c \in net : DeliverChat(d, c)
    \/ \E d \in Devices, c \in net : DeliverHistoryChunk(d, c)

Spec == Init /\ [][Next]_vars

\* The loop of tui.rs passes every 50 ms, update of app.rs every 100 ms, and
\* gossipsub hands over what it has.  Users and connections have no fairness.
Fairness ==
    \A d \in Devices :
        /\ WF_vars(\E s \in due[d] : AnswersSubscribed(d, s))
        /\ WF_vars(IntroTimer(d))
        /\ WF_vars(\E c \in net : DropsMessage(d, c))
        /\ WF_vars(\E c \in net : DeliverPublicKey(d, c))
        /\ WF_vars(\E c \in net : DeliverWantSince(d, c))
        /\ WF_vars(\E c \in net : IgnoresWantSince(d, c))
        /\ WF_vars(\E c \in net : DeliverChat(d, c))
        /\ WF_vars(\E c \in net : DeliverHistoryChunk(d, c))

FairSpec == Spec /\ Fairness

-----------------------------------------------------------------------------
(* What holds in every state *)

Subscriptions == [peer : Devices, room : Rooms]

\* The types of the state of RelayApp and TuiState and of the wire messages.
TypeOK ==
    /\ joined \in [Devices -> SUBSET Rooms]
    /\ visits \in [Devices -> Nat]
    /\ session \in [Devices -> SUBSET Sessions]
    /\ \A d \in Devices : Cardinality(session[d]) <= 1
    /\ send_hs \in [Devices -> BOOLEAN]
    /\ store \in [Devices -> SUBSET Rows]
    /\ subs \in [Devices -> SUBSET Subscriptions]
    /\ due \in [Devices -> SUBSET Subscriptions]
    /\ net \subseteq Copies
    /\ chats \subseteq Chats

\* The rows that what was really said is to be stored as.
SaidRows == {RowOf(c) : c \in chats}

\* A stored row is a chat that its author sent in the row's room, although a
\* session is given the messages of every room the process ever entered, saves
\* what opens under the room it is in (process_wire), and one store holds the
\* history of all rooms (build_history_chunk).
Authentic == \A d \in Devices : store[d] \subseteq SaidRows

\* A ready session holds the key of its room shared with another device, in
\* whatever room that device sent its key.
EstablishedWithPeer ==
    \A d \in Devices : \A s \in session[d] : s.ready =>
        \E e \in Devices \ {d} :
            /\ s.peer_pk = {e}
            /\ s.aes = {DeriveKey(s.room_id, d, e)}

\* The log is what users sent; a device's part of it is its store.
Log == INSTANCE ChatLog WITH said <- SaidRows, kept <- store

\* All stores together behave as parts of one log of what was said, although
\* one store has the rows of all rooms and a session is given messages and
\* asked for history across rooms: each step that touches a store adds rows
\* of the log to one store, and none writes a row anew.
ImplementsChatLog == Log!Spec

-----------------------------------------------------------------------------
(* What the documentation says and the code does not do *)

\* session.rs prints "Encryption established".  The peer whose key a session
\* took has entered the session's room.
EstablishedInRoom ==
    \A d \in Devices : \A s \in session[d] :
        \A e \in s.peer_pk : s.room_id \in joined[e]

\* The users of d and e are in one room and their nodes know each other.
Together(d, e) ==
    \E r \in Rooms :
        /\ \E s \in session[d] : s.room_id = r
        /\ \E s \in session[e] : s.room_id = r
        /\ [peer |-> e, room |-> r] \in subs[d]
        /\ [peer |-> d, room |-> r] \in subs[e]

Ready(d) == \E s \in session[d] : s.ready

\* README: "`4` open the selected local room".  Two users who stay in one room
\* both get an encrypted session, also when one has left it and opened it again.
HandshakeCompletes ==
    \A d, e \in Devices : d # e =>
        (<>[]Together(d, e) => <>[](Ready(d) /\ Ready(e)))
=============================================================================
