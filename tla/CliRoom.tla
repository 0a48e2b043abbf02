------------------------------ MODULE CliRoom ------------------------------
(***************************************************************************)
(* The command-line chat (cli.rs, run_chat): devices that each run at most *)
(* one rmsg process at a time, its event loop, its ChatSession, the        *)
(* message store that survives it, and the gossip network between them.    *)
(*                                                                         *)
(* A process is two threads joined by two unbounded queues: the loop of    *)
(* run_chat and the thread that polls the swarm.  An action here is one    *)
(* pass of the loop over one event, up to the publishes it asks for, or    *)
(* what the swarm's thread does between two passes.  A queued message or   *)
(* publish is only delayed, as the network does anyway: it is in `net`;    *)
(* the queued Subscribed events, which the swarm's state runs ahead of,    *)
(* are in `due`.                                                           *)
(* PeerExchange, the third message of an intro, never reaches a session    *)
(* and is left to the address book.                                        *)
(***************************************************************************)
EXTENDS ChatTypes

CONSTANTS
    MaxRuns,    \* MaxRuns[d] bounds the processes of d; the last is not stopped
    MaxSeq,     \* bound on a session's sequence number
    MaxInFlight,\* bound on the copies on their way at one time
    MaxLost,    \* bound on the messages the network loses
    Identifying,\* the devices whose identify events a run explores
    LateEcho,   \* may gossip bring a device a message of its earlier process?
    Expiry      \* may copies that nobody can take now vanish?  (If not they
                \* may stay undelivered for ever: safety cannot tell.)

ASSUME ConstantsAssumption ==
    /\ Rooms # {}
    /\ MaxRuns \in [Devices -> Nat]
    /\ MaxSeq \in Nat
    /\ MaxInFlight \in Nat
    /\ MaxLost \in Nat
    /\ Identifying \subseteq Devices
    /\ LateEcho \in BOOLEAN
    /\ Expiry \in BOOLEAN

VARIABLES
    up,           \* up[d]: a process runs on d
    run,          \* run[d]: how many processes d has started
    session,      \* session[d]: the ChatSession of the running process
    store,        \* store[d]: the rows of messages.db, which outlive it
    subs,         \* subs[d]: the subscriptions d's gossipsub knows of
    due,          \* due[d]: those whose Subscribed event the loop has queued
    known_peers,  \* known_peers[d]: the peers d's node has identified
    net,          \* copies of gossip messages on their way
    lost,         \* how many copies the network lost
    chats         \* history: every chat a user sent

vars == <<up, run, session, store, subs, due, known_peers, net, lost, chats>>

-----------------------------------------------------------------------------
(* Identities *)

\* The user id is name, short key id and four characters of a fresh uuid: it
\* tells the processes of one device apart.  The swarm's PeerId is fresh per
\* process too, so the same pair stands for both.
User(d) == <<d, run[d]>>

\* A session value for a device without a process.
NoProcess(d) == NewSession(CHOOSE r \in Rooms : TRUE, <<d, 0>>, d)

-----------------------------------------------------------------------------
(* Gossip *)

\* P2PNode::send_message: gossipsub refuses to publish when it knows nobody
\* who subscribes to the room, and the caller ignores the error.  Otherwise
\* the message may reach every device, now or later: it is forwarded, and
\* peers keep it for a few seconds to offer it to newcomers, a restarted
\* process of the sender among them (its own process never gets it back,
\* seen_mesh and gossipsub see to that).
Recipients(d) ==
    (Devices \ {d}) \cup {e \in {d} : LateEcho /\ run[d] < MaxRuns[d]}

Published(d, msgs) ==
    LET room == session[d].room_id
    IN IF \E s \in subs[d] : s.room = room
       THEN [to : Recipients(d), room : {room}, msg : msgs]
       ELSE {}

\* A mutant of Intro: no intro once the session has what it needs.
Intro_UntilReady(d) ==
    IF session[d].ready THEN {}
    ELSE Published(d, {Handshake(session[d]), WantSince(session[d], store[d])})

\* send_session_intro: the handshake and the request for history.
Intro(d) == Published(d, {Handshake(session[d]), WantSince(session[d], store[d])})

\* A copy reaches the process of the addressee that joined the room.
Deliverable(c) ==
    /\ up[c.to]
    /\ session[c.to].room_id = c.room
    /\ c.msg.from # User(c.to)

-----------------------------------------------------------------------------
(* Processes *)

Init ==
    /\ up = [d \in Devices |-> FALSE]
    /\ run = [d \in Devices |-> 0]
    /\ session = [d \in Devices |-> NoProcess(d)]
    /\ store = [d \in Devices |-> {}]
    /\ subs = [d \in Devices |-> {}]
    /\ due = [d \in Devices |-> {}]
    /\ known_peers = [d \in Devices |-> {}]
    /\ net = {}
    /\ lost = 0
    /\ chats = {}

\* rmsg create, rmsg join: the node joins the room and the loop starts with an
\* intro, which gossipsub refuses while no subscription of a peer is known
\* (if the swarm's thread is late with it, it is an IntroTimer).
Start(d, r) ==
    /\ ~up[d]
    /\ run[d] < MaxRuns[d]
    /\ up' = [up EXCEPT ![d] = TRUE]
    /\ run' = [run EXCEPT ![d] = @ + 1]
    /\ session' = [session EXCEPT ![d] = NewSession(r, <<d, run[d] + 1>>, d)]
    /\ UNCHANGED <<store, subs, due, known_peers, net, lost, chats>>

\* /quit, or a crash: only the store remains.
Stop(d) ==
    /\ up[d]
    /\ run[d] < MaxRuns[d]
    /\ up' = [up EXCEPT ![d] = FALSE]
    /\ session' = [session EXCEPT ![d] = NoProcess(d)]
    /\ subs' = [subs EXCEPT ![d] = {}]
    /\ due' = [due EXCEPT ![d] = {}]
    /\ known_peers' = [known_peers EXCEPT ![d] = {}]
    /\ UNCHANGED <<run, store, net, lost, chats>>

-----------------------------------------------------------------------------
(* Events of the loop that send an intro *)

\* gossipsub::Event::Subscribed: the swarm's thread queues the event.
PeerSubscribed(d, e) ==
    LET s == [peer |-> User(e), room |-> session[e].room_id]
    IN /\ d # e /\ up[d] /\ up[e]
       /\ s \notin subs[d]
       /\ subs' = [subs EXCEPT ![d] = @ \cup {s}]
       /\ due' = [due EXCEPT ![d] = @ \cup {s}]
       /\ UNCHANGED <<up, run, session, store, known_peers, net, lost, chats>>

\* The loop's Subscribed branch.
AnswersSubscribed(d, s) ==
    /\ up[d]
    /\ s \in due[d]
    /\ due' = [due EXCEPT ![d] = @ \ {s}]
    /\ net' = net \cup Intro(d)
    /\ Cardinality(net') <= MaxInFlight
    /\ UNCHANGED <<up, run, session, store, subs, known_peers, lost, chats>>

\* The connection to a peer closes.  It may come back: PeerSubscribed again.
ConnectionClosed(d, s) ==
    /\ s \in subs[d]
    /\ subs' = [subs EXCEPT ![d] = @ \ {s}]
    /\ UNCHANGED <<up, run, session, store, due, known_peers, net, lost, chats>>

\* identify::Event::Received from a new peer, the loop's PeerDiscovered branch.
PeerIdentified(d, e) ==
    /\ d \in Identifying /\ d # e /\ up[d] /\ up[e]
    /\ User(e) \notin known_peers[d]
    /\ known_peers' = [known_peers EXCEPT ![d] = @ \cup {User(e)}]
    /\ net' = net \cup Intro(d)
    /\ Cardinality(net') <= MaxInFlight
    /\ UNCHANGED <<up, run, session, store, subs, due, lost, chats>>

\* The end of a pass of the loop, two seconds after the last intro.
IntroTimer(d) ==
    /\ up[d]
    /\ ~session[d].ready
    /\ net' = net \cup Intro(d)
    /\ Cardinality(net') <= MaxInFlight
    /\ UNCHANGED <<up, run, session, store, subs, due, known_peers, lost, chats>>

-----------------------------------------------------------------------------
(* The user and the messages *)

\* A line from the keyboard.  Before the handshake it is refused, which
\* changes nothing; after, it is on the screen whether or not the publish
\* succeeds.
UserSends(d, id, ts) ==
    LET s == session[d]
    IN /\ up[d] /\ s.ready
       /\ s.seq < MaxSeq
       /\ \A c \in chats : c.id # id
       /\ session' = [session EXCEPT ![d] = AfterSeals(s, 1)]
       /\ net' = net \cup Published(d, {ChatOf(s, id, ts)})
       /\ Cardinality(net') <= MaxInFlight
       /\ chats' = chats \cup
              {[id |-> id, room_id |-> s.room_id, from |-> s.user_id, ts |-> ts]}
       /\ UNCHANGED <<up, run, store, subs, due, known_peers, lost>>

Receives(d, c, t) == c.to = d /\ c.msg.t = t /\ Deliverable(c)

DeliverPublicKey(d, c) ==
    /\ Receives(d, c, "pk")
    /\ net' = net \ {c}
    /\ session' = [session EXCEPT ![d] = AfterPublicKey(@, c.msg)]
    /\ UNCHANGED <<up, run, store, subs, due, known_peers, lost, chats>>

\* The loop's own answer to a request for history, which needs a peer key.
DeliverWantSince(d, c) ==
    LET s == session[d]
        rows == Missing(s, store[d], c.msg.since)
    IN /\ Receives(d, c, "want_since")
       /\ IF s.ready
          THEN \E numbering \in Numberings(rows) :
                 /\ Cardinality(rows) \in 0..(MaxSeq - s.seq)
                 /\ session' = [session EXCEPT ![d] = AfterSeals(s, Cardinality(rows))]
                 /\ net' = (net \ {c}) \cup
                               Published(d, {HistoryChunk(s, rows, numbering)})
                 /\ Cardinality(net') <= MaxInFlight
          ELSE net' = net \ {c} /\ UNCHANGED session
       /\ UNCHANGED <<up, run, store, subs, due, known_peers, lost, chats>>

\* What a chat and a history chunk have in common: save what opens.
Saves(d, m) ==
    store' = [store EXCEPT ![d] =
                  SaveAll(@, {Row(session[d], o) : o \in Opened(session[d], m)})]

DeliverChat(d, c) ==
    /\ Receives(d, c, "chat")
    /\ net' = net \ {c}
    /\ session' = [session EXCEPT ![d] = AfterChat(@, c.msg)]
    /\ Saves(d, c.msg)
    /\ UNCHANGED <<up, run, subs, due, known_peers, lost, chats>>

DeliverHistoryChunk(d, c) ==
    /\ Receives(d, c, "history_chunk")
    /\ net' = net \ {c}
    /\ Saves(d, c.msg)
    /\ UNCHANGED <<up, run, session, subs, due, known_peers, lost, chats>>

\* A copy nobody can take any more leaves the caches of the mesh.
Expire(c) ==
    /\ Expiry
    /\ c \in net /\ ~Deliverable(c)
    /\ net' = net \ {c}
    /\ UNCHANGED <<up, run, session, store, subs, due, known_peers, lost, chats>>

\* A copy that could have arrived does not.
Lose(c) ==
    /\ c \in net /\ Deliverable(c)
    /\ lost < MaxLost
    /\ net' = net \ {c}
    /\ lost' = lost + 1
    /\ UNCHANGED <<up, run, session, store, subs, due, known_peers, chats>>

Next ==
    \/ \E d \in Devices, r \in Rooms : Start(d, r)
    \/ \E d \in Devices : Stop(d)
    \/ \E d, e \in Devices : PeerSubscribed(d, e)
    \/ \E d \in Devices : \E s \in due[d] : AnswersSubscribed(d, s)
    \/ \E d, e \in Devices : PeerIdentified(d, e)
    \/ \E d \in Devices : \E s \in subs[d] : ConnectionClosed(d, s)
    \/ \E d \in Devices : IntroTimer(d)
    \/ \E d \in Devices, id \in ChatIds, ts \in Times : UserSends(d, id, ts)
    \/ \E d \in Devices, c \in net : DeliverPublicKey(d, c)
    \/ \E d \in Devices, c \in net : DeliverWantSince(d, c)
    \/ \E d \in Devices, c \in net : DeliverChat(d, c)
    \/ \E d \in Devices, c \in net : DeliverHistoryChunk(d, c)
    \/ \E c \in net : Expire(c)
    \/ \E c \in net : Lose(c)

Spec == Init /\ [][Next]_vars

\* The loop of run_chat passes every 100 ms, the swarm's thread is never
\* blocked, and gossipsub hands a connected peer what it has for it.  Users,
\* crashes, connections and losses have no fairness.
Fairness ==
    \A d \in Devices :
        /\ WF_vars(\E s \in due[d] : AnswersSubscribed(d, s))
        /\ WF_vars(IntroTimer(d))
        /\ WF_vars(\E c \in net : DeliverPublicKey(d, c))
        /\ WF_vars(\E c \in net : DeliverWantSince(d, c))
        /\ WF_vars(\E c \in net : DeliverChat(d, c))
        /\ WF_vars(\E c \in net : DeliverHistoryChunk(d, c))

FairSpec == Spec /\ Fairness

-----------------------------------------------------------------------------
(* What holds in every state *)

Subscriptions == [peer : Users, room : Rooms]

\* The types of the fields of ChatSession, of the columns of `messages` and of
\* the wire messages (u64, i64 and Option among them).
TypeOK ==
    /\ up \in [Devices -> BOOLEAN]
    /\ run \in [Devices -> Nat]
    /\ session \in [Devices -> Sessions]
    /\ store \in [Devices -> SUBSET Rows]
    /\ subs \in [Devices -> SUBSET Subscriptions]
    /\ due \in [Devices -> SUBSET Subscriptions]
    /\ known_peers \in [Devices -> SUBSET Users]
    /\ net \subseteq Copies
    /\ lost \in Nat
    /\ chats \subseteq Chats

\* The rows that what was really said is to be stored as.
SaidRows == {RowOf(c) : c \in chats}

\* Every stored message is one that its author sent in that room, with that
\* text, at that time: also when it came as history, from a device that is not
\* its author, between processes that were not running when it was sent, and
\* from a store that holds several rooms (process_wire, build_history_chunk).
Authentic == \A d \in Devices : store[d] \subseteq SaidRows

\* The seals a message carries.
SealsOf(m) ==
    CASE m.t = "chat" -> {[seq |-> m.seq, text |-> m.ct.text]}
      [] m.t = "history_chunk" -> {[seq |-> i.seq, text |-> i.ct.text] : i \in m.items}
      [] OTHER -> {}

\* A process never seals two texts under one sequence number, whether they
\* leave as a chat, in one history chunk or in two: the sequence number in the
\* associated data tells a process's messages apart.
SeqTellsSealsApart ==
    \A c, k \in net : c.msg.from = k.msg.from =>
        \A x \in SealsOf(c.msg), y \in SealsOf(k.msg) :
            x.seq = y.seq => x.text = y.text

\* The loop prints "Encryption established" (session.rs) only when the session
\* holds the key of its room shared with another device.
EstablishedWithPeer ==
    \A d \in Devices : session[d].ready =>
        \E e \in Devices \ {d} :
            /\ session[d].peer_pk = {e}
            /\ session[d].aes = {DeriveKey(session[d].room_id, d, e)}

\* Whatever gossip brings, also messages of a device's earlier process: a key
\* that a session adopts comes from another process than its own, one that has
\* started, and is that process's own, for the session's room.  So a device's
\* first process never has a key with itself; a later one may, as the guard of
\* process_wire compares user ids, which tell processes apart (session.rs 126).
KeyOfAnotherProcess ==
    \A d \in Devices : session[d].ready =>
        \E e \in Devices : \E n \in 1..run[e] :
            /\ <<e, n>> # User(d)
            /\ session[d].peer_pk = {e}
            /\ session[d].aes = {DeriveKey(session[d].room_id, d, e)}

\* A key that is owed is never forgotten: if d's node knows that e's process
\* subscribes to the room they are both in, and nothing was lost, then e is
\* ready, or d's loop has yet to answer the subscription, or d's key is on its
\* way to e.  That d is ready, and no longer sends on its timer, makes no
\* difference (cli.rs 250, 260; p2p.rs 301).
KeyOwed ==
    \A d, e \in Devices :
        LET s == [peer |-> User(e), room |-> session[d].room_id]
        IN lost = 0 /\ d # e /\ up[e] /\ session[e].room_id = s.room /\ s \in subs[d]
           => \/ session[e].ready
              \/ s \in due[d]
              \/ [to |-> e, room |-> s.room, msg |-> Handshake(session[d])] \in net

\* INSERT OR REPLACE never changes a row: a message that arrives again, live
\* or as history from whatever device, says what the stored one says.
StoreOnlyGrows == [][\A d \in Devices : store[d] \subseteq store'[d]]_vars

\* A chat that overtakes the handshake is marked as seen and never read; one
\* that comes when the session is ready is marked only if it is read, however
\* often either device restarted and whatever the rooms of its earlier
\* processes: the key of whoever sent it is the key it is opened with
\* (session.rs 91-102).  This is of rooms of two, and without LateEcho.
ReadyReads ==
    [][\A d \in Devices : session[d].ready /\ run'[d] = run[d] =>
           \A id \in session'[d].seen \ session[d].seen :
               \E r \in store'[d] : r.id = id]_vars

\* The log is what users sent; a device's part of it is its store.
Log == INSTANCE ChatLog WITH said <- SaidRows, kept <- store

\* All stores together behave as parts of one log of what was said: whatever
\* sessions, restarts, histories and the network do, each step that touches a
\* store adds rows of the log to one store, and none writes a row anew.
ImplementsChatLog == Log!Spec

-----------------------------------------------------------------------------
(* What eventually happens *)

\* Two processes in one room, connected: gossipsub of each knows the other.
Connected(d, e) ==
    /\ up[d] /\ up[e]
    /\ [peer |-> User(e), room |-> session[d].room_id] \in subs[d]
    /\ [peer |-> User(d), room |-> session[e].room_id] \in subs[e]

\* Two processes that stay connected both establish encryption, whatever was
\* lost while either was not there: a ready process no longer sends its key on
\* the timer, so it is the Subscribed events that must do it.
HandshakeCompletes ==
    \A d, e \in Devices : d # e =>
        (<>[]Connected(d, e) => <>[](session[d].ready /\ session[e].ready))
=============================================================================
