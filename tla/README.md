# A TLA+ model of rmsg

rmsg is a chat without servers: each device runs a libp2p node, keeps an
identity file and a SQLite table of messages, and meets its peer in a *room*,
a gossipsub topic. These modules model how two or more rmsg processes agree on
a key, exchange chats and histories, pass messages on for each other and tell
each other where devices listen; how a device keeps its identity; and how nodes
advertise their rooms.
Everything is translated from the Rust sources; libp2p is external and modelled
from how the code uses it.

## Inventory

| Part | State | Operations | Hard behaviour | What makes it correct |
|---|---|---|---|---|
| Message store (`storage.rs`) | one table, keyed by message id | `save` (INSERT OR REPLACE), `load_all`, `last_ts`, `list_rooms` | replaces rows; survives the process | a row is never changed by a later copy; rooms do not mix |
| Crypto session (`crypto.rs`) | AES key | `start`, `encrypt`, `decrypt` | key depends on the room and on both identities; sequence number is associated data | opens what the peer sealed in this room, nothing else |
| Chat session (`session.rs`) | peer key, ready, `seq`, `seen`, store | handshake, chat, request for history, history, `process_wire` | messages in any order, repeated, from an earlier process; first key wins | authentic rows, one text per sequence number, key shared with the peer |
| Command-line chat (`cli.rs`) | session, queues, timer | keyboard line, Subscribed, PeerDiscovered, Message, timer, `/quit` | two threads and two queues; refused publishes; restarts | handshake completes; with a key, no chat is marked that is not read |
| Gossip mesh (`p2p.rs`) | `rooms`, `seen_mesh` | `join_room`, `send_message`, Message | every node publishes every envelope again | each message read once, never by its sender; repeating ends |
| Room registry (`p2p.rs`) | one DHT record for all nodes | `advertise_room`, `discover_rooms`, `handle_kad_get` | read-modify-write by all nodes | rooms of others are not lost |
| Address book (`p2p.rs`, front ends) | `known_addrs`, `known_peers` | `dial_addr`, `reserve_relay`, PeerExchange | one address in several spellings; one's own addresses come back; order of the event queue | nobody dials itself; each address leads to whom it names; spellings do not go on growing; peers are introduced |
| Terminal front end (`tui.rs`) | mode, session, rooms, messages | keys, events, timer | changes rooms while its node stays in all of them | messages and keys of one room only |
| Graphical front end (`app.rs`) | screen, session, `send_hs` | as above | one intro per room; user id is the typed name | as above |
| Identity file (`crypto.rs`) | `identity.key` | `load_or_generate` | two first starts; truncated file; crash in the write | one identity per device, kept once it is settled |
| Invites, `relay`, `discover`, `main`, installer | none | parsing, printing, opening files | none | - |

How they interact: a front end owns a `ChatSession` and talks to its node's
thread over two unbounded queues, events one way (`P2PEvent`) and commands the
other (`CliCmd`). The node wraps what the session built into an envelope and
publishes it on the room's topic; another node unwraps it and queues it for its
front end, which gives it to its session, which saves rows in the store. The
store and the identity file are all that outlives a process.

## Modules

| Module | Models | Correspondence |
|---|---|---|
| `Storage` | `storage.rs` | a table is the set of its rows |
| `ChatSession` | `session.rs`, `CryptoSession`, wire messages | a session is a record; each method an operator |
| `ChatTypes` | devices, rooms, ids and clocks; the types of rows, sessions and messages | what `CliRoom` and `FrontEnds` share |
| `ChatSessionProofs` | - | lemmas about the operators of `ChatSession` and `Storage`, for both |
| `ChatLog` | what the message stores promise together | abstract: `Say`, `Keep` |
| `CliRoom` | `run_chat` on several devices, and the network between them | one action per event of the loop or of the node |
| `MCCliRoom` | - | instance for TLC |
| `CliRoomProofs` | - | theorems about `CliRoom`, among them that it implements `ChatLog` |
| `FrontEnds` | `tui.rs` and `app.rs` on several devices | one action per event, key or button that reaches the session |
| `MCFrontEnds` | - | instance for TLC |
| `FrontEndsProofs` | - | theorems about `FrontEnds` |
| `Broadcast` | what the gossip layer promises | abstract: `Say`, `Hear`, `Restart` |
| `MeshGossip` | gossip side of `P2PNode` | one action per outcome of the Message branch, and the other operations |
| `MCMeshGossip` | - | instance for TLC |
| `MeshGossipProofs` | - | theorems about `MeshGossip`, among them that it implements `Broadcast` |
| `AddressBook` | addresses: Identify, mDNS, `dial_addr`, `reserve_relay`, and the address events of `run_chat` and `run_tui` | one action per event, command or step of the node |
| `MCAddressBook` | - | instance for TLC |
| `AddressBookProofs` | - | theorems about `AddressBook` |
| `IdentityFile` | `KeyPair::load_or_generate` in several processes of a device | one action per access to the file |
| `IdentityFileProofs` | - | theorems about `IdentityFile` |
| `RoomRegistry` | `join_room`, `advertise_room` | one action per operation, and the arrival of a record |

`CliRoom` and `FrontEnds` extend `ChatTypes`, which extends `ChatSession`, which
extends `Storage`; both are shown to implement `ChatLog`. `MeshGossip`,
`AddressBook`, `IdentityFile` and `RoomRegistry` stand by themselves. What
`CliRoom` assumes of the network is what `Broadcast` says: a copy is taken at most
once by a process, in any order, never by the process that sent it; it may come
late, also to a process that started after it was sent.
`CliRoom` and `FrontEnds` represent that by `net`, a set of copies with an addressee each.

### CliRoom

| In the code | In the model |
|---|---|
| a process of device `d`; its user id and PeerId | `up[d]`, `run[d]`, `User(d)` = device and run number |
| `ChatSession` | `session[d]` |
| `messages.db` | `store[d]` |
| gossipsub's subscriptions of peers; queued Subscribed events | `subs[d]`, `due[d]` |
| `known_peers` of the node | `known_peers[d]` |
| messages under way | `net` |
| - | `chats` (history: what users sent), `lost` (a bound) |

One action is one pass of the loop over one event with the publishes it asks
for, or one step of the node's thread that the loop is told of. Both queues are
FIFO and unbounded; that a message waits in one of them only makes it later,
and the network may do that anyway, so it is in `net` until it is handled.
The queue of Subscribed events is kept apart, in `due`, because gossipsub's
subscriptions, which decide whether a publish is refused, run ahead of it.

What is abstracted: a text is represented by its chat's id; AES-GCM is a
perfect cipher, so a ciphertext is the key it was sealed with, the associated
data and the text; X25519 and HKDF make one key per room and pair of
identities; a table of rows and a chunk of items are sets, with the order in
which rows are sealed chosen among all orders by time (`Numberings`). An
`X_Word` definition beside `X` is a slip that `X` might have had; nothing uses
it, and each run's properties are known to tell it from `X`.

### ChatLog

`ChatLog` is what a user may rely on in the stores, with nothing of how it comes
about: `said` is a log of messages, each with an id of its own, and `kept[d]` is
the part of it that device `d` has, to which a step may add any of the log but
nothing else. In `CliRoom` and `FrontEnds`, `said` is `SaidRows`, the rows that
what users sent is to be stored as (`RowOf`), and `kept` is `store`. It promises
no arrival, since the code gives none: a chat that overtakes the handshake is lost.

### FrontEnds

A device runs one process for good, `tui.rs` or, when it is in `Graphical`,
`app.rs`. `joined[d]` is what its node is subscribed to, which only grows;
`session[d]` is the session of the room the user is in, or none in the lobby;
`send_hs[d]` is the field of `RelayApp`; `store`, `subs`, `due`, `net`, `chats`
are as in `CliRoom`, where restarts are. A message reaches a process if its node
is in the message's room, and then the session whatever its room is, since
`P2PEvent::Message` does not say: that is what this module is about. The two
programs differ in when they send their intro (`EnterRoom`,
`EnterRoomGraphical`, `AnswersSubscribed`, `IntroTimer`), in the user id (`User`;
users of `app.rs` are given names of their own) and in that `app.rs` never
answers a request for history.

### MeshGossip

`run`, `rooms`, `seen_mesh` are the node's fields and its process number;
`events` is what it queued for the front end; `gossip` and `heard` are
gossipsub's: everything accepted, and what it handed to each process; `sent`
records who said what first. Gossipsub takes an envelope published again for a
new message, since its source differs: that is why the code has `seen_mesh`.

### AddressBook

| In the code | In the model |
|---|---|
| a multiaddr, as a string | a sequence of devices: first whose IP address and port it begins with, then whose peer ids follow. `<<d>>` is where `d` listens, `<<d, d>>` the same with `d`'s id, `<<r, r, d>>` a circuit to `d` through `r`, `<<r, r, d, d>>` that circuit with the id repeated |
| `format!("{}/p2p/{}", addr, peer_id)` | `WithPeer(addr, d)`: the id goes behind, also where the address ends in it |
| `P2PNode.known_addrs`, `.known_peers` | `known_addrs[d]`, `met[d]` |
| `P2PNode.topic_peers`, gossipsub's subscriptions | `subs[d]` |
| the addresses reported to the front end as one's own; what the swarm listens on | `listening[d]`; `Listens(d)` |
| the addresses `swarm.dial` was called with | `dialled[d]` |
| the queue of `P2PEvent`s | `events[d]`, in order |
| the queue of `CliCmd`s, `Dial` and `Reserve` | `cmds[d]`, a set |
| `known_peers` of `run_chat`, of `run_tui` | `known_peers[d]` |
| - | `named` (history: the addresses a node had of a peer when it met it) |

What matters is order: which of `Listening`, `PeerAddress`, `PeerDiscovered`
and `Subscribed` the front end takes first, and what it knows by then. The
assumptions are these:

- Events of one kind that a node queues in a row are one event with a set of
  addresses. `MaxQueue` makes the node wait while that many events are queued.
- All devices that are no relay are in one room. A relay (`run_relay`) prints
  its events and tells nobody, so only where it listens is modelled.
- The exchange of an intro is in the recipients' queues at once; how long it
  takes is how long it waits there. Addresses that the recipient knows or has
  waiting are left out, as they change nothing. No exchange is lost.
- An address in an invite, or a relay's, is where that device already listens.
- A dial is an attempt. It makes identify and subscriptions possible and nothing
  makes them happen, so a dial that fails is among the behaviours. The bootstrap
  nodes, `Bootstrap`, are dialled when a node is created, outside `known_addrs`.
  The run has none: those of the code are public libp2p nodes, which are in no
  room and listen on no address that a user is at. The theorems hold for any.
- identify tells what a peer listens on: its port, and any of the circuits that a
  relay has accepted (`Listens`), which end in the peer's id; it may be older than
  some of them. `Accepted` names the devices whose reservations relays accept.
- A node tries reservations at the addresses of `Reservable[d]` only, which bounds
  how many circuits there are and how long they get.
- mDNS tells a port with the peer's id or without it (`MdnsWithId`); libp2p-mdns
  0.46, which `Cargo.lock` names, tells it with the id.
- Connections do not close; mDNS's Expired removes no address.

`known_addrs` and the front ends' `known_peers` compare strings, so an address
that comes back with an id repeated is another one: a node may dial one multiaddr
under each spelling it hears of, and `dialled` says nothing of how often.
`Provenance` bounds the spellings, and `NoSelfDial` has an exception for one:
if mDNS tells `<<d, d>>`, others keep `<<d, d, d>>`, and `d`, whose own node never
reported that, dials it when it comes back in an exchange.

### IdentityFile

`pc[p]` is where process `p` is in `load_or_generate`: `idle` (not started),
`read` and `generate` (after `exists`), `write` (the file created or emptied, the
bytes not yet written), `runs`, `ended`. `std::fs::write` is two steps, since it
opens with truncation and then writes; a crash is `Ends` in any state. A key is
named by the process that generates it, as every process generates at most one.
`overlap` is history: two starts were under way at once. Without it `OneIdentity`
is false of the code, and `KeyKept` says what holds even with it.

### RoomRegistry

`copy[n]` is the record under `ROOMS_DHT_KEY` in node `n`'s store, `puts` the
records on their way. Kademlia is external: a put stores the record at home and
sends it to the servers in the routing table, each of which replaces what it
has. `discover_rooms` is left out: its caller, `run_discover`, asks before its
node knows of any peer.

## Runs

All runs take between a few seconds and about two minutes. `CHECK_DEADLOCK FALSE`
everywhere: users may stop typing and every message may have been heard.

| Run | Question | Bounds, and why they are enough |
|---|---|---|
| `CliRoom_two_chats` | stores, types and sequence numbers in all orders of events, and the refinement of `ChatLog` | 2 devices, 2 chats, 2 readings of the clock, sequence numbers up to 2, 4 copies in flight: two chats are the least for a history of several rows, for equal and unequal times, and for two seals of one process |
| `CliRoom_restart` | restarts, several rooms, a loss; does a session with a key mark a chat that it does not read? | both devices run twice, 2 rooms, 1 chat, 2 copies in flight, 1 loss: a row of a room that the new process is not in, relayed history, messages of earlier processes |
| `CliRoom_handshake` | does the handshake always complete, and is a key that is owed ever forgotten? | no chats, device a runs twice and is told of peers by identify too: the restarted side and the side that is already ready |
| `CliRoom_echo` | what remains true if gossip hands a restarted process what its predecessor sent: are stores authentic, and whose key is in a session? | device a runs twice, 1 chat, sequence numbers up to 2, 4 copies in flight, messages of an earlier process delivered (`LateEcho = TRUE`): the predecessor's handshake, its chat and its chat as history reach the successor |
| `CliRoom_own_key` | is a session's key shared with the peer if gossip hands out messages of earlier processes? | violated, see below |
| `FrontEnds_rooms` | do messages of another room do harm, and the refinement of `ChatLog` | a terminal and a graphical device, 2 rooms, 2 visits each, 1 chat, 2 copies in flight: a session in a room other than the one a message was sent in, a store with a row of a room the session is not in, history asked for in one room and answered in another |
| `FrontEnds_other_room`, `_reopened` | are keys those of the room, and does a reopened room work? | violated, see below; no chats, two terminal devices, 2 visits each |
| `MeshGossip_copies` | what many copies of one envelope do, whether one is ever swallowed, and the refinement of `Broadcast` | 3 nodes, 1 envelope with ttl 2, one node restarts, one message of another client that is no envelope: an envelope reaches its last hop and comes back to its sender and to its sender's next process. Envelopes do not influence each other. Envelopes of another version or with a payload that is not base64 are left to the theorems, which hold for any foreign data |
| `AddressBook_introduce` | does anybody dial itself, do addresses lead to whom they name in every spelling, is an introduction ever forgotten, and are peers introduced? | `a` invited `b`, who runs the terminal front end; `a` meets the relay `c` by mDNS; a node waits while 1 event is queued, and exchanges come on top of that; `b` reserves a circuit at `c`, which may accept: an address that is first heard of by mDNS, by identify or by exchange, own addresses and own circuits that come back in each spelling, both orders of meeting the relay and hearing the guest subscribe. The same was found to hold with 2 events queued and with `c` as a bootstrap node of all, in five and six times the states |
| `IdentityFile_starts` | is one identity kept? | 4 processes: two that overlap, one that crashes in the write, and one that reads what is left |
| `RoomRegistry_advertised` | are the rooms of running nodes in the record? | violated, see below; 2 nodes, 2 rooms |

The runs with chats and safety properties leave copies that nobody can take in
`net` (`Expiry = FALSE`), since a copy that is never delivered is the same to
them; where liveness is checked copies may expire. `MaxInFlight` cuts behaviours
in safety runs only; in liveness runs it is above what can be in flight.

### Fairness

Weak fairness of the loop's own events: the queued Subscribed event, the
two-second timer, and the delivery of each kind of message. The loop passes
every 100 ms for as long as the process lives (`cli.rs:265`) and the swarm is
polled without pause (`p2p.rs:266`). Delivery is fair because gossipsub hands a
connected subscriber what it has for it; a loss is a separate action and the
liveness runs of `CliRoom` have none. Nothing is assumed of users, crashes, connections or
subscriptions: `HandshakeCompletes` speaks of processes that stay connected.
`FrontEnds` assumes the same of the loop of `tui.rs`, which passes every 50 ms
(`tui.rs:155`), and of `update` of `app.rs`, repainted every 100 ms
(`app.rs:144`). `AddressBook` assumes only that front ends go on taking events:
nothing of the node, of mDNS or of identify, so `PeersIntroduced` speaks of
peers that have been met.

### Disagreements with the documents

- A process that is handed its predecessor's handshake establishes encryption
  with itself and ignores the peer's key (`CliRoom_own_key`, `LateEcho = TRUE`).
  `CliRoom_echo` and the theorems say what holds even so; the other runs exclude
  it (`LateEcho = FALSE`) and say what holds without it.
- A key sent in a room that a user of the terminal front end has left
  establishes the session of the room that user is in now
  (`FrontEnds_other_room`).
- When a user leaves a room of the terminal front end and opens it again, the
  peer's ready process does not send its key again, as no subscription is
  announced, and the new session stays without one (`FrontEnds_reopened`).
- All nodes write one DHT record, each with a list of its own rooms, so a node
  that joins a room erases those of the others (`RoomRegistry_advertised`).

`rmsg list` never lists a room, as SQLite does not accept the statement of
`list_rooms`; that is no matter for a model.

Some limits are not violations of a document. A chat that arrives before the
handshake is dropped for good, history is saved and shown again, and nothing is
held for a peer that is away. A key whose one copy is lost is not
sent again by a side that is ready (`MaxLost = 0` in `CliRoom_handshake`), and
the first key wins, so a room of three is three devices of which two at most
understand a given one. An address that a peer begins to listen on after it was
met triggers no intro, and the terminal front end introduces nobody on
PeerDiscovered: `PeersIntroduced` is about the command line and `named`.

## Proofs

All theorems hold for every number of devices, rooms, chats, envelopes,
restarts, losses and every value of the bounds. The assumptions are the modules'
`ConstantsAssumption` and, where there are clocks, `TimesAssumption`: readings
are positive, as milliseconds since 1970 are.

`CliRoomProofs` and `FrontEndsProofs` share `ChatSessionProofs`: one lemma per
operator of `ChatSession` and `Storage` for the type of what it returns, and
lemmas on what a session opens and seals. A message is `Honest` if every
ciphertext in it that opens says something its author said; what a session
makes of an authentic store is honest (`HistoryHonest`), what it opens of an honest
message is a row of the log, and saving such rows only adds to the table, since
ids are unique in the log.

- `TypeCorrect` (both): `TypeOK` is inductive.
- `StoresAuthentic` (both): `Authentic` alone is not inductive, since a row comes
  from a message under way. `LogInv` adds `NetHonest`, that all messages in `net`
  are honest, and `UniqueIds`. The associated data and the key tie the text to
  the room, also in `FrontEnds`, where a session is given messages of other rooms.
- `StoresImplementLog` (both): under the same invariant each step of the program
  is one of three: it touches neither log nor stores (`QuietStep`), it says one
  new message (`SayStep`), or it keeps some of the log in one store (`KeepStep`).
- `StoresOnlyGrow` (`CliRoom`) follows from `LogStep` too.
- `KeysOfAnotherProcess` (`CliRoom`), whatever `LateEcho` is: a handshake in `net`
  carries the key of the device whose process sent it, and that process has
  started (`StartedKeys`); a running process goes by its user id and a session's
  own key pair is its device's (`StartedUsers`, `OwnKeyPair`); and a handshake
  under the process's own user id is not delivered. It says of
  `KeyOfAnotherProcess` what the guard of `process_wire` gives, another process; that
  this is another device (`EstablishedWithPeer`) is false of the code and is only
  checked where gossip brings no echo (`CliRoom_restart`).
- `KeysSharedWithPeer` (`FrontEnds`, which has no restarts): handshakes in `net`
  carry the key of a device that is not the addressee. That the key may be from
  another room is `EstablishedInRoom`, which is false of the code.
- `SequenceNumbersUnique` (`CliRoom`): no seal under way is numbered above the
  counter of the session that made it, and a run number never comes back.
- `KeysOwedAreKept` (`CliRoom`): `KeyOwed` is the safety core of
  `HandshakeCompletes`. Each step that makes it true that `d` knows of `e`'s
  subscription puts that in `due[d]`; taking it from there sends the key, ready or
  not; and the key leaves `net` only by being adopted, by a loss, or by expiring
  where its addressee is gone. It needs `RunsAsUser`, that a session runs under
  its process's user id, and `SubsPast`, that nobody is subscribed to a process
  that has not started yet, since a restarted process must not owe what it was
  owed before.

`MeshGossipProofs`: `GivenOnce`, `NeverEchoed`, `RepeatedOnce`, `EnvelopesTraced`,
`TypeCorrect`, `Refines`. The inductive invariant relates what was said, what
is under way and what a process remembers: ids are used once (`SentOnce`), all
gossip repeats something said (`GossipSent`), nobody speaks for a later process
(`NotFuture`), data that is no envelope is published once (`RawOnce`), a process
has marked what it published as seen (`MineSeen`), what it has seen was said, as
an envelope (`SeenSent`), and what its program was given it has seen or was no
envelope (`GivenKnown`). `Refines` maps each step to `Say`, `Hear`, `Restart` or
a stutter. `NeverSwallowed` (`NothingSwallowed`) is
about the order of two assignments, to `seen_mesh` and to the queue; it needs that
whatever is marked as seen was said by the process, given to it or unreadable
(`SeenPassed`), and that copies of one id are all readable or none (`SameText`),
since the copy that is passed on is not the one that is refused later.

`AddressBookProofs`:

- `AddressesTraced`: `Provenance` of what is kept is not inductive, since addresses
  come from queues. The invariant (`HeardInv`) says the same of queued events and
  commands, and that a device reports addresses that end in its own id, each
  circuit both as it is and with the id repeated, so what identify makes of it is
  among them; the port with the id twice behind it (`Tripled`) is the one
  spelling that nobody reports.
- `IntroductionsKept`: `IntroductionOwed` is the safety core of `PeersIntroduced`.
  What `d` owes `e` moves from the node's events to the front end, from there into
  an intro and so into `e`'s queue. The invariant (`OweInv`) says of it that it is
  done, offered in `e`'s queue, or owed by a trigger in `d`'s queue that comes
  after the address (`Told`); that whatever a node has dialled its front end knows
  or will know, so a peer met later finds its address in front of the event; and
  that triggers tell no addresses, so dropping one loses none. `Carries` names
  what a step may do to the queues without undoing any of this, and each action
  is shown to carry.
- `NeverDialsItself`: needs the order of the queue. The invariant (`OrderInv`) says
  that every own address a device has reported is known to its front end or
  announced in the queue, and that an own address in a queued event of another
  kind, `Tripled` ones excepted, is known or announced *before* it. An exchange may put an own address at
  the end of the queue because all own addresses have been announced by then; a
  node's report about others never holds one.

`IdentityFileProofs`: `OneKey` needs that without overlap one process at most is
loading (`OneLoads`), that any key in use is the one in the file (`InFile`), and
that nobody generates if there is one (`FirstGenerates`). `IdentityKept` is an
action property and needs `TypeOK` alone.

Only model-checked: the liveness properties (`HandshakeCompletes`,
`PeersIntroduced`), which need fairness and so are out of TLAPS's reach;
`EstablishedWithPeer` and `ReadyReads` of `CliRoom_restart`, which speak of what
holds while gossip brings back nothing of a device's own, `ReadyReads` of two
devices; and everything that is violated. Both liveness properties have their
safety core proved (`KeyOwed`, `IntroductionOwed`): what fairness then adds is
that an obligation which is never dropped is met. Every other invariant and
action property of a passing run, and both refinements, are theorems.

## Not modelled

The table of components in `PROJECT.json` has the reasons. In short: drawing,
argument parsing, invites and the installer have no protocol; an invite is the
list of addresses that `Initial` gives a device. `discover_rooms`,
`handle_kad_get` and `write_rooms_record` are reached only from `run_discover`,
which asks an empty routing table. `app.rs` keeps no addresses: it ignores
`Listening`, `PeerAddress` and exchanges. `load_recent` and
`load_before` with a limit have no caller; `Ack` and `Typing` change no state
that a property is about; database errors (`save(..).ok()`) are left out.

## Plan

In this order, each with its runs and then its proofs:

1. Users of one name in the graphical front end, and rooms of three. The
   sequence numbers of `FrontEnds` are among this: its graphical users keep one
   user id over several sessions, so `SeqTellsSealsApart` is not true of it.
2. Connections that close in `AddressBook`.
3. `net` in `CliRoom` discharged by `Broadcast`. A step-by-step refinement does not
   work as both stand: `net` is a set, in which the same message sent again is one
   copy, while `Broadcast` gives each sending an id. It needs copies with ids.
4. `Storage` paging (`load_recent`, `load_before`) against a reference, should it
   get a caller.

Done: the core (`CliRoom`, `MeshGossip`, `Broadcast`), `FrontEnds`, `AddressBook`,
`IdentityFile`, `RoomRegistry`, `ChatLog`, and a theorem for each safety property of
a passing run but those named under Proofs.
