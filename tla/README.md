# LAN chat: models and proofs

TLA+ modules for the LAN chat program: the single-threaded chat server, the
connection it talks through, its two storage backends, the two clients and the
codecs. TLC checks them on small instances; TLAPS proves, for every value of the constants,
the server's invariants, that the transport and both storages implement their
specifications, that clients and server stay in step, and what the codecs compute. Paths below are relative to the
repository, which is `src/` (so `src/src/server/server.c` is its `server.c`).

## 1. The system

| component | where | state it keeps | operations |
|---|---|---|---|
| chat server | `src/src/server/server.c` | client slots (connection, user, session), call registry, file relay table, three id counters | `run_once`: accept, visit every slot (flush, receive one packet, dispatch), two sweeps; `init`, `shutdown` |
| transport | `src/src/transport/transport.c` | a one-packet send queue with an offset, a framer, `is_open` | `queue_packet`, `flush`, `recv_packet`, `close`; listen, connect, accept |
| framer, ring buffer | `src/src/core/framer.c`, `ring_buffer.c` | a ring with the capacity of the largest packet | `feed`, `next`; `write`, `peek`, `discard` |
| protocol, TLV, endian | `src/src/core/protocol.c`, `tlv.c`, `endian.c` | none | pure conversions of headers and bodies |
| storage interface | `src/src/storage/storage.c` | none (a table of functions) | thirteen calls: accounts, conversations, messages, deliveries, files |
| memory storage | `src/src/storage/memory/storage_memory.c` | six arrays of fixed capacity | the same calls on the arrays |
| MySQL storage | `src/src/storage/mysql/storage_mysql.c`, `src/db/mysql/schema.sql` | one connection | the same calls as SQL statements, some in a transaction |
| CLI client | `src/apps/chat_cli` | one connection, a file being received | commands that send a request and wait for what belongs to it |
| GUI client | `src/apps/chat_gui/main.cpp`, `gui_client.cpp` | login, contacts, the call on the line | the same requests, an event loop that reads notifies |
| audio call session | `src/apps/chat_gui/audio_call_session.cpp` | a peer connection of libdatachannel, audio devices | offer, answer, candidate, start, stop |
| server program | `src/apps/chat_server` | options | opens a storage and calls `run_once` for ever |
| platform, C++ wrappers, status names | `src/src/platform/win32`, `src/cpp`, `src/src/core/status.c` | none of interest | socket calls; forwarding; names |

**How they interact.** The server is one thread. It calls its storage and its
connections directly; peers reach it only through bytes. A connection queues one
packet at a time, so `queue_packet` fails whenever the peer has not drained the
last one, and every handler that tells a second client something has to decide
what that means. The storage outlives the server process with MySQL and dies with
it with the memory backend. Clients learn of each other only through notifies. A CLI command is one thread that
sends a request and blocks for its response. The GUI runs in the event loop of its
window; libdatachannel makes the signals of a call in threads of its own, which post
them to that loop.

**What is hard.**

* A pass of `run_once` is one sequence of steps over all clients, and a handler may
  close *other* connections in the middle of it: a login closes the user's older
  connections (`authenticate_client`, 1412-1432), in slots the pass has visited or
  not; a closing client takes its calls and transfers with it and tells the peers.
* A full send buffer is met in four ways: a response that does not fit closes the
  connection; a call signal, a file start or a chunk that does not fit closes its
  *sender*; a chat, group or completion notify is lost; a hangup notify is lost.
* A connection may log in again as somebody else, with packets for its old session
  waiting, and with its old user's call still in the registry.
* Bytes arrive in any pieces through a ring with exactly one largest packet of room.
* A storage call is up to six statements; each may fail, the connection may go
  with the answer to COMMIT, and the process may die between any two.
* The memory backend has to behave as the MySQL one, over arrays that fill up.
* A response carries the sequence number of its request, and both clients compare it: a
  command stops with "seq mismatch", a window finds no request to go with it. So every
  request must be answered once and in turn; and everything the server sends in between is a
  notify that may make the command fail or the window change.
* The window applies the notifies and responses of a call in the order they arrive,
  while its user clicks and its audio session posts signals, and it does not compare
  their call id with its own when it ends a call.
* A file received is on disk before anybody knows that it is whole; starts, bad
  chunks, timeouts and lost connections interrupt it anywhere.

**What makes each component correct.** The server: sessions unique, calls
disjoint, notifies addressed to the session that gets them, nothing kept for users
who are gone, a peer told of the end of its call, acknowledgements that are true,
no connection lost through another one's fault. A connection: a FIFO channel of
whole packets. A storage: every call all or nothing, tables that agree with each
other, pages that later calls do not disturb. A client: every response is taken for
the request it answers, a call on the line is one of the server's or about to end,
and what a listener leaves in its directory is what a sender announced. A codec: what
is written is what is read, and nothing outside a buffer is touched.

## 2. Modules

| module | models | composes |
|---|---|---|
| `ChatServer` | the server | its storage's rows appear as `accounts`, `messages`, `groups`, `fileRows`; its connections as one send buffer each |
| `ChatServerProofs` | theorems: types, sessions, calls, notifies, transfers and file rows, users who leave, what is told is stored, the end of a call is told, room in the call table | `ChatServer` |
| `RingBuffer` | `ring_buffer.c` as operators | |
| `Channel` | abstract: a lossy-at-the-end FIFO of packets | |
| `Transport` | one direction of a connection: send queue, socket, framer | `RingBuffer`; implements `Channel` |
| `TransportProofs` | theorems: the ring, a connection implements `Channel`, no byte is lost on the way | `Transport` |
| `Tables` | the rows both backends keep, the queries as the SQL states them, consistency | |
| `Storage` | abstract: what `lan_chat_storage_c` promises | `Tables` |
| `StorageProofs` | theorems: the promises keep the tables consistent, pages of history as they are, inboxes in order | `Storage` |
| `MemoryStorage` | the memory backend | `Tables`; implements `Storage` with `Doubtful = FALSE` |
| `MemoryProofs` | theorems: capacities, implements `Storage`, consistency, listings | `MemoryStorage`, `StorageProofs` |
| `MySqlStorage` | the MySQL backend, a statement per step | `Tables`; implements `Storage` with `Doubtful = TRUE` |
| `MySqlProofs` | theorems: transactions end, implements `Storage`, consistency, pages | `MySqlStorage`, `StorageProofs` |
| `FileReceive` | how `chat_cli listen` turns file notifies into files | alone: arbitrary notifies |
| `FileReceiveProofs` | theorems | `FileReceive` |
| `Links` | the server with a pair of queues per logged-in user | `ChatServer`; a queue is what `Channel` says of a connection |
| `CliClient` | `chat_cli send`, `send-file`, `listen` | `Links`, `FileReceive` |
| `GuiClient` | `chat_gui`: the window's call, pending requests, the audio session | `Links` |
| `Clients` | server and programs together | `CliClient`, `GuiClient` |
| `ClientsProofs` | theorems: requests and responses, the files to a listener, and the calls of the windows stay in step; the server and the receiver among clients | `Clients`, `ChatServerProofs`, `FileReceiveProofs` |
| `Codec` | `endian.c`, `protocol.c`, `tlv.c` as operators | |
| `CodecProofs` | theorems | `Codec` |
| `MCChatServer`, `MCTransport`, `MCStorage`, `MCMySql`, `MCClients` | symmetry, casts and bounds for TLC | |

### ChatServer

| state | code |
|---|---|
| `clients[s]` | `server->clients[s]`: `open` is the connection's `is_open`, `user` and `session` the authenticated user and session (0 is `NoUser`, 0) |
| `out[s]` | the connection's send queue; a packet is its kind, operation and id, with the chunk's index and length; notifies also carry `to` and `session`, ghost fields for whom they were queued |
| `calls`, `transfers` | the entries of the call registry and of the relay table that are active |
| `ids` | `next_session_id`, `next_call_id`, `next_runtime_file_transfer_id` |
| `turn` | where `run_once` is: 0 accepts, `s` visits slot `s`, `NSlots + 1` sweeps |
| `accounts`, `messages`, `groups`, `fileRows` | what the storage holds of the server's doing |

A visit of one slot (`flush`, `recv_packet`, `dispatch`) is one action because no
other code runs in between: `Visit(s, t)` takes the tables `t` after the flush and
is one of `Disconnect`, `Idle`, or one action per handler of `dispatch`. A
handler's effect is composed from operators named for what the code does:
`Reply` (queue the response, or be closed), `Relay` (notify first, undo and close
the requester when that fails), `Acknowledge` (response first, then the notifies),
`CloseSlots` (`close_client`), `Authenticate`. `Refuse` is every error response
that changes nothing. The pass starts with `AcceptOne`/`AcceptDone` and ends with
`Sweep`, both sweeps. `Restart` is the end of the process at any point and a new
`init` on the same storage (MySQL); on the memory backend a restart is `Init`.

Abstracted: names, texts, passwords, bodies and payloads (a body that does not
parse is a `Refuse`); the storage's failures (a `Refuse`, or the branch of the
handler that ignores them); what a peer sends (any request at any time); partial
flushes (a packet has left the buffer or has not).

### Transport, RingBuffer, Channel

`queue` is what is left of `send_queue` behind `send_offset`, `wire` what the
operating system holds, `ring` the receiver's framer, `got` what `recv_packet` has
returned. `Flush(n)` is a `send` that takes `n` bytes; `Receive(n)` a `recv` that
returns `n`, the feed, and the `next` after it; `TakeBuffered` the `next` before
the `recv`. `SenderCloses`/`ReceiverCloses` stand for every close, a failed flush
included, and lose any suffix of what is on the way. A byte is its packet and
place, so a byte out of place cannot pass for another. The client and the server
use the same code in both directions, so one direction is enough.

### Tables, Storage, MemoryStorage, MySqlStorage

A table is a function from row ids to rows. `Storage` says that a call takes effect
as a whole and returns the new row's id, or fails and changes nothing. `Doubtful`
adds what a database behind a connection can promise at most: a failure, or a
caller that died waiting, may hide an effect.

`MemoryStorage` has an action per call that writes, with the checks in the code's
order and each array's capacity, and the two listings as the loops of the code: `Scan` is the loop,
`Limited` its `count == limit`. The queries of `Tables` state the same by `Sorted`, which is the SQL's
ORDER BY.

`MySqlStorage` keeps the tables as committed (`data`), as the open transaction
sees them, the statements that the current call still has to run (`todo`), the
AUTO_INCREMENT counters (`next`, which do not roll back) and the state of the
connection (`link`). A call puts its statements into `todo`; a step runs the head,
fails it (`StatementFails`: rollback, the call fails), loses the connection
(`ConnectionLost`; the program never reconnects, every later call fails), or ends
the process (`Restart`, which reconnects). `DoneUnheard` is a commit, or a
statement outside a transaction, that is done while its answer is lost. Calls are
made as the server makes them (no conversation named, sender and receiver
different); argument checks before the first statement are left out.

Where the two backends are known to differ: a private message that names a group
(the NamedGroup run); completing a file that does not exist is OK with MySQL and
NOT_FOUND in memory (the server never does it); a file to oneself is refused in
memory only (the server refuses it before, server.c:1736).

### FileReceive, Links, CliClient, GuiClient, Clients

`FileReceive` is `handle_file_notify`: `receiving` is `ReceiveFileState`, `disk` the
output directory, `reported` what the command has printed as received, `torn` the files
that a kill, or a `close()` or a `filesystem::remove` whose result nobody looks at
(cli_support.cpp:663-672, 735), left as they were. The content a checksum was computed from stands for the checksum. Alone, the
module takes any notify at any time; in `Clients` it takes those of the server.

In `Links` a visit of a slot is a visit of `ChatServer` that handles the request at the
head of the user's queue `up` (`Handle`), refuses it when the handler would
(`Refused`), or finds none; what the flush has sent goes to `down`. `linked` is the
client's end. `InFlight(u)` is all the server has for a client and the client has not
read. Users are logged in when an instance starts; nobody connects later and the
server does not restart, which are `ChatServer`'s own subject.

`CliClient`: `cli[u]` is where the command is. `Proceed` is the response the command
waits for and the next request it sends; `Fail` is all else that ends it, an
unexpected notify and the five seconds included, so it may happen whenever the command
waits. `listen` handles a notify (`Hear`), ends (`ListenEnds`) or is killed. It has a
branch for chat, group and file notifies; those of a call, which a window may invite its
user to, it reads and passes over (`main.cpp:256-287` has no else).

The models keep no sequence numbers. A command has one request out, so the number it compares
(`cli_support.cpp:278,325`) is that of this request; a window finds its request by the
number (`gui_client.cpp:558,666`), and `Receive` takes the oldest one. The two are the same when
every request is answered once and in the order sent, which is `AnsweredOnce`: checked in the run
and proved for any cast. The server copies the number into the response (`server.c:642`).

`GuiClient`: `gui[u]` is the window's call, whether it is ringing, and the requests
without a response (`pending_`); `audio[u]` is whether there is a peer connection with
open devices, and the signals that libdatachannel has made and the GUI thread has not
handled. There is an action for each button, for a posted signal, for a packet, and
for the end of the connection; `OnResponse` and `OnNotify` are the window's reactions,
with the checks that are there (none looks at the id of a call that ends, and the failure of
an own invite resets whatever call there is). `stop`
leaves any part of the posted signals.

### Codec

A packet's bytes are a sequence of 0..255; the header's fields are written and read
big-endian at the offsets of `protocol.h`. `Accepted` says when a header decodes,
`CanPack` and `CanUnpack` when a packet is built and taken apart, `Pack` and `BodyOf`
what comes out. A TLV writer is a buffer with an offset (`CanWrite`, `WriteField`), a
reader a buffer with an offset and the ids seen (`CanRead`, `FieldRead`, `AfterField`).
The names and the numbers of operations are left out.

## 3. Runs

`tlc -workers 2 -config <run>.cfg <module>`. Every passing property was also shown
to fail when one definition is replaced by a plausible mistake: the operators
named "Mutant of ..." in the modules, listed in `PROJECT.json`.

| run | instance | what it shows |
|---|---|---|
| Sessions | 3 slots, 3 users, 3 logins, 2 calls, a file's start | `OneSession`, `OneCallPerUser`, `PendingIsAddressed`, `OnlineAtRest` through takeovers, re-logins, heartbeats that fill buffers, invites, closings and restarts in the middle of a pass; `OnlyReauthStrands`: a user who goes takes calls and transfers along, but for a re-login; `EndedCallIsTold`: no visit ends a call without a packet to each party whose buffer is free. Signals and hangups are in Clients |
| Registry | 2 slots, 4 users, 4 logins, 2 calls | `CallTableHasRoom`: the "too many calls" refusal is dead code, even while calls of users who have left wait for the sweep; `StrandedCallEnds` (liveness) |
| Messages | 2 slots, users who register, chat, a group and messages to it, a file | `PendingChatIsStored`, `NotifyNeedsAck`: what is told is stored, and no receiver hears of a message whose sender could not be told; `AckMeansRelayed`, `TransferRowsOpen`, `OnlyLoginClosesOthers` |
| Connection | 3 packets of 3 lengths, ring of 7, receives of 3 | `OnlyLargePacketsOverflow`, `BytesConserved`, `IsChannel` (refinement), `Arrives` (liveness) |
| Memory | 3 accounts, 2 conversations, 3 messages, 2 deliveries, 1 file | `IsStorage` (refinement), `TablesConsistent`, `ListingsAgree`, `OldPagesStay`, `InboxKeepsOrder` |
| MySql | the same with 2 messages, statement by statement | `IsStorage` (refinement), `TablesConsistent`, `OldPagesStay` |
| Clients | two files, or a file and a message, to one listener; two windows that call each other; a window that calls the user who is listening to a file | `AnsweredOnce`, `FileInStep`, `KeptFilesAreWhole`, `ReceivedFilesStay`, `TransferRowsOpen` (two transfers at once), `DeadCallIsEnding`, `CallEndsForItself` |
| LostHangup | violation of `PeerLearnsOfEnd` | finding 1 |
| LostChat | violation of `OnlineReceiverNotified` | finding 2 |
| Pipelining | violation of `FramerKeepsUp` | finding 3 |
| NamedGroup | violation of `PrivateStaysPrivate` | finding 4 |
| IdleAudio | violation of `IdleIsSilent` | finding 5 |

**Bounds and why they are enough.** All bounds are constants named `Max...`.

* *Server.* Three slots are one visited before, one after and one at the moment a
  handler works; three users are two parties and somebody who takes one of them
  over or calls one of them. Three logins allow two parties and one re-login or
  takeover. Registry needs fewer slots than users, so that slots are reused, and a
  call that waits for the sweep beside a new one. A send buffer holds one packet
  and every request fills one, so full buffers are reached in three steps. Each
  run enables the requests its question needs (`Requests`); refusals, closings,
  idle visits and restarts happen in all of them. Messages has one transfer; two at
  once are in Clients, and any number in the theorem `TransfersOwnRows`.
* *Clients.* Each of four casts (`MCClients`) is what its questions need: files of
  three units and of one, in chunks of two, so that the last chunk is short and a
  start interrupts another file; both files have one name, so that the directory's
  second candidate is used; a listener that a message ends in the middle of a file;
  two windows, with two calls, so that an old call's packets are on their way when
  the next one begins, and glare; and a window that may call, once, the user who is
  listening to a file, or the one who sends it (`InvitedListener`). How many calls a window
  makes is a field of its job (`calls`). The operating system holds one packet to a client
  (`MaxDown`) beside the one in the send buffer, so a client is up to two packets
  behind. A window has one request without a response (`MaxPending`); a second one
  would be queued only when the first has left the client's send buffer.
  `MCView` drops the contents of messages, the rows of files that are over, and the
  accounts and groups, which do not change: no action and no property of the two runs
  reads them.
* *Connection.* Headers are 2 long, a `recv` hands over 3, and the ring of 7 stands to the
  packets as the code's does: the longest packet (6) leaves less room than a `recv`, the others
  (5 and 2) leave enough. Packets wrap, arrive in pieces, three short ones fit in the ring, and
  what is sent behind the longest overflows it. Pipelining checks `FramerKeepsUp`, the
  documented promise that this does not happen, with the lengths 2 and 6.
* *Storage.* Every array is filled. Two conversations allow a private one to be
  found or made beside another or a group; two or three messages are enough for a
  page before another one. MySQL's calls have at most seven statements, and one
  failure or loss may occur at any of them, again and again.

**Symmetry** permutes users (model values, compared only for equality) in runs
without liveness. Registry, which has a liveness property, uses none.

**Deadlock** is checked everywhere except in the transport runs and in Clients and
IdleAudio. A transport's number of packets is bounded and both ends may have closed;
commands end, windows are disconnected, and a bounded `down` of a window that has
nothing left to do stops the server's turn.

**Fairness.** `ChatServer!FairSpec` has `WF_vars(Pass)`: the server program calls
`run_once` in an endless loop whose calls never wait for a peer (sockets are
non-blocking). There is no fairness for a particular peer, request, flush or for
`Restart`. `Transport!FairSpec` has weak fairness for flush and the two ways
`recv_packet` makes progress, because both ends call them in their loops; a
connection may close at any time, so `Arrives` says that a packet arrives or the
connection ends. Nothing else needs fairness.

## 4. Findings

1. **LostHangup.** `authenticate_client` leaves the call of the connection's
   *former* user to the sweep, which tells nobody;
   `docs/architecture/LAN_CHAT_AUDIO_GUI_CALL.md:56` promises a hangup notify when
   possible. `EndedCallIsTold` shows that on every other way the peer is sent
   something, if its buffer was free when the visit began. That need not be the
   hangup: a sender whose response does not fit is closed after its accept, its
   signal or even its file notify has taken the place.
2. **LostChat.** A notify that does not fit is lost and nothing sends it again;
   `docs/architecture/LAN_CHAT_SERVER_STATE_MACHINE.md:202` promises it to online
   receivers. The completion of a file (server.c:1849) is lost in the same way: the
   sender is told the file is complete and the receiver never hears.
3. **Pipelining.** Behind an incomplete packet of more than 57408 bytes a
   pipelined one makes `recv_packet` feed more than the ring has room for, and a
   connection on which only valid packets were sent is closed; compare
   `docs/architecture/LAN_CHAT_PROTOCOL.md:275-279`.
4. **NamedGroup.** MySQL's check of a named conversation does not look at its
   type: a private message can be stored in a group, against
   `docs/architecture/LAN_CHAT_STORAGE.md:48,181` and unlike the memory backend.
5. **IdleAudio.** An offer that reaches a window after the call has ended there
   starts the peer connection and the microphone again (`main.cpp:292-295` does not ask
   whether there is a call), and the response to the hangup clears the call without
   stopping them (194-195): a window without a call and with an open microphone, against
   `docs/architecture/LAN_CHAT_AUDIO_GUI_CALL.md:93`. The run: one user invites the
   other, who hangs up while the caller's offer is on its way.

## 5. Proofs

`tlapm M.tla` for `M` in `ChatServerProofs`, `TransportProofs`, `StorageProofs`,
`MemoryProofs`, `MySqlProofs`, `FileReceiveProofs`, `ClientsProofs`, `CodecProofs`.

**ChatServer**, for any `NSlots`, any set of users and any bounds. The only
assumption is `ServerAssumption` (at least one slot and chunk unit, user id 0 is
no user). In particular the bounds `MaxSession`, `MaxCall`, ... are not assumed to
be numbers: the theorems do not depend on them.

* `TypeCorrect`: `Spec => []TypeOK`.
* `SessionsAreUnique`, `CallsAreDisjoint`, `NotifiesAreAddressed`: the same for
  `OneSession`, `OneCallPerUser`, `PendingIsAddressed`.
* `SweptAtRest`: `OnlineAtRest`.

The invariant is `IInv == RestTypeOK /\ SoundTables`. The properties are not
inductive: `OneCallPerUser` survives an invite only because the busy check looks at
both roles, but `PendingIsAddressed` survives a login only because the user whose
notify waits is closed again by `Reply` before the visit ends, and `OneSession`
survives `AcceptOne` only if a slot that is not open is clean. So
`SoundTables` adds `ClosedIsClean` and the types, and it is stated of a *value* of
the tables, `Sound(t)`, because handlers compose several changes. Each operator
(`Tell`, `CloseSlots`, `Reply`, `Relay`, `Acknowledge`, `Authenticate`) has a lemma
that it maps sound tables to sound tables; an action's step is then a line of
lemmas. `Authenticate` alone does not: after it, the visited slot may hold a
notify for the former session. `SoundBut(t, {s})` is soundness but for what waits
in slot `s`, and `Reply` restores it, by queueing only into an empty buffer or
closing the slot.

`TransfersOwnRows` is about the relays: `TransferRowsOpen`. The property is
inductive once the transfers' ids are below the next one (`RowsOpen`), and `RowsOpen`
holds of every subset of a set it holds of. So all handlers but three need only
that they lose transfers and gain none; file start enters a transfer with the
next id and a new row, a chunk advances one within its size, and the completion
closes the row of the transfer it forgets and of no other. Restart forgets all.

Three action properties follow, `OthersStayOpen`
(`OnlyLoginClosesOthers`), `NotifiesAreAcknowledged` (`NotifyNeedsAck`) and
`AcknowledgedIsRelayed` (`AckMeansRelayed`), from `IInv` at both ends of a step. Two
facts of a value of the tables carry them: `Stays(t, s)`, the connections other than
`s` are those the step began with, and `Calm(t, B)`, no buffer has newly got a
packet of the set `B`, for `B` the chat notifies and for `B` the acknowledgements of
what is relayed. Each operator keeps both; where one does not keep `Calm`, its
result is what the property asks for: `Relay` and `Acknowledge` queue the two
packets in the same step, or close the connection with neither.

The proofs that follow first say what a visit can be. One that is no login is `Served(s, e)`: the
connections of `e` are those the step began with, and the step commits `e` or `e` with
the visited connection closed. A login is `LoggedIn`: it closes its user's other
connections, renames its own and may close that too. `GoneUsersAreForgotten`
(`OnlyReauthStrands`) follows: a slot is freed only by `CloseSlots`, whose lemma
`CloseForgets` says which calls and transfers it leaves. `ToldIsStored`
(`PendingChatIsStored`) needs `PendingIsAddressed` at both ends of a step and that
messages are only appended to: a buffer that keeps its packet keeps its user.

`PartiesAreTold` is `EndedCallIsTold`, with an invariant of the
tables *within* a visit: `Informed(e, c, r)`, slot `r` has a packet about call `c`, or
its buffer is still free and the call is still there. Every operator keeps it for the
slots that are not served, `CloseSlots` because a user is in one call at most
(`CallsAreDisjoint`), so that nothing else takes the free buffer's place.

`CallTableNeverFills` is `CallTableHasRoom`. Two users per call are not enough for it:
during a pass a connection can start a call and log in as somebody else, so that
as many calls as slots visited may be left with one connection behind each, or none.
`Seated` counts seats instead of users: some `h` gives every call slots that no other call
has, each of them visited in this pass or a connection of one of its parties, and at least one of
the former or two of the latter. An invite takes the slot it is served on; a connection
not yet visited changes its user only by being taken over, which ends that user's calls; and the
sweep leaves only calls with two connections (`SweptAtRest`). Each call has a seat other
than the slot being served, and there are `NSlots - 1` of those.

**The ring**, for any capacity and any set of bytes: `WriteAppends` (writing what
fits appends exactly it, wherever the ring wraps) and `DiscardDrops` (discarding
`n` bytes drops exactly the first `n`). Assumption: the capacity is a positive
number.

**Transport**, for any packets, lengths and sizes of the buffers
(`TransportAssumption`: every packet has a header and fits in a send buffer and, alone,
in the ring): `ConnectionTypeOK`, `StreamIsThePackets`, `OverflowNeedsLargePacket`
(`OnlyLargePacketsOverflow`) and `ConnectionIsChannel` (`IsChannel`). The model names a byte by its packet and its place in it, so
that "the packets in order" is `Laid(s, m, n, p, ends)`: there is
a position at which each packet from the `m`th on ends, and between two such positions lie that
packet's bytes. The invariant is that ring, wire and queue together are laid so from
the first packet not returned. A send appends one packet, a flush and a read move bytes
within the three, a packet returned is cut off the front: the framer reads the length
from the header of exactly that packet. `OverflowNeedsLargePacket` says how far finding 3 goes, with
no assumption on the sizes: what does not fit reaches behind the packet at the front, which is
incomplete and, but for its last byte, leaves less room than a `recv`; and since a packet alone
fits in the ring, another one was sent behind it. With the code's sizes, a peer that sends
nothing behind its packets of more than 57408 bytes before they have been read is never turned away.

`BytesAreConserved` (`BytesConserved`) speaks of `Flat`, a recursive function. The library's induction
principles cannot be instantiated, but its fact about well-founded relations can: a set of
numbers that is not empty has a least one (`LeastNumber`). So the lemmas on `Flat` suppose the shortest
sequence of packets that breaks them. `Joins(f)` is the equation of the definition, of which there is one
solution (`JoinsExist`, `JoinsAgree`); one more packet adds its bytes at the end (`FlatAppend`). The rest is
that a queue, a flush and a read move bytes within what is in flight, and that a packet is returned whole.

**Storage**, for any users and bounds: `PromisesKeepTables`, every state the
interface's promises lead to is `Consistent`. The invariant `Sound` adds to `Consistent` what
its preservation needs: a private conversation has exactly two members, and
rows refer only to rows. `MemoryProofs` proves, for any capacities, that the arrays never
overflow (`ArraysNeverOverflow`, `TypeOK`) and that every call is one of `Storage`
(`MemoryIsStorage`, `IsStorage`); `MemoryIsConsistent` (`TablesConsistent`) then is `PromisesKeepTables`
carried over: consistency is proved once, of the abstract specification. What the
refinement rests on is that a row's id in an array that only grows is its
index, and that the memory backend asks for room in every array before it writes to the first.
`PagesStay`: no call changes a page of history that ends before a known message, since
calls change neither messages nor conversations, ids grow, and a message lies in a conversation
that was there before it. `InboxesGoOn`: what waits for a user has waited before or comes after all
deliveries that there were, since a delivery's state only goes forward.

What the loops of the memory backend list is proved too, for pages of any length:
`MemoryListingsAgree` (`ListingsAgree`), `MemoryPagesStay` (`OldPagesStay`) and `MemoryInboxKeepsOrder`
(`InboxKeepsOrder`). `Scan` is a recursive function. `ScanEmbeds` says, by the least index at which it would
be false (as for `Flat`, above), that it finds the ids of a set once each and in the order in which it goes. Ids are
places, so that a scan forward is ascending and one backward descending; and there is only one
ascending list of a set (`EnumUnique`), namely the one that `Sorted` chooses. Pages and inboxes then follow from
`PagesStay`'s and `InboxesGoOn`'s lemmas about sets of ids: `EnumBegins` says that if a set grows by numbers
behind it, the list of the old set begins the list of the new one.

**The MySQL backend**, for any users, member lists and numbers of rows
(`MySqlAssumption`: the bounds are numbers): `NoTransactionStaysOpen` (`TypeOK`), and, of
callers that name no conversation (`Named = {0}`: the server clears the field before each call,
`server.c:1578`, and the run `NamedGroup` shows why this is needed), `MySqlIsStorage` (`IsStorage`),
`MySqlIsConsistent` (`TablesConsistent`) and `MySqlPagesStay` (`OldPagesStay`). None of the
last three says anything of what is in the middle of a transaction, and so none is inductive.
`Stage` is what they lack: for every place in the program of every call, what is still to be
executed and by what the tables of the transaction differ from the committed ones. For
example `AtDelivery(file)`: the delivery is next, then perhaps the file row; the transaction has one
new message, in the private conversation of the two, which was found or is new
too; accounts, deliveries and files are as committed. Each statement leads from one
stage to the next or ends the call at rest with the transaction undone; at a commit the
difference is a call of `Storage`, and a statement outside a transaction is one by itself. Only
then may an answer be lost with its effect done, which `Doubtful` allows. The row added by a statement
is new because no table, committed or not, reaches its counter (`Below`), and a rollback
does not set counters back.

**FileReceive**, for any content, directory, list of candidates and notifies, in any
order (`ReceiveAssumption`: an empty path and a missing file are neither a path nor
content, each name has a candidate, announced files are not empty):
`ReceiverTypeCorrect`, `OnlyWholeFilesStay` (`KeptFilesAreWhole`, which excepts the torn files: a kill, a
failed close, a failed removal) and `ReportedFilesStay` (`ReceivedFilesStay`). `KeptFilesAreWhole` is not inductive:
`FileInProgress` adds that the file being received has on disk what was got and is not
reported, `IdleWhenDone` that a command which has ended receives nothing, and
`ReportedExist` that a reported file has not been removed, without which a new start
could take its path.

**The clients and the server**, for any number of users, slots and any mix of commands and windows
(`LinksAssumption`: every user that runs a program has a slot of its own, and what it is to send
is something the server can be sent): `RequestsAreAnsweredOnce` (`AnsweredOnce`) and `ServerAmongClients`.
The property is a balance, and a visit changes both of its sides. The server's half is
`HandleReplies`: a visit that handles a request either frees the slot, or puts exactly one response
into the buffer of the served connection, which had drained, while every other connection gets a notify
at most and keeps what it had. It holds of every handler because `Reply`, `Relay`, `Acknowledge` and
`CloseSlots` are lemmas of the same form (`Midway`, `Replied`). The clients' half is that a command
sends a request only after the response to the one before, and that a window's `pending` is counted
by the packets it sends; for that the invariant `ClientsInv` says which of a command's states wait and
what they wait for (`Commanded`). A connection that the server has closed keeps what is on its way back,
and the property says nothing of it. `ServerSteps` is the other result: a visit of `Links` is one of the
visits of `ChatServer`, so `ServerAmongClients` carries its action properties over, and
`ClientsTransfersOwnRows` (`TransferRowsOpen`) its relays' invariant. `HearReceives` is the same for the
receiver: what a listener makes of a notify is a step of `FileReceive` or, of a call's, none, so that with its invariant come
`ListenersKeepWholeFiles` (`KeptFilesAreWhole`), `ListenersKeepReported` (`ReceivedFilesStay`) and
`ClientsTypeCorrect` (`ClientsTypeOK`). These three, and the next, assume that the receiver's units of content are the
pairs of a transfer and a place, by which `CliClient` names what is in a file.

`FilesArriveInStep` (`FileInStep`) assumes besides that a cast has at most one listener
(`CliAssumption`: `receiving` is the state of that one command). Its invariant `FileInv` follows a file through
everyone that has a part in it. The sender goes on at the end of a chunk (`Progress`), and what is on its
way of it is the request it waits for or the answer (`InAnswer`), so that a chunk request holds the whole of a
chunk that its file has (`RequestsApt`). A transfer has relayed as many units as its chunks hold and none of its
chunks begins behind the end (`RelaysApt`). What is in flight to the listener about the file (`InStep`) are the
chunks from `first` on and before `end`, with the start before all and the completion after the last;
`FilesFollow` says that `first` is the receiver's `next_chunk_index` once the file is open there, that `end` is
the relay's `next` while there is a transfer, and that the file ends there once its sender is told that
it is complete. It speaks of files announced and not yet open, too: without that, the start notify would have
to be in step when it is read. `DoneSound` says that the transfer of a complete file is over, and that its id will not
come again. Of the server the proof uses what `HandleReplies` says a visit has relayed: nothing about a file
(`RelaysNothing`), or one of `Announces`, `Advances` and `Completes`, with the transfer that is
meant. The point the rest turns on is `Advances`: a chunk that advances its transfer has reached the
listener's buffer, or the sender has lost its connection and the transfer is gone (`AdvancedFollows`).

`NoGhostCalls` (`DeadCallIsEnding`) and `CallsEndForThemselves` (`CallEndsForItself`) follow one window. What is
on its way to it is read as a `Course` of events: a packet gives the window a call, takes off whatever call it has
(the code compares no ids), or does neither, where a response does what its request was for. A `Story` is a
course in which a call that the server no longer has is taken off by something further on, and in which, between
an event about one call and an event about another, the first is taken off. Both properties can be read off the
head of a story. A request changes the server's calls and puts at most one packet at the end of each course, and
the two suit each other: it concerns no call, makes one, relays a signal of one, or ends one (`Concerns`).
A step of the window takes off the first packet, or adds a request at the other end.

The proof attempt corrected both properties. They are about the time when all who run a program are on the line
(`OnTheLine`), commands included and not windows only: a window may invite a command, and when that ends
the hangup may find the window's buffer full. And `CallEndsForItself`, which had been stated of all times, is
false once somebody has left: a window whose peer's hangup was lost so goes from the dead call
straight to the next one that it is invited to. Nor is everything that ends a call about that call: when
two windows invite each other, the error response to a window's own invite takes off the call that
the other has started (`main.cpp:201-207`). `CallEndsForItself` states this exception, and that
no other failed request ends a call. TLC confirms it with three windows that may have two
requests without a response each, a larger instance than the run's.

**Codec**, for every header, body and buffer, with no assumption: `HeaderComesBack`
and `PacketComesBack` (decoding what was encoded gives it back, whatever follows),
`AcceptedPacketFits` (a header that is accepted announces a packet that the framer and
the buffers can hold), `WrittenFieldIsRead`, `EarlierFieldsStay` and
`ReaderStaysInside` for TLV. Each number's round trip is arithmetic on products of 256;
that fields do not disturb each other is `FieldsAreApart`.

**Model-checked only.** Liveness (`StrandedCallEnds`, `Arrives`), which the prover does not reach.

## 6. Not modelled

* Of the CLI: registration, groups, listings and the parsing of options, each one
  request and one response like `send`. Two listeners on one directory. Of the GUI:
  logging in, the list of online users (any user may be invited, as if the list were
  out of date), drawing. Neither reconnects.
* Of the audio session: media, devices and the negotiation, which are libdatachannel's
  and the system's. Modelled is when the session is started and stopped, and that its
  signals are made in other threads.
* A ROLLBACK that fails on a connection that goes on (`storage_mysql.c:148` ignores its result):
  a transaction given up is undone in the model, there or because the connection is gone.
* The server's restart and new connections are not in `Clients`, only in `ChatServer`.
* Two servers on one database: each call's reads are made outside what its
  transaction locks; nothing in the repository starts two.
* `last_activity_ms`: written, never read. A dead peer keeps its slot until its
  socket fails, which the operating system decides (`Disconnect`, no fairness).
* Payload sizes of call signals: the failure of a notify that cannot be built is
  one of the failed relays.
* Platform calls, wrappers, names, command lines, windows: I/O without state of
  their own.

## 7. Plan

In order of importance; each step names what it composes.

1. `CallRegistry`, abstract: a call is idle, ringing, connected or over; the server
   shown to implement it.
2. `ChatServer` over `Storage`: the handlers' reads of members and history.
3. `Clients` with logins, reconnections and a restart of the server.
