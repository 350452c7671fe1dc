----------------------------- MODULE ChatServer -----------------------------
(***************************************************************************)
(* The LAN chat server: one thread that calls lan_chat_server_run_once     *)
(* for ever.  A pass accepts connections, visits the client slots in index *)
(* order (flush the send buffer, receive at most one packet, dispatch it)  *)
(* and ends with two sweeps.  A visit is one action, because nothing else  *)
(* touches the server's tables while the thread is in it; the peers, the   *)
(* sockets and the storage backend appear as nondeterministic choices of   *)
(* what arrives, what drains and what fails.                               *)
(*                                                                         *)
(* A connection's send buffer holds ONE packet (transport.c), so queueing  *)
(* fails whenever the peer has not drained the previous one.  Each handler *)
(* reacts to that failure in its own way, which is what most of the        *)
(* properties are about.                                                   *)
(***************************************************************************)
EXTENDS Integers, Sequences, FiniteSets

CONSTANTS
    NSlots,       \* client_capacity (LAN_CHAT_SERVER_MAX_CLIENTS)
    Users,        \* user ids an account can have
    NoUser,       \* user id 0: the connection is not authenticated
    Registered,   \* accounts the storage holds when the server first starts
    Requests,     \* kinds of request the clients of an instance send
    FileSizes,    \* file sizes offered, in chunk units
    MaxChunk,     \* LAN_CHAT_FILE_CHUNK_SIZE, in the same units
    MaxSession,   \* bound: logins per server process
    MaxCall,      \* bound: calls per server process
    MaxTransfer,  \* bound: file transfers per server process
    MaxMessage,   \* bound: message rows the storage ever gets
    MaxGroups     \* bound: group conversations the storage ever gets

RelayOps == {"offer", "answer", "ice"}
EndOps == {"reject", "hangup"}
CallOps == {"invite", "accept"} \cup EndOps \cup RelayOps
Ops == {"none", "auth", "heartbeat", "user", "chat", "group-create", "group-send",
        "file-start", "file-chunk", "file-complete"} \cup CallOps

ASSUME ServerAssumption ==
    /\ NSlots \in Nat \ {0}
    /\ NoUser \notin Users
    /\ Registered \subseteq Users
    /\ Requests \subseteq Ops \ {"none"}
    /\ FileSizes \subseteq Nat \ {0}
    /\ MaxChunk \in Nat \ {0}

\* Slots are numbered from 1, like connection_id = index + 1; the call and the
\* transfer tables are allocated with the capacity of the client table.
Slots == 1 .. NSlots
CallCapacity == NSlots
TransferCapacity == NSlots
MaxGroupMembers == 16

Client == [open : BOOLEAN, user : Users \cup {NoUser}, session : Nat]
Packet == [kind : {"none", "ok", "error", "notify"}, op : Ops, id : Nat,
           index : Nat, len : Nat, to : Users \cup {NoUser}, session : Nat]
Call == [id : Nat, caller : Users, callee : Users, accepted : BOOLEAN]
Transfer == [id : Nat, row : Nat, sender : Users, receiver : Users,
             size : Nat, seen : Nat, next : Nat]
Message == [from : Users, audience : SUBSET Users]

FreeClient == [open |-> FALSE, user |-> NoUser, session |-> 0]
NewClient == [open |-> TRUE, user |-> NoUser, session |-> 0]
NoPacket == [kind |-> "none", op |-> "none", id |-> 0, index |-> 0, len |-> 0,
             to |-> NoUser, session |-> 0]
Response(kind, op, id) == [NoPacket EXCEPT !.kind = kind, !.op = op, !.id = id]
Notify(op, id) == [NoPacket EXCEPT !.kind = "notify", !.op = op, !.id = id]
StartNotify(id, size) == [Notify("file-start", id) EXCEPT !.len = size]
ChunkNotify(id, index, len) == [Notify("file-chunk", id) EXCEPT !.index = index, !.len = len]

VARIABLES
    clients,      \* slot -> Client
    out,          \* slot -> the packet in the connection's send buffer
    calls,        \* active entries of the call registry
    transfers,    \* active entries of the file relay table
    ids,          \* next_session_id, next_call_id, next_runtime_file_transfer_id
    turn,         \* where run_once is: 0 accepts, s visits slot s, NSlots + 1 sweeps
    accounts,     \* storage: users that have an account
    messages,     \* storage: message rows
    groups,       \* storage: group conversations, as their member sets
    fileRows      \* storage: transfer_state of each file row

storage == <<accounts, messages, groups, fileRows>>
vars == <<clients, out, calls, transfers, ids, turn, storage>>

-----------------------------------------------------------------------------
(* The tables as one value, so that a handler can apply close_client after *)
(* its own effects.                                                        *)

Tables == [clients |-> clients, out |-> out, calls |-> calls, transfers |-> transfers]

Commit(t) ==
    /\ clients' = t.clients
    /\ out' = t.out
    /\ calls' = t.calls
    /\ transfers' = t.transfers

IsClient(t, s, u) == t.clients[s].open /\ t.clients[s].user = u
Online(t, u) == \E s \in Slots : IsClient(t, s, u)

\* find_client_by_user_id: the first slot the user is logged in on.
ClientOf(t, u) ==
    CHOOSE s \in Slots : IsClient(t, s, u) /\ \A r \in Slots : IsClient(t, r, u) => s <= r

Parties(c) == {c.caller, c.callee}
Ends(x) == {x.sender, x.receiver}
Peer(c, u) == IF c.caller = u THEN c.callee ELSE c.caller
\* Mutant of Busy: only callers count as busy.
BusyAsCaller(t, u) == \E c \in t.calls : u = c.caller

Busy(t, u) == \E c \in t.calls : u \in Parties(c)

\* queue_packet of the transport: the connection is open and its send buffer free.
CanQueue(t, s) == t.clients[s].open /\ t.out[s] = NoPacket
CanTell(t, u) == Online(t, u) /\ CanQueue(t, ClientOf(t, u))

\* Queues notes[u] for every user u of DOMAIN notes that can be told; the
\* others lose it.
Tell(t, notes) ==
    LET Told(r) == LET u == t.clients[r].user
                   IN  u \in DOMAIN notes /\ CanTell(t, u) /\ ClientOf(t, u) = r
        Note(r) == [notes[t.clients[r].user] EXCEPT !.to = t.clients[r].user,
                                                    !.session = t.clients[r].session]
    IN  [t EXCEPT !.out = [r \in Slots |-> IF Told(r) THEN Note(r) ELSE t.out[r]]]

TellOne(t, u, note) == Tell(t, [v \in {u} |-> note])

\* Mutant of CloseSlots: calls and transfers of the user are left to the sweep.
CloseSlotsOnly(t, S, u) ==
    [t EXCEPT !.clients = [s \in Slots |-> IF s \in S THEN FreeClient ELSE @[s]],
              !.out = [s \in Slots |-> IF s \in S THEN NoPacket ELSE @[s]]]

\* Mutant of CloseSlots: the peers are not told.
CloseSlotsSilently(t, S, u) ==
    [CloseSlotsOnly(t, S, u) EXCEPT !.calls = {c \in @ : u \notin Parties(c)},
                                    !.transfers = {x \in @ : u \notin Ends(x)}]

\* close_client on the connections S of user u: the slots are freed, the user's
\* transfers go silently, the user's calls go with a hangup notify to the peer.
CloseSlots(t, S, u) ==
    LET ended   == {c \in t.calls : u \in Parties(c)}
        First(p) == CHOOSE c \in ended : Peer(c, u) = p /\ \A d \in ended : Peer(d, u) = p => c.id <= d.id
        closed  == [clients   |-> [s \in Slots |-> IF s \in S THEN FreeClient ELSE t.clients[s]],
                    out       |-> [s \in Slots |-> IF s \in S THEN NoPacket ELSE t.out[s]],
                    calls     |-> t.calls \ ended,
                    transfers |-> {x \in t.transfers : u \notin Ends(x)}]
    IN  Tell(closed, [p \in {Peer(c, u) : c \in ended} |-> Notify("hangup", First(p).id)])

CloseClient(t, s) == CloseSlots(t, {s}, t.clients[s].user)

\* Mutant of Reply: a response that cannot be queued is dropped like a notify.
ReplyOrDrop(t, s, p) == IF CanQueue(t, s) THEN [t EXCEPT !.out[s] = p] ELSE t

\* A handler's last step: queue the response; when that fails run_once closes
\* the connection.
Reply(t, s, p) == IF CanQueue(t, s) THEN [t EXCEPT !.out[s] = p] ELSE CloseClient(t, s)

\* Mutant of Relay: a notify that cannot be queued is ignored, as chat does.
RelayAnyway(t, s, u, note, after, response) == Reply(TellOne(after, u, note), s, response)

\* Mutant of Relay: the connection that cannot take the notify is closed.
RelayOrEvict(t, s, u, note, after, response) ==
    IF CanTell(t, u) THEN Reply(TellOne(after, u, note), s, response) ELSE CloseClient(t, ClientOf(t, u))

\* Passing something on to the online user u: the notify goes first, and when it
\* cannot be queued the handler's entry is undone and the REQUESTER is closed.
Relay(t, s, u, note, after, response) ==
    IF CanTell(t, u) THEN Reply(TellOne(after, u, note), s, response) ELSE CloseClient(t, s)

\* Mutant of Authenticate: the older connections stay.
AuthenticateAlso(t, s, u, session) ==
    [t EXCEPT !.clients[s] = [open |-> TRUE, user |-> u, session |-> session]]

\* authenticate_client: the user's other connections are closed, then the slot
\* gets a fresh session, whoever it was logged in as before.
Authenticate(t, s, u, session) ==
    LET others == {r \in Slots \ {s} : IsClient(t, r, u)}
        alone  == IF others = {} THEN t ELSE CloseSlots(t, others, u)
    IN  [alone EXCEPT !.clients[s] = [open |-> TRUE, user |-> u, session |-> session]]

-----------------------------------------------------------------------------
(* One visit of run_once.                                                  *)

\* What lan_chat_tcp_connection_flush may leave: all sent, or some still pending.
Flushed(s) == {Tables, [Tables EXCEPT !.out[s] = NoPacket]}

Serve(s, t) ==
    /\ turn = s
    /\ clients[s].open
    /\ t \in Flushed(s)
    /\ turn' = s + 1

\* The slot is not open.
SkipClosed(s) ==
    /\ turn = s
    /\ ~clients[s].open
    /\ turn' = s + 1
    /\ UNCHANGED <<clients, out, calls, transfers, ids, storage>>

\* Flush or receive fails (the peer is gone, the framer gives up), the packet does
\* not unpack, or a signal is too large for the notify that would forward it.
Disconnect(s, t) ==
    /\ Serve(s, t)
    /\ Commit(CloseClient(t, s))
    /\ UNCHANGED <<ids, storage>>

\* No complete packet has arrived.
Idle(s, t) ==
    /\ Serve(s, t)
    /\ Commit(t)
    /\ UNCHANGED <<ids, storage>>

\* Every refusal that changes nothing: malformed body, login required, unknown
\* operation or packet, bad argument, unknown id, not a participant, busy,
\* offline, table full, and any failure of the storage.  Which request the error
\* response is for is left out: no handler and no property tells.
Refuse(s, t) ==
    /\ Serve(s, t)
    /\ Commit(Reply(t, s, Response("error", "none", 0)))
    /\ UNCHANGED <<ids, storage>>

Heartbeat(s, t) ==
    /\ Serve(s, t)
    /\ "heartbeat" \in Requests
    /\ Commit(Reply(t, s, Response("ok", "heartbeat", 0)))
    /\ UNCHANGED <<ids, storage>>

ListOnline(s, t) ==
    /\ Serve(s, t)
    /\ "user" \in Requests
    /\ t.clients[s].user # NoUser
    /\ Commit(Reply(t, s, Response("ok", "user", 0)))
    /\ UNCHANGED <<ids, storage>>

\* Shared by register and login: the session is created before the response is queued.
StartSession(s, t, u) ==
    /\ ids.session <= MaxSession
    /\ Commit(Reply(Authenticate(t, s, u, ids.session), s, Response("ok", "auth", ids.session)))
    /\ ids' = [ids EXCEPT !.session = @ + 1]

Register(s, t, u) ==
    /\ Serve(s, t)
    /\ "auth" \in Requests
    /\ u \notin accounts
    /\ accounts' = accounts \cup {u}
    /\ StartSession(s, t, u)
    /\ UNCHANGED <<messages, groups, fileRows>>

Login(s, t, u) ==
    /\ Serve(s, t)
    /\ "auth" \in Requests
    /\ u \in accounts
    /\ StartSession(s, t, u)
    /\ UNCHANGED storage

\* Mutant of Acknowledge: the receivers are told even if the response is lost.
AcknowledgeAnyway(t, s, response, notes) == Reply(Tell(t, notes), s, response)

\* The response goes first; the receivers are told only if it was queued.
Acknowledge(t, s, response, notes) ==
    IF CanQueue(t, s) THEN Tell(Reply(t, s, response), notes) ELSE CloseClient(t, s)

Chat(s, t, to) ==
    LET me == t.clients[s].user
        m  == Len(messages) + 1
    IN  /\ Serve(s, t)
        /\ "chat" \in Requests
        /\ me # NoUser
        /\ to \in accounts \ {me}
        /\ m <= MaxMessage
        /\ messages' = Append(messages, [from |-> me, audience |-> {to}])
        /\ Commit(Acknowledge(t, s, Response("ok", "chat", m), [u \in {to} |-> Notify("chat", m)]))
        /\ UNCHANGED <<ids, accounts, groups, fileRows>>

CreateGroup(s, t, invited) ==
    LET me == t.clients[s].user
        members == invited \cup {me}
    IN  /\ Serve(s, t)
        /\ "group-create" \in Requests
        /\ me # NoUser
        /\ invited # {} /\ invited \subseteq accounts
        /\ Cardinality(members) \in 2 .. MaxGroupMembers
        /\ Len(groups) < MaxGroups
        /\ groups' = Append(groups, members)
        /\ Commit(Reply(t, s, Response("ok", "group-create", Len(groups'))))
        /\ UNCHANGED <<ids, accounts, messages, fileRows>>

\* Nobody is told when the storage fails to list the members afterwards.
SendGroup(s, t, g) ==
    LET me == t.clients[s].user
        m  == Len(messages) + 1
        others == groups[g] \ {me}
    IN  /\ Serve(s, t)
        /\ "group-send" \in Requests
        /\ me \in groups[g]
        /\ m <= MaxMessage
        /\ messages' = Append(messages, [from |-> me, audience |-> others])
        /\ \E listed \in {others, {}} :
              Commit(Acknowledge(t, s, Response("ok", "group-send", m), [u \in listed |-> Notify("group-send", m)]))
        /\ UNCHANGED <<ids, accounts, groups, fileRows>>

-----------------------------------------------------------------------------
(* File relay.                                                             *)

\* The rows are stored and the transfer entered before the receiver is told;
\* when it cannot be told the SENDER's connection is closed.
StartFile(s, t, to, size) ==
    LET me == t.clients[s].user
        x  == [id |-> ids.transfer, row |-> Len(fileRows) + 1, sender |-> me, receiver |-> to,
               size |-> size, seen |-> 0, next |-> 0]
    IN  /\ Serve(s, t)
        /\ "file-start" \in Requests
        /\ me # NoUser
        /\ to # me
        /\ Online(t, to)
        /\ Cardinality(t.transfers) < TransferCapacity
        /\ ids.transfer <= MaxTransfer
        /\ Len(messages) < MaxMessage
        /\ messages' = Append(messages, [from |-> me, audience |-> {to}])
        /\ fileRows' = Append(fileRows, "started")
        /\ ids' = [ids EXCEPT !.transfer = @ + 1]
        /\ Commit(Relay(t, s, to, StartNotify(x.id, x.size), [t EXCEPT !.transfers = @ \cup {x}],
                        Response("ok", "file-start", x.id)))
        /\ UNCHANGED <<accounts, groups>>

\* Mutant of Fits: only a complete file is full.
FitsWhileOpen(x, len) == x.seen < x.size

Fits(x, len) == x.seen + len <= x.size
Owns(t, s, x) == x \in t.transfers /\ x.sender = t.clients[s].user

\* A chunk that fits but has the wrong index, or whose receiver has left, ends
\* the transfer.
DropFile(s, t, x, index, len) ==
    /\ Serve(s, t)
    /\ "file-chunk" \in Requests
    /\ Owns(t, s, x)
    /\ Fits(x, len)
    /\ index # x.next \/ ~Online(t, x.receiver)
    /\ Commit(Reply([t EXCEPT !.transfers = @ \ {x}], s, Response("error", "file-chunk", x.id)))
    /\ UNCHANGED <<ids, storage>>

RelayChunk(s, t, x, len) ==
    LET advanced == [x EXCEPT !.seen = @ + len, !.next = @ + 1]
    IN  /\ Serve(s, t)
        /\ "file-chunk" \in Requests
        /\ Owns(t, s, x)
        /\ Fits(x, len)
        /\ Online(t, x.receiver)
        /\ Commit(Relay(t, s, x.receiver, ChunkNotify(x.id, x.next, len),
                        [t EXCEPT !.transfers = (@ \ {x}) \cup {advanced}],
                        Response("ok", "file-chunk", x.id)))
        /\ UNCHANGED <<ids, storage>>

\* Mutant of CompleteFile: the transfer stays in the relay table.
CompleteAndKeep(s, t, x) ==
    /\ Serve(s, t)
    /\ "file-complete" \in Requests
    /\ Owns(t, s, x)
    /\ x.seen = x.size
    /\ fileRows' \in {fileRows, [fileRows EXCEPT ![x.row] = "completed"]}
    /\ Commit(Reply(TellOne(t, x.receiver, Notify("file-complete", x.id)), s, Response("ok", "file-complete", x.id)))
    /\ UNCHANGED <<ids, accounts, messages, groups>>

\* The notify may be lost and the storage update may fail; the sender is told
\* the file is complete all the same.
CompleteFile(s, t, x) ==
    /\ Serve(s, t)
    /\ "file-complete" \in Requests
    /\ Owns(t, s, x)
    /\ x.seen = x.size
    /\ fileRows' \in {fileRows, [fileRows EXCEPT ![x.row] = "completed"]}
    /\ Commit(Reply([TellOne(t, x.receiver, Notify("file-complete", x.id)) EXCEPT !.transfers = @ \ {x}],
                    s, Response("ok", "file-complete", x.id)))
    /\ UNCHANGED <<ids, accounts, messages, groups>>

-----------------------------------------------------------------------------
(* Call signalling.                                                        *)

Invite(s, t, to) ==
    LET me == t.clients[s].user
        c  == [id |-> ids.call, caller |-> me, callee |-> to, accepted |-> FALSE]
    IN  /\ Serve(s, t)
        /\ "invite" \in Requests
        /\ me # NoUser
        /\ to # me
        /\ ~Busy(t, me) /\ ~Busy(t, to)
        /\ Online(t, to)
        /\ Cardinality(t.calls) < CallCapacity
        /\ ids.call <= MaxCall
        /\ ids' = [ids EXCEPT !.call = @ + 1]
        /\ Commit(Relay(t, s, to, Notify("invite", c.id), [t EXCEPT !.calls = @ \cup {c}],
                        Response("ok", "invite", c.id)))
        /\ UNCHANGED storage

\* accept is for the callee; the other operations are for both parties, accepted or not.
MaySend(c, u, op) == IF op = "accept" THEN u = c.callee ELSE u \in Parties(c)

\* What the registry holds once op has been handled for call c.
AfterCallOp(t, c, op) ==
    LET kept == IF op \in EndOps THEN {}
                ELSE IF op = "accept" THEN {[c EXCEPT !.accepted = TRUE]}
                ELSE {c}
    IN  [t EXCEPT !.calls = (@ \ {c}) \cup kept]

\* forward_call_payload
ForwardCall(s, t, c, op) ==
    LET me   == t.clients[s].user
        peer == Peer(c, me)
    IN  /\ Serve(s, t)
        /\ op \in (Requests \cap CallOps) \ {"invite"}
        /\ c \in t.calls
        /\ MaySend(c, me, op)
        /\ \/ /\ ~Online(t, peer)
              /\ Commit(Reply([t EXCEPT !.calls = @ \ {c}], s, Response("error", op, c.id)))
           \/ /\ Online(t, peer)
              /\ Commit(Relay(t, s, peer, Notify(op, c.id), AfterCallOp(t, c, op), Response("ok", op, c.id)))
        /\ UNCHANGED <<ids, storage>>

-----------------------------------------------------------------------------
(* The rest of the pass.                                                   *)

FreeSlots == {s \in Slots : ~clients[s].open}

\* accept_clients takes one pending connection into the lowest free slot.
AcceptOne ==
    /\ turn = 0
    /\ \E s \in FreeSlots :
          /\ \A r \in FreeSlots : s <= r
          /\ clients' = [clients EXCEPT ![s] = NewClient]
          /\ out' = [out EXCEPT ![s] = NoPacket]
    /\ UNCHANGED <<calls, transfers, ids, turn, storage>>

\* No connection is pending, accept fails, or no slot is free.
AcceptDone ==
    /\ turn = 0
    /\ turn' = 1
    /\ UNCHANGED <<clients, out, calls, transfers, ids, storage>>

\* Mutant of Sweep: only the file transfers are swept.
SweepTransfersOnly ==
    /\ turn = NSlots + 1
    /\ transfers' = {x \in transfers : \A u \in Ends(x) : Online(Tables, u)}
    /\ turn' = 0
    /\ UNCHANGED <<clients, out, calls, ids, storage>>

\* Mutant of Sweep: the next pass is not started.
SweepAndGoOn ==
    /\ turn = NSlots + 1
    /\ transfers' = {x \in transfers : \A u \in Ends(x) : Online(Tables, u)}
    /\ calls' = {c \in calls : \A u \in Parties(c) : Online(Tables, u)}
    /\ turn' = turn + 1
    /\ UNCHANGED <<clients, out, ids, storage>>

\* Both sweeps forget what has an offline end; nobody is told.
Sweep ==
    /\ turn = NSlots + 1
    /\ transfers' = {x \in transfers : \A u \in Ends(x) : Online(Tables, u)}
    /\ calls' = {c \in calls : \A u \in Parties(c) : Online(Tables, u)}
    /\ turn' = 0
    /\ UNCHANGED <<clients, out, ids, storage>>

FirstIds == [session |-> 1, call |-> 1, transfer |-> 1]

EmptyTables == [clients |-> [s \in Slots |-> FreeClient], out |-> [s \in Slots |-> NoPacket],
                calls |-> {}, transfers |-> {}]

Init ==
    /\ clients = EmptyTables.clients
    /\ out = EmptyTables.out
    /\ calls = EmptyTables.calls
    /\ transfers = EmptyTables.transfers
    /\ ids = FirstIds
    /\ turn = 0
    /\ accounts = Registered
    /\ messages = <<>>
    /\ groups = <<>>
    /\ fileRows = <<>>

\* The process ends (lan_chat_server_shutdown between passes, a crash anywhere)
\* and lan_chat_server_init starts it on the same storage, the MySQL backend's; on
\* the memory backend a restart is Init.
Restart ==
    /\ Commit(EmptyTables)
    /\ ids' = FirstIds
    /\ turn' = 0
    /\ UNCHANGED storage

Dispatch(s, t) ==
    \/ Refuse(s, t)
    \/ Heartbeat(s, t)
    \/ ListOnline(s, t)
    \/ \E u \in Users : Register(s, t, u) \/ Login(s, t, u) \/ Chat(s, t, u) \/ Invite(s, t, u)
    \/ \E invited \in SUBSET Users : CreateGroup(s, t, invited)
    \/ \E g \in DOMAIN groups : SendGroup(s, t, g)
    \/ \E u \in Users, size \in FileSizes : StartFile(s, t, u, size)
    \/ \E x \in transfers, len \in 1 .. MaxChunk :
          RelayChunk(s, t, x, len) \/ \E index \in {x.next, x.next + 1} : DropFile(s, t, x, index, len)
    \/ \E x \in transfers : CompleteFile(s, t, x)
    \/ \E c \in calls, op \in Ops : ForwardCall(s, t, c, op)

\* An open slot's turn, once its send buffer has drained to t.out[s].
Visit(s, t) == Disconnect(s, t) \/ Idle(s, t) \/ Dispatch(s, t)

Pass ==
    \/ AcceptOne
    \/ AcceptDone
    \/ \E s \in Slots : SkipClosed(s) \/ \E t \in Flushed(s) : Visit(s, t)
    \/ Sweep

Next == Pass \/ Restart

Spec == Init /\ [][Next]_vars

\* The program calls run_once in a loop that never waits for a peer.
FairSpec == Spec /\ WF_vars(Pass)

-----------------------------------------------------------------------------
TypeOK ==
    /\ clients \in [Slots -> Client]
    /\ out \in [Slots -> Packet]
    /\ calls \in SUBSET Call
    /\ transfers \in SUBSET Transfer
    /\ ids \in [session : Nat \ {0}, call : Nat \ {0}, transfer : Nat \ {0}]
    /\ turn \in 0 .. NSlots + 1
    /\ accounts \in SUBSET Users
    /\ messages \in Seq(Message)
    /\ groups \in Seq(SUBSET Users)
    /\ fileRows \in Seq({"started", "completed"})

-----------------------------------------------------------------------------
(* Safety.                                                                 *)

\* No two connections are logged in as the same user: authenticate_client closes
\* the older ones, in whatever slot they are and however far the pass has got.
OneSession ==
    \A s, r \in Slots : clients[s].user # NoUser /\ clients[s].user = clients[r].user => s = r

\* No user is in two calls: the busy check of invite looks at both parties in
\* either role, also while a pass holds calls of users who have just left.
OneCallPerUser == \A c, d \in calls : c # d => Parties(c) \cap Parties(d) = {}

\* A notify waiting in a send buffer is for the user and the session the
\* connection has now: a connection that logs in again while a notify waits is
\* closed before the notify can reach the wrong session.
PendingIsAddressed ==
    \A s \in Slots : out[s].kind = "notify" =>
        out[s].to = clients[s].user /\ out[s].session = clients[s].session

\* Between passes every call and every transfer has both its ends online: what
\* close_client left behind, the two sweeps of run_once have removed.
OnlineAtRest ==
    turn = 0 => /\ \A c \in calls : \A u \in Parties(c) : Online(Tables, u)
                /\ \A x \in transfers : \A u \in Ends(x) : Online(Tables, u)

\* The call table never fills: a call needs two users that no other call has, so
\* the "too many calls" refusal of invite cannot happen.
CallTableHasRoom == turn \in Slots => Cardinality(calls) < CallCapacity

\* What a connection is told about a stored message is true of the storage: an
\* acknowledged message is there and is the connection's own, a notified one is
\* there and the connection's user is among its receivers.
PendingChatIsStored ==
    \A s \in Slots : out[s].op \in {"chat", "group-send"} =>
        /\ out[s].kind = "ok" => out[s].id \in DOMAIN messages /\ messages[out[s].id].from = clients[s].user
        /\ out[s].kind = "notify" => out[s].id \in DOMAIN messages /\ clients[s].user \in messages[out[s].id].audience

\* An active transfer owns a storage row that is still "started", shares neither
\* row nor id with another one, and has relayed no more than was announced.
TransferRowsOpen ==
    \A x \in transfers :
        /\ x.row \in DOMAIN fileRows /\ fileRows[x.row] = "started"
        /\ x.next <= x.seen /\ x.seen <= x.size
        /\ \A y \in transfers : x.row = y.row \/ x.id = y.id => x = y

-----------------------------------------------------------------------------
(* What a step may never do.                                               *)

\* A user who goes offline leaves no call and no transfer behind, except when
\* the user's own connection logged in as somebody else: close_client cleans up,
\* authenticate_client leaves that case to the sweep.
OnlyReauthStrands ==
    [][\A u \in Users : Online(Tables, u) /\ ~Online(Tables, u)' =>
          \/ (\A c \in calls' : u \notin Parties(c)) /\ (\A x \in transfers' : u \notin Ends(x))
          \/ turn \in Slots /\ IsClient(Tables, turn, u) /\ ids'.session # ids.session]_vars

ToldOfEnd(c) ==
    \A s \in Slots : clients'[s] = clients[s] /\ clients[s].user \in Parties(c) =>
        \/ out[s] # NoPacket
        \/ out'[s].id = c.id /\ out'[s].op \in CallOps
        \/ out'[s].op \in {"file-start", "file-chunk", "file-complete"}

Ended(c) == c \in calls /\ \A d \in calls' : d.id # c.id

\* When a visit ends a call, each party whose session goes on is sent a packet
\* about that call, unless its send buffer was taken before: no handler forgets a
\* call without a word to the other side.  The packet need not be a hangup: it can
\* be the accept or the signal whose sender was closed right after passing it on,
\* and a sender closed right after passing a file on leaves no room for any.
EndedCallIsTold == [][turn # NSlots + 1 => \A c \in calls : Ended(c) => ToldOfEnd(c)]_vars

\* The same of every step, sweeps included (docs/architecture/LAN_CHAT_AUDIO_GUI_CALL.md:56).
PeerLearnsOfEnd == [][\A c \in calls : Ended(c) => ToldOfEnd(c)]_vars

\* Only the connection being visited is closed, unless a login takes a user over:
\* no peer can cost another one its connection by what it relays to it.
OnlyLoginClosesOthers ==
    [][turn' # 0 /\ ids'.session = ids.session =>
          \A s \in Slots : clients[s].open /\ ~clients'[s].open => s = turn]_vars

Queued(s) == out'[s] # out[s]

\* A chat or group notify is queued only in a step that also queues the sender's
\* acknowledgement: a sender that could not be told leads to no delivery.
NotifyNeedsAck ==
    [][\A r \in Slots : Queued(r) /\ out'[r].kind = "notify" /\ out'[r].op \in {"chat", "group-send"} =>
          \E s \in Slots : out'[s] = Response("ok", out'[r].op, out'[r].id)]_vars

\* A relayed request is acknowledged only in a step that also queues the notify
\* for the other side: "ok" for an invite, a forwarded signal, a file start or a
\* chunk means it was passed on.
AckMeansRelayed ==
    [][\A s \in Slots : Queued(s) /\ out'[s].kind = "ok"
            /\ out'[s].op \in {"file-start", "file-chunk"} \cup CallOps =>
          \E r \in Slots : out'[r].kind = "notify" /\ out'[r].op = out'[s].op /\ out'[r].id = out'[s].id]_vars

\* An online receiver of a new message is sent its notify
\* (docs/architecture/LAN_CHAT_SERVER_STATE_MACHINE.md:202).
OnlineReceiverNotified ==
    [][\A s \in Slots, m \in DOMAIN messages' \ DOMAIN messages :
          clients[s].user \in messages'[m].audience =>
              out'[s].kind = "notify" /\ out'[s].id = m]_vars

-----------------------------------------------------------------------------
(* Liveness.                                                               *)

Stranded(u) == ~Online(Tables, u) /\ \E c \in calls : u \in Parties(c)

\* A call one of whose parties has left does not last: again and again there is a
\* moment with none, since the pass goes on to its sweep whatever the peers do.
StrandedCallEnds == []<>(\A u \in Users : ~Stranded(u))
=============================================================================
