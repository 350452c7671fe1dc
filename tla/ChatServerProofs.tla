-------------------------- MODULE ChatServerProofs --------------------------
(***************************************************************************)
(* Theorems about ChatServer for every number of slots, users, sessions,   *)
(* calls, transfers and messages.                                          *)
(*                                                                         *)
(* The server's tables are one value t, and each handler builds its next   *)
(* tables by composing a few operators (Tell, CloseSlots, Reply, Relay,    *)
(* Acknowledge, Authenticate).  So the proof has three layers: each        *)
(* operator maps sound tables to sound tables; each action commits such    *)
(* tables; and the properties follow from soundness.  Authenticate is the  *)
(* one operator that leaves the tables unsound for a moment: a notify of   *)
(* the old session may still wait in the slot's send buffer, which is why  *)
(* soundness is stated "but for" a set of slots.                           *)
(*                                                                         *)
(* Then what the server keeps of file relays, and what a step of it may    *)
(* never do: close another peer's connection without a login, tell a       *)
(* receiver of a message whose sender is not told, or acknowledge what was *)
(* not passed on.  Then what a visit makes of the connections: who leaves  *)
(* takes calls and transfers along, what is told of messages is stored,    *)
(* the end of a call is told, and the call table has room.                 *)
(***************************************************************************)
EXTENDS ChatServer, FiniteSetTheorems, TLAPS

TablesType == [clients : [Slots -> Client], out : [Slots -> Packet],
               calls : SUBSET Call, transfers : SUBSET Transfer]

\* A slot that is not open has no user, no session and nothing to send.
ClosedIsClean(t) ==
    \A s \in Slots : ~t.clients[s].open => t.clients[s] = FreeClient /\ t.out[s] = NoPacket

\* OneSession, OneCallPerUser and PendingIsAddressed of the tables t.
OnePerUser(t) ==
    \A s, r \in Slots : t.clients[s].user # NoUser /\ t.clients[s].user = t.clients[r].user => s = r

OneCall(t) == \A c, d \in t.calls : c # d => Parties(c) \cap Parties(d) = {}

Addressed(t, S) ==
    \A s \in S : t.out[s].kind = "notify" =>
        t.out[s].to = t.clients[s].user /\ t.out[s].session = t.clients[s].session

\* The tables are sound but for what waits in the send buffers of the slots in X.
SoundBut(t, X) ==
    /\ t \in TablesType
    /\ ClosedIsClean(t)
    /\ OnePerUser(t)
    /\ OneCall(t)
    /\ Addressed(t, Slots \ X)

Sound(t) == SoundBut(t, {})

Notifies == {p \in Packet : p.kind = "notify"}
Responses == {p \in Packet : p.kind # "notify"}

\* The packets the handlers build are well formed.
LEMMA ConstantTypes ==
    /\ FreeClient \in Client
    /\ NoPacket \in Responses
    /\ \A op \in Ops, id \in Nat : Notify(op, id) \in Notifies
    /\ \A op \in Ops, id \in Nat, k \in {"ok", "error"} : Response(k, op, id) \in Responses
    /\ \A id, index, len \in Nat : ChunkNotify(id, index, len) \in Notifies
    /\ \A id, size \in Nat : StartNotify(id, size) \in Notifies
<1>1. FreeClient \in Client
  BY DEF FreeClient, Client
<1>2. NoPacket \in Packet /\ NoPacket \in Responses
  BY DEF NoPacket, Responses, Packet, Ops
<1>3. \A op \in Ops, id \in Nat : Notify(op, id) \in Notifies
  BY <1>2 DEF Notifies, Packet, Notify
<1>4. \A op \in Ops, id \in Nat, k \in {"ok", "error"} : Response(k, op, id) \in Responses
  BY <1>2 DEF Responses, Packet, Response
<1>5. \A id, index, len \in Nat : ChunkNotify(id, index, len) \in Notifies
  <2> SUFFICES ASSUME NEW id \in Nat, NEW index \in Nat, NEW len \in Nat
               PROVE  ChunkNotify(id, index, len) \in Notifies
    OBVIOUS
  <2>1. PICK n \in Notifies : n = Notify("file-chunk", id)
    BY <1>3 DEF Ops
  <2>2. ChunkNotify(id, index, len) = [n EXCEPT !.index = index, !.len = len]
    BY <2>1 DEF ChunkNotify
  <2> QED BY <2>2 DEF Notifies, Packet
<1>6. \A id, size \in Nat : StartNotify(id, size) \in Notifies
  <2> SUFFICES ASSUME NEW id \in Nat, NEW size \in Nat
               PROVE  StartNotify(id, size) \in Notifies
    OBVIOUS
  <2>1. PICK n \in Notifies : n = Notify("file-start", id)
    BY <1>3 DEF Ops
  <2>2. StartNotify(id, size) = [n EXCEPT !.len = size]
    BY <2>1 DEF StartNotify
  <2> QED BY <2>2 DEF Notifies, Packet
<1> QED BY <1>1, <1>2, <1>3, <1>4, <1>5, <1>6

\* find_client_by_user_id finds the user's one connection.
LEMMA ClientOfIsUnique ==
    ASSUME NEW t, OnePerUser(t), NEW u \in Users, NEW s \in Slots, IsClient(t, s, u)
    PROVE  ClientOf(t, u) = s
<1>1. \A r \in Slots : IsClient(t, r, u) => r = s
  BY ServerAssumption DEF OnePerUser, IsClient
<1>2. s \in Slots /\ IsClient(t, s, u) /\ \A r \in Slots : IsClient(t, r, u) => s <= r
  BY <1>1 DEF Slots
<1> QED BY <1>1, <1>2 DEF ClientOf

\* Queueing notifies addresses each to the session of the connection that gets it.
LEMMA TellSound ==
    ASSUME NEW t, NEW X, SoundBut(t, X), NEW notes, DOMAIN notes \subseteq Users,
           \A u \in DOMAIN notes : notes[u] \in Notifies
    PROVE  /\ SoundBut(Tell(t, notes), X)
           /\ Tell(t, notes).clients = t.clients
           /\ Tell(t, notes).calls = t.calls
           /\ Tell(t, notes).transfers = t.transfers
<1> DEFINE told(r) == LET u == t.clients[r].user
                      IN  u \in DOMAIN notes /\ CanTell(t, u) /\ ClientOf(t, u) = r
           note(r) == [notes[t.clients[r].user] EXCEPT !.to = t.clients[r].user,
                                                       !.session = t.clients[r].session]
           o == [r \in Slots |-> IF told(r) THEN note(r) ELSE t.out[r]]
<1>1. Tell(t, notes) = [t EXCEPT !.out = o]
  BY DEF Tell
<1>2. t \in TablesType
  BY DEF SoundBut
<1>3. ASSUME NEW r \in Slots, told(r)
      PROVE  /\ note(r) \in Packet
             /\ note(r).kind = "notify" /\ note(r).to = t.clients[r].user
             /\ note(r).session = t.clients[r].session
             /\ t.clients[r].open
  <2>1. notes[t.clients[r].user] \in Packet /\ notes[t.clients[r].user].kind = "notify"
    BY <1>3 DEF Notifies
  <2>2. t.clients[r] \in Client
    BY <1>2 DEF TablesType
  <2>3. t.clients[r].open
    BY <1>3 DEF CanTell, CanQueue
  <2> HIDE DEF told
  <2> QED BY <2>1, <2>2, <2>3 DEF Packet, Client
<1> HIDE DEF told, note
<1>4. o \in [Slots -> Packet]
  BY <1>2, <1>3 DEF TablesType
<1>5. \A r \in Slots : o[r] # t.out[r] => told(r)
  OBVIOUS
<1>6. \A r \in Slots : told(r) => o[r] = note(r)
  OBVIOUS
<1> HIDE DEF o
<1>7. [t EXCEPT !.out = o] \in TablesType
  BY <1>2, <1>4 DEF TablesType
<1>8. /\ [t EXCEPT !.out = o].clients = t.clients
      /\ [t EXCEPT !.out = o].calls = t.calls
      /\ [t EXCEPT !.out = o].transfers = t.transfers
      /\ [t EXCEPT !.out = o].out = o
  BY <1>2 DEF TablesType
<1>9. ClosedIsClean([t EXCEPT !.out = o])
  BY <1>3, <1>5, <1>8 DEF ClosedIsClean, SoundBut
<1>10. Addressed([t EXCEPT !.out = o], Slots \ X)
  BY <1>3, <1>5, <1>6, <1>8 DEF Addressed, SoundBut
<1> QED BY <1>1, <1>7, <1>8, <1>9, <1>10 DEF SoundBut, OnePerUser, OneCall

\* close_client keeps the tables sound, also when what waited in the closed slots was not.
LEMMA CloseSlotsSound ==
    ASSUME NEW t, NEW S \in SUBSET Slots, SoundBut(t, S), NEW u \in Users \cup {NoUser}
    PROVE  /\ Sound(CloseSlots(t, S, u))
           /\ \A s \in Slots : CloseSlots(t, S, u).clients[s] = IF s \in S THEN FreeClient ELSE t.clients[s]
<1> DEFINE ended == {c \in t.calls : u \in Parties(c)}
           First(p) == CHOOSE c \in ended : Peer(c, u) = p /\ \A d \in ended : Peer(d, u) = p => c.id <= d.id
           closed == [clients   |-> [s \in Slots |-> IF s \in S THEN FreeClient ELSE t.clients[s]],
                      out       |-> [s \in Slots |-> IF s \in S THEN NoPacket ELSE t.out[s]],
                      calls     |-> t.calls \ ended,
                      transfers |-> {x \in t.transfers : u \notin Ends(x)}]
           notes == [p \in {Peer(c, u) : c \in ended} |-> Notify("hangup", First(p).id)]
<1>1. CloseSlots(t, S, u) = Tell(closed, notes)
  BY DEF CloseSlots
<1>2. t \in TablesType /\ OneCall(t)
  BY DEF SoundBut
<1>3. SoundBut(closed, {})
  <2>1. closed \in TablesType
    BY <1>2, ConstantTypes DEF TablesType, Responses
  <2>2. ClosedIsClean(closed)
    BY DEF ClosedIsClean, SoundBut
  <2>3. OnePerUser(closed)
    BY DEF OnePerUser, SoundBut, FreeClient
  <2>4. OneCall(closed)
    BY <1>2 DEF OneCall
  <2>5. Addressed(closed, Slots)
    BY DEF Addressed, SoundBut, NoPacket
  <2> QED BY <2>1, <2>2, <2>3, <2>4, <2>5 DEF SoundBut
<1>4. ASSUME NEW p \in {Peer(c, u) : c \in ended}
      PROVE  p \in Users /\ First(p) \in Call
  <2>1. PICK c \in ended : Peer(c, u) = p
    OBVIOUS
  <2>2. c \in Call /\ \A d \in ended : d \in Call
    BY <1>2 DEF TablesType
  <2>3. \A d \in ended : d = c
    BY <1>2 DEF OneCall
  <2>4. Peer(c, u) = p /\ \A d \in ended : Peer(d, u) = p => c.id <= d.id
    BY <2>1, <2>2, <2>3 DEF Call
  <2>5. First(p) \in ended
    BY <2>4
  <2> HIDE DEF First
  <2> QED BY <2>1, <2>2, <2>5 DEF Peer, Call
<1>5. DOMAIN notes \subseteq Users
  BY <1>4
<1>6. \A p \in DOMAIN notes : notes[p] \in Notifies
  <2>1. ASSUME NEW p \in DOMAIN notes PROVE notes[p] \in Notifies
    <3>1. First(p).id \in Nat
      BY <1>4 DEF Call
    <3>2. "hangup" \in Ops
      BY DEF Ops, CallOps, EndOps
    <3> HIDE DEF First
    <3> QED BY <3>1, <3>2, ConstantTypes
  <2> QED BY <2>1
<1>7. \A s \in Slots : closed.clients[s] = IF s \in S THEN FreeClient ELSE t.clients[s]
  OBVIOUS
<1> HIDE DEF closed, notes
<1> QED BY <1>1, <1>3, <1>5, <1>6, <1>7, TellSound DEF Sound

\* The same of the connection being visited.
LEMMA CloseClientSound ==
    ASSUME NEW t, NEW s \in Slots, SoundBut(t, {s})
    PROVE  Sound(CloseClient(t, s))
<1>1. t.clients[s].user \in Users \cup {NoUser}
  BY DEF SoundBut, TablesType, Client
<1> QED BY <1>1, CloseSlotsSound DEF CloseClient

\* Queueing the response, or closing the connection that cannot take it, restores
\* soundness: a buffer that held a notify of an older session is emptied.
LEMMA ReplySound ==
    ASSUME NEW t, NEW s \in Slots, SoundBut(t, {s}), NEW p \in Responses
    PROVE  Sound(Reply(t, s, p))
<1>1. CASE ~CanQueue(t, s)
  BY <1>1, CloseClientSound DEF Reply
<1>2. CASE CanQueue(t, s)
  <2> DEFINE o == [t.out EXCEPT ![s] = p]
             q == [t EXCEPT !.out[s] = p]
  <2>1. t \in TablesType /\ t.clients[s].open
    BY <1>2 DEF SoundBut, CanQueue
  <2>2. q \in TablesType /\ q.clients = t.clients /\ q.calls = t.calls /\ q.out = o
    BY <2>1 DEF TablesType, Responses
  <2>3. o[s] = p /\ \A r \in Slots \ {s} : o[r] = t.out[r]
    BY <2>1 DEF TablesType
  <2> HIDE DEF q, o
  <2>4. ClosedIsClean(q)
    BY <2>1, <2>2, <2>3 DEF ClosedIsClean, SoundBut
  <2>5. Addressed(q, Slots)
    BY <2>2, <2>3 DEF Addressed, SoundBut, Responses
  <2>6. Sound(q)
    BY <2>2, <2>4, <2>5 DEF Sound, SoundBut, OnePerUser, OneCall
  <2> QED BY <1>2, <2>6 DEF Reply, q
<1> QED BY <1>1, <1>2

\* One notify.
LEMMA TellOneSound ==
    ASSUME NEW t, NEW X, SoundBut(t, X), NEW u \in Users, NEW note \in Notifies
    PROVE  SoundBut(TellOne(t, u, note), X)
BY TellSound DEF TellOne

\* A relayed request, whether or not the receiver can be told.
LEMMA RelaySound ==
    ASSUME NEW t, Sound(t), NEW after, Sound(after), NEW s \in Slots, NEW u \in Users,
           NEW note \in Notifies, NEW response \in Responses
    PROVE  Sound(Relay(t, s, u, note, after, response))
<1>1. SoundBut(t, {s})
  BY DEF Sound, SoundBut, Addressed
<1>2. SoundBut(TellOne(after, u, note), {s})
  <2>1. SoundBut(TellOne(after, u, note), {})
    BY TellOneSound DEF Sound
  <2> QED BY <2>1 DEF SoundBut, Addressed
<1> QED BY <1>1, <1>2, CloseClientSound, ReplySound DEF Relay

\* A chat or group message, whether or not the sender can be told.
LEMMA AcknowledgeSound ==
    ASSUME NEW t, Sound(t), NEW s \in Slots, NEW response \in Responses,
           NEW notes, DOMAIN notes \subseteq Users, \A u \in DOMAIN notes : notes[u] \in Notifies
    PROVE  Sound(Acknowledge(t, s, response, notes))
<1>1. SoundBut(t, {s})
  BY DEF Sound, SoundBut, Addressed
<1>2. Sound(Reply(t, s, response))
  BY <1>1, ReplySound
<1>3. Sound(Tell(Reply(t, s, response), notes))
  BY <1>2, TellSound DEF Sound
<1> QED BY <1>1, <1>3, CloseClientSound DEF Acknowledge

\* authenticate_client: one connection per user, and only the slot's own buffer may
\* hold a notify of another session.
LEMMA AuthenticateSound ==
    ASSUME NEW t, Sound(t), NEW s \in Slots, t.clients[s].open, NEW u \in Users, NEW n \in Nat
    PROVE  SoundBut(Authenticate(t, s, u, n), {s})
<1> DEFINE others == {r \in Slots \ {s} : IsClient(t, r, u)}
           alone == IF others = {} THEN t ELSE CloseSlots(t, others, u)
           me == [open |-> TRUE, user |-> u, session |-> n]
           a == [alone EXCEPT !.clients[s] = me]
           cl == [alone.clients EXCEPT ![s] = me]
<1>1. Sound(alone) /\ \A r \in Slots : alone.clients[r] = IF r \in others THEN FreeClient ELSE t.clients[r]
  <2>1. others \in SUBSET Slots /\ SoundBut(t, others)
    BY DEF Sound, SoundBut, Addressed
  <2> HIDE DEF others
  <2>2. Sound(CloseSlots(t, others, u))
        /\ \A r \in Slots : CloseSlots(t, others, u).clients[r] = IF r \in others THEN FreeClient ELSE t.clients[r]
    BY <2>1, CloseSlotsSound
  <2> QED BY <2>2
<1> HIDE DEF alone
<1>2. alone \in TablesType
  BY <1>1 DEF Sound, SoundBut
<1>3. me \in Client
  BY DEF Client
<1>4. a \in TablesType /\ a.clients = cl /\ a.out = alone.out /\ a.calls = alone.calls
  BY <1>2, <1>3 DEF TablesType
<1>5. cl[s] = me /\ \A r \in Slots \ {s} : cl[r] = alone.clients[r]
  BY <1>2 DEF TablesType
<1> HIDE DEF a, cl
<1>6. ClosedIsClean(a)
  BY <1>1, <1>4, <1>5 DEF ClosedIsClean, Sound, SoundBut
<1>7. \A r \in Slots \ {s} : cl[r].user # u
  <2>1. TAKE r \in Slots \ {s}
  <2>2. CASE r \in others
    BY <1>1, <1>5, <2>2, ServerAssumption DEF FreeClient
  <2>3. CASE r \notin others
    BY <1>1, <1>5, <2>3, ServerAssumption DEF IsClient, Sound, SoundBut, ClosedIsClean, FreeClient
  <2> QED BY <2>2, <2>3
<1>8. OnePerUser(a)
  BY <1>1, <1>4, <1>5, <1>7 DEF OnePerUser, Sound, SoundBut
<1>9. OneCall(a) /\ Addressed(a, Slots \ {s})
  BY <1>1, <1>4, <1>5 DEF OneCall, Addressed, Sound, SoundBut
<1> QED BY <1>4, <1>6, <1>8, <1>9 DEF Authenticate, SoundBut, a, alone

\* register and login.
LEMMA SessionSound ==
    ASSUME NEW t, Sound(t), NEW s \in Slots, t.clients[s].open, NEW u \in Users, NEW n \in Nat
    PROVE  Sound(Reply(Authenticate(t, s, u, n), s, Response("ok", "auth", n)))
<1>1. Response("ok", "auth", n) \in Responses
  BY ConstantTypes DEF Ops
<1> QED BY <1>1, AuthenticateSound, ReplySound

-----------------------------------------------------------------------------
\* The part of TypeOK that is not about the tables.
RestTypeOK ==
    /\ ids \in [session : Nat \ {0}, call : Nat \ {0}, transfer : Nat \ {0}]
    /\ turn \in 0 .. NSlots + 1
    /\ accounts \in SUBSET Users
    /\ messages \in Seq(Message)
    /\ groups \in Seq(SUBSET Users)
    /\ fileRows \in Seq({"started", "completed"})

SoundTables == Sound(Tables)

\* The inductive invariant.
IInv == RestTypeOK /\ SoundTables

\* Committing sound tables.
LEMMA CommitSound ==
    ASSUME NEW t, Sound(t), Commit(t)
    PROVE  SoundTables'
<1>1. t \in TablesType
  BY DEF Sound, SoundBut
<1>2. t = [clients |-> t.clients, out |-> t.out, calls |-> t.calls, transfers |-> t.transfers]
  BY <1>1 DEF TablesType
<1>3. Tables' = t
  BY <1>2 DEF Tables, Commit
<1> QED BY <1>3 DEF SoundTables, Sound, SoundBut, ClosedIsClean, OnePerUser, OneCall, Addressed

\* Draining the send buffer before the visit changes no table but that buffer.
LEMMA FlushedSound ==
    ASSUME IInv, NEW s \in Slots, NEW t \in Flushed(s), clients[s].open
    PROVE  /\ Sound(t)
           /\ t.clients = clients /\ t.calls = calls /\ t.transfers = transfers
           /\ t.clients[s] \in Client
<1>1. Sound(Tables) /\ Tables \in TablesType
  BY DEF IInv, SoundTables, Sound, SoundBut
<1>2. Tables.clients = clients /\ Tables.calls = calls /\ Tables.transfers = transfers /\ Tables.out = out
  BY DEF Tables
<1>3. CASE t = Tables
  BY <1>1, <1>2, <1>3 DEF TablesType
<1>4. CASE t = [Tables EXCEPT !.out[s] = NoPacket]
  <2>1. /\ t.clients = clients /\ t.calls = calls /\ t.transfers = transfers
        /\ t \in TablesType
        /\ \A r \in Slots : t.out[r] = IF r = s THEN NoPacket ELSE out[r]
    BY <1>1, <1>2, <1>4, ConstantTypes DEF TablesType, Responses
  <2>2. Sound(t)
    BY <1>1, <1>2, <2>1 DEF Sound, SoundBut, ClosedIsClean, OnePerUser, OneCall, Addressed, NoPacket
  <2> QED BY <2>1, <2>2 DEF TablesType
<1> QED BY <1>3, <1>4 DEF Flushed

\* The server starts with empty tables.
LEMMA InitSound == Init => IInv
<1> SUFFICES ASSUME Init PROVE IInv
  OBVIOUS
<1>1. RestTypeOK
  BY ServerAssumption DEF Init, RestTypeOK, FirstIds
<1>2. Tables = EmptyTables
  BY DEF Init, Tables, EmptyTables
<1>3. EmptyTables \in TablesType
  BY ConstantTypes DEF EmptyTables, TablesType, Responses
<1>4. Sound(EmptyTables)
  BY <1>3 DEF EmptyTables, Sound, SoundBut, ClosedIsClean, OnePerUser, OneCall, Addressed, FreeClient, NoPacket
<1> QED BY <1>1, <1>2, <1>4 DEF IInv, SoundTables

-----------------------------------------------------------------------------
\* A visit passes the turn to the next slot or to the sweep.
LEMMA ServeTurn ==
    ASSUME NEW s \in Slots, NEW t, Serve(s, t)
    PROVE  turn' \in 0 .. NSlots + 1 /\ clients[s].open /\ t \in Flushed(s)
BY ServerAssumption DEF Serve, Slots

\* Updating an entry of a sequence, in its domain or not, keeps its type.
LEMMA ExceptRow ==
    ASSUME NEW S, NEW q \in Seq(S), NEW i, NEW v \in S
    PROVE  [q EXCEPT ![i] = v] \in Seq(S)
<1>1. PICK n \in Nat : q \in [1 .. n -> S]
  OBVIOUS
<1>2. [q EXCEPT ![i] = v] \in [1 .. n -> S]
  BY <1>1
<1> QED BY <1>2

\* Visits that queue one response at most.
LEMMA PlainVisits ==
    ASSUME IInv, NEW s \in Slots, NEW t,
           Disconnect(s, t) \/ Idle(s, t) \/ Heartbeat(s, t) \/ ListOnline(s, t) \/ Refuse(s, t)
    PROVE  IInv'
<1>1. Serve(s, t) /\ UNCHANGED <<ids, storage>>
  BY DEF Disconnect, Idle, Heartbeat, ListOnline, Refuse
<1>2. RestTypeOK'
  BY <1>1, ServeTurn DEF IInv, RestTypeOK, storage
<1>3. Sound(t) /\ SoundBut(t, {s})
  BY <1>1, ServeTurn, FlushedSound DEF Sound, SoundBut, Addressed
<1>4. CASE Disconnect(s, t)
  BY <1>2, <1>3, <1>4, CloseClientSound, CommitSound DEF Disconnect, IInv
<1>5. CASE Idle(s, t)
  BY <1>2, <1>3, <1>5, CommitSound DEF Idle, IInv
<1>6. CASE Heartbeat(s, t)
  <2>1. Response("ok", "heartbeat", 0) \in Responses
    BY ConstantTypes DEF Ops
  <2> QED BY <1>2, <1>3, <1>6, <2>1, ReplySound, CommitSound DEF Heartbeat, IInv
<1>7. CASE ListOnline(s, t)
  <2>1. Response("ok", "user", 0) \in Responses
    BY ConstantTypes DEF Ops
  <2> QED BY <1>2, <1>3, <1>7, <2>1, ReplySound, CommitSound DEF ListOnline, IInv
<1>8. CASE Refuse(s, t)
  <2>1. Response("error", "none", 0) \in Responses
    BY ConstantTypes DEF Ops
  <2> QED BY <1>2, <1>3, <1>8, <2>1, ReplySound, CommitSound DEF Refuse, IInv
<1> QED BY <1>4, <1>5, <1>6, <1>7, <1>8

\* The next value of an id counter is one again.
LEMMA NextId ==
    ASSUME RestTypeOK, NEW k \in {"session", "call", "transfer"}, ids' = [ids EXCEPT ![k] = @ + 1]
    PROVE  ids' \in [session : Nat \ {0}, call : Nat \ {0}, transfer : Nat \ {0}]
<1>1. ids \in [session : Nat \ {0}, call : Nat \ {0}, transfer : Nat \ {0}]
  BY DEF RestTypeOK
<1>2. PICK n \in Nat \ {0} : n = ids[k] + 1
  BY <1>1
<1>3. ids' = [ids EXCEPT ![k] = n]
  BY <1>2
<1> QED BY <1>1, <1>3

\* Visits that start a session.
LEMMA SessionVisits ==
    ASSUME IInv, NEW s \in Slots, NEW t, NEW u \in Users, Register(s, t, u) \/ Login(s, t, u)
    PROVE  IInv'
<1>1. Serve(s, t) /\ StartSession(s, t, u) /\ ids.session \in Nat
  BY DEF Register, Login, IInv, RestTypeOK
<1>2. RestTypeOK'
  <2>1. ids' \in [session : Nat \ {0}, call : Nat \ {0}, transfer : Nat \ {0}]
    <3>1. ids' = [ids EXCEPT !["session"] = @ + 1]
      BY <1>1 DEF StartSession
    <3> QED BY <3>1, NextId DEF IInv
  <2>2. accounts' \in SUBSET Users /\ UNCHANGED <<messages, groups, fileRows>>
    BY DEF IInv, RestTypeOK, Register, Login, storage
  <2> QED BY <1>1, <2>1, <2>2, ServeTurn DEF IInv, RestTypeOK
<1>3. Sound(t) /\ t.clients[s].open
  BY <1>1, ServeTurn, FlushedSound
<1>4. Sound(Reply(Authenticate(t, s, u, ids.session), s, Response("ok", "auth", ids.session)))
  BY <1>1, <1>3, SessionSound
<1> QED BY <1>1, <1>2, <1>4, CommitSound DEF StartSession, IInv

\* A direct message.
LEMMA ChatVisit ==
    ASSUME IInv, NEW s \in Slots, NEW t, NEW to \in Users, Chat(s, t, to)
    PROVE  IInv'
<1> DEFINE me == t.clients[s].user
           m == Len(messages) + 1
           notes == [u \in {to} |-> Notify("chat", m)]
<1>1. Sound(t) /\ t.clients[s] \in Client
  BY ServeTurn, FlushedSound DEF Chat
<1>2. m \in Nat /\ me \in Users
  BY <1>1 DEF Chat, IInv, RestTypeOK, Client
<1>3. RestTypeOK'
  <2>1. messages' \in Seq(Message)
    BY <1>2 DEF Chat, IInv, RestTypeOK, Message
  <2> QED BY <2>1, ServeTurn DEF Chat, IInv, RestTypeOK
<1>4. Response("ok", "chat", m) \in Responses /\ \A u \in DOMAIN notes : notes[u] \in Notifies
  BY <1>2, ConstantTypes DEF Ops
<1>5. DOMAIN notes \subseteq Users
  OBVIOUS
<1>6. Commit(Acknowledge(t, s, Response("ok", "chat", m), notes))
  BY DEF Chat
<1> HIDE DEF notes, m
<1> QED BY <1>1, <1>3, <1>4, <1>5, <1>6, AcknowledgeSound, CommitSound DEF IInv

\* A new group.
LEMMA CreateGroupVisit ==
    ASSUME IInv, NEW s \in Slots, NEW t, NEW invited \in SUBSET Users, CreateGroup(s, t, invited)
    PROVE  IInv'
<1> DEFINE members == invited \cup {t.clients[s].user}
<1>1. Sound(t) /\ t.clients[s] \in Client /\ SoundBut(t, {s})
  BY ServeTurn, FlushedSound DEF CreateGroup, Sound, SoundBut, Addressed
<1>2. members \in SUBSET Users
  BY <1>1 DEF CreateGroup, Client
<1>3. groups' \in Seq(SUBSET Users)
  BY <1>2 DEF CreateGroup, IInv, RestTypeOK
<1>4. RestTypeOK'
  BY <1>3, ServeTurn DEF CreateGroup, IInv, RestTypeOK
<1>5. Response("ok", "group-create", Len(groups')) \in Responses
  BY <1>3, ConstantTypes DEF Ops
<1> QED BY <1>1, <1>4, <1>5, ReplySound, CommitSound DEF CreateGroup, IInv

\* A group message.
LEMMA SendGroupVisit ==
    ASSUME IInv, NEW s \in Slots, NEW t, NEW g \in DOMAIN groups, SendGroup(s, t, g)
    PROVE  IInv'
<1> DEFINE m == Len(messages) + 1
           others == groups[g] \ {t.clients[s].user}
           notes(listed) == [u \in listed |-> Notify("group-send", m)]
<1>1. Sound(t)
  BY ServeTurn, FlushedSound DEF SendGroup
<1>2. m \in Nat /\ groups[g] \in SUBSET Users /\ others \in SUBSET Users /\ t.clients[s].user \in Users
  BY DEF SendGroup, IInv, RestTypeOK
<1>3. RestTypeOK'
  <2>1. messages' \in Seq(Message)
    BY <1>2 DEF SendGroup, IInv, RestTypeOK, Message
  <2> QED BY <2>1, ServeTurn DEF SendGroup, IInv, RestTypeOK
<1>4. PICK listed \in {others, {}} : Commit(Acknowledge(t, s, Response("ok", "group-send", m), notes(listed)))
  BY DEF SendGroup
<1>5. Response("ok", "group-send", m) \in Responses /\ \A u \in DOMAIN notes(listed) : notes(listed)[u] \in Notifies
  BY <1>2, ConstantTypes DEF Ops
<1>6. DOMAIN notes(listed) \subseteq Users
  BY <1>2, <1>4
<1> HIDE DEF notes, m
<1> QED BY <1>1, <1>3, <1>4, <1>5, <1>6, AcknowledgeSound, CommitSound DEF IInv

\* Soundness does not depend on the transfers, but for their type.
LEMMA WithTransfers ==
    ASSUME NEW t, Sound(t), NEW X \in SUBSET Transfer
    PROVE  Sound([t EXCEPT !.transfers = X])
<1>1. t \in TablesType
  BY DEF Sound, SoundBut
<1>2. LET q == [t EXCEPT !.transfers = X]
      IN  q \in TablesType /\ q.clients = t.clients /\ q.out = t.out /\ q.calls = t.calls
  BY <1>1 DEF TablesType
<1> QED BY <1>2 DEF Sound, SoundBut, ClosedIsClean, OnePerUser, OneCall, Addressed

\* Replacing the calls by disjoint ones keeps the tables sound.
LEMMA WithCalls ==
    ASSUME NEW t, Sound(t), NEW X \in SUBSET Call,
           \A c, d \in X : c # d => Parties(c) \cap Parties(d) = {}
    PROVE  Sound([t EXCEPT !.calls = X])
<1>1. t \in TablesType
  BY DEF Sound, SoundBut
<1>2. LET q == [t EXCEPT !.calls = X]
      IN  q \in TablesType /\ q.clients = t.clients /\ q.out = t.out /\ q.calls = X
  BY <1>1 DEF TablesType
<1> QED BY <1>2 DEF Sound, SoundBut, ClosedIsClean, OnePerUser, OneCall, Addressed

\* A file offer.
LEMMA StartFileVisit ==
    ASSUME IInv, NEW s \in Slots, NEW t, NEW to \in Users, NEW size \in FileSizes, StartFile(s, t, to, size)
    PROVE  IInv'
<1> DEFINE me == t.clients[s].user
           x  == [id |-> ids.transfer, row |-> Len(fileRows) + 1, sender |-> me, receiver |-> to,
                  size |-> size, seen |-> 0, next |-> 0]
           after == [t EXCEPT !.transfers = @ \cup {x}]
<1>1. Sound(t) /\ t.clients[s] \in Client /\ t \in TablesType
  BY ServeTurn, FlushedSound DEF StartFile, Sound, SoundBut
<1>2. me \in Users
  BY <1>1 DEF StartFile, Client
<1>3. RestTypeOK'
  <2>1. messages' \in Seq(Message)
    BY <1>2 DEF StartFile, IInv, RestTypeOK, Message
  <2>2. fileRows' \in Seq({"started", "completed"})
    <3>1. fileRows' = Append(fileRows, "started")
      BY DEF StartFile
    <3> QED BY <3>1 DEF IInv, RestTypeOK
  <2>3. ids' \in [session : Nat \ {0}, call : Nat \ {0}, transfer : Nat \ {0}]
    <3>1. ids' = [ids EXCEPT !["transfer"] = @ + 1]
      BY DEF StartFile
    <3> QED BY <3>1, NextId DEF IInv
  <2> QED BY <2>1, <2>2, <2>3, ServeTurn DEF StartFile, IInv, RestTypeOK
<1>4. x \in Transfer
  BY <1>2, ServerAssumption DEF Transfer, IInv, RestTypeOK
<1>5. Sound(after)
  <2>1. t.transfers \cup {x} \in SUBSET Transfer
    BY <1>1, <1>4 DEF TablesType
  <2> QED BY <1>1, <2>1, WithTransfers
<1>6. StartNotify(x.id, x.size) \in Notifies /\ Response("ok", "file-start", x.id) \in Responses
  BY ConstantTypes, ServerAssumption DEF Ops, IInv, RestTypeOK
<1>7. Commit(Relay(t, s, to, StartNotify(x.id, x.size), after, Response("ok", "file-start", x.id)))
  BY DEF StartFile
<1> HIDE DEF after, x
<1> QED BY <1>1, <1>3, <1>5, <1>6, <1>7, RelaySound, CommitSound DEF IInv

\* A chunk that ends its transfer.
LEMMA DropFileVisit ==
    ASSUME IInv, NEW s \in Slots, NEW t, NEW x \in transfers, NEW index, NEW len, DropFile(s, t, x, index, len)
    PROVE  IInv'
<1> DEFINE q == [t EXCEPT !.transfers = @ \ {x}]
<1>1. Sound(t) /\ t \in TablesType
  BY ServeTurn, FlushedSound DEF DropFile, Sound, SoundBut
<1>2. RestTypeOK'
  BY ServeTurn DEF DropFile, IInv, RestTypeOK, storage
<1>3. Sound(q)
  <2>1. t.transfers \ {x} \in SUBSET Transfer
    BY <1>1 DEF TablesType
  <2> QED BY <1>1, <2>1, WithTransfers
<1>4. SoundBut(q, {s})
  BY <1>3 DEF Sound, SoundBut, Addressed
<1>5. Response("error", "file-chunk", x.id) \in Responses
  <2>1. x.id \in Nat
    BY DEF IInv, SoundTables, Sound, SoundBut, TablesType, Tables, Transfer
  <2> QED BY <2>1, ConstantTypes DEF Ops
<1>6. Commit(Reply(q, s, Response("error", "file-chunk", x.id)))
  BY DEF DropFile
<1> HIDE DEF q
<1> QED BY <1>2, <1>4, <1>5, <1>6, ReplySound, CommitSound DEF IInv

\* A chunk that is passed on.
LEMMA RelayChunkVisit ==
    ASSUME IInv, NEW s \in Slots, NEW t, NEW x \in transfers, NEW len \in 1 .. MaxChunk, RelayChunk(s, t, x, len)
    PROVE  IInv'
<1> DEFINE advanced == [x EXCEPT !.seen = @ + len, !.next = @ + 1]
           after == [t EXCEPT !.transfers = (@ \ {x}) \cup {advanced}]
<1>1. Sound(t) /\ t \in TablesType
  BY ServeTurn, FlushedSound DEF RelayChunk, Sound, SoundBut
<1>2. x \in Transfer
  BY DEF IInv, SoundTables, Sound, SoundBut, TablesType, Tables
<1>3. RestTypeOK'
  BY ServeTurn DEF RelayChunk, IInv, RestTypeOK, storage
<1>4. advanced \in Transfer /\ len \in Nat
  <2>1. len \in Nat /\ x.seen + len \in Nat /\ x.next + 1 \in Nat
    BY <1>2, ServerAssumption DEF Transfer
  <2> QED BY <1>2, <2>1 DEF Transfer
<1>5. Sound(after)
  <2>1. (t.transfers \ {x}) \cup {advanced} \in SUBSET Transfer
    BY <1>1, <1>4 DEF TablesType
  <2> HIDE DEF advanced
  <2> QED BY <1>1, <2>1, WithTransfers
<1>6. ChunkNotify(x.id, x.next, len) \in Notifies /\ Response("ok", "file-chunk", x.id) \in Responses
      /\ x.receiver \in Users
  BY <1>2, <1>4, ConstantTypes DEF Ops, Transfer
<1>7. Commit(Relay(t, s, x.receiver, ChunkNotify(x.id, x.next, len), after, Response("ok", "file-chunk", x.id)))
  BY DEF RelayChunk
<1> HIDE DEF after, advanced
<1> QED BY <1>1, <1>3, <1>5, <1>6, <1>7, RelaySound, CommitSound DEF IInv

\* The end of a file.
LEMMA CompleteFileVisit ==
    ASSUME IInv, NEW s \in Slots, NEW t, NEW x \in transfers, CompleteFile(s, t, x)
    PROVE  IInv'
<1> DEFINE told == TellOne(t, x.receiver, Notify("file-complete", x.id))
           q == [told EXCEPT !.transfers = @ \ {x}]
<1>1. Sound(t)
  BY ServeTurn, FlushedSound DEF CompleteFile
<1>2. x \in Transfer
  BY DEF IInv, SoundTables, Sound, SoundBut, TablesType, Tables
<1>3. RestTypeOK'
  <2>1. fileRows \in Seq({"started", "completed"})
    BY DEF IInv, RestTypeOK
  <2>2. [fileRows EXCEPT ![x.row] = "completed"] \in Seq({"started", "completed"})
    BY <2>1, ExceptRow
  <2>3. fileRows' = fileRows \/ fileRows' = [fileRows EXCEPT ![x.row] = "completed"]
    BY DEF CompleteFile
  <2>4. fileRows' \in Seq({"started", "completed"})
    BY <2>1, <2>2, <2>3
  <2> QED BY <2>4, ServeTurn DEF CompleteFile, IInv, RestTypeOK
<1>4. Notify("file-complete", x.id) \in Notifies /\ Response("ok", "file-complete", x.id) \in Responses
      /\ x.receiver \in Users
  BY <1>2, ConstantTypes DEF Ops, Transfer
<1>5. Sound(told)
  BY <1>1, <1>4, TellOneSound DEF Sound
<1> HIDE DEF told
<1>6. Sound(q)
  <2>1. told.transfers \ {x} \in SUBSET Transfer
    BY <1>5 DEF Sound, SoundBut, TablesType
  <2> QED BY <1>5, <2>1, WithTransfers
<1>7. SoundBut(q, {s})
  BY <1>6 DEF Sound, SoundBut, Addressed
<1>8. Commit(Reply(q, s, Response("ok", "file-complete", x.id)))
  BY DEF CompleteFile, told
<1> HIDE DEF q
<1> QED BY <1>3, <1>4, <1>7, <1>8, ReplySound, CommitSound DEF IInv

\* An invite: neither party is in a call, so the new call is disjoint from the others.
LEMMA InviteVisit ==
    ASSUME IInv, NEW s \in Slots, NEW t, NEW to \in Users, Invite(s, t, to)
    PROVE  IInv'
<1> DEFINE me == t.clients[s].user
           c  == [id |-> ids.call, caller |-> me, callee |-> to, accepted |-> FALSE]
           after == [t EXCEPT !.calls = @ \cup {c}]
<1>1. Sound(t) /\ t.clients[s] \in Client /\ t \in TablesType /\ OneCall(t)
  BY ServeTurn, FlushedSound DEF Invite, Sound, SoundBut
<1>2. me \in Users
  BY <1>1 DEF Invite, Client
<1>3. RestTypeOK'
  <2>1. ids' \in [session : Nat \ {0}, call : Nat \ {0}, transfer : Nat \ {0}]
    <3>1. ids' = [ids EXCEPT !["call"] = @ + 1]
      BY DEF Invite
    <3> QED BY <3>1, NextId DEF IInv
  <2> QED BY <2>1, ServeTurn DEF Invite, IInv, RestTypeOK, storage
<1>4. c \in Call
  BY <1>2 DEF Call, IInv, RestTypeOK
<1>5. Sound(after)
  <2>1. t.calls \cup {c} \in SUBSET Call
    BY <1>1, <1>4 DEF TablesType
  <2>2. \A d \in t.calls : Parties(c) \cap Parties(d) = {}
    BY DEF Invite, Busy, Parties
  <2>3. \A d, e \in t.calls \cup {c} : d # e => Parties(d) \cap Parties(e) = {}
    BY <1>1, <2>2 DEF OneCall
  <2> HIDE DEF c
  <2> QED BY <1>1, <2>1, <2>3, WithCalls
<1>6. Notify("invite", c.id) \in Notifies /\ Response("ok", "invite", c.id) \in Responses
  BY ConstantTypes DEF Ops, CallOps, IInv, RestTypeOK
<1>7. Commit(Relay(t, s, to, Notify("invite", c.id), after, Response("ok", "invite", c.id)))
  BY DEF Invite
<1> HIDE DEF after, c
<1> QED BY <1>1, <1>3, <1>5, <1>6, <1>7, RelaySound, CommitSound DEF IInv

\* A forwarded call operation removes the call or keeps it with the same parties.
LEMMA ForwardCallVisit ==
    ASSUME IInv, NEW s \in Slots, NEW t, NEW c \in calls, NEW op \in Ops, ForwardCall(s, t, c, op)
    PROVE  IInv'
<1> DEFINE peer == Peer(c, t.clients[s].user)
           after == AfterCallOp(t, c, op)
           dropped == [t EXCEPT !.calls = @ \ {c}]
<1>1. Sound(t) /\ t \in TablesType /\ OneCall(t) /\ t.calls = calls
  BY ServeTurn, FlushedSound DEF ForwardCall, Sound, SoundBut
<1>2. c \in Call /\ c.id \in Nat /\ peer \in Users
  BY <1>1 DEF TablesType, Call, Peer
<1>3. RestTypeOK'
  BY ServeTurn DEF ForwardCall, IInv, RestTypeOK, storage
<1>4. Sound(dropped)
  <2>1. t.calls \ {c} \in SUBSET Call
    BY <1>1 DEF TablesType
  <2>2. \A d, e \in t.calls \ {c} : d # e => Parties(d) \cap Parties(e) = {}
    BY <1>1 DEF OneCall
  <2> QED BY <1>1, <2>1, <2>2, WithCalls
<1>5. SoundBut(dropped, {s})
  BY <1>4 DEF Sound, SoundBut, Addressed
<1>6. Sound(after)
  <2> DEFINE b == [c EXCEPT !.accepted = TRUE]
             kept == IF op \in EndOps THEN {} ELSE IF op = "accept" THEN {b} ELSE {c}
  <2>1. b \in Call /\ Parties(b) = Parties(c)
    BY <1>2 DEF Call, Parties
  <2>2. \A e \in kept : e \in Call /\ Parties(e) = Parties(c)
    BY <1>2, <2>1
  <2>3. \A d, e \in kept : d = e
    OBVIOUS
  <2> HIDE DEF kept
  <2>4. (t.calls \ {c}) \cup kept \in SUBSET Call
    BY <1>1, <2>2 DEF TablesType
  <2>5. \A d, e \in (t.calls \ {c}) \cup kept : d # e => Parties(d) \cap Parties(e) = {}
    BY <1>1, <2>2, <2>3 DEF OneCall
  <2>6. after = [t EXCEPT !.calls = (t.calls \ {c}) \cup kept]
    BY DEF AfterCallOp, kept
  <2> QED BY <1>1, <2>4, <2>5, <2>6, WithCalls
<1>7. /\ Notify(op, c.id) \in Notifies
      /\ Response("ok", op, c.id) \in Responses
      /\ Response("error", op, c.id) \in Responses
  BY <1>2, ConstantTypes
<1>8. \/ Commit(Reply(dropped, s, Response("error", op, c.id)))
      \/ Commit(Relay(t, s, peer, Notify(op, c.id), after, Response("ok", op, c.id)))
  BY DEF ForwardCall
<1> HIDE DEF after, dropped, peer
<1>9. SoundTables'
  BY <1>1, <1>2, <1>5, <1>6, <1>7, <1>8, ReplySound, RelaySound, CommitSound
<1> QED BY <1>3, <1>9 DEF IInv

-----------------------------------------------------------------------------
\* The rest of the pass, and a restart.
LEMMA PassTurns ==
    ASSUME IInv, AcceptOne \/ AcceptDone \/ Sweep \/ Restart \/ \E s \in Slots : SkipClosed(s)
    PROVE  IInv'
<1>1. Sound(Tables) /\ Tables \in TablesType /\ OneCall(Tables)
  BY DEF IInv, SoundTables, Sound, SoundBut
<1>2. RestTypeOK /\ NSlots \in Nat \ {0}
  BY ServerAssumption DEF IInv
<1>3. CASE AcceptOne
  <2>1. PICK s \in FreeSlots : /\ clients' = [clients EXCEPT ![s] = NewClient]
                               /\ out' = [out EXCEPT ![s] = NoPacket]
    BY <1>3 DEF AcceptOne
  <2>2. s \in Slots /\ calls' = calls /\ transfers' = transfers
    BY <1>3 DEF FreeSlots, AcceptOne
  <2>4. clients \in [Slots -> Client] /\ out \in [Slots -> Packet] /\ calls \subseteq Call /\ transfers \subseteq Transfer
    BY <1>1 DEF TablesType, Tables
  <2>5. clients' \in [Slots -> Client] /\ out' \in [Slots -> Packet]
    BY <2>1, <2>2, <2>4, ConstantTypes DEF NewClient, Client, Responses
  <2>6. \A r \in Slots : /\ clients'[r] = IF r = s THEN [open |-> TRUE, user |-> NoUser, session |-> 0] ELSE clients[r]
                         /\ out'[r] = IF r = s THEN NoPacket ELSE out[r]
    BY <2>1, <2>2, <2>4 DEF NewClient
  <2> DEFINE q == [clients |-> clients', out |-> out', calls |-> calls, transfers |-> transfers]
  <2>7. Sound(q)
    <3>1. q \in TablesType
      BY <2>4, <2>5 DEF TablesType
    <3>2. ClosedIsClean(q)
      BY <1>1, <2>6 DEF ClosedIsClean, Sound, SoundBut, Tables
    <3>3. OnePerUser(q)
      BY <1>1, <2>6 DEF OnePerUser, Sound, SoundBut, Tables
    <3>4. OneCall(q)
      BY <1>1 DEF OneCall, Tables
    <3>5. Addressed(q, Slots)
      BY <1>1, <2>6 DEF Addressed, Sound, SoundBut, Tables, NoPacket
    <3> QED BY <3>1, <3>2, <3>3, <3>4, <3>5 DEF Sound, SoundBut
  <2>8. Commit(q)
    BY <2>2 DEF Commit
  <2>9. RestTypeOK'
    BY <1>2, <1>3 DEF AcceptOne, RestTypeOK, storage
  <2> QED BY <2>7, <2>8, <2>9, CommitSound DEF IInv
<1>4. CASE AcceptDone \/ \E s \in Slots : SkipClosed(s)
  <2>1. Commit(Tables) /\ UNCHANGED <<ids, storage>>
    BY <1>4 DEF AcceptDone, SkipClosed, Commit, Tables
  <2>2. turn' \in 0 .. NSlots + 1
    BY <1>2, <1>4 DEF AcceptDone, SkipClosed, Slots
  <2>3. RestTypeOK'
    BY <1>2, <2>1, <2>2 DEF RestTypeOK, storage
  <2> QED BY <1>1, <2>1, <2>3, CommitSound DEF IInv
<1>5. CASE Sweep
  <2> DEFINE X == {x \in transfers : \A u \in Ends(x) : Online(Tables, u)}
             C == {c \in calls : \A u \in Parties(c) : Online(Tables, u)}
             q == [Tables EXCEPT !.calls = C]
             r == [q EXCEPT !.transfers = X]
  <2>1. C \in SUBSET Call /\ \A c, d \in C : c # d => Parties(c) \cap Parties(d) = {}
    BY <1>1 DEF OneCall, TablesType, Tables
  <2>2. X \in SUBSET Transfer
    BY <1>1 DEF TablesType, Tables
  <2> HIDE DEF C, X
  <2>3. Sound(q)
    BY <1>1, <2>1, WithCalls
  <2> HIDE DEF q
  <2>4. Sound(r)
    BY <2>2, <2>3, WithTransfers
  <2>5. Commit(r)
    BY <1>5 DEF Sweep, Commit, Tables, C, X, q
  <2>6. RestTypeOK'
    BY <1>2, <1>5 DEF Sweep, RestTypeOK, storage
  <2> QED BY <2>4, <2>5, <2>6, CommitSound DEF IInv
<1>6. CASE Restart
  <2>1. EmptyTables \in TablesType
    BY ConstantTypes DEF EmptyTables, TablesType, Responses
  <2>2. Sound(EmptyTables)
    BY <2>1 DEF EmptyTables, Sound, SoundBut, ClosedIsClean, OnePerUser, OneCall, Addressed, FreeClient, NoPacket
  <2>3. RestTypeOK'
    BY <1>2, <1>6 DEF Restart, RestTypeOK, storage, FirstIds
  <2> QED BY <1>6, <2>2, <2>3, CommitSound DEF Restart, IInv
<1> QED BY <1>3, <1>4, <1>5, <1>6

\* Every step of the server keeps the inductive invariant.
LEMMA StepSound == IInv /\ [Next]_vars => IInv'
<1> SUFFICES ASSUME IInv, [Next]_vars PROVE IInv'
  OBVIOUS
<1>1. ASSUME NEW s \in Slots, NEW t \in Flushed(s), Visit(s, t) PROVE IInv'
  <2>1. CASE Disconnect(s, t) \/ Idle(s, t)
    BY <2>1, PlainVisits
  <2>2. CASE Dispatch(s, t)
    <3>1. CASE Heartbeat(s, t) \/ ListOnline(s, t) \/ Refuse(s, t)
      BY <3>1, PlainVisits
    <3>2. ASSUME NEW u \in Users, Register(s, t, u) \/ Login(s, t, u) \/ Chat(s, t, u) \/ Invite(s, t, u)
          PROVE IInv'
      BY <3>2, SessionVisits, ChatVisit, InviteVisit
    <3>3. ASSUME NEW invited \in SUBSET Users, CreateGroup(s, t, invited) PROVE IInv'
      BY <3>3, CreateGroupVisit
    <3>4. ASSUME NEW g \in DOMAIN groups, SendGroup(s, t, g) PROVE IInv'
      BY <3>4, SendGroupVisit
    <3>5. ASSUME NEW u \in Users, NEW size \in FileSizes, StartFile(s, t, u, size) PROVE IInv'
      BY <3>5, StartFileVisit
    <3>6. ASSUME NEW x \in transfers, NEW len \in 1 .. MaxChunk,
                 RelayChunk(s, t, x, len) \/ \E index \in {x.next, x.next + 1} : DropFile(s, t, x, index, len)
          PROVE IInv'
      BY <3>6, RelayChunkVisit, DropFileVisit
    <3>7. ASSUME NEW x \in transfers, CompleteFile(s, t, x) PROVE IInv'
      BY <3>7, CompleteFileVisit
    <3>8. ASSUME NEW c \in calls, NEW op \in Ops, ForwardCall(s, t, c, op) PROVE IInv'
      BY <3>8, ForwardCallVisit
    <3> QED BY <2>2, <3>1, <3>2, <3>3, <3>4, <3>5, <3>6, <3>7, <3>8 DEF Dispatch
  <2> QED BY <1>1, <2>1, <2>2 DEF Visit
<1>2. CASE AcceptOne \/ AcceptDone \/ Sweep \/ Restart \/ \E s \in Slots : SkipClosed(s)
  BY <1>2, PassTurns
<1>3. CASE UNCHANGED vars
  BY <1>3 DEF vars, storage, IInv, RestTypeOK, SoundTables, Sound, SoundBut, ClosedIsClean, OnePerUser,
              OneCall, Addressed, Tables
<1> QED BY <1>1, <1>2, <1>3 DEF Next, Pass

\* The inductive invariant is an invariant.
LEMMA InvariantHolds == Spec => []IInv
BY InitSound, StepSound, PTL DEF Spec

-----------------------------------------------------------------------------
\* The tables of the server, its id counters and what it stores keep their types
\* in every instance, whatever arrives, drains or fails.
THEOREM TypeCorrect == Spec => []TypeOK
<1>1. IInv => TypeOK
  BY DEF IInv, RestTypeOK, SoundTables, Sound, SoundBut, TablesType, Tables, TypeOK
<1> QED BY <1>1, InvariantHolds, PTL

\* authenticate_client leaves a user one connection at most, for any number of
\* slots and users.
THEOREM SessionsAreUnique == Spec => []OneSession
<1>1. IInv => OneSession
  BY DEF IInv, SoundTables, Sound, SoundBut, OnePerUser, Tables, OneSession
<1> QED BY <1>1, InvariantHolds, PTL

\* The busy check of invite keeps the calls of the registry disjoint.
THEOREM CallsAreDisjoint == Spec => []OneCallPerUser
<1>1. IInv => OneCallPerUser
  BY DEF IInv, SoundTables, Sound, SoundBut, OneCall, Tables, OneCallPerUser
<1> QED BY <1>1, InvariantHolds, PTL

\* No notify waits in the send buffer of a session it was not queued for.
THEOREM NotifiesAreAddressed == Spec => []PendingIsAddressed
<1>1. IInv => PendingIsAddressed
  BY DEF IInv, SoundTables, Sound, SoundBut, Addressed, Tables, PendingIsAddressed
<1> QED BY <1>1, InvariantHolds, PTL

\* Every visit is of the slot whose turn it is.
LEMMA VisitServes ==
    ASSUME NEW s, NEW t, Visit(s, t)
    PROVE  Serve(s, t)
<1>1. CASE Disconnect(s, t) \/ Idle(s, t)
  BY <1>1 DEF Disconnect, Idle
<1>2. CASE Dispatch(s, t)
  <2>1. CASE Heartbeat(s, t) \/ ListOnline(s, t) \/ Refuse(s, t)
    BY <2>1 DEF Heartbeat, ListOnline, Refuse
  <2>2. CASE \E u \in Users : Register(s, t, u) \/ Login(s, t, u) \/ Chat(s, t, u) \/ Invite(s, t, u)
    BY <2>2 DEF Register, Login, Chat, Invite
  <2>3. CASE \/ \E invited \in SUBSET Users : CreateGroup(s, t, invited)
             \/ \E g \in DOMAIN groups : SendGroup(s, t, g)
    BY <2>3 DEF CreateGroup, SendGroup
  <2>4. CASE \/ \E u \in Users, size \in FileSizes : StartFile(s, t, u, size)
             \/ \E x \in transfers : CompleteFile(s, t, x)
             \/ \E c \in calls, op \in Ops : ForwardCall(s, t, c, op)
    BY <2>4 DEF StartFile, CompleteFile, ForwardCall
  <2>5. CASE \E x \in transfers, len \in 1 .. MaxChunk :
                RelayChunk(s, t, x, len) \/ \E index \in {x.next, x.next + 1} : DropFile(s, t, x, index, len)
    BY <2>5 DEF RelayChunk, DropFile
  <2> QED BY <1>2, <2>1, <2>2, <2>3, <2>4, <2>5 DEF Dispatch
<1> QED BY <1>1, <1>2 DEF Visit

\* The turn comes back to 0 only by the sweep or a restart, and while connections are
\* accepted nobody goes offline.
LEMMA RestStep == IInv /\ OnlineAtRest /\ [Next]_vars => OnlineAtRest'
<1> SUFFICES ASSUME IInv, OnlineAtRest, [Next]_vars, turn' = 0
             PROVE  /\ \A c \in calls' : \A u \in Parties(c) : Online(Tables, u)'
                    /\ \A x \in transfers' : \A u \in Ends(x) : Online(Tables, u)'
  BY DEF OnlineAtRest
<1>1. \A c \in calls : Parties(c) \subseteq Users
  BY DEF IInv, SoundTables, Sound, SoundBut, TablesType, Tables, Call, Parties
<1>2. \A x \in transfers : Ends(x) \subseteq Users
  BY DEF IInv, SoundTables, Sound, SoundBut, TablesType, Tables, Transfer, Ends
<1>3. CASE Restart
  BY <1>3 DEF Restart, Commit, EmptyTables
<1>4. CASE Sweep
  <2>1. \A u : Online(Tables, u)' <=> Online(Tables, u)
    BY <1>4 DEF Sweep, Online, IsClient, Tables
  <2> QED BY <1>4, <2>1 DEF Sweep
<1>5. CASE AcceptOne
  <2>1. \A u \in Users : Online(Tables, u) => Online(Tables, u)'
    <3>1. PICK s \in FreeSlots : clients' = [clients EXCEPT ![s] = NewClient]
      BY <1>5 DEF AcceptOne
    <3>2. ASSUME NEW u \in Users, NEW r \in Slots, IsClient(Tables, r, u) PROVE IsClient(Tables, r, u)'
      <4>1. r # s
        BY <3>2 DEF FreeSlots, IsClient, Tables
      <4>2. clients \in [Slots -> Client]
        BY DEF IInv, SoundTables, Sound, SoundBut, TablesType, Tables
      <4>3. clients'[r] = clients[r]
        BY <3>1, <4>1, <4>2
      <4> QED BY <3>2, <4>3 DEF IsClient, Tables
    <3> QED BY <3>2 DEF Online
  <2> QED BY <1>1, <1>2, <1>5, <2>1 DEF AcceptOne, OnlineAtRest
<1>6. CASE UNCHANGED vars
  BY <1>6 DEF vars, OnlineAtRest, Online, IsClient, Tables
<1>7. ASSUME NEW s \in Slots, SkipClosed(s) \/ \E t : Visit(s, t) PROVE FALSE
  <2>1. turn' = s + 1
    BY <1>7, VisitServes DEF Serve, SkipClosed
  <2> QED BY <2>1, ServerAssumption DEF Slots
<1>8. ~AcceptDone
  BY DEF AcceptDone
<1> QED BY <1>3, <1>4, <1>5, <1>6, <1>7, <1>8 DEF Next, Pass

\* Between passes no call and no transfer of an offline user is left, however
\* many users went offline during the pass.
THEOREM SweptAtRest == Spec => []OnlineAtRest
<1>1. Init => OnlineAtRest
  BY DEF Init, OnlineAtRest, EmptyTables
<1> QED BY <1>1, InvariantHolds, RestStep, PTL DEF Spec

-----------------------------------------------------------------------------
(***************************************************************************)
(* Transfers.  The file relay table of the server agrees with the storage: *)
(* every active transfer has a row of its own that is still "started", and *)
(* has relayed no more than was announced.                                 *)
(*                                                                         *)
(* Only file start enters a transfer and only a chunk advances one; every  *)
(* other handler can at most lose transfers, by closing a connection.  So  *)
(* the proof shows that each operator the handlers are composed of leaves  *)
(* a subset of the transfers, and that the invariant holds of subsets.     *)
(***************************************************************************)

\* The transfers T own their rows and ids, which are below the next ones.
RowsOpen(T, rows, nextId) ==
    \A x \in T :
        /\ x.id < nextId
        /\ x.row \in DOMAIN rows /\ rows[x.row] = "started"
        /\ x.next <= x.seen /\ x.seen <= x.size
        /\ \A y \in T : x.row = y.row \/ x.id = y.id => x = y

RelayOpen == RowsOpen(transfers, fileRows, ids.transfer)

Fields == {"clients", "out", "calls", "transfers"}
IsTables(t) == DOMAIN t = Fields /\ t = [f \in Fields |-> t[f]]

LEMMA SubsetOpen ==
    ASSUME NEW T, NEW U \in SUBSET T, NEW rows, NEW n, RowsOpen(T, rows, n)
    PROVE  RowsOpen(U, rows, n)
BY DEF RowsOpen

\* The handlers' operators can lose transfers and not gain any.
LEMMA TellKeeps ==
    ASSUME NEW t, IsTables(t), NEW notes
    PROVE  IsTables(Tell(t, notes)) /\ Tell(t, notes).transfers = t.transfers
<1>1. ASSUME NEW o PROVE IsTables([t EXCEPT !.out = o]) /\ [t EXCEPT !.out = o].transfers = t.transfers
  BY DEF IsTables, Fields
<1> QED BY <1>1 DEF Tell

LEMMA CloseKeeps ==
    ASSUME NEW t, NEW S, NEW u
    PROVE  IsTables(CloseSlots(t, S, u)) /\ CloseSlots(t, S, u).transfers \subseteq t.transfers
<1>1. ASSUME NEW a, NEW b, NEW c
      PROVE  IsTables([clients |-> a, out |-> b, calls |-> c, transfers |-> {x \in t.transfers : u \notin Ends(x)}])
  BY DEF IsTables, Fields
<1>2. ASSUME NEW a, NEW b, NEW c, NEW notes
      PROVE  LET e == Tell([clients |-> a, out |-> b, calls |-> c,
                            transfers |-> {x \in t.transfers : u \notin Ends(x)}], notes)
             IN  IsTables(e) /\ e.transfers \subseteq t.transfers
  BY <1>1, TellKeeps
<1> QED BY <1>2 DEF CloseSlots

LEMMA ReplyKeeps ==
    ASSUME NEW t, IsTables(t), NEW s, NEW p
    PROVE  IsTables(Reply(t, s, p)) /\ Reply(t, s, p).transfers \subseteq t.transfers
<1>1. IsTables([t EXCEPT !.out[s] = p]) /\ [t EXCEPT !.out[s] = p].transfers = t.transfers
  BY DEF IsTables, Fields
<1>2. IsTables(CloseClient(t, s)) /\ CloseClient(t, s).transfers \subseteq t.transfers
  BY CloseKeeps DEF CloseClient
<1> QED BY <1>1, <1>2 DEF Reply

LEMMA RelayKeeps ==
    ASSUME NEW t, NEW s, NEW u, NEW note, NEW after, IsTables(after), NEW response
    PROVE  LET r == Relay(t, s, u, note, after, response)
           IN  r.transfers \subseteq after.transfers \/ r.transfers \subseteq t.transfers
<1>1. Reply(TellOne(after, u, note), s, response).transfers \subseteq after.transfers
  BY TellKeeps, ReplyKeeps DEF TellOne
<1>2. CloseClient(t, s).transfers \subseteq t.transfers
  BY CloseKeeps DEF CloseClient
<1> QED BY <1>1, <1>2 DEF Relay

LEMMA AcknowledgeKeeps ==
    ASSUME NEW t, IsTables(t), NEW s, NEW response, NEW notes
    PROVE  Acknowledge(t, s, response, notes).transfers \subseteq t.transfers
<1>1. Tell(Reply(t, s, response), notes).transfers \subseteq t.transfers
  BY ReplyKeeps, TellKeeps
<1>2. CloseClient(t, s).transfers \subseteq t.transfers
  BY CloseKeeps DEF CloseClient
<1> QED BY <1>1, <1>2 DEF Acknowledge

LEMMA AuthenticateKeeps ==
    ASSUME NEW t, IsTables(t), NEW s, NEW u, NEW session
    PROVE  /\ IsTables(Authenticate(t, s, u, session))
           /\ Authenticate(t, s, u, session).transfers \subseteq t.transfers
<1>1. ASSUME NEW a, IsTables(a), a.transfers \subseteq t.transfers, NEW c
      PROVE  LET e == [a EXCEPT !.clients[s] = c] IN IsTables(e) /\ e.transfers \subseteq t.transfers
  BY <1>1 DEF IsTables, Fields
<1>2. ASSUME NEW S PROVE IsTables(CloseSlots(t, S, u)) /\ CloseSlots(t, S, u).transfers \subseteq t.transfers
  BY CloseKeeps
<1> QED BY <1>1, <1>2 DEF Authenticate

\* A visit starts from the transfers there are.
LEMMA FlushedKeeps ==
    ASSUME NEW s, NEW t, Serve(s, t)
    PROVE  IsTables(t) /\ t.transfers = transfers
<1>1. IsTables(Tables) /\ Tables.transfers = transfers
  BY DEF Tables, IsTables, Fields
<1>2. IsTables([Tables EXCEPT !.out[s] = NoPacket]) /\ [Tables EXCEPT !.out[s] = NoPacket].transfers = transfers
  BY <1>1 DEF IsTables, Fields
<1> QED BY <1>1, <1>2 DEF Serve, Flushed

LEMMA Shrinks ==
    ASSUME RelayOpen, transfers' \subseteq transfers, fileRows' = fileRows, ids'.transfer = ids.transfer
    PROVE  RelayOpen'
BY SubsetOpen DEF RelayOpen

-----------------------------------------------------------------------------
\* Every handler but those of files.
LEMMA OtherVisits ==
    ASSUME IInv, RelayOpen, NEW s \in Slots, NEW t,
           \/ Disconnect(s, t) \/ Idle(s, t) \/ Refuse(s, t) \/ Heartbeat(s, t) \/ ListOnline(s, t)
           \/ \E u \in Users : Register(s, t, u) \/ Login(s, t, u) \/ Chat(s, t, u) \/ Invite(s, t, u)
           \/ \E invited \in SUBSET Users : CreateGroup(s, t, invited)
           \/ \E g \in DOMAIN groups : SendGroup(s, t, g)
           \/ \E c \in calls, op \in Ops : ForwardCall(s, t, c, op)
    PROVE  RelayOpen'
<1>1. CASE Disconnect(s, t) \/ Idle(s, t) \/ Refuse(s, t) \/ Heartbeat(s, t) \/ ListOnline(s, t)
  <2>1. IsTables(t) /\ t.transfers = transfers /\ UNCHANGED <<ids, storage>>
    BY <1>1, FlushedKeeps DEF Disconnect, Idle, Refuse, Heartbeat, ListOnline
  <2>2. transfers' \subseteq transfers
    BY <1>1, <2>1, CloseKeeps, ReplyKeeps DEF Disconnect, Idle, Refuse, Heartbeat, ListOnline, CloseClient, Commit
  <2> QED BY <2>1, <2>2, Shrinks DEF storage
<1>2. ASSUME NEW u \in Users, Register(s, t, u) \/ Login(s, t, u) PROVE RelayOpen'
  <2>1. IsTables(t) /\ t.transfers = transfers /\ fileRows' = fileRows /\ StartSession(s, t, u)
    BY <1>2, FlushedKeeps DEF Register, Login, storage
  <2>2. IsTables(Authenticate(t, s, u, ids.session)) /\ Authenticate(t, s, u, ids.session).transfers \subseteq transfers
    BY <2>1, AuthenticateKeeps
  <2>3. transfers' \subseteq transfers
    BY <2>1, <2>2, ReplyKeeps DEF StartSession, Commit
  <2>4. ids'.transfer = ids.transfer
    BY <2>1 DEF StartSession, IInv, RestTypeOK
  <2> QED BY <2>1, <2>3, <2>4, Shrinks
<1>3. ASSUME NEW u \in Users, Chat(s, t, u) PROVE RelayOpen'
  <2>1. IsTables(t) /\ t.transfers = transfers /\ fileRows' = fileRows /\ ids' = ids
    BY <1>3, FlushedKeeps DEF Chat
  <2>2. transfers' \subseteq transfers
    BY <1>3, <2>1, AcknowledgeKeeps DEF Chat, Commit
  <2> QED BY <2>1, <2>2, Shrinks
<1>4. ASSUME NEW u \in Users, Invite(s, t, u) PROVE RelayOpen'
  <2>1. IsTables(t) /\ t.transfers = transfers /\ fileRows' = fileRows
    BY <1>4, FlushedKeeps DEF Invite, storage
  <2>2. ASSUME NEW C PROVE IsTables([t EXCEPT !.calls = C]) /\ [t EXCEPT !.calls = C].transfers = transfers
    BY <2>1 DEF IsTables, Fields
  <2>3. transfers' \subseteq transfers
    BY <1>4, <2>1, <2>2, RelayKeeps DEF Invite, Commit
  <2>4. ids'.transfer = ids.transfer
    BY <1>4 DEF Invite, IInv, RestTypeOK
  <2> QED BY <2>1, <2>3, <2>4, Shrinks
<1>5. ASSUME NEW invited \in SUBSET Users, CreateGroup(s, t, invited) PROVE RelayOpen'
  <2>1. IsTables(t) /\ t.transfers = transfers /\ fileRows' = fileRows /\ ids' = ids
    BY <1>5, FlushedKeeps DEF CreateGroup
  <2>2. transfers' \subseteq transfers
    BY <1>5, <2>1, ReplyKeeps DEF CreateGroup, Commit
  <2> QED BY <2>1, <2>2, Shrinks
<1>6. ASSUME NEW g \in DOMAIN groups, SendGroup(s, t, g) PROVE RelayOpen'
  <2>1. IsTables(t) /\ t.transfers = transfers /\ fileRows' = fileRows /\ ids' = ids
    BY <1>6, FlushedKeeps DEF SendGroup
  <2>2. transfers' \subseteq transfers
    BY <1>6, <2>1, AcknowledgeKeeps DEF SendGroup, Commit
  <2> QED BY <2>1, <2>2, Shrinks
<1>7. ASSUME NEW c \in calls, NEW op \in Ops, ForwardCall(s, t, c, op) PROVE RelayOpen'
  <2>1. IsTables(t) /\ t.transfers = transfers /\ fileRows' = fileRows /\ ids' = ids
    BY <1>7, FlushedKeeps DEF ForwardCall, storage
  <2>2. ASSUME NEW C PROVE IsTables([t EXCEPT !.calls = C]) /\ [t EXCEPT !.calls = C].transfers = transfers
    BY <2>1 DEF IsTables, Fields
  <2>3. IsTables(AfterCallOp(t, c, op)) /\ AfterCallOp(t, c, op).transfers = transfers
    BY <2>2 DEF AfterCallOp
  <2>4. \/ Commit(Reply([t EXCEPT !.calls = @ \ {c}], s, Response("error", op, c.id)))
        \/ \E u, note, response : Commit(Relay(t, s, u, note, AfterCallOp(t, c, op), response))
    BY <1>7 DEF ForwardCall
  <2>5. CASE Commit(Reply([t EXCEPT !.calls = @ \ {c}], s, Response("error", op, c.id)))
    BY <2>1, <2>2, <2>5, ReplyKeeps, Shrinks DEF Commit
  <2>6. ASSUME NEW u, NEW note, NEW response, Commit(Relay(t, s, u, note, AfterCallOp(t, c, op), response))
        PROVE  RelayOpen'
    BY <2>1, <2>3, <2>6, RelayKeeps, Shrinks DEF Commit
  <2> QED BY <2>4, <2>5, <2>6
<1> QED BY <1>1, <1>2, <1>3, <1>4, <1>5, <1>6, <1>7

\* The tables with other transfers.
LEMMA ExceptTransfers ==
    ASSUME NEW t, IsTables(t), NEW X
    PROVE  IsTables([t EXCEPT !.transfers = X]) /\ [t EXCEPT !.transfers = X].transfers = X
BY DEF IsTables, Fields

\* The new transfer's row and id are above all others.
LEMMA StartVisit ==
    ASSUME IInv, RelayOpen, NEW s \in Slots, NEW t, NEW to \in Users, NEW size \in FileSizes,
           StartFile(s, t, to, size)
    PROVE  RelayOpen'
<1> DEFINE x == [id |-> ids.transfer, row |-> Len(fileRows) + 1, sender |-> t.clients[s].user, receiver |-> to,
                 size |-> size, seen |-> 0, next |-> 0]
<1>1. IsTables(t) /\ t.transfers = transfers
  BY FlushedKeeps DEF StartFile
<1>2. fileRows \in Seq({"started", "completed"}) /\ ids.transfer \in Nat /\ size \in Nat
  BY ServerAssumption DEF IInv, RestTypeOK
<1>3. fileRows' = Append(fileRows, "started") /\ ids'.transfer = ids.transfer + 1
  BY DEF StartFile, IInv, RestTypeOK
<1>4. transfers' \subseteq transfers \cup {x}
  <2>1. Commit(Relay(t, s, to, StartNotify(x.id, x.size), [t EXCEPT !.transfers = @ \cup {x}],
                     Response("ok", "file-start", x.id)))
    BY DEF StartFile
  <2> HIDE DEF x
  <2>2. LET after == [t EXCEPT !.transfers = @ \cup {x}] IN IsTables(after) /\ after.transfers = transfers \cup {x}
    BY <1>1, ExceptTransfers
  <2> QED BY <1>1, <2>1, <2>2, RelayKeeps DEF Commit
<1>5. /\ x.id = ids.transfer /\ x.row = Len(fileRows) + 1 /\ x.next = 0 /\ x.seen = 0 /\ x.size = size
  OBVIOUS
<1>6. \A y \in transfers : y.id \in Nat /\ y.row \in Nat
  BY DEF IInv, SoundTables, Sound, SoundBut, TablesType, Tables, Transfer
<1> HIDE DEF x
<1>7. RowsOpen(transfers \cup {x}, fileRows', ids'.transfer)
  <2>1. \A y \in transfers : y.row \in 1 .. Len(fileRows) /\ y.id < ids.transfer
    BY <1>2 DEF RelayOpen, RowsOpen
  <2>2. \A y \in transfers : y.row # x.row /\ y.id # x.id
    BY <1>2, <1>5, <1>6, <2>1
  <2>3. \A y \in transfers \cup {x} :
          /\ y.id < ids'.transfer
          /\ y.row \in DOMAIN fileRows' /\ fileRows'[y.row] = "started"
          /\ y.next <= y.seen /\ y.seen <= y.size
    <3>1. ASSUME NEW y \in transfers
          PROVE  /\ y.id < ids'.transfer
                 /\ y.row \in DOMAIN fileRows' /\ fileRows'[y.row] = "started"
                 /\ y.next <= y.seen /\ y.seen <= y.size
      <4>1. y.id < ids.transfer /\ y.row \in 1 .. Len(fileRows) /\ fileRows[y.row] = "started"
            /\ y.next <= y.seen /\ y.seen <= y.size
        BY <2>1 DEF RelayOpen, RowsOpen
      <4> QED BY <1>2, <1>3, <1>6, <4>1
    <3>2. /\ x.id < ids'.transfer
          /\ x.row \in DOMAIN fileRows' /\ fileRows'[x.row] = "started"
          /\ x.next <= x.seen /\ x.seen <= x.size
      BY <1>2, <1>3, <1>5
    <3> QED BY <3>1, <3>2
  <2>4. \A y, z \in transfers \cup {x} : y.row = z.row \/ y.id = z.id => y = z
    BY <2>2 DEF RelayOpen, RowsOpen
  <2> QED BY <2>3, <2>4 DEF RowsOpen
<1> QED BY <1>4, <1>7, SubsetOpen DEF RelayOpen

\* A chunk that fits advances its transfer in place.
LEMMA ChunkVisit ==
    ASSUME IInv, RelayOpen, NEW s \in Slots, NEW t, NEW x \in transfers, NEW len \in 1 .. MaxChunk,
           RelayChunk(s, t, x, len)
    PROVE  RelayOpen'
<1> DEFINE advanced == [x EXCEPT !.seen = @ + len, !.next = @ + 1]
           moved == (transfers \ {x}) \cup {advanced}
<1>1. IsTables(t) /\ t.transfers = transfers /\ fileRows' = fileRows /\ ids' = ids
  BY FlushedKeeps DEF RelayChunk, storage
<1>2. x \in Transfer /\ len \in Nat \ {0}
  BY ServerAssumption DEF IInv, SoundTables, Sound, SoundBut, TablesType, Tables
<1>3. /\ advanced.id = x.id /\ advanced.row = x.row /\ advanced.size = x.size
      /\ advanced.seen = x.seen + len /\ advanced.next = x.next + 1
  BY <1>2 DEF Transfer
<1>4. transfers' \subseteq moved \/ transfers' \subseteq transfers
  <2>1. Commit(Relay(t, s, x.receiver, ChunkNotify(x.id, x.next, len),
                     [t EXCEPT !.transfers = (@ \ {x}) \cup {advanced}], Response("ok", "file-chunk", x.id)))
    BY DEF RelayChunk
  <2> HIDE DEF advanced
  <2>2. LET after == [t EXCEPT !.transfers = (@ \ {x}) \cup {advanced}]
        IN  IsTables(after) /\ after.transfers = moved
    BY <1>1, ExceptTransfers
  <2> QED BY <1>1, <2>1, <2>2, RelayKeeps DEF Commit
<1> HIDE DEF advanced
<1>5. RowsOpen(moved, fileRows, ids.transfer)
  <2>1. /\ x.id < ids.transfer /\ x.row \in DOMAIN fileRows /\ fileRows[x.row] = "started" /\ x.next <= x.seen
        /\ \A y \in transfers : x.row = y.row \/ x.id = y.id => x = y
    BY DEF RelayOpen, RowsOpen
  <2>2. x.seen + len <= x.size
    BY DEF RelayChunk, Fits
  <2>3. advanced.next <= advanced.seen /\ advanced.seen <= advanced.size
    <3>1. x.next \in Nat /\ x.seen \in Nat
      BY <1>2 DEF Transfer
    <3> QED BY <1>2, <1>3, <2>1, <2>2, <3>1
  <2>4. \A y \in transfers \ {x} : y.row # advanced.row /\ y.id # advanced.id
    BY <1>3, <2>1
  <2> QED BY <1>3, <2>1, <2>3, <2>4 DEF RelayOpen, RowsOpen
<1> QED BY <1>1, <1>4, <1>5, SubsetOpen DEF RelayOpen

\* A chunk that ends its transfer, and the completion, which closes the row of the
\* transfer it forgets and of no other.
LEMMA EndVisits ==
    ASSUME IInv, RelayOpen, NEW s \in Slots, NEW t, NEW x \in transfers,
           CompleteFile(s, t, x) \/ \E len, index : DropFile(s, t, x, index, len)
    PROVE  RelayOpen'
<1>1. IsTables(t) /\ t.transfers = transfers /\ ids' = ids
  BY FlushedKeeps DEF CompleteFile, DropFile
<1>2. transfers' \subseteq transfers \ {x}
  <2>1. CASE CompleteFile(s, t, x)
    <3> DEFINE told == TellOne(t, x.receiver, Notify("file-complete", x.id))
    <3>1. IsTables(told) /\ told.transfers = transfers
      BY <1>1, TellKeeps DEF TellOne
    <3>2. Commit(Reply([told EXCEPT !.transfers = @ \ {x}], s, Response("ok", "file-complete", x.id)))
      BY <2>1 DEF CompleteFile
    <3> HIDE DEF told
    <3> DEFINE ended == [told EXCEPT !.transfers = @ \ {x}]
    <3>3. IsTables(ended) /\ ended.transfers = transfers \ {x}
      BY <3>1, ExceptTransfers
    <3>4. Commit(Reply(ended, s, Response("ok", "file-complete", x.id)))
      BY <3>2
    <3> HIDE DEF ended
    <3> QED BY <3>3, <3>4, ReplyKeeps DEF Commit
  <2>2. CASE \E len, index : DropFile(s, t, x, index, len)
    <3> DEFINE dropped == [t EXCEPT !.transfers = @ \ {x}]
    <3>1. IsTables(dropped) /\ dropped.transfers = transfers \ {x}
      BY <1>1, ExceptTransfers
    <3>2. Commit(Reply(dropped, s, Response("error", "file-chunk", x.id)))
      BY <2>2 DEF DropFile
    <3> HIDE DEF dropped
    <3> QED BY <3>1, <3>2, ReplyKeeps DEF Commit
  <2> QED BY <2>1, <2>2
<1>3. fileRows' = fileRows \/ fileRows' = [fileRows EXCEPT ![x.row] = "completed"]
  BY DEF CompleteFile, DropFile, storage
<1>4. \A y \in transfers' : y.row # x.row
  BY <1>2 DEF RelayOpen, RowsOpen
<1>5. \A y \in transfers' : y.row \in DOMAIN fileRows => y.row \in DOMAIN fileRows' /\ fileRows'[y.row] = fileRows[y.row]
  BY <1>3, <1>4
<1>6. RowsOpen(transfers', fileRows, ids.transfer)
  BY <1>2, SubsetOpen DEF RelayOpen
<1> QED BY <1>1, <1>5, <1>6 DEF RelayOpen, RowsOpen

LEMMA RelayStep == IInv /\ RelayOpen /\ [Next]_vars => RelayOpen'
<1> SUFFICES ASSUME IInv, RelayOpen, [Next]_vars PROVE RelayOpen'
  OBVIOUS
<1>1. ASSUME NEW s \in Slots, NEW t \in Flushed(s), Visit(s, t) PROVE RelayOpen'
  <2>1. CASE \E u \in Users, size \in FileSizes : StartFile(s, t, u, size)
    BY <2>1, StartVisit
  <2>2. CASE \E x \in transfers, len \in 1 .. MaxChunk : RelayChunk(s, t, x, len)
    BY <2>2, ChunkVisit
  <2>3. CASE \E x \in transfers, len \in 1 .. MaxChunk : \E index : DropFile(s, t, x, index, len)
    BY <2>3, EndVisits
  <2>4. CASE \E x \in transfers : CompleteFile(s, t, x)
    BY <2>4, EndVisits
  <2> QED BY <1>1, <2>1, <2>2, <2>3, <2>4, OtherVisits DEF Visit, Dispatch
<1>2. CASE AcceptOne \/ AcceptDone \/ Sweep \/ \E s \in Slots : SkipClosed(s)
  <2>1. transfers' \subseteq transfers /\ fileRows' = fileRows /\ ids' = ids
    BY <1>2 DEF AcceptOne, AcceptDone, Sweep, SkipClosed, storage
  <2> QED BY <2>1, Shrinks
<1>3. CASE Restart
  BY <1>3 DEF Restart, Commit, EmptyTables, RelayOpen, RowsOpen
<1>4. CASE UNCHANGED vars
  BY <1>4 DEF vars, storage, RelayOpen
<1> QED BY <1>1, <1>2, <1>3, <1>4 DEF Next, Pass

\* The active transfers and the file rows agree for any number of users, slots,
\* files, chunks and restarts: no two transfers share a row or an id, none is
\* active for a completed row, and none relays more than was announced.
THEOREM TransfersOwnRows == Spec => []TransferRowsOpen
<1>1. Init => RelayOpen
  BY DEF Init, EmptyTables, RelayOpen, RowsOpen
<1>2. RelayOpen => TransferRowsOpen
  BY DEF RelayOpen, RowsOpen, TransferRowsOpen
<1> QED BY <1>1, <1>2, RelayStep, InvariantHolds, PTL DEF Spec

-----------------------------------------------------------------------------
(***************************************************************************)
(* Deliveries.  The handlers' operators change the tables in few ways.     *)
(* Stays(t, s): the connections of t other than s are those there were.    *)
(* Calm(t, B): no buffer of t has newly got a packet of the set B.  Each   *)
(* operator keeps both, B being the chat notifies or the acknowledgements  *)
(* of what is relayed; where it does not, its result is what the property  *)
(* asks for.                                                               *)
(***************************************************************************)

Shaped(t) ==
    /\ IsTables(t)
    /\ t.clients = [r \in Slots |-> t.clients[r]]
    /\ t.out = [r \in Slots |-> t.out[r]]

Stays(t, s) == \A r \in Slots : r # s => t.clients[r] = clients[r]

Calm(t, B) == \A r \in Slots : t.out[r] # out[r] => t.out[r] \notin B

\* A note as Tell addresses it.
Addressing(p, to, session) == [p EXCEPT !.to = to, !.session = session]
Harmless(p, B) == \A to, session : Addressing(p, to, session) \notin B

\* What close_client may put into a buffer is not in B.
Hushed(B) == NoPacket \notin B /\ \A id : Harmless(Notify("hangup", id), B)

LEMMA TellTame ==
    ASSUME NEW t, Shaped(t), NEW notes
    PROVE  /\ Shaped(Tell(t, notes))
           /\ Tell(t, notes).clients = t.clients
           /\ \A B : Calm(t, B) /\ (\A u \in DOMAIN notes : Harmless(notes[u], B)) => Calm(Tell(t, notes), B)
<1> DEFINE told(r) == LET u == t.clients[r].user
                      IN  u \in DOMAIN notes /\ CanTell(t, u) /\ ClientOf(t, u) = r
           note(r) == Addressing(notes[t.clients[r].user], t.clients[r].user, t.clients[r].session)
           o == [r \in Slots |-> IF told(r) THEN note(r) ELSE t.out[r]]
<1>1. Tell(t, notes) = [t EXCEPT !.out = o]
  BY DEF Tell, Addressing
<1>2. \A r \in Slots : o[r] = t.out[r] \/ (t.clients[r].user \in DOMAIN notes /\ o[r] = note(r))
  OBVIOUS
<1>3. o = [r \in Slots |-> o[r]]
  OBVIOUS
<1> HIDE DEF o, told
<1>4. Shaped([t EXCEPT !.out = o]) /\ [t EXCEPT !.out = o].clients = t.clients /\ [t EXCEPT !.out = o].out = o
  BY <1>3 DEF Shaped, IsTables, Fields
<1>5. ASSUME NEW B, Calm(t, B), \A u \in DOMAIN notes : Harmless(notes[u], B)
      PROVE  \A r \in Slots : o[r] # out[r] => o[r] \notin B
  BY <1>2, <1>5 DEF Calm, Harmless
<1> QED BY <1>1, <1>4, <1>5 DEF Calm

LEMMA CloseTame ==
    ASSUME NEW t, Shaped(t), NEW S, NEW u
    PROVE  /\ Shaped(CloseSlots(t, S, u))
           /\ \A r \in Slots : r \notin S => CloseSlots(t, S, u).clients[r] = t.clients[r]
           /\ \A B : Hushed(B) /\ Calm(t, B) => Calm(CloseSlots(t, S, u), B)
<1> DEFINE ended == {c \in t.calls : u \in Parties(c)}
           First(p) == CHOOSE c \in ended : Peer(c, u) = p /\ \A d \in ended : Peer(d, u) = p => c.id <= d.id
           closed == [clients   |-> [s \in Slots |-> IF s \in S THEN FreeClient ELSE t.clients[s]],
                      out       |-> [s \in Slots |-> IF s \in S THEN NoPacket ELSE t.out[s]],
                      calls     |-> t.calls \ ended,
                      transfers |-> {x \in t.transfers : u \notin Ends(x)}]
           notes == [p \in {Peer(c, u) : c \in ended} |-> Notify("hangup", First(p).id)]
<1>1. CloseSlots(t, S, u) = Tell(closed, notes)
  BY DEF CloseSlots
<1>2. Shaped(closed) /\ \A r \in Slots : r \notin S => closed.clients[r] = t.clients[r]
  BY DEF Shaped, IsTables, Fields
<1>3. \A B : Hushed(B) /\ Calm(t, B) => Calm(closed, B)
  BY DEF Hushed, Calm
<1>4. \A B : Hushed(B) => \A p \in DOMAIN notes : Harmless(notes[p], B)
  BY DEF Hushed
<1> HIDE DEF closed, notes
<1> QED BY <1>1, <1>2, <1>3, <1>4, TellTame

LEMMA CloseClientTame ==
    ASSUME NEW t, Shaped(t), NEW s
    PROVE  /\ Shaped(CloseClient(t, s))
           /\ Stays(t, s) => Stays(CloseClient(t, s), s)
           /\ \A B : Hushed(B) /\ Calm(t, B) => Calm(CloseClient(t, s), B)
BY CloseTame DEF CloseClient, Stays

LEMMA ReplyTame ==
    ASSUME NEW t, Shaped(t), NEW s \in Slots, NEW p
    PROVE  /\ Shaped(Reply(t, s, p))
           /\ Stays(t, s) => Stays(Reply(t, s, p), s)
           /\ \A B : Hushed(B) /\ Calm(t, B) /\ p \notin B => Calm(Reply(t, s, p), B)
<1> DEFINE q == [t EXCEPT !.out[s] = p]
<1>1. Shaped(q) /\ q.clients = t.clients /\ \A r \in Slots : q.out[r] = IF r = s THEN p ELSE t.out[r]
  BY DEF Shaped, IsTables, Fields
<1> HIDE DEF q
<1>2. \A B : Calm(t, B) /\ p \notin B => Calm(q, B)
  BY <1>1 DEF Calm
<1>3. Stays(t, s) => Stays(q, s)
  BY <1>1 DEF Stays
<1>4. Reply(t, s, p) = IF CanQueue(t, s) THEN q ELSE CloseClient(t, s)
  BY DEF Reply, q
<1> QED BY <1>1, <1>2, <1>3, <1>4, CloseClientTame

LEMMA RelayTame ==
    ASSUME NEW t, Shaped(t), NEW s \in Slots, NEW u, NEW note, NEW response,
           NEW after, Shaped(after), after.clients = t.clients, after.out = t.out
    PROVE  LET e == Relay(t, s, u, note, after, response)
           IN  /\ Shaped(e)
               /\ Stays(t, s) => Stays(e, s)
               /\ \A B : Hushed(B) /\ Calm(t, B) /\ Harmless(note, B) /\ response \notin B => Calm(e, B)
<1> DEFINE told == TellOne(after, u, note)
<1>1. /\ Shaped(told) /\ told.clients = t.clients
      /\ \A B : Calm(t, B) /\ Harmless(note, B) => Calm(told, B)
  <2>1. \A B : Calm(t, B) => Calm(after, B)
    BY DEF Calm
  <2> QED BY <2>1, TellTame DEF TellOne
<1>2. Stays(t, s) => Stays(told, s)
  BY <1>1 DEF Stays
<1>3. Relay(t, s, u, note, after, response) = IF CanTell(t, u) THEN Reply(told, s, response) ELSE CloseClient(t, s)
  BY DEF Relay
<1> HIDE DEF told
<1> QED BY <1>1, <1>2, <1>3, ReplyTame, CloseClientTame

LEMMA AcknowledgeTame ==
    ASSUME NEW t, Shaped(t), NEW s \in Slots, NEW response, NEW notes
    PROVE  LET e == Acknowledge(t, s, response, notes)
           IN  /\ Shaped(e)
               /\ Stays(t, s) => Stays(e, s)
               /\ \A B : Hushed(B) /\ Calm(t, B) /\ response \notin B /\ (\A u \in DOMAIN notes : Harmless(notes[u], B))
                            => Calm(e, B)
<1>1. Acknowledge(t, s, response, notes) =
         IF CanQueue(t, s) THEN Tell(Reply(t, s, response), notes) ELSE CloseClient(t, s)
  BY DEF Acknowledge
<1>2. Stays(t, s) => Stays(Tell(Reply(t, s, response), notes), s)
  BY ReplyTame, TellTame DEF Stays
<1> QED BY <1>1, <1>2, ReplyTame, TellTame, CloseClientTame

LEMMA AuthenticateTame ==
    ASSUME NEW t, Shaped(t), NEW s \in Slots, NEW u, NEW session
    PROVE  LET e == Authenticate(t, s, u, session)
           IN  Shaped(e) /\ \A B : Hushed(B) /\ Calm(t, B) => Calm(e, B)
<1>1. ASSUME NEW a, Shaped(a), NEW c
      PROVE  LET e == [a EXCEPT !.clients[s] = c] IN Shaped(e) /\ e.out = a.out
  BY <1>1 DEF Shaped, IsTables, Fields
<1>2. PICK a : /\ Shaped(a) /\ \A B : Hushed(B) /\ Calm(t, B) => Calm(a, B)
               /\ Authenticate(t, s, u, session) =
                     [a EXCEPT !.clients[s] = [open |-> TRUE, user |-> u, session |-> session]]
  BY CloseTame DEF Authenticate
<1> QED BY <1>1, <1>2 DEF Calm

\* A visit starts from tables that are tame.
LEMMA FlushedTame ==
    ASSUME IInv, NEW s \in Slots, NEW t, Serve(s, t)
    PROVE  /\ Shaped(t) /\ Stays(t, s) /\ t.calls = calls /\ t.transfers = transfers
           /\ \A B : Hushed(B) => Calm(t, B)
<1>1. Sound(t) /\ t.clients = clients /\ t.calls = calls /\ t.transfers = transfers
  BY ServeTurn, FlushedSound
<1>2. Shaped(t)
  BY <1>1, FlushedKeeps DEF Sound, SoundBut, TablesType, Shaped
<1>3. \A r \in Slots : t.out[r] = out[r] \/ t.out[r] = NoPacket
  <2>1. Tables.out = out /\ out \in [Slots -> Packet]
    BY DEF IInv, SoundTables, Sound, SoundBut, TablesType, Tables
  <2>2. CASE t = Tables
    BY <2>1, <2>2
  <2>3. CASE t = [Tables EXCEPT !.out[s] = NoPacket]
    <3>1. t.out = [out EXCEPT ![s] = NoPacket]
      BY <2>1, <2>3 DEF Tables
    <3> QED BY <2>1, <3>1
  <2> QED BY <2>2, <2>3 DEF Serve, Flushed
<1> QED BY <1>1, <1>2, <1>3 DEF Stays, Calm, Hushed
-----------------------------------------------------------------------------
(* What the steps do to the connections and to the buffers.                *)

StaysStep(s) == \A r \in Slots : r # s => clients'[r] = clients[r]
CalmStep(B) == \A r \in Slots : out'[r] # out[r] => out'[r] \notin B

\* The packets every handler may queue are not in B.
Plain(B) ==
    /\ Hushed(B)
    /\ \A id : Harmless(Notify("file-complete", id), B)
    /\ \A op, id : Response("error", op, id) \notin B
    /\ \A op \in {"auth", "heartbeat", "user", "group-create", "file-complete"} : \A id : Response("ok", op, id) \notin B

LEMMA CommitTame ==
    ASSUME NEW e, Commit(e)
    PROVE  /\ \A s : Stays(e, s) => StaysStep(s)
           /\ \A B : Calm(e, B) => CalmStep(B)
BY DEF Commit, Stays, Calm, StaysStep, CalmStep

\* The tables with other calls or transfers.
LEMMA ExceptTame ==
    ASSUME NEW t, Shaped(t), NEW X
    PROVE  /\ LET e == [t EXCEPT !.calls = X] IN Shaped(e) /\ e.clients = t.clients /\ e.out = t.out
           /\ LET e == [t EXCEPT !.transfers = X] IN Shaped(e) /\ e.clients = t.clients /\ e.out = t.out
BY DEF Shaped, IsTables, Fields

\* A handler that queues one plain response, or that closes the connection.
LEMMA ReplyVisit ==
    ASSUME IInv, NEW s \in Slots, NEW t, Serve(s, t), NEW e, Shaped(e), e.clients = t.clients, e.out = t.out,
           NEW p, Commit(Reply(e, s, p))
    PROVE  StaysStep(s) /\ \A B : Hushed(B) /\ p \notin B => CalmStep(B)
<1>1. Stays(e, s) /\ \A B : Hushed(B) => Calm(e, B)
  BY FlushedTame DEF Stays, Calm
<1> QED BY <1>1, ReplyTame, CommitTame

LEMMA PlainVisit ==
    ASSUME IInv, NEW s \in Slots, NEW t, NEW B, Plain(B),
           \/ Disconnect(s, t) \/ Idle(s, t) \/ Refuse(s, t) \/ Heartbeat(s, t) \/ ListOnline(s, t)
           \/ \E invited \in SUBSET Users : CreateGroup(s, t, invited)
           \/ \E x, len, index : DropFile(s, t, x, index, len)
           \/ \E x : CompleteFile(s, t, x)
    PROVE  StaysStep(s) /\ CalmStep(B)
<1>1. Serve(s, t)
  BY DEF Disconnect, Idle, Refuse, Heartbeat, ListOnline, CreateGroup, DropFile, CompleteFile
<1>2. Shaped(t) /\ Stays(t, s) /\ Calm(t, B) /\ Hushed(B)
  BY <1>1, FlushedTame DEF Plain
<1>3. CASE Disconnect(s, t) \/ Idle(s, t)
  BY <1>2, <1>3, CloseClientTame, CommitTame DEF Disconnect, Idle
<1>4. CASE \/ Refuse(s, t) \/ Heartbeat(s, t) \/ ListOnline(s, t)
           \/ \E invited \in SUBSET Users : CreateGroup(s, t, invited)
  <2>1. PICK p : Commit(Reply(t, s, p)) /\ p \notin B
    BY <1>4 DEF Refuse, Heartbeat, ListOnline, CreateGroup, Plain
  <2> QED BY <1>1, <1>2, <2>1, ReplyVisit
<1>5. ASSUME NEW x, NEW len, NEW index, DropFile(s, t, x, index, len)
      PROVE  StaysStep(s) /\ CalmStep(B)
  <2>1. PICK e : Shaped(e) /\ e.clients = t.clients /\ e.out = t.out
                 /\ Commit(Reply(e, s, Response("error", "file-chunk", x.id)))
    BY <1>2, <1>5, ExceptTame DEF DropFile
  <2>2. Response("error", "file-chunk", x.id) \notin B
    BY DEF Plain
  <2> QED BY <1>1, <1>2, <2>1, <2>2, ReplyVisit
<1>6. ASSUME NEW x, CompleteFile(s, t, x)
      PROVE  StaysStep(s) /\ CalmStep(B)
  <2> DEFINE told == TellOne(t, x.receiver, Notify("file-complete", x.id))
             ended == [told EXCEPT !.transfers = @ \ {x}]
  <2>1. Shaped(told) /\ told.clients = t.clients /\ Calm(told, B)
    BY <1>2, TellTame DEF TellOne, Plain
  <2>2. Commit(Reply(ended, s, Response("ok", "file-complete", x.id)))
    BY <1>6 DEF CompleteFile
  <2> HIDE DEF told
  <2>3. Shaped(ended) /\ ended.clients = t.clients /\ ended.out = told.out
    BY <2>1, ExceptTame
  <2> HIDE DEF ended
  <2>4. Stays(ended, s) /\ Calm(ended, B)
    BY <1>2, <2>1, <2>3 DEF Stays, Calm
  <2>5. Response("ok", "file-complete", x.id) \notin B
    BY DEF Plain
  <2> QED BY <1>2, <2>2, <2>3, <2>4, <2>5, ReplyTame, CommitTame
<1> QED BY <1>3, <1>4, <1>5, <1>6

LEMMA LoginVisit ==
    ASSUME IInv, NEW s \in Slots, NEW t, NEW u \in Users, Register(s, t, u) \/ Login(s, t, u)
    PROVE  ids'.session # ids.session /\ \A B : Plain(B) => CalmStep(B)
<1>1. Serve(s, t) /\ StartSession(s, t, u) /\ ids.session \in Nat
  BY DEF Register, Login, IInv, RestTypeOK
<1>2. ids'.session = ids.session + 1
  BY <1>1 DEF StartSession, IInv, RestTypeOK
<1>3. ASSUME NEW B, Plain(B) PROVE CalmStep(B)
  <2> DEFINE e == Authenticate(t, s, u, ids.session)
             p == Response("ok", "auth", ids.session)
  <2>1. Commit(Reply(e, s, p))
    BY <1>1 DEF StartSession
  <2>2. p \notin B /\ Hushed(B)
    BY <1>3 DEF Plain
  <2>3. Shaped(e) /\ Calm(e, B)
    BY <1>1, <2>2, FlushedTame, AuthenticateTame
  <2> HIDE DEF e, p
  <2> QED BY <2>1, <2>2, <2>3, ReplyTame, CommitTame
<1> QED BY <1>1, <1>2, <1>3
-----------------------------------------------------------------------------
(* The two sets of packets the properties are about.                       *)

RelayedOps == {"file-start", "file-chunk"} \cup CallOps
ChatOps == {"chat", "group-send"}
Acks == {p \in Packet : p.kind = "ok" /\ p.op \in RelayedOps}
Chats == {p \in Packet : p.kind = "notify" /\ p.op \in ChatOps}

LEMMA PacketFields ==
    /\ \A k, op, id : Response(k, op, id).kind = k /\ Response(k, op, id).op = op /\ Response(k, op, id).id = id
    /\ \A op, id, to, session :
          LET p == Addressing(Notify(op, id), to, session) IN p.kind = "notify" /\ p.op = op /\ p.id = id
    /\ \A p \in Notifies : \A to, session :
          LET q == Addressing(p, to, session) IN q.kind = "notify" /\ q.op = p.op /\ q.id = p.id
    /\ NoPacket.kind = "none"
BY DEF Response, Addressing, Notify, NoPacket, Notifies, Packet

LEMMA BothPlain == Plain(Acks) /\ Plain(Chats)
<1>1. Hushed(Acks) /\ Hushed(Chats)
  BY PacketFields DEF Hushed, Harmless, Acks, Chats, ChatOps
<1>2. \A id : Harmless(Notify("file-complete", id), Acks) /\ Harmless(Notify("file-complete", id), Chats)
  BY PacketFields DEF Harmless, Acks, Chats, ChatOps
<1>3. \A op, id : Response("error", op, id) \notin Acks /\ Response("error", op, id) \notin Chats
  BY PacketFields DEF Acks, Chats
<1>4. \A op \in {"auth", "heartbeat", "user", "group-create", "file-complete"} : \A id :
         Response("ok", op, id) \notin Acks /\ Response("ok", op, id) \notin Chats
  BY PacketFields DEF Acks, Chats, RelayedOps, CallOps, EndOps, RelayOps
<1> QED BY <1>1, <1>2, <1>3, <1>4 DEF Plain

\* What Tell puts where.
LEMMA TellTells ==
    ASSUME NEW t, Shaped(t), NEW notes
    PROVE  /\ \A r \in Slots :
                 \/ Tell(t, notes).out[r] = t.out[r]
                 \/ /\ t.out[r] = NoPacket /\ t.clients[r].user \in DOMAIN notes
                    /\ Tell(t, notes).out[r] =
                          Addressing(notes[t.clients[r].user], t.clients[r].user, t.clients[r].session)
           /\ \A u \in DOMAIN notes : CanTell(t, u) /\ ClientOf(t, u) \in Slots /\ t.clients[ClientOf(t, u)].user = u =>
                 Tell(t, notes).out[ClientOf(t, u)] = Addressing(notes[u], u, t.clients[ClientOf(t, u)].session)
<1> DEFINE told(r) == LET u == t.clients[r].user
                      IN  u \in DOMAIN notes /\ CanTell(t, u) /\ ClientOf(t, u) = r
           note(r) == Addressing(notes[t.clients[r].user], t.clients[r].user, t.clients[r].session)
           o == [r \in Slots |-> IF told(r) THEN note(r) ELSE t.out[r]]
<1>1. Tell(t, notes) = [t EXCEPT !.out = o]
  BY DEF Tell, Addressing
<1>2. Tell(t, notes).out = o
  BY <1>1 DEF Shaped, IsTables, Fields
<1>3. \A r \in Slots : told(r) => t.out[r] = NoPacket /\ t.clients[r].user \in DOMAIN notes
  BY DEF CanTell, CanQueue
<1>4. \A r \in Slots : o[r] = IF told(r) THEN note(r) ELSE t.out[r]
  OBVIOUS
<1>5. \A u \in DOMAIN notes : CanTell(t, u) /\ ClientOf(t, u) \in Slots /\ t.clients[ClientOf(t, u)].user = u
                                 => told(ClientOf(t, u))
  OBVIOUS
<1> HIDE DEF o, told
<1> QED BY <1>2, <1>3, <1>4, <1>5

\* A request passed on, and acknowledged when the other side has been told.
Relays(s, t, u, note, after, op, id) ==
    /\ Serve(s, t)
    /\ u \in Users /\ op \in RelayedOps /\ note \in Notifies /\ note.op = op /\ note.id = id
    /\ Shaped(after) /\ after.clients = t.clients /\ after.out = t.out
    /\ Commit(Relay(t, s, u, note, after, Response("ok", op, id)))

LEMMA RelayHandlers ==
    ASSUME IInv, NEW s \in Slots, NEW t,
           \/ \E u \in Users : Invite(s, t, u)
           \/ \E u \in Users, size \in FileSizes : StartFile(s, t, u, size)
           \/ \E x \in transfers, len \in 1 .. MaxChunk : RelayChunk(s, t, x, len)
    PROVE  \E u, note, after, op, id : Relays(s, t, u, note, after, op, id)
<1>1. Serve(s, t) /\ ids.call \in Nat /\ ids.transfer \in Nat
  BY DEF Invite, StartFile, RelayChunk, IInv, RestTypeOK
<1>2. Shaped(t) /\ t.calls = calls /\ t.transfers = transfers
  BY <1>1, FlushedTame
<1>3. transfers \subseteq Transfer
  BY DEF IInv, SoundTables, Sound, SoundBut, TablesType, Tables
<1>4. \A op \in Ops, id \in Nat : Notify(op, id) \in Notifies /\ Notify(op, id).op = op /\ Notify(op, id).id = id
  BY ConstantTypes DEF Notify, NoPacket
<1>5. ASSUME NEW u \in Users, Invite(s, t, u)
      PROVE  \E note, after, op, id : Relays(s, t, u, note, after, op, id)
  <2> DEFINE note == Notify("invite", ids.call)
  <2>1. PICK after : /\ Shaped(after) /\ after.clients = t.clients /\ after.out = t.out
                     /\ Commit(Relay(t, s, u, note, after, Response("ok", "invite", ids.call)))
    BY <1>2, <1>5, ExceptTame DEF Invite
  <2>2. note \in Notifies /\ note.op = "invite" /\ note.id = ids.call
    BY <1>1, <1>4 DEF Ops, CallOps
  <2> HIDE DEF note
  <2>3. "invite" \in RelayedOps
    BY DEF RelayedOps, CallOps
  <2> QED BY <1>1, <2>1, <2>2, <2>3 DEF Relays
<1>6. ASSUME NEW u \in Users, NEW size \in FileSizes, StartFile(s, t, u, size)
      PROVE  \E note, after, op, id : Relays(s, t, u, note, after, op, id)
  <2> DEFINE note == StartNotify(ids.transfer, size)
  <2>1. PICK after : /\ Shaped(after) /\ after.clients = t.clients /\ after.out = t.out
                     /\ Commit(Relay(t, s, u, note, after, Response("ok", "file-start", ids.transfer)))
    BY <1>2, <1>6, ExceptTame DEF StartFile
  <2>2. note \in Notifies /\ note.op = "file-start" /\ note.id = ids.transfer
    BY <1>1, ConstantTypes, ServerAssumption DEF StartNotify, Notify, NoPacket
  <2> HIDE DEF note
  <2>3. "file-start" \in RelayedOps
    BY DEF RelayedOps
  <2> QED BY <1>1, <2>1, <2>2, <2>3 DEF Relays
<1>7. ASSUME NEW x \in transfers, NEW len \in 1 .. MaxChunk, RelayChunk(s, t, x, len)
      PROVE  \E u, note, after, op, id : Relays(s, t, u, note, after, op, id)
  <2> DEFINE note == ChunkNotify(x.id, x.next, len)
  <2>1. PICK after : /\ Shaped(after) /\ after.clients = t.clients /\ after.out = t.out
                     /\ Commit(Relay(t, s, x.receiver, note, after, Response("ok", "file-chunk", x.id)))
    BY <1>2, <1>7, ExceptTame DEF RelayChunk
  <2>2. x.receiver \in Users /\ x.id \in Nat /\ x.next \in Nat /\ len \in Nat
    BY <1>3, ServerAssumption DEF Transfer
  <2>3. note \in Notifies /\ note.op = "file-chunk" /\ note.id = x.id
    BY <2>2, ConstantTypes DEF ChunkNotify, Notify, NoPacket
  <2> HIDE DEF note
  <2>4. "file-chunk" \in RelayedOps
    BY DEF RelayedOps
  <2> QED BY <1>1, <2>1, <2>2, <2>3, <2>4 DEF Relays
<1> QED BY <1>5, <1>6, <1>7

LEMMA ForwardHandler ==
    ASSUME IInv, NEW s \in Slots, NEW t, NEW c \in calls, NEW op \in Ops, ForwardCall(s, t, c, op)
    PROVE  \/ StaysStep(s) /\ \A B : Plain(B) => CalmStep(B)
           \/ \E u, note, after, id : Relays(s, t, u, note, after, op, id)
<1>1. Serve(s, t) /\ op \in RelayedOps
  BY DEF ForwardCall, RelayedOps
<1>2. Shaped(t) /\ t.clients = clients
  BY <1>1, ServeTurn, FlushedTame, FlushedSound
<1>3. c \in Call
  BY DEF IInv, SoundTables, Sound, SoundBut, TablesType, Tables
<1>4. CASE Commit(Reply([t EXCEPT !.calls = @ \ {c}], s, Response("error", op, c.id)))
  <2>1. PICK e : Shaped(e) /\ e.clients = t.clients /\ e.out = t.out
                 /\ Commit(Reply(e, s, Response("error", op, c.id)))
    BY <1>2, <1>4, ExceptTame
  <2> QED BY <1>1, <2>1, ReplyVisit DEF Plain
<1>5. CASE Commit(Relay(t, s, Peer(c, t.clients[s].user), Notify(op, c.id), AfterCallOp(t, c, op),
                        Response("ok", op, c.id)))
  <2> DEFINE note == Notify(op, c.id)
             u == Peer(c, t.clients[s].user)
  <2>1. PICK after : /\ Shaped(after) /\ after.clients = t.clients /\ after.out = t.out
                     /\ Commit(Relay(t, s, u, note, after, Response("ok", op, c.id)))
    BY <1>2, <1>5, ExceptTame DEF AfterCallOp
  <2>2. u \in Users /\ c.id \in Nat
    BY <1>3 DEF Call, Peer
  <2>3. note \in Notifies /\ note.op = op /\ note.id = c.id
    BY <2>2, ConstantTypes DEF Notify, NoPacket
  <2> HIDE DEF note, u
  <2> QED BY <1>1, <2>1, <2>2, <2>3 DEF Relays
<1> QED BY <1>4, <1>5 DEF ForwardCall
-----------------------------------------------------------------------------
\* When a relay is acknowledged, the notify lies in the other side's buffer.
LEMMA RelayVisit ==
    ASSUME IInv, NEW s \in Slots, NEW t, NEW u, NEW note, NEW after, NEW op, NEW id,
           Relays(s, t, u, note, after, op, id)
    PROVE  /\ StaysStep(s) /\ CalmStep(Chats)
           /\ \A r \in Slots : out'[r] # out[r] /\ out'[r] \in Acks =>
                 /\ out'[r].op = op /\ out'[r].id = id
                 /\ \E q \in Slots : out'[q].kind = "notify" /\ out'[q].op = op /\ out'[q].id = id
<1> DEFINE response == Response("ok", op, id)
           told == TellOne(after, u, note)
<1>1. /\ Serve(s, t) /\ u \in Users /\ op \in RelayedOps /\ note \in Notifies /\ note.op = op /\ note.id = id
      /\ Shaped(after) /\ after.clients = t.clients /\ after.out = t.out
      /\ Commit(Relay(t, s, u, note, after, response))
  BY DEF Relays
<1>2. Shaped(t) /\ Stays(t, s) /\ Calm(t, Acks) /\ Calm(t, Chats) /\ Hushed(Acks) /\ Hushed(Chats)
  BY <1>1, FlushedTame, BothPlain DEF Plain
<1>3. Harmless(note, Acks) /\ Harmless(note, Chats) /\ response \notin Chats
  BY <1>1, PacketFields DEF Harmless, Acks, Chats, RelayedOps, ChatOps, CallOps, EndOps, RelayOps
<1>4. response.op = op /\ response.id = id /\ response.kind = "ok"
  BY PacketFields
<1> HIDE DEF response
<1>5. StaysStep(s) /\ CalmStep(Chats)
  BY <1>1, <1>2, <1>3, RelayTame, CommitTame
<1>6. CASE CanTell(t, u) /\ CanQueue(told, s)
  <2>1. OnePerUser(t) /\ OnePerUser(after)
    BY <1>1, ServeTurn, FlushedSound DEF Sound, SoundBut, OnePerUser
  <2>2. PICK q \in Slots : IsClient(t, q, u)
    BY <1>6 DEF CanTell, Online
  <2>3. ClientOf(t, u) = q /\ ClientOf(after, u) = q /\ after.clients[q].user = u
    BY <1>1, <2>1, <2>2, ClientOfIsUnique DEF IsClient
  <2>4. CanTell(after, u)
    BY <1>1, <1>6, <2>2, <2>3 DEF CanTell, CanQueue, Online, IsClient
  <2>5. told.out[q].kind = "notify" /\ told.out[q].op = op /\ told.out[q].id = id
    <3>1. told.out[q] = Addressing(note, u, after.clients[q].session)
      BY <1>1, <2>3, <2>4, TellTells DEF TellOne
    <3> QED BY <1>1, <3>1, PacketFields
  <2>6. Shaped(told) /\ Calm(told, Acks)
    <3>1. Calm(after, Acks)
      BY <1>1, <1>2 DEF Calm
    <3> QED BY <1>1, <1>3, <3>1, TellTame DEF TellOne
  <2>7. q # s
    BY <1>6, <2>5, PacketFields DEF CanQueue
  <2>8. out' = [told EXCEPT !.out[s] = response].out
    BY <1>1, <1>6 DEF Relay, Reply, Commit
  <2> HIDE DEF told
  <2>9. \A r \in Slots : out'[r] = IF r = s THEN response ELSE told.out[r]
    BY <2>6, <2>8 DEF Shaped, IsTables, Fields
  <2> QED BY <1>4, <1>5, <2>5, <2>6, <2>7, <2>9 DEF Calm
<1>7. CASE ~(CanTell(t, u) /\ CanQueue(told, s))
  <2>1. Calm(CloseClient(t, s), Acks)
    BY <1>2, CloseClientTame
  <2>2. Calm(CloseClient(told, s), Acks)
    <3>1. Calm(after, Acks)
      BY <1>1, <1>2 DEF Calm
    <3>2. Shaped(told) /\ Calm(told, Acks)
      BY <1>1, <1>3, <3>1, TellTame DEF TellOne
    <3> QED BY <1>2, <3>2, CloseClientTame
  <2>3. Commit(CloseClient(t, s)) \/ Commit(CloseClient(told, s))
    BY <1>1, <1>7 DEF Relay, Reply
  <2>4. CalmStep(Acks)
    BY <2>1, <2>2, <2>3, CommitTame
  <2> QED BY <1>5, <2>4 DEF CalmStep
<1> QED BY <1>6, <1>7

\* When a receiver is told of a message, the acknowledgement lies in the sender's buffer.
LEMMA AcknowledgeVisit ==
    ASSUME IInv, NEW s \in Slots, NEW t, Serve(s, t), NEW op \in ChatOps, NEW m, NEW listed,
           Commit(Acknowledge(t, s, Response("ok", op, m), [u \in listed |-> Notify(op, m)]))
    PROVE  /\ StaysStep(s) /\ CalmStep(Acks)
           /\ \A r \in Slots : out'[r] # out[r] /\ out'[r] \in Chats =>
                 out'[r].op = op /\ out'[r].id = m /\ out'[s] = Response("ok", op, m)
<1> DEFINE response == Response("ok", op, m)
           notes == [u \in listed |-> Notify(op, m)]
           replied == [t EXCEPT !.out[s] = response]
<1>1. Shaped(t) /\ Stays(t, s) /\ Calm(t, Acks) /\ Calm(t, Chats) /\ Hushed(Acks) /\ Hushed(Chats)
  BY FlushedTame, BothPlain DEF Plain
<1>2. response.kind = "ok" /\ response.op = op /\ response \notin Acks /\ response \notin Chats
  BY PacketFields DEF Acks, Chats, RelayedOps, ChatOps, CallOps, EndOps, RelayOps
<1>3. \A u \in DOMAIN notes : Harmless(notes[u], Acks)
  BY PacketFields DEF Harmless, Acks
<1>4. \A u \in DOMAIN notes : \A to, session :
         Addressing(notes[u], to, session).op = op /\ Addressing(notes[u], to, session).id = m
  BY PacketFields
<1> HIDE DEF response, notes
<1>5. Commit(Acknowledge(t, s, response, notes))
  BY DEF response, notes
<1>6. StaysStep(s) /\ CalmStep(Acks)
  BY <1>1, <1>2, <1>3, <1>5, AcknowledgeTame, CommitTame
<1>7. CASE CanQueue(t, s)
  <2>1. Shaped(replied) /\ \A r \in Slots : replied.out[r] = IF r = s THEN response ELSE t.out[r]
    BY <1>1 DEF Shaped, IsTables, Fields
  <2>2. out' = Tell(replied, notes).out
    BY <1>5, <1>7 DEF Acknowledge, Reply, Commit
  <2> HIDE DEF replied
  <2>3. response # NoPacket
    BY <1>2, PacketFields
  <2>4. out'[s] = response
    BY <2>1, <2>2, <2>3, TellTells
  <2>5. \A r \in Slots : out'[r] = replied.out[r] \/ (out'[r].op = op /\ out'[r].id = m)
    BY <1>4, <2>1, <2>2, TellTells
  <2>6. \A r \in Slots : replied.out[r] # out[r] => replied.out[r] \notin Chats
    BY <1>1, <1>2, <2>1 DEF Calm
  <2> QED BY <1>6, <2>4, <2>5, <2>6 DEF response
<1>8. CASE ~CanQueue(t, s)
  <2>1. Commit(CloseClient(t, s))
    BY <1>5, <1>8 DEF Acknowledge
  <2>2. CalmStep(Chats)
    BY <1>1, <2>1, CloseClientTame, CommitTame
  <2> QED BY <1>6, <2>2 DEF CalmStep
<1> QED BY <1>7, <1>8

\* What one visit does, in the terms of the three properties.
OtherwiseTame(s) ==
    /\ StaysStep(s) \/ ids'.session # ids.session
    /\ \A r \in Slots : out'[r] # out[r] /\ out'[r] \in Chats =>
          \E q \in Slots : out'[q] = Response("ok", out'[r].op, out'[r].id)
    /\ \A r \in Slots : out'[r] # out[r] /\ out'[r] \in Acks =>
          \E q \in Slots : out'[q].kind = "notify" /\ out'[q].op = out'[r].op /\ out'[q].id = out'[r].id

LEMMA VisitTame ==
    ASSUME IInv, NEW s \in Slots, NEW t, Visit(s, t)
    PROVE  OtherwiseTame(s)
<1>1. ASSUME StaysStep(s) \/ ids'.session # ids.session, CalmStep(Chats), CalmStep(Acks)
      PROVE  OtherwiseTame(s)
  BY <1>1 DEF OtherwiseTame, CalmStep
<1>2. ASSUME NEW u, NEW note, NEW after, NEW op, NEW id, Relays(s, t, u, note, after, op, id)
      PROVE  OtherwiseTame(s)
  BY <1>2, RelayVisit DEF OtherwiseTame, CalmStep
<1>3. ASSUME NEW op \in ChatOps, NEW m, NEW listed, Serve(s, t),
             Commit(Acknowledge(t, s, Response("ok", op, m), [u \in listed |-> Notify(op, m)]))
      PROVE  OtherwiseTame(s)
  BY <1>3, AcknowledgeVisit DEF OtherwiseTame, CalmStep
<1>4. CASE \/ Disconnect(s, t) \/ Idle(s, t) \/ Refuse(s, t) \/ Heartbeat(s, t) \/ ListOnline(s, t)
           \/ \E invited \in SUBSET Users : CreateGroup(s, t, invited)
           \/ \E x, len, index : DropFile(s, t, x, index, len)
           \/ \E x : CompleteFile(s, t, x)
  BY <1>1, <1>4, PlainVisit, BothPlain
<1>5. CASE \E u \in Users : Register(s, t, u) \/ Login(s, t, u)
  BY <1>1, <1>5, LoginVisit, BothPlain
<1>6. CASE \/ \E u \in Users : Invite(s, t, u)
           \/ \E u \in Users, size \in FileSizes : StartFile(s, t, u, size)
           \/ \E x \in transfers, len \in 1 .. MaxChunk : RelayChunk(s, t, x, len)
  BY <1>2, <1>6, RelayHandlers
<1>7. CASE \E c \in calls, op \in Ops : ForwardCall(s, t, c, op)
  <2>1. PICK c \in calls, op \in Ops : ForwardCall(s, t, c, op)
    BY <1>7
  <2>2. CASE StaysStep(s) /\ \A B : Plain(B) => CalmStep(B)
    BY <1>1, <2>2, BothPlain
  <2>3. CASE \E u, note, after, id : Relays(s, t, u, note, after, op, id)
    BY <1>2, <2>3
  <2> QED BY <2>1, <2>2, <2>3, ForwardHandler
<1>8. ASSUME NEW to \in Users, Chat(s, t, to) PROVE OtherwiseTame(s)
  BY <1>3, <1>8 DEF Chat, ChatOps
<1>9. ASSUME NEW g \in DOMAIN groups, SendGroup(s, t, g) PROVE OtherwiseTame(s)
  BY <1>3, <1>9 DEF SendGroup, ChatOps
<1> QED BY <1>4, <1>5, <1>6, <1>7, <1>8, <1>9 DEF Visit, Dispatch
-----------------------------------------------------------------------------
\* Outside the visits nothing is queued, and only the end of the process closes.
LEMMA PassTame ==
    ASSUME IInv, AcceptOne \/ AcceptDone \/ Sweep \/ Restart \/ (\E s \in Slots : SkipClosed(s)) \/ UNCHANGED vars
    PROVE  /\ turn' = 0 \/ \A r \in Slots : clients[r].open => clients'[r].open
           /\ \A r \in Slots : out'[r] # out[r] => out'[r] = NoPacket
<1>1. clients \in [Slots -> Client] /\ out \in [Slots -> Packet]
  BY DEF IInv, SoundTables, Sound, SoundBut, TablesType, Tables
<1>2. CASE AcceptOne
  <2>1. PICK s \in FreeSlots : clients' = [clients EXCEPT ![s] = NewClient] /\ out' = [out EXCEPT ![s] = NoPacket]
    BY <1>2 DEF AcceptOne
  <2> QED BY <1>1, <2>1 DEF FreeSlots
<1>3. CASE Restart
  BY <1>3 DEF Restart, Commit, EmptyTables
<1>4. CASE AcceptDone \/ Sweep \/ (\E s \in Slots : SkipClosed(s)) \/ UNCHANGED vars
  BY <1>4 DEF AcceptDone, Sweep, SkipClosed, vars
<1> QED BY <1>2, <1>3, <1>4

LEMMA StepIs ==
    ASSUME [Next]_vars
    PROVE  \/ AcceptOne \/ AcceptDone \/ Sweep \/ Restart \/ (\E s \in Slots : SkipClosed(s)) \/ UNCHANGED vars
           \/ \E s \in Slots : \E t : Visit(s, t)
BY DEF Next, Pass

\* The buffers hold packets before and after a step.
LEMMA BuffersTyped ==
    ASSUME IInv, IInv'
    PROVE  out \in [Slots -> Packet] /\ out' \in [Slots -> Packet]
BY DEF IInv, SoundTables, Sound, SoundBut, TablesType, Tables

\* Whatever a peer sends, whatever fails and whoever is behind, a step that is not a
\* login closes at most the connection it visits.
THEOREM OthersStayOpen == Spec => OnlyLoginClosesOthers
<1>1. ASSUME IInv, [Next]_vars, turn' # 0, ids'.session = ids.session,
             NEW r \in Slots, clients[r].open, ~clients'[r].open
      PROVE  r = turn
  <2>1. PICK s, t : s \in Slots /\ Visit(s, t)
    BY <1>1, StepIs, PassTame
  <2>2. turn = s
    BY <2>1, VisitServes DEF Serve
  <2>3. StaysStep(s)
    BY <1>1, <2>1, VisitTame DEF OtherwiseTame
  <2> QED BY <1>1, <2>2, <2>3 DEF StaysStep
<1>2. IInv /\ [Next]_vars =>
         [turn' # 0 /\ ids'.session = ids.session =>
            \A s \in Slots : clients[s].open /\ ~clients'[s].open => s = turn]_vars
  BY <1>1
<1> QED BY <1>2, InvariantHolds, PTL DEF Spec, OnlyLoginClosesOthers

\* No chat or group notify is queued in a step that does not acknowledge the message
\* to its sender.
THEOREM NotifiesAreAcknowledged == Spec => NotifyNeedsAck
<1>1. ASSUME IInv, IInv', [Next]_vars, NEW r \in Slots, Queued(r), out'[r].kind = "notify", out'[r].op \in ChatOps
      PROVE  \E s \in Slots : out'[s] = Response("ok", out'[r].op, out'[r].id)
  <2>1. out'[r] # out[r] /\ out'[r] \in Chats
    BY <1>1, BuffersTyped DEF Queued, Chats
  <2>2. PICK s, t : s \in Slots /\ Visit(s, t)
    <3>1. out'[r] # NoPacket
      BY <1>1, PacketFields
    <3> QED BY <1>1, <2>1, <3>1, StepIs, PassTame
  <2> QED BY <1>1, <2>1, <2>2, VisitTame DEF OtherwiseTame
<1>2. IInv /\ IInv' /\ [Next]_vars =>
         [\A r \in Slots : Queued(r) /\ out'[r].kind = "notify" /\ out'[r].op \in {"chat", "group-send"} =>
            \E s \in Slots : out'[s] = Response("ok", out'[r].op, out'[r].id)]_vars
  BY <1>1 DEF ChatOps
<1> QED BY <1>2, InvariantHolds, PTL DEF Spec, NotifyNeedsAck

\* No invite, signal, file start or chunk is acknowledged in a step that does not
\* leave the notify for the other side in its buffer.
THEOREM AcknowledgedIsRelayed == Spec => AckMeansRelayed
<1>1. ASSUME IInv, IInv', [Next]_vars, NEW r \in Slots, Queued(r), out'[r].kind = "ok", out'[r].op \in RelayedOps
      PROVE  \E q \in Slots : out'[q].kind = "notify" /\ out'[q].op = out'[r].op /\ out'[q].id = out'[r].id
  <2>1. out'[r] # out[r] /\ out'[r] \in Acks
    BY <1>1, BuffersTyped DEF Queued, Acks
  <2>2. PICK s, t : s \in Slots /\ Visit(s, t)
    <3>1. out'[r] # NoPacket
      BY <1>1, PacketFields
    <3> QED BY <1>1, <2>1, <3>1, StepIs, PassTame
  <2> QED BY <1>1, <2>1, <2>2, VisitTame DEF OtherwiseTame
<1>2. IInv /\ IInv' /\ [Next]_vars =>
         [\A s \in Slots : Queued(s) /\ out'[s].kind = "ok"
               /\ out'[s].op \in {"file-start", "file-chunk"} \cup CallOps =>
            \E r \in Slots : out'[r].kind = "notify" /\ out'[r].op = out'[s].op /\ out'[r].id = out'[s].id]_vars
  BY <1>1 DEF RelayedOps
<1> QED BY <1>2, InvariantHolds, PTL DEF Spec, AckMeansRelayed

-----------------------------------------------------------------------------
(***************************************************************************)
(* What a visit makes of the connections, and what follows for users who   *)
(* leave, for messages and for calls.                                      *)
(*                                                                         *)
(* A handler that is not a login changes calls, transfers and buffers, and *)
(* then at most closes the connection it serves.  A login closes its       *)
(* user's other connections, renames its own and may lose that one too.    *)
(* So a buffer that keeps its packet keeps its user, and whoever goes      *)
(* offline has gone through close_client, or has been renamed.             *)
(***************************************************************************)

\* The tables are those of a visit in which nobody has come or gone, or of the
\* end of one in which the served connection is then closed.
Served(s, e) == Shaped(e) /\ e.clients = clients /\ (Commit(e) \/ Commit(CloseClient(e, s)))

LEMMA ReplyServed ==
    ASSUME NEW s \in Slots, NEW e, Shaped(e), e.clients = clients, NEW p, Commit(Reply(e, s, p))
    PROVE  \E d : Served(s, d)
<1>1. LET q == [e EXCEPT !.out[s] = p] IN Shaped(q) /\ q.clients = e.clients
  BY DEF Shaped, IsTables, Fields
<1> QED BY <1>1 DEF Reply, Served

LEMMA RelayServed ==
    ASSUME IInv, NEW s \in Slots, NEW t, NEW u, NEW note, NEW after, NEW op, NEW id,
           Relays(s, t, u, note, after, op, id)
    PROVE  \E e : Served(s, e)
<1>1. /\ Serve(s, t) /\ Shaped(after) /\ after.clients = t.clients
      /\ Commit(Relay(t, s, u, note, after, Response("ok", op, id)))
  BY DEF Relays
<1>2. Shaped(t) /\ t.clients = clients
  BY <1>1, ServeTurn, FlushedTame, FlushedSound
<1>3. Shaped(TellOne(after, u, note)) /\ TellOne(after, u, note).clients = clients
  BY <1>1, <1>2, TellTame DEF TellOne
<1>4. CASE CanTell(t, u)
  BY <1>1, <1>3, <1>4, ReplyServed DEF Relay
<1>5. CASE ~CanTell(t, u)
  BY <1>1, <1>2, <1>5 DEF Relay, Served
<1> QED BY <1>4, <1>5

LEMMA AcknowledgeServed ==
    ASSUME IInv, NEW s \in Slots, NEW t, Serve(s, t), NEW p, NEW notes, Commit(Acknowledge(t, s, p, notes))
    PROVE  \E e : Served(s, e)
<1>1. Shaped(t) /\ t.clients = clients
  BY ServeTurn, FlushedTame, FlushedSound
<1>2. CASE CanQueue(t, s)
  <2> DEFINE q == [t EXCEPT !.out[s] = p]
  <2>1. Shaped(q) /\ q.clients = clients
    BY <1>1 DEF Shaped, IsTables, Fields
  <2>2. Commit(Tell(q, notes))
    BY <1>2 DEF Acknowledge, Reply
  <2> HIDE DEF q
  <2> QED BY <2>1, <2>2, TellTame DEF Served
<1>3. CASE ~CanQueue(t, s)
  BY <1>1, <1>3 DEF Acknowledge, Served
<1> QED BY <1>2, <1>3

\* The visits that are no login.
LEMMA VisitServed ==
    ASSUME IInv, NEW s \in Slots, NEW t, Visit(s, t), ~\E u \in Users : Register(s, t, u) \/ Login(s, t, u)
    PROVE  \E e : Served(s, e)
<1>1. Serve(s, t)
  BY VisitServes
<1>2. Shaped(t) /\ t.clients = clients /\ t.calls = calls
  BY <1>1, ServeTurn, FlushedTame, FlushedSound
<1>3. CASE Disconnect(s, t) \/ Idle(s, t)
  BY <1>2, <1>3 DEF Disconnect, Idle, Served
<1>4. CASE \/ Refuse(s, t) \/ Heartbeat(s, t) \/ ListOnline(s, t)
           \/ \E invited \in SUBSET Users : CreateGroup(s, t, invited)
  <2>1. PICK p : Commit(Reply(t, s, p))
    BY <1>4 DEF Refuse, Heartbeat, ListOnline, CreateGroup
  <2> QED BY <1>2, <2>1, ReplyServed
<1>5. ASSUME NEW x, NEW len, NEW index, DropFile(s, t, x, index, len) PROVE \E e : Served(s, e)
  <2>1. PICK e, p : Shaped(e) /\ e.clients = t.clients /\ Commit(Reply(e, s, p))
    BY <1>2, <1>5, ExceptTame DEF DropFile
  <2> QED BY <1>2, <2>1, ReplyServed
<1>6. ASSUME NEW x, CompleteFile(s, t, x) PROVE \E e : Served(s, e)
  <2> DEFINE told == TellOne(t, x.receiver, Notify("file-complete", x.id))
  <2>1. Shaped(told) /\ told.clients = t.clients
    BY <1>2, TellTame DEF TellOne
  <2>2. PICK p : Commit(Reply([told EXCEPT !.transfers = @ \ {x}], s, p))
    BY <1>6 DEF CompleteFile
  <2> HIDE DEF told
  <2>3. PICK e : Shaped(e) /\ e.clients = told.clients /\ Commit(Reply(e, s, p))
    BY <2>1, <2>2, ExceptTame
  <2> QED BY <1>2, <2>1, <2>3, ReplyServed
<1>7. CASE \/ \E u \in Users : Invite(s, t, u)
           \/ \E u \in Users, size \in FileSizes : StartFile(s, t, u, size)
           \/ \E x \in transfers, len \in 1 .. MaxChunk : RelayChunk(s, t, x, len)
  BY <1>7, RelayHandlers, RelayServed
<1>8. ASSUME NEW c \in calls, NEW op \in Ops, ForwardCall(s, t, c, op) PROVE \E e : Served(s, e)
  <2>1. PICK e, p : /\ Shaped(e) /\ e.clients = clients
                    /\ \/ Commit(Reply(e, s, p))
                       \/ Commit(Relay(t, s, Peer(c, t.clients[s].user), Notify(op, c.id), e, p))
    BY <1>2, <1>8, ExceptTame DEF ForwardCall, AfterCallOp
  <2>2. CASE Commit(Reply(e, s, p))
    BY <2>1, <2>2, ReplyServed
  <2>3. ASSUME NEW u, NEW note, Commit(Relay(t, s, u, note, e, p)) PROVE \E d : Served(s, d)
    <3>1. Shaped(TellOne(e, u, note)) /\ TellOne(e, u, note).clients = clients
      BY <2>1, TellTame DEF TellOne
    <3>2. CASE CanTell(t, u)
      BY <2>3, <3>1, <3>2, ReplyServed DEF Relay
    <3>3. CASE ~CanTell(t, u)
      BY <1>2, <2>3, <3>3 DEF Relay, Served
    <3> QED BY <3>2, <3>3
  <2> QED BY <2>1, <2>2, <2>3
<1>9. CASE (\E u \in Users : Chat(s, t, u)) \/ (\E g \in DOMAIN groups : SendGroup(s, t, g))
  <2>1. PICK p, notes : Commit(Acknowledge(t, s, p, notes))
    BY <1>9 DEF Chat, SendGroup
  <2> QED BY <1>1, <2>1, AcknowledgeServed
<1> QED BY <1>3, <1>4, <1>5, <1>6, <1>7, <1>8, <1>9 DEF Visit, Dispatch
-----------------------------------------------------------------------------
(* Who is connected after closing.                                         *)

\* close_client takes the calls and transfers of its user along and touches no
\* other connection.
LEMMA CloseForgets ==
    ASSUME NEW t, Shaped(t), NEW S, NEW u
    PROVE  LET e == CloseSlots(t, S, u)
           IN  /\ Shaped(e)
               /\ \A r \in Slots : e.clients[r] = IF r \in S THEN FreeClient ELSE t.clients[r]
               /\ e.calls = {c \in t.calls : u \notin Parties(c)}
               /\ e.transfers = {x \in t.transfers : u \notin Ends(x)}
<1> DEFINE ended == {c \in t.calls : u \in Parties(c)}
           First(p) == CHOOSE c \in ended : Peer(c, u) = p /\ \A d \in ended : Peer(d, u) = p => c.id <= d.id
           closed == [clients   |-> [s \in Slots |-> IF s \in S THEN FreeClient ELSE t.clients[s]],
                      out       |-> [s \in Slots |-> IF s \in S THEN NoPacket ELSE t.out[s]],
                      calls     |-> t.calls \ ended,
                      transfers |-> {x \in t.transfers : u \notin Ends(x)}]
           notes == [p \in {Peer(c, u) : c \in ended} |-> Notify("hangup", First(p).id)]
<1>1. CloseSlots(t, S, u) = Tell(closed, notes)
  BY DEF CloseSlots
<1>2. /\ Shaped(closed)
      /\ \A r \in Slots : closed.clients[r] = IF r \in S THEN FreeClient ELSE t.clients[r]
      /\ closed.calls = {c \in t.calls : u \notin Parties(c)}
      /\ closed.transfers = {x \in t.transfers : u \notin Ends(x)}
  BY DEF Shaped, IsTables, Fields
<1> HIDE DEF closed, notes
<1>3. \E o : Tell(closed, notes) = [closed EXCEPT !.out = o]
  BY DEF Tell
<1>4. Tell(closed, notes).calls = closed.calls /\ Tell(closed, notes).transfers = closed.transfers
  BY <1>2, <1>3 DEF Shaped, IsTables, Fields
<1> QED BY <1>1, <1>2, <1>4, TellTame

\* A slot changes its user only by a login there, or by being freed.
UserStays(r) == clients'[r] = clients[r] \/ clients'[r] = FreeClient

LEMMA ServedUsers ==
    ASSUME NEW s \in Slots, NEW e, Served(s, e)
    PROVE  \A r \in Slots : UserStays(r)
<1>1. CASE Commit(e)
  BY <1>1 DEF Served, Commit, UserStays
<1>2. CASE Commit(CloseClient(e, s))
  BY <1>2, CloseForgets DEF Served, Commit, CloseClient, UserStays
<1> QED BY <1>1, <1>2 DEF Served

\* What a login leaves: its user has the served slot, or has lost that one too.
LoggedIn(s, u, e) ==
    /\ Shaped(e)
    /\ IsClient(e, s, u)
    /\ \A r \in Slots \ {s} : e.clients[r] = clients[r] \/ (clients[r].user = u /\ e.clients[r] = FreeClient)
    /\ \/ Commit(e) /\ out'[s].op = "auth"
       \/ Commit(CloseClient(e, s))

LEMMA LoginLeaves ==
    ASSUME IInv, NEW s \in Slots, NEW t, NEW u \in Users, Register(s, t, u) \/ Login(s, t, u)
    PROVE  turn = s /\ ids'.session # ids.session /\ \E e : LoggedIn(s, u, e)
<1>1. Serve(s, t) /\ StartSession(s, t, u)
  BY DEF Register, Login
<1>2. Shaped(t) /\ t.clients = clients
  BY <1>1, ServeTurn, FlushedTame, FlushedSound
<1> DEFINE others == {r \in Slots \ {s} : IsClient(t, r, u)}
           me == [open |-> TRUE, user |-> u, session |-> ids.session]
           p == Response("ok", "auth", ids.session)
           alone == IF others = {} THEN t ELSE CloseSlots(t, others, u)
<1>3. PICK a : /\ Shaped(a)
               /\ \A r \in Slots : a.clients[r] = IF r \in others THEN FreeClient ELSE clients[r]
               /\ Authenticate(t, s, u, ids.session) = [a EXCEPT !.clients[s] = me]
  <2>1. Authenticate(t, s, u, ids.session) = [alone EXCEPT !.clients[s] = me]
    BY DEF Authenticate
  <2> HIDE DEF others, me
  <2>2. Shaped(alone) /\ \A r \in Slots : alone.clients[r] = IF r \in others THEN FreeClient ELSE clients[r]
    BY <1>2, CloseForgets
  <2> HIDE DEF alone
  <2> QED BY <2>1, <2>2
<1> DEFINE b == [a EXCEPT !.clients[s] = me]
           q == [b EXCEPT !.out[s] = p]
<1>4. Shaped(b) /\ \A r \in Slots : b.clients[r] = IF r = s THEN me ELSE a.clients[r]
  BY <1>3 DEF Shaped, IsTables, Fields
<1>5. Commit(Reply(b, s, p))
  BY <1>1, <1>3 DEF StartSession
<1> HIDE DEF b
<1>6. Shaped(q) /\ q.clients = b.clients /\ q.out[s] = p
  BY <1>4 DEF Shaped, IsTables, Fields
<1>7. Commit(q) \/ Commit(CloseClient(b, s))
  BY <1>5 DEF Reply
<1>8. p.op = "auth"
  BY PacketFields
<1> HIDE DEF q, p
<1>9. \A e \in {b, q} : /\ IsClient(e, s, u)
                        /\ \A r \in Slots \ {s} : \/ e.clients[r] = clients[r]
                                                  \/ clients[r].user = u /\ e.clients[r] = FreeClient
  BY <1>2, <1>3, <1>4, <1>6 DEF IsClient
<1>10. \E e : LoggedIn(s, u, e)
  BY <1>4, <1>6, <1>7, <1>8, <1>9 DEF LoggedIn, Commit
<1> QED BY <1>1, <1>10, LoginVisit DEF Serve

\* Outside the visits a slot keeps its user and its packet, or has none.
LEMMA PassUsers ==
    ASSUME IInv, AcceptOne \/ AcceptDone \/ Sweep \/ Restart \/ (\E s \in Slots : SkipClosed(s)) \/ UNCHANGED vars
    PROVE  /\ \A r \in Slots : out'[r] = NoPacket \/ (out'[r] = out[r] /\ clients'[r] = clients[r])
           /\ \/ \A r \in Slots : clients[r].open => clients'[r] = clients[r]
              \/ calls' = {} /\ transfers' = {}
<1>1. clients \in [Slots -> Client] /\ out \in [Slots -> Packet]
  BY DEF IInv, SoundTables, Sound, SoundBut, TablesType, Tables
<1>2. CASE AcceptOne
  <2>1. PICK s \in FreeSlots : clients' = [clients EXCEPT ![s] = NewClient] /\ out' = [out EXCEPT ![s] = NoPacket]
    BY <1>2 DEF AcceptOne
  <2> QED BY <1>1, <2>1 DEF FreeSlots
<1>3. CASE Restart
  BY <1>3 DEF Restart, Commit, EmptyTables
<1>4. CASE AcceptDone \/ Sweep \/ (\E s \in Slots : SkipClosed(s)) \/ UNCHANGED vars
  BY <1>4 DEF AcceptDone, Sweep, SkipClosed, vars
<1> QED BY <1>2, <1>3, <1>4
-----------------------------------------------------------------------------
\* u is in no call and no transfer after the step; the connection served was u's and has
\* logged in as somebody, the one way to be renamed.
Forgotten(u) == (\A c \in calls' : u \notin Parties(c)) /\ (\A x \in transfers' : u \notin Ends(x))
Renamed(u) == turn \in Slots /\ IsClient(Tables, turn, u) /\ ids'.session # ids.session

LEMMA VisitForgets ==
    ASSUME IInv, NEW s \in Slots, NEW t, Visit(s, t), NEW v, NEW r \in Slots, IsClient(Tables, r, v),
           \A q \in Slots : ~(clients'[q].open /\ clients'[q].user = v)
    PROVE  Forgotten(v) \/ Renamed(v)
<1>1. clients[r].open /\ clients[r].user = v
  BY DEF IsClient, Tables
<1>2. ASSUME NEW e, Shaped(e), Commit(CloseClient(e, s))
      PROVE  /\ Forgotten(e.clients[s].user)
             /\ \A q \in Slots \ {s} : clients'[q] = e.clients[q]
  BY <1>2, CloseForgets DEF Commit, CloseClient, Forgotten
<1>3. CASE \E u \in Users : Register(s, t, u) \/ Login(s, t, u)
  <2>1. PICK u \in Users : Register(s, t, u) \/ Login(s, t, u)
    BY <1>3
  <2>2. PICK e : LoggedIn(s, u, e)
    BY <2>1, LoginLeaves
  <2>3. turn = s /\ ids'.session # ids.session
    BY <2>1, LoginLeaves
  <2>4. CASE r = s
    BY <2>3, <2>4 DEF Renamed
  <2>5. CASE r # s
    <3>1. e.clients[s].user = u /\ e.clients[s].open
      BY <2>2 DEF LoggedIn, IsClient
    <3>2. CASE e.clients[r] = clients[r]
      BY <1>1, <1>2, <2>2, <2>5, <3>2 DEF LoggedIn, Commit
    <3>3. CASE v = u
      BY <1>2, <2>2, <3>1, <3>3 DEF LoggedIn, Commit
    <3> QED BY <1>1, <2>2, <2>5, <3>2, <3>3 DEF LoggedIn
  <2> QED BY <2>4, <2>5
<1>4. CASE ~\E u \in Users : Register(s, t, u) \/ Login(s, t, u)
  <2>1. PICK e : Served(s, e)
    BY <1>4, VisitServed
  <2>2. CASE Commit(e)
    BY <1>1, <2>1, <2>2 DEF Served, Commit
  <2>3. CASE Commit(CloseClient(e, s))
    BY <1>1, <1>2, <2>1, <2>3 DEF Served
  <2> QED BY <2>1, <2>2, <2>3 DEF Served
<1> QED BY <1>3, <1>4

\* Whoever goes offline takes calls and transfers along, but for the former user of a
\* connection that logs in again: on every way through run_once close_client is the
\* only other thing that frees a slot.
THEOREM GoneUsersAreForgotten == Spec => OnlyReauthStrands
<1>1. ASSUME IInv, [Next]_vars, NEW u \in Users, Online(Tables, u), ~Online(Tables, u)'
      PROVE  Forgotten(u) \/ Renamed(u)
  <2>1. PICK r \in Slots : IsClient(Tables, r, u)
    BY <1>1 DEF Online
  <2>2. \A q \in Slots : ~(clients'[q].open /\ clients'[q].user = u)
    BY <1>1 DEF Online, IsClient, Tables
  <2>3. clients[r].open /\ clients[r].user = u
    BY <2>1 DEF IsClient, Tables
  <2>4. ASSUME NEW s \in Slots, NEW t, Visit(s, t) PROVE Forgotten(u) \/ Renamed(u)
    BY <1>1, <2>1, <2>2, <2>4, VisitForgets
  <2>5. CASE AcceptOne \/ AcceptDone \/ Sweep \/ Restart \/ (\E s \in Slots : SkipClosed(s)) \/ UNCHANGED vars
    BY <1>1, <2>2, <2>3, <2>5, PassUsers DEF Forgotten
  <2> QED BY <1>1, <2>4, <2>5, StepIs
<1>2. IInv /\ [Next]_vars =>
         [\A u \in Users : Online(Tables, u) /\ ~Online(Tables, u)' =>
            \/ (\A c \in calls' : u \notin Parties(c)) /\ (\A x \in transfers' : u \notin Ends(x))
            \/ turn \in Slots /\ IsClient(Tables, turn, u) /\ ids'.session # ids.session]_vars
  BY <1>1 DEF Forgotten, Renamed
<1> QED BY <1>2, InvariantHolds, PTL DEF Spec, OnlyReauthStrands

-----------------------------------------------------------------------------
(* Messages.                                                               *)

ChatPackets == {p \in Packet : p.kind \in {"ok", "notify"} /\ p.op \in ChatOps}

LEMMA ChatPlain == Plain(ChatPackets)
<1>1. Hushed(ChatPackets) /\ \A id : Harmless(Notify("file-complete", id), ChatPackets)
  BY PacketFields DEF Hushed, Harmless, ChatPackets, ChatOps
<1>2. \A op, id : Response("error", op, id) \notin ChatPackets
  BY PacketFields DEF ChatPackets
<1>3. \A op \in {"auth", "heartbeat", "user", "group-create", "file-complete"} : \A id :
         Response("ok", op, id) \notin ChatPackets
  BY PacketFields DEF ChatPackets, ChatOps
<1> QED BY <1>1, <1>2, <1>3 DEF Plain

LEMMA RelayCalm ==
    ASSUME IInv, NEW s \in Slots, NEW t, NEW u, NEW note, NEW after, NEW op, NEW id,
           Relays(s, t, u, note, after, op, id)
    PROVE  CalmStep(ChatPackets)
<1> DEFINE response == Response("ok", op, id)
<1>1. /\ Serve(s, t) /\ op \in RelayedOps /\ note \in Notifies /\ note.op = op
      /\ Shaped(after) /\ after.clients = t.clients /\ after.out = t.out
      /\ Commit(Relay(t, s, u, note, after, response))
  BY DEF Relays
<1>2. Shaped(t) /\ Calm(t, ChatPackets) /\ Hushed(ChatPackets)
  BY <1>1, FlushedTame, ChatPlain DEF Plain
<1>3. Harmless(note, ChatPackets) /\ response \notin ChatPackets
  BY <1>1, PacketFields DEF Harmless, ChatPackets, RelayedOps, ChatOps, CallOps, EndOps, RelayOps
<1> HIDE DEF response
<1> QED BY <1>1, <1>2, <1>3, RelayTame, CommitTame

\* Only chat and group sends queue packets about messages.
LEMMA OthersCalm ==
    ASSUME IInv, NEW s \in Slots, NEW t, Visit(s, t),
           ~\E u \in Users : Chat(s, t, u), ~\E g \in DOMAIN groups : SendGroup(s, t, g)
    PROVE  CalmStep(ChatPackets)
<1>1. CASE \/ Disconnect(s, t) \/ Idle(s, t) \/ Refuse(s, t) \/ Heartbeat(s, t) \/ ListOnline(s, t)
           \/ \E invited \in SUBSET Users : CreateGroup(s, t, invited)
           \/ \E x, len, index : DropFile(s, t, x, index, len)
           \/ \E x : CompleteFile(s, t, x)
  BY <1>1, PlainVisit, ChatPlain
<1>2. CASE \E u \in Users : Register(s, t, u) \/ Login(s, t, u)
  BY <1>2, LoginVisit, ChatPlain
<1>3. CASE \/ \E u \in Users : Invite(s, t, u)
           \/ \E u \in Users, size \in FileSizes : StartFile(s, t, u, size)
           \/ \E x \in transfers, len \in 1 .. MaxChunk : RelayChunk(s, t, x, len)
  BY <1>3, RelayHandlers, RelayCalm
<1>4. CASE \E c \in calls, op \in Ops : ForwardCall(s, t, c, op)
  BY <1>4, ForwardHandler, RelayCalm, ChatPlain
<1> QED BY <1>1, <1>2, <1>3, <1>4 DEF Visit, Dispatch

\* Who hears of a message that is acknowledged.
LEMMA ChatReaches ==
    ASSUME IInv, NEW s \in Slots, NEW t, Serve(s, t), NEW op \in ChatOps, NEW m, NEW listed,
           Commit(Acknowledge(t, s, Response("ok", op, m), [u \in listed |-> Notify(op, m)])),
           NEW r \in Slots, out'[r] # out[r], out'[r] \in ChatPackets
    PROVE  /\ out'[r].id = m
           /\ out'[r].kind = "ok" => r = s
           /\ out'[r].kind = "notify" => clients[r].user \in listed
<1> DEFINE response == Response("ok", op, m)
           notes == [u \in listed |-> Notify(op, m)]
           replied == [t EXCEPT !.out[s] = response]
<1>1. Shaped(t) /\ t.clients = clients /\ Calm(t, ChatPackets) /\ Hushed(ChatPackets)
  BY ServeTurn, FlushedTame, FlushedSound, ChatPlain DEF Plain
<1>2. response.kind = "ok" /\ response.id = m
  BY PacketFields
<1>3. \A u \in DOMAIN notes : \A to, session :
         Addressing(notes[u], to, session).kind = "notify" /\ Addressing(notes[u], to, session).id = m
  BY PacketFields
<1>4. DOMAIN notes = listed
  OBVIOUS
<1> HIDE DEF response, notes
<1>5. Commit(Acknowledge(t, s, response, notes))
  BY DEF response, notes
<1>6. CanQueue(t, s)
  BY <1>1, <1>5, CloseClientTame DEF Acknowledge, Commit, Calm
<1>7. Shaped(replied) /\ replied.clients = clients
      /\ \A q \in Slots : replied.out[q] = IF q = s THEN response ELSE t.out[q]
  BY <1>1 DEF Shaped, IsTables, Fields
<1>8. out' = Tell(replied, notes).out
  BY <1>5, <1>6 DEF Acknowledge, Reply, Commit
<1> HIDE DEF replied
<1>9. CASE out'[r] = replied.out[r]
  BY <1>1, <1>2, <1>7, <1>9 DEF Calm
<1>10. CASE clients[r].user \in DOMAIN notes
            /\ out'[r] = Addressing(notes[clients[r].user], clients[r].user, clients[r].session)
  BY <1>3, <1>4, <1>10
<1> QED BY <1>7, <1>8, <1>9, <1>10, TellTells

\* Rows of messages are added and never changed.
LEMMA MessagesStay ==
    ASSUME IInv, [Next]_vars
    PROVE  \A i \in DOMAIN messages : i \in DOMAIN messages' /\ messages'[i] = messages[i]
<1>1. messages \in Seq(Message)
  BY DEF IInv, RestTypeOK
<1>2. CASE messages' = messages
  BY <1>2
<1>3. ASSUME NEW m, messages' = Append(messages, m)
      PROVE  \A i \in DOMAIN messages : i \in DOMAIN messages' /\ messages'[i] = messages[i]
  BY <1>1, <1>3, SMTT(30)
<1>4. ASSUME NEW s \in Slots, NEW t, Visit(s, t)
      PROVE  messages' = messages \/ \E m : messages' = Append(messages, m)
  BY <1>4 DEF Visit, Dispatch, Disconnect, Idle, Refuse, Heartbeat, ListOnline, Register, Login, Chat, Invite,
             CreateGroup, SendGroup, StartFile, RelayChunk, DropFile, CompleteFile, ForwardCall, storage
<1>5. CASE AcceptOne \/ AcceptDone \/ Sweep \/ Restart \/ (\E s \in Slots : SkipClosed(s)) \/ UNCHANGED vars
  BY <1>5, <1>2 DEF AcceptOne, AcceptDone, Sweep, Restart, SkipClosed, vars, storage
<1> QED BY <1>2, <1>3, <1>4, <1>5, StepIs

\* What a packet tells user u is true of the messages m.
Tells(p, u, m) ==
    /\ p.kind = "ok" => p.id \in DOMAIN m /\ m[p.id].from = u
    /\ p.kind = "notify" => p.id \in DOMAIN m /\ u \in m[p.id].audience

\* A chat packet that is in a buffer after a visit was there before, with the same
\* user, or is about the message just stored.
LEMMA VisitStores ==
    ASSUME IInv, IInv', NEW s \in Slots, NEW t, Visit(s, t), NEW r \in Slots, out'[r] \in ChatPackets
    PROVE  \/ out'[r] = out[r] /\ clients'[r].user = clients[r].user
           \/ Tells(out'[r], clients'[r].user, messages')
<1>1. clients'[r] # FreeClient
  <2>1. Tables'.clients = clients' /\ Tables'.out = out'
    BY DEF Tables
  <2>2. ~clients'[r].open => out'[r] = NoPacket
    BY <2>1 DEF IInv, SoundTables, Sound, SoundBut, ClosedIsClean
  <2>3. FreeClient.open = FALSE /\ NoPacket \notin ChatPackets
    BY PacketFields DEF FreeClient, ChatPackets
  <2> QED BY <2>2, <2>3
<1>2. CASE \E u \in Users : Register(s, t, u) \/ Login(s, t, u)
  <2>1. PICK u \in Users : Register(s, t, u) \/ Login(s, t, u)
    BY <1>2
  <2>2. PICK e : LoggedIn(s, u, e)
    BY <2>1, LoginLeaves
  <2>3. out'[r] = out[r]
    BY <2>1, LoginVisit, ChatPlain DEF CalmStep
  <2>4. r # s
    <3>1. CASE out'[s].op = "auth"
      BY <3>1 DEF ChatPackets, ChatOps
    <3>2. CASE Commit(CloseClient(e, s))
      BY <1>1, <2>2, <3>2, CloseForgets DEF LoggedIn, Commit, CloseClient
    <3> QED BY <2>2, <3>1, <3>2 DEF LoggedIn
  <2>5. clients'[r] = e.clients[r]
    BY <2>2, <2>4, CloseForgets DEF LoggedIn, Commit, CloseClient
  <2> QED BY <1>1, <2>2, <2>3, <2>4, <2>5 DEF LoggedIn
<1>3. CASE ~\E u \in Users : Register(s, t, u) \/ Login(s, t, u)
  <2>1. clients'[r] = clients[r]
    BY <1>1, <1>3, VisitServed, ServedUsers DEF UserStays
  <2>2. CASE out'[r] = out[r]
    BY <2>1, <2>2
  <2>3. CASE out'[r] # out[r]
    <3>1. messages \in Seq(Message) /\ groups \in Seq(SUBSET Users) /\ t.clients = clients
      BY VisitServes, ServeTurn, FlushedSound DEF IInv, RestTypeOK
    <3> DEFINE m == Len(messages) + 1
               me == clients[s].user
    <3>2. ASSUME NEW audience, messages' = Append(messages, [from |-> me, audience |-> audience])
          PROVE  m \in DOMAIN messages' /\ messages'[m].from = me /\ messages'[m].audience = audience
      BY <3>1, <3>2
    <3>3. ASSUME NEW u \in Users, Chat(s, t, u) PROVE Tells(out'[r], clients'[r].user, messages')
      <4>1. /\ Serve(s, t)
            /\ messages' = Append(messages, [from |-> me, audience |-> {u}])
            /\ Commit(Acknowledge(t, s, Response("ok", "chat", m), [v \in {u} |-> Notify("chat", m)]))
        BY <3>1, <3>3 DEF Chat
      <4> HIDE DEF m
      <4> QED BY <2>1, <2>3, <3>2, <4>1, ChatReaches DEF ChatOps, Tells
    <3>4. ASSUME NEW g \in DOMAIN groups, SendGroup(s, t, g) PROVE Tells(out'[r], clients'[r].user, messages')
      <4> DEFINE others == groups[g] \ {me}
      <4>1. PICK listed \in {others, {}} :
            /\ Serve(s, t)
            /\ messages' = Append(messages, [from |-> me, audience |-> others])
            /\ Commit(Acknowledge(t, s, Response("ok", "group-send", m), [v \in listed |-> Notify("group-send", m)]))
        BY <3>1, <3>4 DEF SendGroup
      <4> HIDE DEF m, others
      <4> QED BY <2>1, <2>3, <3>2, <4>1, ChatReaches DEF ChatOps, Tells
    <3> QED BY <2>3, <3>3, <3>4, OthersCalm DEF CalmStep
  <2> QED BY <2>2, <2>3
<1> QED BY <1>2, <1>3

\* What a connection has been told about a message, or will be told by what waits in
\* its buffer, is true of what is stored: through logins that rename a connection,
\* closings in the middle of a pass and group listings that fail.
THEOREM ToldIsStored == Spec => []PendingChatIsStored
<1>1. PendingChatIsStored <=> \A r \in Slots : out[r].op \in ChatOps => Tells(out[r], clients[r].user, messages)
  BY DEF PendingChatIsStored, ChatOps, Tells
<1>2. Init => PendingChatIsStored
  BY PacketFields DEF Init, EmptyTables, PendingChatIsStored
<1>3. ASSUME IInv, IInv', PendingChatIsStored, [Next]_vars, NEW r \in Slots, out'[r].op \in ChatOps
      PROVE  Tells(out'[r], clients'[r].user, messages')
  <2>1. ASSUME out'[r] = out[r], clients'[r].user = clients[r].user
        PROVE  Tells(out'[r], clients'[r].user, messages')
    BY <1>1, <1>3, <2>1, MessagesStay DEF Tells
  <2>2. CASE out'[r].kind \notin {"ok", "notify"}
    BY <2>2 DEF Tells
  <2>3. CASE out'[r].kind \in {"ok", "notify"}
    <3>1. out'[r] \in ChatPackets
      BY <1>3, <2>3, BuffersTyped DEF ChatPackets
    <3>2. ASSUME NEW s \in Slots, NEW t, Visit(s, t) PROVE Tells(out'[r], clients'[r].user, messages')
      BY <1>3, <2>1, <3>1, <3>2, VisitStores
    <3>3. CASE AcceptOne \/ AcceptDone \/ Sweep \/ Restart \/ (\E s \in Slots : SkipClosed(s)) \/ UNCHANGED vars
      BY <1>3, <2>1, <3>1, <3>3, PassUsers, PacketFields DEF ChatPackets
    <3> QED BY <1>3, <3>2, <3>3, StepIs
  <2> QED BY <2>2, <2>3
<1>4. PendingChatIsStored' <=>
         \A r \in Slots : out'[r].op \in ChatOps => Tells(out'[r], clients'[r].user, messages')
  BY DEF PendingChatIsStored, ChatOps, Tells
<1>5. IInv /\ IInv' /\ PendingChatIsStored /\ [Next]_vars => PendingChatIsStored'
  BY <1>3, <1>4
<1> QED BY <1>2, <1>5, InvariantHolds, PTL DEF Spec

-----------------------------------------------------------------------------
(***************************************************************************)
(* The end of a call.  No visit ends a call without a word to a party that *)
(* can hear it.                                                            *)
(*                                                                         *)
(* Informed(e, c, r): in the tables e, slot r has a packet about call c or *)
(* a file notify, or its buffer is free and the call is there.  A handler  *)
(* keeps this for each slot that it does not serve and that began with a   *)
(* free buffer, and close_client keeps it too: it takes the calls of its   *)
(* user, of which there is one at most, and a free buffer gets the hangup. *)
(* When the call has ended, what is left of Informed is the packet.        *)
(***************************************************************************)

FileOps == {"file-start", "file-chunk", "file-complete"}

\* Packet p tells of call c, or takes the place of what would.
About(p, c) == (p.id = c.id /\ p.op \in CallOps) \/ p.op \in FileOps

Keeps(e, c) == \E d \in e.calls : d.id = c.id /\ Parties(d) = Parties(c)

Informed(e, c, r) == About(e.out[r], c) \/ (e.out[r] = NoPacket /\ Keeps(e, c))

\* A slot that has to hear of the end of c: a party's, with room when the step begins.
Hears(r, c) == clients[r].open /\ clients[r].user \in Parties(c) /\ out[r] = NoPacket

Informs(s, e, c) == \A r \in Slots \ {s} : Hears(r, c) => Informed(e, c, r)

Orderly(e) == Shaped(e) /\ OneCall(e) /\ \A d \in e.calls : d.id \in Nat

\* The step tells of the end of c.
Tactful(c) == Ended(c) => ToldOfEnd(c)

LEMMA StateFacts ==
    ASSUME IInv
    PROVE  /\ Orderly(Tables) /\ OnePerUser(Tables) /\ calls \subseteq Call
           /\ Tables.clients = clients /\ Tables.out = out /\ Tables.calls = calls
           /\ \A r \in Slots : clients[r].user \in Users => clients[r].open
<1>1. Sound(Tables) /\ Tables \in TablesType
  BY DEF IInv, SoundTables, Sound, SoundBut
<1>2. Tables.clients = clients /\ Tables.out = out /\ Tables.calls = calls
  BY DEF Tables
<1>3. Shaped(Tables)
  BY <1>1 DEF TablesType, Shaped, IsTables, Fields
<1>4. FreeClient.user \notin Users
  BY ServerAssumption DEF FreeClient
<1> QED BY <1>1, <1>2, <1>3, <1>4 DEF Sound, SoundBut, TablesType, Call, Orderly, ClosedIsClean

\* Closing the connections S of user u: a slot of somebody else stays informed.
LEMMA CloseInforms ==
    ASSUME NEW e, Orderly(e), OnePerUser(e), NEW S, NEW u, NEW c, NEW r \in Slots \ S,
           e.clients[r].open, e.clients[r].user \in Parties(c) \ {u}, e.clients[r].user \in Users,
           Informed(e, c, r)
    PROVE  Informed(CloseSlots(e, S, u), c, r)
<1> DEFINE v == e.clients[r].user
           ended == {d \in e.calls : u \in Parties(d)}
           First(p) == CHOOSE d \in ended : Peer(d, u) = p /\ \A f \in ended : Peer(f, u) = p => d.id <= f.id
           closed == [clients   |-> [s \in Slots |-> IF s \in S THEN FreeClient ELSE e.clients[s]],
                      out       |-> [s \in Slots |-> IF s \in S THEN NoPacket ELSE e.out[s]],
                      calls     |-> e.calls \ ended,
                      transfers |-> {x \in e.transfers : u \notin Ends(x)}]
           notes == [p \in {Peer(d, u) : d \in ended} |-> Notify("hangup", First(p).id)]
           after == CloseSlots(e, S, u)
<1>1. after = Tell(closed, notes)
  BY DEF CloseSlots
<1>2. /\ Shaped(closed) /\ closed.out[r] = e.out[r]
      /\ \A q \in Slots : closed.clients[q] = IF q \in S THEN FreeClient ELSE e.clients[q]
  BY DEF Shaped, IsTables, Fields
<1>3. after.calls = {d \in e.calls : u \notin Parties(d)}
  BY CloseForgets DEF Orderly
<1>4. DOMAIN notes = {Peer(d, u) : d \in ended}
  OBVIOUS
<1>5. \A p \in DOMAIN notes : notes[p] = Notify("hangup", First(p).id)
  OBVIOUS
<1> HIDE DEF closed, notes, after
<1>6. CASE About(e.out[r], c)
  <2>1. e.out[r] # NoPacket
    BY <1>6 DEF About, NoPacket, FileOps, CallOps, EndOps, RelayOps
  <2>2. after.out[r] = e.out[r]
    BY <1>1, <1>2, <2>1, TellTells
  <2> QED BY <1>6, <2>2 DEF Informed, after
<1>7. CASE e.out[r] = NoPacket /\ Keeps(e, c)
  <2>1. PICK d \in e.calls : d.id = c.id /\ Parties(d) = Parties(c)
    BY <1>7 DEF Keeps
  <2>2. v \in Parties(d) /\ v # u
    BY <2>1
  <2>3. CASE u \notin Parties(d)
    <3>1. v \notin DOMAIN notes
      <4> SUFFICES ASSUME NEW f \in e.calls, u \in Parties(f), Peer(f, u) = v PROVE FALSE
        BY <1>4
      <4>1. v \in Parties(f)
        BY DEF Peer, Parties
      <4> QED BY <2>2, <2>3, <4>1 DEF Orderly, OneCall
    <3>2. after.out[r] = e.out[r]
      BY <1>1, <1>2, <3>1, TellTells
    <3> QED BY <1>3, <1>7, <2>1, <2>3, <3>2 DEF Informed, Keeps, after
  <2>4. CASE u \in Parties(d)
    <3>1. Peer(d, u) = v
      BY <2>2, <2>4 DEF Peer, Parties
    <3>2. ended = {d}
      BY <2>4 DEF Orderly, OneCall
    <3>3. First(v) = d
      <4>1. d.id <= d.id
        BY DEF Orderly
      <4> QED BY <3>1, <3>2, <4>1
    <3>4. v \in DOMAIN notes
      BY <1>4, <3>1, <3>2
    <3> HIDE DEF First, ended, v
    <3>5. notes[v] = Notify("hangup", c.id)
      BY <1>5, <2>1, <3>3, <3>4
    <3>6. closed.clients[r] = e.clients[r] /\ closed.clients[r].user = v /\ IsClient(closed, r, v)
      BY <1>2 DEF IsClient, v
    <3>7. OnePerUser(closed)
      BY <1>2 DEF OnePerUser, FreeClient
    <3>8. ClientOf(closed, v) = r
      BY <3>6, <3>7, ClientOfIsUnique DEF v
    <3>9. CanTell(closed, v)
      BY <1>2, <1>7, <3>6, <3>8 DEF CanTell, CanQueue, Online, IsClient
    <3>10. after.out[r] = Addressing(notes[v], v, closed.clients[r].session)
      BY <1>1, <1>2, <3>4, <3>6, <3>8, <3>9, TellTells
    <3>11. after.out[r].op = "hangup" /\ after.out[r].id = c.id
      BY <3>5, <3>10, PacketFields
    <3> QED BY <3>11 DEF Informed, About, CallOps, EndOps, after
  <2> QED BY <2>3, <2>4
<1> QED BY <1>6, <1>7 DEF Informed

\* Telling a user keeps the others informed, and the user too if it is about c.
LEMMA TellInforms ==
    ASSUME NEW s \in Slots, NEW e, Shaped(e), e.clients = clients, NEW c, Informs(s, e, c),
           NEW u, NEW note \in Notifies, u \notin Parties(c) \/ About(note, c)
    PROVE  Informs(s, TellOne(e, u, note), c)
<1> SUFFICES ASSUME NEW r \in Slots \ {s}, Hears(r, c)
             PROVE  Informed(TellOne(e, u, note), c, r)
  BY DEF Informs
<1> DEFINE told == TellOne(e, u, note)
<1>1. Informed(e, c, r)
  BY DEF Informs
<1>2. told.calls = e.calls
  BY DEF TellOne, Tell, Shaped, IsTables, Fields
<1>3. \/ told.out[r] = e.out[r]
      \/ e.out[r] = NoPacket /\ clients[r].user = u /\ told.out[r] = Addressing(note, u, clients[r].session)
  BY TellTells DEF TellOne
<1>4. \A session : About(note, c) => About(Addressing(note, u, session), c)
  BY PacketFields DEF About
<1> HIDE DEF told
<1>5. Informed(told, c, r)
  BY <1>1, <1>2, <1>3, <1>4 DEF Informed, Keeps, Hears
<1> QED BY <1>5 DEF told

\* A step that leaves tables in which everybody else is informed, and the served
\* slot if it goes on.
LEMMA CommitTactful ==
    ASSUME IInv, NEW s \in Slots, NEW e, Commit(e), NEW c \in calls,
           \A r \in Slots \ {s} : Hears(r, c) /\ clients'[r] = clients[r] => Informed(e, c, r),
           clients'[s] = clients[s] => Keeps(e, c) \/ About(e.out[s], c)
    PROVE  Tactful(c)
<1> SUFFICES ASSUME Ended(c), NEW r \in Slots, clients'[r] = clients[r], clients[r].user \in Parties(c),
                    out[r] = NoPacket
             PROVE  About(out'[r], c)
  BY DEF Tactful, ToldOfEnd, About, FileOps
<1>1. Hears(r, c)
  BY StateFacts DEF Hears, Call, Parties
<1>2. calls' = e.calls /\ out' = e.out
  BY DEF Commit
<1>3. ~Keeps(e, c)
  BY <1>2 DEF Keeps, Ended
<1> QED BY <1>1, <1>2, <1>3 DEF Informed

\* The served connection is closed after the handler's own effects.
LEMMA CloseTactful ==
    ASSUME IInv, NEW s \in Slots, clients[s].open, NEW e, Orderly(e), e.clients = clients, NEW c \in calls,
           Informs(s, e, c), Commit(CloseClient(e, s))
    PROVE  Tactful(c)
<1>1. clients'[s] # clients[s]
  BY CloseForgets DEF CloseClient, Commit, Orderly, FreeClient
<1>2. ASSUME NEW r \in Slots \ {s}, Hears(r, c) PROVE Informed(CloseClient(e, s), c, r)
  <2>1. OnePerUser(e)
    BY StateFacts DEF OnePerUser
  <2>2. clients[r].user \in Users /\ NoUser \notin Users
    BY <1>2, StateFacts, ServerAssumption DEF Hears, Call, Parties
  <2>3. clients[r].user # clients[s].user
    BY <2>1, <2>2 DEF OnePerUser
  <2> QED BY <1>2, <2>1, <2>2, <2>3, CloseInforms DEF CloseClient, Informs, Hears
<1> QED BY <1>1, <1>2, CommitTactful

LEMMA ReplyTactful ==
    ASSUME IInv, NEW s \in Slots, clients[s].open, NEW e, Orderly(e), e.clients = clients, NEW c \in calls,
           Informs(s, e, c), NEW p, Keeps(e, c) \/ About(p, c), Commit(Reply(e, s, p))
    PROVE  Tactful(c)
<1> DEFINE q == [e EXCEPT !.out[s] = p]
<1>1. CASE Commit(q)
  <2>1. q.calls = e.calls /\ \A r \in Slots : q.out[r] = IF r = s THEN p ELSE e.out[r]
    BY DEF Orderly, Shaped, IsTables, Fields
  <2> HIDE DEF q
  <2>2. \A r \in Slots \ {s} : Hears(r, c) => Informed(q, c, r)
    BY <2>1 DEF Informs, Informed, Keeps
  <2>3. Keeps(q, c) \/ About(q.out[s], c)
    BY <2>1 DEF Keeps
  <2> QED BY <1>1, <2>2, <2>3, CommitTactful
<1>2. CASE Commit(CloseClient(e, s))
  BY <1>2, CloseTactful
<1> QED BY <1>1, <1>2 DEF Reply

LEMMA FlushedInforms ==
    ASSUME IInv, NEW s \in Slots, NEW t, Serve(s, t), NEW c \in calls
    PROVE  /\ Orderly(t) /\ t.clients = clients /\ t.calls = calls /\ clients[s].open
           /\ Keeps(t, c) /\ Informs(s, t, c)
           /\ \A r \in Slots : out[r] = NoPacket => t.out[r] = NoPacket
<1>1. Shaped(t) /\ t.clients = clients /\ t.calls = calls /\ clients[s].open
  BY ServeTurn, FlushedTame, FlushedSound
<1>2. \A r \in Slots : out[r] = NoPacket => t.out[r] = NoPacket
  <2>1. CASE t = Tables
    BY <2>1, StateFacts
  <2>2. CASE t = [Tables EXCEPT !.out[s] = NoPacket]
    <3>1. t.out = [out EXCEPT ![s] = NoPacket]
      BY <2>2 DEF Tables
    <3>2. out \in [Slots -> Packet]
      BY DEF IInv, SoundTables, Sound, SoundBut, TablesType, Tables
    <3> QED BY <3>1, <3>2
  <2> QED BY <2>1, <2>2 DEF Serve, Flushed
<1>3. Keeps(t, c)
  BY <1>1 DEF Keeps
<1>4. Orderly(t)
  BY <1>1, StateFacts DEF Orderly, OneCall
<1> QED BY <1>1, <1>2, <1>3, <1>4 DEF Informs, Informed, Hears

\* The tables with other transfers, or with calls that keep c.
LEMMA WithoutTransfers ==
    ASSUME NEW e, Orderly(e), NEW X, NEW s, NEW c
    PROVE  LET d == [e EXCEPT !.transfers = X]
           IN  /\ Orderly(d) /\ d.clients = e.clients /\ d.out = e.out /\ d.calls = e.calls
               /\ Informs(s, e, c) => Informs(s, d, c)
               /\ Keeps(e, c) => Keeps(d, c)
<1> DEFINE d == [e EXCEPT !.transfers = X]
<1>1. Shaped(d) /\ d.clients = e.clients /\ d.out = e.out /\ d.calls = e.calls
  BY DEF Orderly, Shaped, IsTables, Fields
<1> HIDE DEF d
<1>2. Orderly(d) /\ (Informs(s, e, c) => Informs(s, d, c)) /\ (Keeps(e, c) => Keeps(d, c))
  BY <1>1 DEF Orderly, OneCall, Informs, Informed, Keeps
<1> QED BY <1>1, <1>2 DEF d

-----------------------------------------------------------------------------
(* The handlers.                                                           *)

\* A call that stays has not ended.
LEMMA StaysTactful ==
    ASSUME NEW c \in calls, c \in calls'
    PROVE  Tactful(c)
BY DEF Tactful, Ended

\* Passing something on, in a handler that keeps the call, or ends it and tells.
LEMMA RelayTactful ==
    ASSUME IInv, NEW s \in Slots, NEW t, Serve(s, t), NEW c \in calls,
           NEW u \in Users, NEW note \in Notifies, u \notin Parties(c) \/ About(note, c),
           NEW after, Orderly(after), after.clients = clients, after.out = t.out, NEW p,
           \/ Keeps(after, c)
           \/ About(p, c) /\ About(note, c) /\ \A r \in Slots \ {s} : clients[r].user \in Parties(c) => clients[r].user = u,
           Commit(Relay(t, s, u, note, after, p))
    PROVE  Tactful(c)
<1> DEFINE told == TellOne(after, u, note)
<1>1. /\ Orderly(t) /\ t.clients = clients /\ clients[s].open /\ Informs(s, t, c)
      /\ \A r \in Slots : out[r] = NoPacket => t.out[r] = NoPacket
  BY FlushedInforms
<1>2. CASE ~CanTell(t, u)
  BY <1>1, <1>2, CloseTactful DEF Relay
<1>3. CASE CanTell(t, u)
  <2>1. Shaped(told) /\ told.clients = clients /\ told.calls = after.calls
    <3>1. Shaped(told) /\ told.clients = after.clients
      BY TellTame DEF TellOne, Orderly
    <3>2. told.calls = after.calls
      BY DEF TellOne, Tell, Orderly, Shaped, IsTables, Fields
    <3> QED BY <3>1, <3>2
  <2>2. Orderly(told) /\ (Keeps(after, c) => Keeps(told, c))
    BY <2>1 DEF Orderly, OneCall, Keeps
  <2>3. Informs(s, told, c)
    <3>1. CASE Keeps(after, c)
      <4>1. Informs(s, after, c)
        BY <1>1, <3>1 DEF Informs, Informed, Hears
      <4> QED BY <4>1, TellInforms DEF Orderly
    <3>2. CASE About(note, c) /\ \A r \in Slots \ {s} : clients[r].user \in Parties(c) => clients[r].user = u
      <4> SUFFICES ASSUME NEW r \in Slots \ {s}, Hears(r, c) PROVE About(told.out[r], c)
        BY DEF Informs, Informed
      <4>1. clients[r].user = u /\ IsClient(after, r, u) /\ IsClient(t, r, u)
        BY <1>1, <3>2 DEF Hears, IsClient
      <4>2. OnePerUser(after) /\ OnePerUser(t)
        BY <1>1, StateFacts DEF OnePerUser
      <4>3. ClientOf(after, u) = r /\ ClientOf(t, u) = r
        BY <4>1, <4>2, ClientOfIsUnique
      <4>4. CanTell(after, u)
        BY <1>1, <1>3, <4>1, <4>3 DEF CanTell, CanQueue, Online, IsClient
      <4>5. told.out[r] = Addressing(note, u, after.clients[r].session)
        BY <4>1, <4>3, <4>4, TellTells DEF TellOne, Orderly, IsClient
      <4> QED BY <3>2, <4>5, PacketFields DEF About
    <3> QED BY <3>1, <3>2
  <2>4. Commit(Reply(told, s, p))
    BY <1>3 DEF Relay
  <2> HIDE DEF told
  <2> QED BY <1>1, <2>1, <2>2, <2>3, <2>4, ReplyTactful
<1> QED BY <1>2, <1>3

LEMMA QuietTactful ==
    ASSUME IInv, NEW s \in Slots, NEW t, NEW c \in calls,
           \/ Disconnect(s, t) \/ Idle(s, t) \/ Refuse(s, t) \/ Heartbeat(s, t) \/ ListOnline(s, t)
           \/ \E invited \in SUBSET Users : CreateGroup(s, t, invited)
    PROVE  Tactful(c)
<1>1. Serve(s, t)
  BY DEF Disconnect, Idle, Refuse, Heartbeat, ListOnline, CreateGroup
<1>2. Orderly(t) /\ t.clients = clients /\ t.calls = calls /\ clients[s].open /\ Keeps(t, c) /\ Informs(s, t, c)
  BY <1>1, FlushedInforms
<1>3. CASE Disconnect(s, t)
  BY <1>2, <1>3, CloseTactful DEF Disconnect
<1>4. CASE Idle(s, t)
  BY <1>2, <1>4, StaysTactful DEF Idle, Commit
<1>5. CASE \/ Refuse(s, t) \/ Heartbeat(s, t) \/ ListOnline(s, t)
           \/ \E invited \in SUBSET Users : CreateGroup(s, t, invited)
  <2>1. PICK p : Commit(Reply(t, s, p))
    BY <1>5 DEF Refuse, Heartbeat, ListOnline, CreateGroup
  <2> QED BY <1>2, <2>1, ReplyTactful
<1> QED BY <1>3, <1>4, <1>5

LEMMA ChatTactful ==
    ASSUME IInv, NEW s \in Slots, NEW t, NEW c \in calls,
           (\E u \in Users : Chat(s, t, u)) \/ (\E g \in DOMAIN groups : SendGroup(s, t, g))
    PROVE  Tactful(c)
<1>1. PICK p, notes : Serve(s, t) /\ Commit(Acknowledge(t, s, p, notes))
  BY DEF Chat, SendGroup
<1>2. Orderly(t) /\ t.clients = clients /\ t.calls = calls /\ clients[s].open /\ Informs(s, t, c)
  BY <1>1, FlushedInforms
<1>3. CASE ~CanQueue(t, s)
  BY <1>1, <1>2, <1>3, CloseTactful DEF Acknowledge
<1>4. CASE CanQueue(t, s)
  <2> DEFINE q == [t EXCEPT !.out[s] = p]
  <2>1. q.calls = calls /\ Shaped(q)
    BY <1>2 DEF Orderly, Shaped, IsTables, Fields
  <2>2. Commit(Tell(q, notes))
    BY <1>1, <1>4 DEF Acknowledge, Reply
  <2> HIDE DEF q
  <2>3. Tell(q, notes).calls = q.calls
    BY <2>1 DEF Tell, Shaped, IsTables, Fields
  <2> QED BY <2>1, <2>2, <2>3, StaysTactful DEF Commit
<1> QED BY <1>3, <1>4

LEMMA FileTactful ==
    ASSUME IInv, NEW s \in Slots, NEW t, NEW c \in calls,
           \/ \E u \in Users, size \in FileSizes : StartFile(s, t, u, size)
           \/ \E x \in transfers, len \in 1 .. MaxChunk : RelayChunk(s, t, x, len)
           \/ \E x \in transfers : \E index, len : DropFile(s, t, x, index, len)
           \/ \E x \in transfers : CompleteFile(s, t, x)
    PROVE  Tactful(c)
<1>1. Serve(s, t) /\ ids.transfer \in Nat
  BY DEF StartFile, RelayChunk, DropFile, CompleteFile, IInv, RestTypeOK
<1>2. Orderly(t) /\ t.clients = clients /\ t.calls = calls /\ clients[s].open /\ Keeps(t, c) /\ Informs(s, t, c)
  BY <1>1, FlushedInforms
<1>3. transfers \subseteq Transfer
  BY DEF IInv, SoundTables, Sound, SoundBut, TablesType, Tables
<1>4. ASSUME NEW u \in Users, NEW note \in Notifies, note.op \in FileOps, NEW X, NEW p,
             Commit(Relay(t, s, u, note, [t EXCEPT !.transfers = X], p))
      PROVE  Tactful(c)
  <2> DEFINE after == [t EXCEPT !.transfers = X]
  <2>1. Orderly(after) /\ after.clients = clients /\ after.out = t.out /\ Keeps(after, c)
    BY <1>2, WithoutTransfers
  <2>2. About(note, c)
    BY <1>4 DEF About
  <2> HIDE DEF after
  <2>3. Commit(Relay(t, s, u, note, after, p))
    BY <1>4 DEF after
  <2> QED BY <1>1, <1>4, <2>1, <2>2, <2>3, RelayTactful
<1>5. ASSUME NEW u \in Users, NEW size \in FileSizes, StartFile(s, t, u, size) PROVE Tactful(c)
  <2> DEFINE note == StartNotify(ids.transfer, size)
  <2>1. note \in Notifies /\ note.op \in FileOps
    BY <1>1, ConstantTypes, ServerAssumption DEF StartNotify, Notify, NoPacket, FileOps
  <2>2. PICK X, p : Commit(Relay(t, s, u, note, [t EXCEPT !.transfers = X], p))
    BY <1>5 DEF StartFile
  <2> HIDE DEF note
  <2> QED BY <1>4, <2>1, <2>2
<1>6. ASSUME NEW x \in transfers, NEW len \in 1 .. MaxChunk, RelayChunk(s, t, x, len) PROVE Tactful(c)
  <2> DEFINE note == ChunkNotify(x.id, x.next, len)
  <2>1. x.receiver \in Users /\ x.id \in Nat /\ x.next \in Nat /\ len \in Nat
    BY <1>3, ServerAssumption DEF Transfer
  <2>2. note \in Notifies /\ note.op \in FileOps
    BY <2>1, ConstantTypes DEF ChunkNotify, Notify, NoPacket, FileOps
  <2>3. PICK X, p : Commit(Relay(t, s, x.receiver, note, [t EXCEPT !.transfers = X], p))
    BY <1>6 DEF RelayChunk
  <2> HIDE DEF note
  <2> QED BY <1>4, <2>1, <2>2, <2>3
<1>7. ASSUME NEW x \in transfers, NEW index, NEW len, DropFile(s, t, x, index, len) PROVE Tactful(c)
  <2>1. PICK e, p : /\ Commit(Reply(e, s, p)) /\ Orderly(e) /\ e.clients = clients
                    /\ Informs(s, e, c) /\ Keeps(e, c)
    BY <1>2, <1>7, WithoutTransfers DEF DropFile
  <2> QED BY <1>2, <2>1, ReplyTactful
<1>8. ASSUME NEW x \in transfers, CompleteFile(s, t, x) PROVE Tactful(c)
  <2> DEFINE note == Notify("file-complete", x.id)
             told == TellOne(t, x.receiver, note)
  <2>1. note \in Notifies /\ About(note, c)
    BY <1>3, ConstantTypes, PacketFields DEF Transfer, Ops, About, FileOps, Notify, NoPacket
  <2>2. PICK p : Commit(Reply([told EXCEPT !.transfers = @ \ {x}], s, p))
    BY <1>8 DEF CompleteFile
  <2> HIDE DEF note
  <2>3. Informs(s, told, c)
    BY <1>2, <2>1, TellInforms DEF Orderly
  <2>4. Shaped(told) /\ told.clients = clients
    BY <1>2, TellTame DEF TellOne, Orderly
  <2>5. told.calls = calls
    BY <1>2 DEF TellOne, Tell, Orderly, Shaped, IsTables, Fields
  <2>6. Orderly(told) /\ Keeps(told, c)
    BY <1>2, <2>4, <2>5 DEF Orderly, OneCall, Keeps
  <2> HIDE DEF told
  <2>7. PICK e : /\ Commit(Reply(e, s, p)) /\ Orderly(e) /\ e.clients = clients
                 /\ Informs(s, e, c) /\ Keeps(e, c)
    BY <2>2, <2>3, <2>4, <2>6, WithoutTransfers
  <2> QED BY <1>2, <2>7, ReplyTactful
<1> QED BY <1>5, <1>6, <1>7, <1>8

\* The tables with other calls.
LEMMA WithOtherCalls ==
    ASSUME NEW t, Orderly(t), NEW X, \A a, b \in X : a # b => Parties(a) \cap Parties(b) = {},
           \A d \in X : d.id \in Nat
    PROVE  LET e == [t EXCEPT !.calls = X]
           IN  Orderly(e) /\ e.clients = t.clients /\ e.out = t.out /\ e.calls = X
<1> DEFINE e == [t EXCEPT !.calls = X]
<1>1. Shaped(e) /\ e.clients = t.clients /\ e.out = t.out /\ e.calls = X
  BY DEF Orderly, Shaped, IsTables, Fields
<1> HIDE DEF e
<1>2. Orderly(e)
  BY <1>1 DEF Orderly, OneCall
<1> QED BY <1>1, <1>2 DEF e

LEMMA InviteTactful ==
    ASSUME IInv, NEW s \in Slots, NEW t, NEW c \in calls, NEW to \in Users, Invite(s, t, to)
    PROVE  Tactful(c)
<1> DEFINE me == t.clients[s].user
           new == [id |-> ids.call, caller |-> me, callee |-> to, accepted |-> FALSE]
           after == [t EXCEPT !.calls = @ \cup {new}]
           note == Notify("invite", ids.call)
<1>1. Serve(s, t) /\ ids.call \in Nat
  BY DEF Invite, IInv, RestTypeOK
<1>2. Orderly(t) /\ t.clients = clients /\ t.calls = calls
  BY <1>1, FlushedInforms
<1>3. ~Busy(t, me) /\ ~Busy(t, to)
  BY DEF Invite
<1>4. Parties(new) = {me, to} /\ new.id = ids.call
  BY DEF Parties
<1>5. Commit(Relay(t, s, to, note, after, Response("ok", "invite", ids.call)))
  BY DEF Invite
<1> HIDE DEF new, me
<1>6. \A d \in calls : Parties(d) \cap {me, to} = {}
  BY <1>2, <1>3 DEF Busy
<1>7. /\ \A a, b \in t.calls \cup {new} : a # b => Parties(a) \cap Parties(b) = {}
      /\ \A d \in t.calls \cup {new} : d.id \in Nat
  BY <1>1, <1>2, <1>4, <1>6 DEF Orderly, OneCall
<1>8. Orderly(after) /\ after.clients = clients /\ after.out = t.out /\ after.calls = t.calls \cup {new}
  BY <1>2, <1>7, WithOtherCalls
<1> HIDE DEF after
<1>9. Keeps(after, c)
  BY <1>2, <1>8 DEF Keeps
<1>10. note \in Notifies /\ to \notin Parties(c)
  BY <1>1, <1>6, ConstantTypes DEF Ops, CallOps
<1> HIDE DEF note
<1> QED BY <1>1, <1>5, <1>8, <1>9, <1>10, RelayTactful

LEMMA ForwardTactful ==
    ASSUME IInv, NEW s \in Slots, NEW t, NEW c \in calls, NEW d \in calls, NEW op \in Ops, ForwardCall(s, t, d, op)
    PROVE  Tactful(c)
<1> DEFINE me == clients[s].user
           peer == Peer(d, me)
           note == Notify(op, d.id)
           left == [t EXCEPT !.calls = @ \ {d}]
<1>1. Serve(s, t) /\ op \in CallOps
  BY DEF ForwardCall
<1>2. Orderly(t) /\ t.clients = clients /\ t.calls = calls /\ clients[s].open /\ Informs(s, t, c)
  BY <1>1, FlushedInforms
<1>3. d \in Call /\ c \in Call /\ me \in Parties(d) /\ d.id \in Nat
  BY <1>2, StateFacts DEF ForwardCall, MaySend, Call, Parties
<1>4. peer \in Users /\ Parties(d) = {me, peer}
  BY <1>3 DEF Call, Peer, Parties
<1>5. c # d => Parties(c) \cap {me, peer} = {}
  BY <1>2, <1>4 DEF Orderly, OneCall
<1>6. /\ Orderly(left) /\ left.clients = clients /\ left.out = t.out /\ left.calls = calls \ {d}
      /\ c # d => Keeps(left, c)
  <2>1. Orderly(left) /\ left.clients = clients /\ left.out = t.out /\ left.calls = calls \ {d}
    BY <1>2, WithOtherCalls DEF Orderly, OneCall
  <2> QED BY <2>1 DEF Keeps
<1>7. note \in Notifies /\ (c = d => About(note, c)) /\ \A k : c = d => About(Response(k, op, d.id), c)
  <2>1. note \in Notifies /\ note.id = d.id /\ note.op = op
    <3>1. op \in Ops /\ d.id \in Nat
      BY <1>3
    <3>2. note \in Notifies
      BY <3>1, ConstantTypes
    <3> QED BY <3>2 DEF Notify, NoPacket
  <2>2. \A k : Response(k, op, d.id).op = op /\ Response(k, op, d.id).id = d.id
    BY PacketFields
  <2> HIDE DEF note
  <2> QED BY <1>1, <2>1, <2>2 DEF About
<1>8. \A r \in Slots \ {s} : c = d /\ clients[r].user \in Parties(c) => clients[r].user = peer
  <2>1. OnePerUser(Tables) /\ Tables.clients = clients /\ NoUser \notin Users
    BY StateFacts, ServerAssumption
  <2>2. \A r \in Slots \ {s} : clients[r].user # me
    BY <1>3, <2>1 DEF OnePerUser, Call, Parties
  <2> QED BY <1>4, <2>2
<1> HIDE DEF note, peer
<1>9. CASE /\ ~Online(t, peer)
           /\ Commit(Reply(left, s, Response("error", op, d.id)))
  <2>1. Informs(s, left, c)
    <3> SUFFICES ASSUME NEW r \in Slots \ {s}, Hears(r, c) PROVE Informed(left, c, r)
      BY DEF Informs
    <3>1. c # d
      BY <1>2, <1>8, <1>9 DEF Online, IsClient, Hears
    <3> QED BY <1>2, <1>6, <3>1 DEF Informs, Informed, About, Hears, Keeps
  <2>2. Keeps(left, c) \/ About(Response("error", op, d.id), c)
    BY <1>6, <1>7
  <2> HIDE DEF left
  <2> QED BY <1>2, <1>6, <1>9, <2>1, <2>2, ReplyTactful
<1>10. CASE Commit(Relay(t, s, peer, note, AfterCallOp(t, d, op), Response("ok", op, d.id)))
  <2> DEFINE after == AfterCallOp(t, d, op)
             accepted == [d EXCEPT !.accepted = TRUE]
  <2>1. accepted.id = d.id /\ Parties(accepted) = Parties(d)
    BY <1>3 DEF Call, Parties
  <2> HIDE DEF accepted
  <2>2. PICK X \in {calls \ {d}, (calls \ {d}) \cup {accepted}, (calls \ {d}) \cup {d}} :
             after = [t EXCEPT !.calls = X]
    BY <1>2 DEF AfterCallOp, accepted
  <2>3. (\A a, b \in X : a # b => Parties(a) \cap Parties(b) = {}) /\ \A a \in X : a.id \in Nat
    BY <1>2, <2>1 DEF Orderly, OneCall
  <2>4. Orderly(after) /\ after.clients = clients /\ after.out = t.out /\ after.calls = X
    BY <1>2, <2>2, <2>3, WithOtherCalls
  <2>5. c # d => Keeps(after, c)
    BY <2>4 DEF Keeps
  <2> HIDE DEF after
  <2>6. Commit(Relay(t, s, peer, note, after, Response("ok", op, d.id)))
    BY <1>10 DEF after
  <2>7. CASE c # d
    <3>1. peer \notin Parties(c)
      BY <1>5, <2>7
    <3> QED BY <1>1, <1>4, <1>7, <2>4, <2>5, <2>6, <2>7, <3>1, RelayTactful
  <2>8. CASE c = d
    BY <1>1, <1>4, <1>7, <1>8, <2>4, <2>6, <2>8, RelayTactful
  <2> QED BY <2>7, <2>8
<1>11. t.clients[s].user = me
  BY <1>2
<1> QED BY <1>9, <1>10, <1>11 DEF ForwardCall, peer, note

\* A login ends its user's calls, in the older connection or in the one it is lost with.
LEMMA LoginTactful ==
    ASSUME IInv, NEW s \in Slots, NEW t, NEW c \in calls, NEW u \in Users, Register(s, t, u) \/ Login(s, t, u)
    PROVE  Tactful(c)
<1> DEFINE others == {r \in Slots \ {s} : IsClient(t, r, u)}
           alone == IF others = {} THEN t ELSE CloseSlots(t, others, u)
           me == [open |-> TRUE, user |-> u, session |-> ids.session]
           b == [alone EXCEPT !.clients[s] = me]
           p == Response("ok", "auth", ids.session)
           q == [b EXCEPT !.out[s] = p]
<1>1. Serve(s, t) /\ StartSession(s, t, u)
  BY DEF Register, Login
<1>2. /\ Orderly(t) /\ t.clients = clients /\ t.calls = calls /\ clients[s].open
      /\ Keeps(t, c) /\ Informs(s, t, c) /\ OnePerUser(t)
  BY <1>1, FlushedInforms, StateFacts DEF OnePerUser
<1>3. Commit(Reply(b, s, p))
  BY <1>1 DEF StartSession, Authenticate
<1>4. \A r \in Slots \ {s} : Hears(r, c) => clients[r].user \in Users
  BY StateFacts DEF Hears, Call, Parties
<1>5. /\ Shaped(alone)
      /\ \A r \in Slots : alone.clients[r] = IF r \in others THEN FreeClient ELSE clients[r]
      /\ alone.calls \subseteq calls
      /\ others = {} => alone.calls = calls
  <2> HIDE DEF others
  <2> QED BY <1>2, CloseForgets DEF Orderly
<1>6. Orderly(alone)
  BY <1>2, <1>5 DEF Orderly, OneCall
<1>7. \A r \in Slots \ {s} : Hears(r, c) /\ r \notin others => clients[r].user # u
  BY <1>2 DEF Hears, IsClient
<1>8. \A r \in Slots \ {s} : Hears(r, c) /\ r \notin others => Informed(alone, c, r)
  <2> SUFFICES ASSUME NEW r \in Slots \ {s}, Hears(r, c), r \notin others PROVE Informed(alone, c, r)
    OBVIOUS
  <2>1. Informed(t, c, r)
    BY <1>2 DEF Informs
  <2>2. clients[r].user # u /\ clients[r].user \in Users
    BY <1>4, <1>7
  <2> HIDE DEF others
  <2>3. Informed(CloseSlots(t, others, u), c, r)
    BY <1>2, <2>1, <2>2, CloseInforms DEF Hears
  <2> QED BY <2>1, <2>3
<1>9. OnePerUser(b) /\ Orderly(b) /\ b.out = alone.out /\ b.calls = alone.calls
      /\ \A r \in Slots : b.clients[r] = IF r = s THEN me ELSE alone.clients[r]
  <2>1. Shaped(b) /\ b.out = alone.out /\ b.calls = alone.calls
        /\ \A r \in Slots : b.clients[r] = IF r = s THEN me ELSE alone.clients[r]
    BY <1>5 DEF Shaped, IsTables, Fields
  <2> HIDE DEF b, alone
  <2>2. Orderly(b)
    BY <1>6, <2>1 DEF Orderly, OneCall
  <2>3. \A r \in Slots \ {s} : b.clients[r].user # u \/ b.clients[r].user = NoUser
    <3>1. \A r \in Slots : clients[r].user = u => clients[r].open
      BY StateFacts
    <3> QED BY <1>2, <1>5, <2>1, <3>1 DEF IsClient, FreeClient
  <2>4. u # NoUser
    BY ServerAssumption
  <2>5. \A r \in Slots \ {s} : b.clients[r].user = NoUser \/ b.clients[r].user = clients[r].user
    BY <1>5, <2>1 DEF FreeClient
  <2>6. OnePerUser(b)
    <3>1. \A r, v \in Slots \ {s} : b.clients[r].user # NoUser /\ b.clients[r].user = b.clients[v].user => r = v
      BY <1>2, <2>5 DEF OnePerUser
    <3>2. \A r \in Slots \ {s} : b.clients[r].user # b.clients[s].user
      BY <2>1, <2>3, <2>4
    <3> QED BY <3>1, <3>2 DEF OnePerUser
  <2> QED BY <2>1, <2>2, <2>6
<1>10. \A r \in Slots \ {s} : Hears(r, c) /\ r \notin others => Informed(b, c, r)
  <2> HIDE DEF b, alone, others
  <2> QED BY <1>8, <1>9 DEF Informed, Keeps
<1>11. \A r \in others : clients'[r] = FreeClient
  <2>1. q.clients = b.clients /\ others \subseteq Slots \ {s}
    OBVIOUS
  <2>2. \A r \in others : b.clients[r] = FreeClient
    <3> HIDE DEF b, alone, others
    <3> QED BY <1>5, <1>9, <2>1
  <2>3. CASE Commit(q)
    <3> HIDE DEF b, others
    <3> QED BY <2>1, <2>2, <2>3 DEF Commit
  <2>4. CASE Commit(CloseClient(b, s))
    <3> HIDE DEF b, alone, others, q
    <3>1. \A r \in Slots \ {s} : CloseSlots(b, {s}, b.clients[s].user).clients[r] = b.clients[r]
      BY <1>2, <1>9, CloseForgets DEF Orderly
    <3> QED BY <2>1, <2>2, <2>4, <3>1 DEF Commit, CloseClient
  <2> QED BY <1>3, <2>3, <2>4 DEF Reply
<1>12. \A r \in Slots \ {s} : Hears(r, c) /\ clients'[r] = clients[r] => r \notin others
  BY <1>11 DEF Hears, FreeClient
<1>13. CASE Commit(q)
  <2>1. /\ q.calls = b.calls /\ q.clients = b.clients
        /\ \A r \in Slots : q.out[r] = IF r = s THEN p ELSE b.out[r]
    BY <1>9 DEF Orderly, Shaped, IsTables, Fields
  <2> HIDE DEF q, b
  <2>2. \A r \in Slots \ {s} : Hears(r, c) /\ clients'[r] = clients[r] => Informed(q, c, r)
    BY <1>10, <1>12, <2>1 DEF Informed, Keeps
  <2>3. clients'[s] = clients[s] => Keeps(q, c)
    <3>1. SUFFICES ASSUME clients'[s] = clients[s] PROVE Keeps(q, c)
      OBVIOUS
    <3>2. clients[s].user = u
      BY <1>9, <1>13, <2>1, <3>1 DEF Commit
    <3>3. others = {}
      BY <1>2, <3>2, ServerAssumption DEF OnePerUser, IsClient
    <3> QED BY <1>5, <1>9, <2>1, <3>3 DEF Keeps
  <2> QED BY <1>13, <2>2, <2>3, CommitTactful
<1>14. CASE Commit(CloseClient(b, s))
  <2> HIDE DEF b, alone, others
  <2>1. clients'[s] # clients[s]
    BY <1>2, <1>9, <1>14, CloseForgets DEF CloseClient, Commit, Orderly, FreeClient
  <2>2. ASSUME NEW r \in Slots \ {s}, Hears(r, c), clients'[r] = clients[r] PROVE Informed(CloseClient(b, s), c, r)
    <3>1. r \notin others /\ Informed(b, c, r)
      BY <1>10, <1>12, <2>2
    <3>2. b.clients[r] = clients[r] /\ b.clients[s].user = u
      BY <1>5, <1>9, <3>1
    <3>3. clients[r].user # u /\ clients[r].user \in Users
      BY <1>4, <1>7, <2>2, <3>1
    <3> QED BY <1>9, <2>2, <3>1, <3>2, <3>3, CloseInforms DEF CloseClient, Hears
  <2> QED BY <1>14, <2>1, <2>2, CommitTactful
<1> QED BY <1>3, <1>13, <1>14 DEF Reply
-----------------------------------------------------------------------------
\* In whatever way a visit ends a call - a hangup or a reject, a signal to a peer who
\* has gone, a connection that fails, is taken over or cannot take its response - each
\* other party with room in its buffer gets a packet about it, or the file notify that
\* the closed connection had just passed on.
THEOREM PartiesAreTold == Spec => EndedCallIsTold
<1>1. ASSUME IInv, [Next]_vars, turn # NSlots + 1, NEW c \in calls PROVE Tactful(c)
  <2>1. ASSUME NEW s \in Slots, NEW t, Visit(s, t) PROVE Tactful(c)
    <3>1. CASE \/ Disconnect(s, t) \/ Idle(s, t) \/ Refuse(s, t) \/ Heartbeat(s, t) \/ ListOnline(s, t)
               \/ \E invited \in SUBSET Users : CreateGroup(s, t, invited)
      BY <1>1, <3>1, QuietTactful
    <3>2. CASE \E u \in Users : Register(s, t, u) \/ Login(s, t, u)
      BY <1>1, <3>2, LoginTactful
    <3>3. CASE (\E u \in Users : Chat(s, t, u)) \/ (\E g \in DOMAIN groups : SendGroup(s, t, g))
      BY <1>1, <3>3, ChatTactful
    <3>4. CASE \/ \E u \in Users, size \in FileSizes : StartFile(s, t, u, size)
               \/ \E x \in transfers, len \in 1 .. MaxChunk :
                     RelayChunk(s, t, x, len) \/ \E index \in {x.next, x.next + 1} : DropFile(s, t, x, index, len)
               \/ \E x \in transfers : CompleteFile(s, t, x)
      BY <1>1, <3>4, FileTactful
    <3>5. CASE \E u \in Users : Invite(s, t, u)
      BY <1>1, <3>5, InviteTactful
    <3>6. CASE \E d \in calls, op \in Ops : ForwardCall(s, t, d, op)
      BY <1>1, <3>6, ForwardTactful
    <3> QED BY <2>1, <3>1, <3>2, <3>3, <3>4, <3>5, <3>6 DEF Visit, Dispatch
  <2>2. CASE AcceptOne \/ AcceptDone \/ (\E s \in Slots : SkipClosed(s)) \/ UNCHANGED vars
    BY <2>2, StaysTactful DEF AcceptOne, AcceptDone, SkipClosed, vars
  <2>3. CASE Restart
    <3>1. \A s \in Slots : clients'[s] = FreeClient
      BY <2>3 DEF Restart, Commit, EmptyTables
    <3>2. \A s \in Slots : clients[s].user \in Parties(c) => clients[s].open
      BY <1>1, StateFacts DEF Call, Parties
    <3> QED BY <3>1, <3>2 DEF Tactful, ToldOfEnd, FreeClient
  <2>4. ~Sweep
    BY <1>1 DEF Sweep
  <2> QED BY <1>1, <2>1, <2>2, <2>3, <2>4, StepIs
<1>2. IInv /\ [Next]_vars => [turn # NSlots + 1 => \A c \in calls : Ended(c) => ToldOfEnd(c)]_vars
  BY <1>1 DEF Tactful
<1> QED BY <1>2, InvariantHolds, PTL DEF Spec, EndedCallIsTold

-----------------------------------------------------------------------------
(***************************************************************************)
(* Room in the call table.  A call whose parties are both online has two   *)
(* connections of its own, but during a pass a connection can start a call *)
(* and be renamed by a later login, so that one connection alone is behind *)
(* it - a connection of a slot the pass has already visited.  So every     *)
(* call has a seat: one slot already visited, or two connections of its    *)
(* parties, shared with no other call.  Counting seats other than the slot *)
(* being served bounds the calls.                                          *)
(***************************************************************************)

\* A call that goes on, and one that the served connection has started.
Continues(c) == \E d \in calls : d.caller = c.caller /\ d.callee = c.callee
Starts(s, c) == c.caller = clients[s].user /\ c.callee # c.caller /\ \A d \in calls : c.caller \notin Parties(d)
Traced(s, C) == \A c \in C : Continues(c) \/ Starts(s, c)

\* Responses and notifies make no calls.
LEMMA ReplyCalls ==
    ASSUME NEW e, Shaped(e), NEW s, NEW p
    PROVE  Reply(e, s, p).calls \subseteq e.calls
<1>1. [e EXCEPT !.out[s] = p].calls = e.calls
  BY DEF Shaped, IsTables, Fields
<1>2. CloseClient(e, s).calls \subseteq e.calls
  BY CloseForgets DEF CloseClient
<1> QED BY <1>1, <1>2 DEF Reply

LEMMA TellCalls ==
    ASSUME NEW e, Shaped(e), NEW notes
    PROVE  Tell(e, notes).calls = e.calls
BY DEF Tell, Shaped, IsTables, Fields

LEMMA RelayCalls ==
    ASSUME NEW s \in Slots, NEW t, Shaped(t), Traced(s, t.calls), NEW after, Shaped(after), Traced(s, after.calls),
           NEW u, NEW note, NEW p, Commit(Relay(t, s, u, note, after, p))
    PROVE  Traced(s, calls')
<1>1. Shaped(TellOne(after, u, note)) /\ TellOne(after, u, note).calls = after.calls
  BY TellTame, TellCalls DEF TellOne
<1>2. Reply(TellOne(after, u, note), s, p).calls \subseteq after.calls
  BY <1>1, ReplyCalls
<1>3. CloseClient(t, s).calls \subseteq t.calls
  BY CloseForgets DEF CloseClient
<1> QED BY <1>2, <1>3 DEF Relay, Commit, Traced

\* A visit lets calls go on, or starts one of the served connection's user.
LEMMA VisitTraced ==
    ASSUME IInv, NEW s \in Slots, NEW t, Visit(s, t)
    PROVE  Traced(s, calls')
<1>1. Serve(s, t)
  BY VisitServes
<1>2. Shaped(t) /\ t.clients = clients /\ t.calls = calls
  BY <1>1, ServeTurn, FlushedTame, FlushedSound
<1>3. ASSUME NEW C \in SUBSET calls PROVE Traced(s, C)
  BY DEF Traced, Continues
<1>4. Traced(s, calls)
  BY <1>3
<1>5. CASE Disconnect(s, t) \/ Idle(s, t)
  <2>1. CloseClient(t, s).calls \subseteq calls
    BY <1>2, CloseForgets DEF CloseClient
  <2> QED BY <1>2, <1>3, <1>5, <2>1 DEF Disconnect, Idle, Commit
<1>6. ASSUME NEW e, Shaped(e), e.calls \subseteq calls, NEW p, Commit(Reply(e, s, p)) PROVE Traced(s, calls')
  BY <1>3, <1>6, ReplyCalls DEF Commit
<1>7. CASE \/ Refuse(s, t) \/ Heartbeat(s, t) \/ ListOnline(s, t)
           \/ \E invited \in SUBSET Users : CreateGroup(s, t, invited)
  <2>1. PICK p : Commit(Reply(t, s, p))
    BY <1>7 DEF Refuse, Heartbeat, ListOnline, CreateGroup
  <2> QED BY <1>2, <1>6, <2>1
<1>8. ASSUME NEW u \in Users, Register(s, t, u) \/ Login(s, t, u) PROVE Traced(s, calls')
  <2> DEFINE a == Authenticate(t, s, u, ids.session)
  <2>1. Commit(Reply(a, s, Response("ok", "auth", ids.session)))
    BY <1>8 DEF Register, Login, StartSession
  <2>2. Shaped(a) /\ a.calls \subseteq calls
    <3>1. ASSUME NEW e, Shaped(e), NEW c
          PROVE  Shaped([e EXCEPT !.clients[s] = c]) /\ [e EXCEPT !.clients[s] = c].calls = e.calls
      BY <3>1 DEF Shaped, IsTables, Fields
    <3>2. ASSUME NEW S PROVE Shaped(CloseSlots(t, S, u)) /\ CloseSlots(t, S, u).calls \subseteq calls
      BY <1>2, CloseForgets
    <3> DEFINE others == {r \in Slots \ {s} : IsClient(t, r, u)}
               alone == IF others = {} THEN t ELSE CloseSlots(t, others, u)
    <3>3. a = [alone EXCEPT !.clients[s] = [open |-> TRUE, user |-> u, session |-> ids.session]]
      BY DEF Authenticate
    <3> HIDE DEF others, a
    <3>4. Shaped(alone) /\ alone.calls \subseteq calls
      BY <1>2, <3>2
    <3> HIDE DEF alone
    <3> QED BY <3>1, <3>3, <3>4
  <2> HIDE DEF a
  <2> QED BY <1>6, <2>1, <2>2
<1>9. CASE (\E u \in Users : Chat(s, t, u)) \/ (\E g \in DOMAIN groups : SendGroup(s, t, g))
  <2>1. PICK p, notes : Commit(Acknowledge(t, s, p, notes))
    BY <1>9 DEF Chat, SendGroup
  <2>2. Shaped(Reply(t, s, p))
    <3>1. Shaped([t EXCEPT !.out[s] = p])
      BY <1>2 DEF Shaped, IsTables, Fields
    <3>2. Shaped(CloseClient(t, s))
      BY <1>2, CloseForgets DEF CloseClient
    <3> QED BY <3>1, <3>2 DEF Reply
  <2>3. Tell(Reply(t, s, p), notes).calls \subseteq calls
    BY <1>2, <2>2, ReplyCalls, TellCalls
  <2>4. CloseClient(t, s).calls \subseteq calls
    BY <1>2, CloseForgets DEF CloseClient
  <2> QED BY <1>3, <2>1, <2>3, <2>4 DEF Acknowledge, Commit
<1>10. ASSUME NEW X PROVE LET e == [t EXCEPT !.transfers = X] IN Shaped(e) /\ e.calls = calls
  BY <1>2 DEF Shaped, IsTables, Fields
<1>11. ASSUME NEW x, NEW index, NEW len, DropFile(s, t, x, index, len) PROVE Traced(s, calls')
  <2>1. PICK e, p : Shaped(e) /\ e.calls = calls /\ Commit(Reply(e, s, p))
    BY <1>10, <1>11 DEF DropFile
  <2> QED BY <1>6, <2>1
<1>12. ASSUME NEW x, CompleteFile(s, t, x) PROVE Traced(s, calls')
  <2> DEFINE told == TellOne(t, x.receiver, Notify("file-complete", x.id))
  <2>1. Shaped(told) /\ told.calls = calls
    BY <1>2, TellTame, TellCalls DEF TellOne
  <2>2. PICK p : Commit(Reply([told EXCEPT !.transfers = @ \ {x}], s, p))
    BY <1>12 DEF CompleteFile
  <2> HIDE DEF told
  <2>3. PICK e : Shaped(e) /\ e.calls = calls /\ Commit(Reply(e, s, p))
    <3>1. ASSUME NEW X PROVE LET e == [told EXCEPT !.transfers = X] IN Shaped(e) /\ e.calls = calls
      BY <2>1 DEF Shaped, IsTables, Fields
    <3> QED BY <2>2, <3>1
  <2> QED BY <1>6, <2>3
<1>13. CASE \/ \E u \in Users, size \in FileSizes : StartFile(s, t, u, size)
            \/ \E x \in transfers, len \in 1 .. MaxChunk : RelayChunk(s, t, x, len)
  <2>1. PICK e, u, note, p : Shaped(e) /\ e.calls = calls /\ Commit(Relay(t, s, u, note, e, p))
    BY <1>10, <1>13 DEF StartFile, RelayChunk
  <2> QED BY <1>2, <1>4, <2>1, RelayCalls
<1>14. ASSUME NEW X PROVE LET e == [t EXCEPT !.calls = X] IN Shaped(e) /\ e.calls = X
  BY <1>2 DEF Shaped, IsTables, Fields
<1>15. ASSUME NEW u \in Users, Invite(s, t, u) PROVE Traced(s, calls')
  <2> DEFINE c == [id |-> ids.call, caller |-> clients[s].user, callee |-> u, accepted |-> FALSE]
             X == calls \cup {c}
  <2>1. PICK note, p : Commit(Relay(t, s, u, note, [t EXCEPT !.calls = X], p))
    BY <1>2, <1>15 DEF Invite
  <2>2. Starts(s, c)
    BY <1>2, <1>15 DEF Invite, Busy, Starts
  <2> HIDE DEF c
  <2>3. Traced(s, X)
    BY <1>4, <2>2 DEF Traced
  <2> HIDE DEF X
  <2> QED BY <1>2, <1>4, <1>14, <2>1, <2>3, RelayCalls
<1>16. ASSUME NEW c \in calls, NEW op \in Ops, ForwardCall(s, t, c, op) PROVE Traced(s, calls')
  <2> DEFINE accepted == [c EXCEPT !.accepted = TRUE]
  <2>1. c \in Call
    BY StateFacts
  <2>2. accepted.caller = c.caller /\ accepted.callee = c.callee
    BY <2>1 DEF Call
  <2> HIDE DEF accepted
  <2>3. \A X : X \subseteq calls \cup {accepted} => Traced(s, X)
    BY <2>2 DEF Traced, Continues
  <2>4. CASE Commit(Reply([t EXCEPT !.calls = @ \ {c}], s, Response("error", op, c.id)))
    <3>1. PICK e : Shaped(e) /\ e.calls \subseteq calls /\ Commit(Reply(e, s, Response("error", op, c.id)))
      BY <1>2, <1>14, <2>4
    <3> QED BY <1>6, <3>1
  <2>5. CASE \E u, note, p : Commit(Relay(t, s, u, note, AfterCallOp(t, c, op), p))
    <3>1. PICK X : X \subseteq calls \cup {accepted} /\ AfterCallOp(t, c, op) = [t EXCEPT !.calls = X]
      BY <1>2 DEF AfterCallOp, accepted
    <3> QED BY <1>2, <1>4, <1>14, <2>3, <2>5, <3>1, RelayCalls
  <2> QED BY <1>16, <2>4, <2>5 DEF ForwardCall
<1> QED BY <1>5, <1>7, <1>8, <1>9, <1>11, <1>12, <1>13, <1>15, <1>16 DEF Visit, Dispatch

\* Whoever loses a connection that is not the served one is in no call afterwards.
LEMMA VisitLeaves ==
    ASSUME IInv, NEW s \in Slots, NEW t, Visit(s, t), NEW r \in Slots \ {s}, clients'[r] # clients[r]
    PROVE  \A c \in calls' : clients[r].user \notin Parties(c)
<1>1. PICK u \in Users : Register(s, t, u) \/ Login(s, t, u)
  <2>1. ASSUME ~\E u \in Users : Register(s, t, u) \/ Login(s, t, u) PROVE FALSE
    <3>1. PICK e : Served(s, e)
      BY <2>1, VisitServed
    <3>2. CASE Commit(e)
      BY <3>1, <3>2 DEF Served, Commit
    <3>3. CASE Commit(CloseClient(e, s))
      BY <3>1, <3>3, CloseForgets DEF Served, Commit, CloseClient
    <3> QED BY <3>1, <3>2, <3>3 DEF Served
  <2> QED BY <2>1
<1> DEFINE others == {q \in Slots \ {s} : IsClient(t, q, u)}
           alone == IF others = {} THEN t ELSE CloseSlots(t, others, u)
           a == Authenticate(t, s, u, ids.session)
<1>2. Serve(s, t) /\ Commit(Reply(a, s, Response("ok", "auth", ids.session)))
  BY <1>1 DEF Register, Login, StartSession
<1>3. Shaped(t) /\ t.clients = clients /\ t.calls = calls
  BY <1>2, ServeTurn, FlushedTame, FlushedSound
<1>4. /\ Shaped(alone)
      /\ \A q \in Slots : alone.clients[q] = IF q \in others THEN FreeClient ELSE clients[q]
      /\ others # {} => \A c \in alone.calls : u \notin Parties(c)
  <2> HIDE DEF others
  <2> QED BY <1>3, CloseForgets
<1>5. /\ Shaped(a) /\ a.calls = alone.calls
      /\ \A q \in Slots \ {s} : a.clients[q] = alone.clients[q]
  <2>1. a = [alone EXCEPT !.clients[s] = [open |-> TRUE, user |-> u, session |-> ids.session]]
    BY DEF Authenticate
  <2> HIDE DEF a, alone, others
  <2> QED BY <1>4, <2>1 DEF Shaped, IsTables, Fields
<1> HIDE DEF a, alone
<1>6. clients'[r] = a.clients[r] /\ calls' \subseteq a.calls
  <2> DEFINE p == Response("ok", "auth", ids.session)
             q == [a EXCEPT !.out[s] = p]
  <2>1. q.clients = a.clients /\ q.calls = a.calls
    BY <1>5 DEF Shaped, IsTables, Fields
  <2>2. CloseClient(a, s).clients[r] = a.clients[r] /\ CloseClient(a, s).calls \subseteq a.calls
    BY <1>5, CloseForgets DEF CloseClient
  <2> HIDE DEF p
  <2>3. Commit(q) \/ Commit(CloseClient(a, s))
    BY <1>2 DEF Reply, p
  <2> HIDE DEF q
  <2> QED BY <2>1, <2>2, <2>3 DEF Commit
<1>7. r \in others
  BY <1>4, <1>5, <1>6
<1>8. clients[r].user = u
  BY <1>3, <1>7 DEF IsClient
<1> HIDE DEF others
<1> QED BY <1>4, <1>5, <1>6, <1>7, <1>8

\* h gives every call seats of its own, named by its caller: slots already visited in
\* this pass, or connections of its parties; one of the former or two of the latter.
Seating(h) ==
    /\ h \in [Users -> SUBSET Slots]
    /\ \A c \in calls : \A r \in h[c.caller] : r < turn \/ clients[r].user \in Parties(c)
    /\ \A c \in calls : \E r, q \in h[c.caller] : r < turn \/ r # q
    /\ \A c, d \in calls : c.caller # d.caller => h[c.caller] \cap h[d.caller] = {}

Couples == \A c \in calls : c.caller # c.callee
Seated == Couples /\ \E h : Seating(h)

\* When the parties of all calls are online, their connections are the seats.
LEMMA OnlineSeated ==
    ASSUME IInv, Couples, \A c \in calls : \A u \in Parties(c) : Online(Tables, u)
    PROVE  Seated
<1> DEFINE h == [u \in Users |-> {r \in Slots : \E c \in calls : c.caller = u /\ clients[r].user \in Parties(c)}]
<1>1. OneCall(Tables) /\ Tables.calls = calls /\ Tables.clients = clients /\ calls \subseteq Call
  BY StateFacts DEF Orderly
<1>2. h \in [Users -> SUBSET Slots]
  OBVIOUS
<1>3. \A c \in calls : h[c.caller] = {r \in Slots : clients[r].user \in Parties(c)}
  <2> TAKE c \in calls
  <2>1. \A d \in calls : d.caller = c.caller => d = c
    BY <1>1 DEF OneCall, Parties
  <2>2. c.caller \in Users
    BY <1>1 DEF Call
  <2> QED BY <2>1, <2>2
<1> HIDE DEF h
<1>4. \A c \in calls : \E r, q \in h[c.caller] : r < turn \/ r # q
  <2> TAKE c \in calls
  <2>1. PICK r \in Slots : clients[r].user = c.caller
    BY <1>1 DEF Parties, Online, IsClient
  <2>2. PICK q \in Slots : clients[q].user = c.callee
    BY <1>1 DEF Parties, Online, IsClient
  <2>3. r # q /\ r \in h[c.caller] /\ q \in h[c.caller]
    BY <1>3, <2>1, <2>2 DEF Couples, Parties
  <2> QED BY <2>3
<1>5. \A c, d \in calls : c.caller # d.caller => h[c.caller] \cap h[d.caller] = {}
  BY <1>1, <1>3 DEF OneCall
<1>6. Seating(h)
  BY <1>2, <1>3, <1>4, <1>5 DEF Seating
<1> QED BY <1>6 DEF Seated

\* A visit leaves calls their seats, and a call it starts gets the slot it has served.
LEMMA VisitSeated ==
    ASSUME IInv, IInv', Seated, NEW s \in Slots, NEW t, Visit(s, t)
    PROVE  Seated'
<1>1. PICK h : Seating(h)
  BY DEF Seated
<1>2. turn = s /\ turn' = s + 1
  BY VisitServes DEF Serve
<1>3. s \in Nat /\ \A r \in Slots : r \in Nat
  BY ServerAssumption DEF Slots
<1>4. \A c \in calls' : Continues(c) \/ Starts(s, c)
  BY VisitTraced DEF Traced
<1>5. calls \subseteq Call
  BY StateFacts
<1>6. calls' \subseteq Call
  BY DEF IInv, SoundTables, Sound, SoundBut, TablesType, Tables
<1> DEFINE new == {c \in calls' : Starts(s, c)}
           k == [u \in Users |-> IF \E c \in calls : c.caller = u THEN h[u] ELSE {s}]
<1>7. ASSUME NEW c \in calls', Continues(c)
      PROVE  \E d \in calls : d.caller = c.caller /\ Parties(d) = Parties(c) /\ k[c.caller] = h[d.caller]
  BY <1>5, <1>7 DEF Continues, Parties, Call
<1>8. ASSUME NEW c \in calls', Starts(s, c)
      PROVE  k[c.caller] = {s}
  BY <1>6, <1>8 DEF Starts, Parties, Call
<1>9. k \in [Users -> SUBSET Slots]
  BY <1>1 DEF Seating
<1> HIDE DEF k
<1>10. \A c \in calls' : \A r \in k[c.caller] : r < turn' \/ clients'[r].user \in Parties(c)
  <2> TAKE c \in calls'
  <2>1. CASE Starts(s, c)
    BY <1>2, <1>3, <1>8, <2>1
  <2>2. ASSUME Continues(c), NEW r \in k[c.caller] PROVE r < turn' \/ clients'[r].user \in Parties(c)
    <3>1. PICK d \in calls : d.caller = c.caller /\ Parties(d) = Parties(c) /\ k[c.caller] = h[d.caller]
      BY <1>7, <2>2
    <3>2. r \in Slots /\ (r < s \/ clients[r].user \in Parties(c))
      BY <1>1, <1>2, <1>5, <2>2, <3>1 DEF Seating, Call
    <3>3. CASE r < s \/ r = s
      BY <1>2, <1>3, <3>2, <3>3
    <3>4. CASE r # s /\ clients[r].user \in Parties(c)
      BY <3>2, <3>4, VisitLeaves
    <3> QED BY <3>2, <3>3, <3>4
  <2> QED BY <1>4, <2>1, <2>2
<1>11. \A c \in calls' : \E r, q \in k[c.caller] : r < turn' \/ r # q
  <2> TAKE c \in calls'
  <2>1. CASE Starts(s, c)
    BY <1>2, <1>3, <1>8, <2>1
  <2>2. CASE Continues(c)
    <3>1. PICK d \in calls : d.caller = c.caller /\ Parties(d) = Parties(c) /\ k[c.caller] = h[d.caller]
      BY <1>7, <2>2
    <3>2. h[d.caller] \subseteq Nat
      BY <1>1, <1>3, <1>5 DEF Seating, Call
    <3>3. PICK r, q \in h[d.caller] : r < turn \/ r # q
      BY <1>1 DEF Seating
    <3> QED BY <1>2, <1>3, <3>1, <3>2, <3>3
  <2> QED BY <1>4, <2>1, <2>2
<1>12. \A c, d \in calls' : c.caller # d.caller => k[c.caller] \cap k[d.caller] = {}
  <2>1. ASSUME NEW c \in calls', NEW d \in calls', Continues(c), Starts(s, d) PROVE s \notin k[c.caller]
    <3>1. PICK b \in calls : b.caller = c.caller /\ Parties(b) = Parties(c) /\ k[c.caller] = h[b.caller]
      BY <1>7, <2>1
    <3>2. clients[s].user \notin Parties(b)
      BY <2>1 DEF Starts
    <3> QED BY <1>1, <1>2, <1>3, <3>1, <3>2 DEF Seating
  <2>2. ASSUME NEW c \in calls', NEW d \in calls', Continues(c), Continues(d), c.caller # d.caller
        PROVE  k[c.caller] \cap k[d.caller] = {}
    <3>1. PICK b \in calls : b.caller = c.caller /\ k[c.caller] = h[b.caller]
      BY <1>7, <2>2
    <3>2. PICK e \in calls : e.caller = d.caller /\ k[d.caller] = h[e.caller]
      BY <1>7, <2>2
    <3> QED BY <1>1, <2>2, <3>1, <3>2 DEF Seating
  <2>3. \A c, d \in calls' : Starts(s, c) /\ Starts(s, d) => c.caller = d.caller
    BY DEF Starts
  <2> TAKE c, d \in calls'
  <2> QED BY <1>4, <1>8, <2>1, <2>2, <2>3
<1>13. (\E m : Seating(m))'
  <2>1. \E m : /\ m \in [Users -> SUBSET Slots]
               /\ \A c \in calls' : \A r \in m[c.caller] : r < turn' \/ clients'[r].user \in Parties(c)
               /\ \A c \in calls' : \E r, q \in m[c.caller] : r < turn' \/ r # q
               /\ \A c, d \in calls' : c.caller # d.caller => m[c.caller] \cap m[d.caller] = {}
    BY <1>9, <1>10, <1>11, <1>12
  <2> QED BY <2>1 DEF Seating
<1>14. Couples'
  BY <1>4 DEF Seated, Couples, Continues, Starts
<1> QED BY <1>13, <1>14 DEF Seated

\* The other steps: only at rest does the turn go down or do connections change.
LEMMA StepSeated ==
    ASSUME IInv, IInv', OnlineAtRest', Seated, [Next]_vars
    PROVE  Seated'
<1>1. CASE turn' = 0
  <2>1. Couples'
    <3>1. ASSUME NEW c \in calls' PROVE c.caller # c.callee
      <4>1. CASE AcceptOne \/ AcceptDone \/ Sweep \/ Restart \/ (\E s \in Slots : SkipClosed(s)) \/ UNCHANGED vars
        <5>1. calls' \subseteq calls
          BY <4>1 DEF AcceptOne, AcceptDone, Sweep, Restart, SkipClosed, vars, Commit, EmptyTables
        <5> QED BY <3>1, <5>1 DEF Seated, Couples
      <4>2. ASSUME NEW s \in Slots, NEW t, Visit(s, t) PROVE FALSE
        <5>1. turn' = s + 1
          BY <4>2, VisitServes DEF Serve
        <5> QED BY <1>1, <5>1, ServerAssumption DEF Slots
      <4> QED BY <4>1, <4>2, StepIs
    <3> QED BY <3>1 DEF Couples
  <2>2. \A c \in calls' : \A u \in Parties(c) : Online(Tables, u)'
    BY <1>1 DEF OnlineAtRest
  <2>3. (\A c \in calls : \A u \in Parties(c) : Online(Tables, u))'
    BY <2>2
  <2> QED BY <2>1, <2>3, OnlineSeated, PTL
<1>2. CASE turn' # 0
  <2>1. ASSUME NEW s \in Slots, NEW t, Visit(s, t) PROVE Seated'
    BY <2>1, VisitSeated
  <2>2. CASE AcceptDone \/ (\E s \in Slots : SkipClosed(s)) \/ UNCHANGED vars
    <3>1. calls' = calls /\ clients' = clients /\ turn' \in Nat /\ turn \in Nat /\ turn <= turn'
      <4>1. turn \in Nat
        BY ServerAssumption DEF IInv, RestTypeOK
      <4> QED BY <2>2, <4>1, ServerAssumption DEF AcceptDone, SkipClosed, vars, Slots
    <3>2. PICK h : Seating(h)
      BY DEF Seated
    <3>3. \A c \in calls : h[c.caller] \subseteq Nat
      <4>1. Slots \subseteq Nat
        BY DEF Slots
      <4> QED BY <3>2, <4>1, StateFacts DEF Seating, Call
    <3>4. \A c \in calls' : \A r \in h[c.caller] : r < turn' \/ clients'[r].user \in Parties(c)
      <4> SUFFICES ASSUME NEW c \in calls, NEW r \in h[c.caller] PROVE r < turn' \/ clients[r].user \in Parties(c)
        BY <3>1
      <4>1. r < turn \/ clients[r].user \in Parties(c)
        BY <3>2 DEF Seating
      <4> QED BY <3>1, <3>3, <4>1
    <3>5. \A c \in calls' : \E r, q \in h[c.caller] : r < turn' \/ r # q
      <4> SUFFICES ASSUME NEW c \in calls PROVE \E r, q \in h[c.caller] : r < turn' \/ r # q
        BY <3>1
      <4>1. PICK r, q \in h[c.caller] : r < turn \/ r # q
        BY <3>2 DEF Seating
      <4> QED BY <3>1, <3>3, <4>1
    <3>6. h \in [Users -> SUBSET Slots] /\ \A c, d \in calls' : c.caller # d.caller => h[c.caller] \cap h[d.caller] = {}
      BY <3>1, <3>2 DEF Seating
    <3>7. Seated' <=> Couples' /\ (\E m : Seating(m))'
      BY DEF Seated
    <3>8. (\E m : Seating(m))'
      <4>1. \E m : /\ m \in [Users -> SUBSET Slots]
                   /\ \A c \in calls' : \A r \in m[c.caller] : r < turn' \/ clients'[r].user \in Parties(c)
                   /\ \A c \in calls' : \E r, q \in m[c.caller] : r < turn' \/ r # q
                   /\ \A c, d \in calls' : c.caller # d.caller => m[c.caller] \cap m[d.caller] = {}
        BY <3>4, <3>5, <3>6
      <4> QED BY <4>1 DEF Seating
    <3> QED BY <3>1, <3>7, <3>8 DEF Seated, Couples
  <2>3. CASE AcceptOne \/ Sweep \/ Restart
    BY <1>2, <2>3 DEF AcceptOne, Sweep, Restart
  <2> QED BY <2>1, <2>2, <2>3, StepIs
<1> QED BY <1>1, <1>2

\* Each call takes a seat that is not the slot being served, and no two take the same.
LEMMA SeatsSuffice ==
    ASSUME IInv, Seated, turn \in Slots
    PROVE  Cardinality(calls) < NSlots
<1>1. PICK h : Seating(h)
  BY DEF Seated
<1> DEFINE seat == [c \in calls |-> CHOOSE r \in h[c.caller] : r # turn]
           seats == Slots \ {turn}
<1>2. calls \subseteq Call /\ OneCall(Tables) /\ Tables.calls = calls
  BY StateFacts DEF Orderly
<1>3. ASSUME NEW c \in calls PROVE seat[c] \in h[c.caller] /\ seat[c] # turn
  <2>1. PICK r, q \in h[c.caller] : r < turn \/ r # q
    BY <1>1 DEF Seating
  <2>2. r \in Nat /\ turn \in Nat
    BY <1>1, <1>2, ServerAssumption DEF Seating, Call, Slots
  <2>3. r # turn \/ q # turn
    BY <2>1, <2>2
  <2> QED BY <2>1, <2>3
<1> HIDE DEF seat
<1>4. \A c, d \in calls : seat[c] = seat[d] => c = d
  <2> TAKE c, d \in calls
  <2>1. c.caller = d.caller => c = d
    BY <1>2 DEF OneCall, Parties
  <2> QED BY <1>1, <1>3, <2>1 DEF Seating
<1>5. seat \in Injection(calls, seats)
  <2>1. \A c \in calls : seat[c] \in seats
    BY <1>1, <1>2, <1>3 DEF Seating, Call
  <2>2. seat \in [calls -> seats]
    BY <2>1 DEF seat
  <2> QED BY <1>4, <2>2 DEF Injection, IsInjective
<1>6. IsFiniteSet(seats) /\ Cardinality(seats) = NSlots - 1
  <2>1. IsFiniteSet(Slots) /\ Cardinality(Slots) = NSlots
    BY FS_Interval, ServerAssumption DEF Slots
  <2> QED BY <2>1, FS_RemoveElement
<1>7. Cardinality(calls) \in Nat /\ Cardinality(calls) <= NSlots - 1
  <2>1. IsFiniteSet(calls) /\ Cardinality(calls) <= Cardinality(seats)
    BY <1>5, <1>6, FS_Injection
  <2> QED BY <1>6, <2>1, FS_CardinalityType
<1> QED BY <1>7, ServerAssumption

\* The call table never fills while requests are handled, for any number of slots: even
\* in a pass in which connections are renamed and closed one after the other.
THEOREM CallTableNeverFills == Spec => []CallTableHasRoom
<1>1. Init => Seated
  <2> SUFFICES ASSUME Init PROVE Seated
    OBVIOUS
  <2>1. calls = {}
    BY DEF Init, EmptyTables
  <2>2. IInv
    BY InitSound
  <2> QED BY <2>1, <2>2, OnlineSeated DEF Couples
<1>2. IInv /\ IInv' /\ OnlineAtRest' /\ Seated /\ [Next]_vars => Seated'
  BY StepSeated
<1>3. IInv /\ Seated => CallTableHasRoom
  BY SeatsSuffice DEF CallTableHasRoom, CallCapacity
<1> QED BY <1>1, <1>2, <1>3, InvariantHolds, SweptAtRest, PTL DEF Spec
=============================================================================
