--------------------------- MODULE ClientsProofs ---------------------------
(***************************************************************************)
(* The server with the programs of its users: every step of the server     *)
(* here is a step of ChatServer, so what is proved of ChatServer holds of  *)
(* the composition too, and requests and responses stay in step.           *)
(*                                                                         *)
(* The argument for AnsweredOnce counts.  A visit that handles a request   *)
(* either frees the slot or puts exactly one response into a send buffer   *)
(* that had drained (HandleReplies); everybody else's buffer gets a notify *)
(* at most.  A client has as many requests without a response as there     *)
(* are on their way to the server, plus the responses on their way back;   *)
(* once the server has closed the connection it may have more.             *)
(*                                                                         *)
(* The argument for FileInStep follows one file.  The chunks on their way  *)
(* to its listener begin where the listener's file ends and end where the  *)
(* relay is; the relay is at the end of a chunk that its sender's file has;*)
(* and nobody is told that a file is complete whose transfer is not over.  *)
(*                                                                         *)
(* The argument for the calls follows one window while everybody is there. *)
(* What is on its way to it is read as a course of events: a packet gives  *)
(* the window a call, takes its call off, or does neither, where a response*)
(* does what its request was for.  A call the window has, or will be given,*)
(* that the server no longer has, is taken off by something further on, and*)
(* between an event about one call and an event about another there is one *)
(* that takes the first off (Story).  A visit puts at most one packet at   *)
(* the end of each course, and what it does to the server's calls suits it *)
(* (Concerns); a step of a window takes the first packet off.              *)
(***************************************************************************)
EXTENDS Clients, ChatServerProofs, FileReceiveProofs, SequenceTheorems, FunctionTheorems

-----------------------------------------------------------------------------
(* What a visit leaves in the send buffers.                                *)

\* A packet for user w that is not about a file, or is `note` when w is u.
Carries(o, w, u, note) == o.op \in FileOps => w = u /\ \E to, session : o = Addressing(note, to, session)

\* A table with the clients of the state, in which other connections have got a
\* notify at most, and `note` at most that is about a file; the served one has
\* drained if its buffer is free.
Midway(s, t, e, u, note) ==
    /\ Shaped(e)
    /\ e.clients = clients
    /\ \A r \in Slots \ {s} :
          \/ e.out[r] = out[r]
          \/ out[r] = NoPacket /\ e.out[r].kind = "notify" /\ Carries(e.out[r], clients[r].user, u, note)
    /\ e.out[s] = NoPacket => t.out[s] = NoPacket

\* The others keep their connections, and their buffers but for a notify.
OthersNotified(s) ==
    \A r \in Slots \ {s} :
        /\ clients'[r] = clients[r]
        /\ out'[r] = out[r] \/ (out[r] = NoPacket /\ out'[r].kind = "notify")

\* The served connection is closed and its user's transfers are over, or its one
\* response p lies in the drained buffer and the transfers are those of T.
Replied(s, t, p, u, note, T) ==
    /\ OthersNotified(s)
    /\ \A r \in Slots \ {s} : out'[r] # out[r] => Carries(out'[r], clients[r].user, u, note)
    /\ \/ clients'[s] = FreeClient /\ \A x \in transfers' : x \in T \cup transfers /\ clients[s].user \notin Ends(x)
       \/ clients'[s] = clients[s] /\ t.out[s] = NoPacket /\ out'[s] = p /\ transfers' = T

\* A slot of user u has got the note.
Told(s, u, note) ==
    \E r \in Slots \ {s} :
        /\ IsClient(Tables, r, u)
        /\ out[r] = NoPacket /\ \E session : out'[r] = Addressing(note, u, session)

LEMMA FlushedMidway ==
    ASSUME IInv, NEW s \in Slots, NEW t, Serve(s, t), NEW u, NEW note
    PROVE  Midway(s, t, t, u, note)
<1>1. Shaped(t) /\ t.clients = clients
  BY FlushedTame, ServeTurn, FlushedSound
<1>2. t \in Flushed(s) /\ Shaped(Tables)
  BY StateFacts DEF Serve, Orderly
<1>3. \A r \in Slots \ {s} : t.out[r] = out[r]
  BY <1>2 DEF Flushed, Tables, Shaped, IsTables, Fields
<1> QED BY <1>1, <1>3 DEF Midway

\* Notifies change nothing but the buffers of connections that had none.
LEMMA TellMidway ==
    ASSUME NEW s \in Slots, NEW t, NEW e, NEW u, NEW note, Midway(s, t, e, u, note), NEW notes,
           \A w \in DOMAIN notes : notes[w] \in Notifies /\ (notes[w].op \in FileOps => w = u /\ notes[w] = note)
    PROVE  Midway(s, t, Tell(e, notes), u, note) /\ Tell(e, notes).transfers = e.transfers
<1>1. Shaped(e) /\ e.clients = clients
  BY DEF Midway
<1>2. Shaped(Tell(e, notes)) /\ Tell(e, notes).clients = clients
  BY <1>1, TellTame DEF Midway
<1>3. \A r \in Slots :
         \/ Tell(e, notes).out[r] = e.out[r]
         \/ /\ e.out[r] = NoPacket /\ Tell(e, notes).out[r].kind = "notify"
            /\ Carries(Tell(e, notes).out[r], clients[r].user, u, note)
  <2>1. ASSUME NEW r \in Slots, Tell(e, notes).out[r] # e.out[r]
        PROVE  /\ e.out[r] = NoPacket /\ Tell(e, notes).out[r].kind = "notify"
               /\ Carries(Tell(e, notes).out[r], clients[r].user, u, note)
    <3> DEFINE w == clients[r].user
               o == Tell(e, notes).out[r]
    <3>1. e.out[r] = NoPacket /\ w \in DOMAIN notes /\ o = Addressing(notes[w], w, e.clients[r].session)
      BY <1>1, <2>1, TellTells
    <3>2. o.kind = "notify" /\ o.op = notes[w].op
      BY <3>1, PacketFields
    <3> QED BY <3>1, <3>2 DEF Carries
  <2> QED BY <2>1
<1>4. NoPacket.kind # "notify"
  BY PacketFields
<1>5. Tell(e, notes).transfers = e.transfers
  BY <1>1, TellKeeps DEF Shaped
<1> QED BY <1>2, <1>3, <1>4, <1>5 DEF Midway

\* close_client on the served connection.
LEMMA CloseReplies ==
    ASSUME NEW s \in Slots, NEW t, NEW e, NEW u, NEW note, Midway(s, t, e, u, note), Commit(CloseClient(e, s)),
           NEW p, NEW T, e.transfers \subseteq T \cup transfers
    PROVE  Replied(s, t, p, u, note, T)
<1> DEFINE w == e.clients[s].user
           ended == {c \in e.calls : w \in Parties(c)}
           First(v) == CHOOSE c \in ended : Peer(c, w) = v /\ \A d \in ended : Peer(d, w) = v => c.id <= d.id
           closed == [clients   |-> [r \in Slots |-> IF r \in {s} THEN FreeClient ELSE e.clients[r]],
                      out       |-> [r \in Slots |-> IF r \in {s} THEN NoPacket ELSE e.out[r]],
                      calls     |-> e.calls \ ended,
                      transfers |-> {x \in e.transfers : w \notin Ends(x)}]
           notes == [v \in {Peer(c, w) : c \in ended} |-> Notify("hangup", First(v).id)]
<1>1. CloseClient(e, s) = Tell(closed, notes)
  BY DEF CloseSlots, CloseClient
<1>2. /\ Shaped(closed)
      /\ \A r \in Slots : closed.out[r] = IF r \in {s} THEN NoPacket ELSE e.out[r]
  BY DEF Shaped, IsTables, Fields
<1>9. \A v \in DOMAIN notes : notes[v] = Notify("hangup", First(v).id)
  OBVIOUS
<1> HIDE DEF First, notes
<1>3. \A v \in DOMAIN notes : \A to, session :
         Addressing(notes[v], to, session).kind = "notify" /\ Addressing(notes[v], to, session).op = "hangup"
  <2>1. ASSUME NEW v \in DOMAIN notes
        PROVE  \A to, session :
                  Addressing(notes[v], to, session).kind = "notify" /\ Addressing(notes[v], to, session).op = "hangup"
    BY <1>9, PacketFields
  <2> QED BY <2>1
<1> HIDE DEF closed
<1>4. \A r \in Slots : \/ Tell(closed, notes).out[r] = closed.out[r]
                       \/ /\ closed.out[r] = NoPacket /\ Tell(closed, notes).out[r].kind = "notify"
                          /\ Tell(closed, notes).out[r].op = "hangup"
  BY <1>2, <1>3, TellTells
<1>5. \A r \in Slots \ {s} : \/ out'[r] = e.out[r]
                             \/ e.out[r] = NoPacket /\ out'[r].kind = "notify" /\ out'[r].op = "hangup"
  BY <1>1, <1>2, <1>4 DEF Commit
<1>6. /\ \A r \in Slots : clients'[r] = IF r = s THEN FreeClient ELSE clients[r]
      /\ transfers' = {x \in e.transfers : clients[s].user \notin Ends(x)}
  BY CloseForgets DEF Commit, Midway, CloseClient
<1>7. NoPacket.kind # "notify"
  BY PacketFields
<1>8. ASSUME NEW r \in Slots \ {s}, out'[r] # out[r]
      PROVE  out[r] = NoPacket /\ out'[r].kind = "notify" /\ Carries(out'[r], clients[r].user, u, note)
  BY <1>5, <1>7, <1>8 DEF Midway, Carries, FileOps
<1> QED BY <1>6, <1>8 DEF Replied, OthersNotified

\* A handler's last step.
LEMMA ReplyReplies ==
    ASSUME NEW s \in Slots, NEW t, NEW e, NEW u, NEW note, Midway(s, t, e, u, note), NEW p, Commit(Reply(e, s, p))
    PROVE  Replied(s, t, p, u, note, e.transfers)
<1>1. CASE CanQueue(e, s)
  <2>1. Shaped(e) /\ Commit([e EXCEPT !.out[s] = p])
    BY <1>1 DEF Reply, Midway
  <2>2. clients' = e.clients /\ transfers' = e.transfers /\ \A r \in Slots : out'[r] = IF r = s THEN p ELSE e.out[r]
    BY <2>1 DEF Commit, Shaped, IsTables, Fields
  <2>3. e.clients = clients /\ e.out[s] = NoPacket
    BY <1>1 DEF Midway, CanQueue
  <2>4. t.out[s] = NoPacket
    BY <2>3 DEF Midway
  <2>5. ASSUME NEW r \in Slots \ {s}, out'[r] # out[r]
        PROVE  out[r] = NoPacket /\ out'[r].kind = "notify" /\ Carries(out'[r], clients[r].user, u, note)
    BY <2>2, <2>5 DEF Midway
  <2> QED BY <2>2, <2>3, <2>4, <2>5 DEF Replied, OthersNotified
<1>2. CASE ~CanQueue(e, s)
  BY <1>2, CloseReplies DEF Reply
<1> QED BY <1>1, <1>2

\* A relay whose sender stays has told the other side.
LEMMA RelayReplies ==
    ASSUME IInv, NEW s \in Slots, NEW t, Serve(s, t), NEW u \in Users, NEW note \in Notifies,
           NEW after, Shaped(after), after.clients = t.clients, after.out = t.out, NEW p,
           Commit(Relay(t, s, u, note, after, p))
    PROVE  /\ Replied(s, t, p, u, note, after.transfers)
           /\ clients'[s] # FreeClient => Told(s, u, note)
<1> DEFINE told == TellOne(after, u, note)
<1>1. Midway(s, t, t, u, note) /\ t.transfers = transfers /\ t.clients = clients
  BY FlushedMidway, FlushedTame DEF Midway
<1>2. Midway(s, t, after, u, note)
  BY <1>1 DEF Midway
<1>3. Midway(s, t, told, u, note) /\ told.transfers = after.transfers
  BY <1>2, TellMidway DEF TellOne
<1>4. CASE CanTell(t, u)
  <2>1. Commit(Reply(told, s, p))
    BY <1>4 DEF Relay
  <2>2. Replied(s, t, p, u, note, after.transfers)
    BY <1>3, <2>1, ReplyReplies
  <2>3. ASSUME clients'[s] # FreeClient PROVE Told(s, u, note)
    <3>1. OnePerUser(t) /\ OnePerUser(after)
      BY ServeTurn, FlushedSound DEF Sound, SoundBut, OnePerUser
    <3>2. PICK q \in Slots : IsClient(t, q, u)
      BY <1>4 DEF CanTell, Online
    <3>3. ClientOf(t, u) = q /\ ClientOf(after, u) = q /\ after.clients[q].user = u
      BY <3>1, <3>2, ClientOfIsUnique DEF IsClient
    <3>4. CanTell(after, u) /\ t.out[q] = NoPacket
      BY <1>4, <3>2, <3>3 DEF CanTell, CanQueue, Online, IsClient
    <3>5. told.out[q] = Addressing(note, u, after.clients[q].session)
      BY <3>3, <3>4, TellTells DEF TellOne
    <3> HIDE DEF told
    <3>6. CanQueue(told, s)
      <4>1. ASSUME ~CanQueue(told, s) PROVE FALSE
        <5>1. Commit(CloseClient(told, s))
          BY <2>1, <4>1 DEF Reply
        <5>2. clients'[s] = FreeClient
          BY <1>3, <5>1, CloseForgets DEF Commit, CloseClient, Midway
        <5> QED BY <2>3, <5>2
      <4> QED BY <4>1
    <3>7. q # s
      <4>1. told.out[q].kind = "notify" /\ NoPacket.kind = "none"
        BY <3>5, PacketFields
      <4> QED BY <3>6, <4>1 DEF CanQueue
    <3>8. out'[q] = told.out[q]
      <4>1. Shaped(told) /\ Commit([told EXCEPT !.out[s] = p])
        BY <1>3, <2>1, <3>6 DEF Reply, Midway
      <4> QED BY <3>7, <4>1 DEF Commit, Shaped, IsTables, Fields
    <3>9. out[q] = NoPacket
      <4>1. t.out[q] = out[q] \/ (out[q] = NoPacket /\ t.out[q].kind = "notify")
        BY <1>1, <3>7 DEF Midway
      <4> QED BY <3>4, <4>1, PacketFields
    <3>10. IsClient(Tables, q, u)
      BY <1>1, <3>2 DEF IsClient, Tables
    <3> QED BY <3>5, <3>7, <3>8, <3>9, <3>10 DEF Told
  <2> QED BY <2>2, <2>3
<1>5. CASE ~CanTell(t, u)
  <2>1. Commit(CloseClient(t, s))
    BY <1>5 DEF Relay
  <2>2. Replied(s, t, p, u, note, after.transfers)
    BY <1>1, <2>1, CloseReplies
  <2>3. clients'[s] = FreeClient
    BY <1>1, <2>1, CloseForgets DEF Commit, CloseClient, Midway
  <2> QED BY <2>2, <2>3
<1> QED BY <1>4, <1>5

\* An acknowledgement and what follows it.
LEMMA AcknowledgeReplies ==
    ASSUME NEW s \in Slots, NEW t, NEW u, NEW note, Midway(s, t, t, u, note), NEW p, IsResponse(p),
           NEW notes, \A w \in DOMAIN notes : notes[w] \in Notifies /\ notes[w].op \notin FileOps,
           Commit(Acknowledge(t, s, p, notes))
    PROVE  Replied(s, t, p, u, note, t.transfers)
<1>1. CASE CanQueue(t, s)
  <2> DEFINE e == [t EXCEPT !.out[s] = p]
  <2>1. /\ Shaped(e) /\ e.clients = t.clients /\ e.transfers = t.transfers
        /\ \A r \in Slots : e.out[r] = IF r = s THEN p ELSE t.out[r]
    BY DEF Midway, Shaped, IsTables, Fields
  <2>2. Commit(Tell(e, notes))
    BY <1>1 DEF Acknowledge, Reply
  <2> HIDE DEF e
  <2>3. p # NoPacket
    BY PacketFields DEF IsResponse
  <2>4. Midway(s, t, e, u, note)
    BY <1>1, <2>1 DEF Midway, CanQueue
  <2>5. Midway(s, t, Tell(e, notes), u, note) /\ Tell(e, notes).transfers = t.transfers
    BY <2>1, <2>4, TellMidway
  <2>6. Tell(e, notes).out[s] = p
    BY <2>1, <2>3, <2>4, TellTells DEF Midway
  <2>7. t.out[s] = NoPacket
    BY <1>1 DEF CanQueue
  <2>8. clients' = clients /\ transfers' = t.transfers /\ out' = Tell(e, notes).out
    BY <2>2, <2>5 DEF Midway, Commit
  <2>9. ASSUME NEW r \in Slots \ {s}, out'[r] # out[r]
        PROVE  out[r] = NoPacket /\ out'[r].kind = "notify" /\ Carries(out'[r], clients[r].user, u, note)
    BY <2>5, <2>8, <2>9 DEF Midway
  <2> QED BY <2>6, <2>7, <2>8, <2>9 DEF Replied, OthersNotified
<1>2. CASE ~CanQueue(t, s)
  BY <1>2, CloseReplies DEF Acknowledge
<1> QED BY <1>1, <1>2

-----------------------------------------------------------------------------
(* The requests.                                                           *)

\* What the server reads of a request that a client has sent.
Sensible(q) ==
    /\ q.op \in {"chat", "invite", "file-start"} => q.to \in Users
    /\ q.op = "file-start" => q.len \in FileSizes
    /\ q.op = "file-chunk" => q.len \in 1 .. MaxChunk

\* p is a response to the request q; one that says ok names the operation, and the
\* file of a chunk or a completion.
AnswerTo(p, q) ==
    /\ IsResponse(p)
    /\ p.kind = "ok" => p.op = q.op /\ (q.op \in {"file-chunk", "file-complete"} => p.id = q.id)

\* No file is relayed: transfers may end, and that is all.
RelaysNothing(p, note, T) ==
    /\ T \subseteq transfers /\ ids'.transfer = ids.transfer
    /\ note \in Notifies /\ note.op \notin FileOps
    /\ p.kind = "ok" => p.op # "file-complete"

\* The request q of the client in slot s has begun a transfer to u, ...
Announces(s, q, u, note, T) ==
    /\ q.op = "file-start" /\ u = q.to /\ note = StartNotify(ids.transfer, q.len)
    /\ ids'.transfer = ids.transfer + 1
    /\ \E x \in Transfer :
          /\ x.id = ids.transfer /\ x.sender = clients[s].user /\ x.receiver = u
          /\ x.size = q.len /\ x.seen = 0 /\ x.next = 0
          /\ T = transfers \cup {x}

\* ... has passed on the next chunk of one, ...
Advances(s, q, u, note, T) ==
    /\ q.op = "file-chunk" /\ ids'.transfer = ids.transfer
    /\ clients'[s] # FreeClient => Told(s, u, note)
    /\ \E x \in transfers :
          /\ x.id = q.id /\ x.next = q.index /\ x.sender = clients[s].user
          /\ u = x.receiver /\ note = ChunkNotify(x.id, x.next, q.len)
          /\ T = (transfers \ {x}) \cup {[x EXCEPT !.seen = @ + q.len, !.next = @ + 1]}

\* ... or has completed one.
Completes(s, q, u, note, T) ==
    /\ q.op = "file-complete" /\ ids'.transfer = ids.transfer
    /\ \E x \in transfers :
          /\ x.id = q.id /\ x.seen = x.size /\ x.sender = clients[s].user
          /\ u = x.receiver /\ note = Notify("file-complete", x.id)
          /\ T = transfers \ {x}

Relayed(s, q, p, u, note, T) ==
    RelaysNothing(p, note, T) \/ Announces(s, q, u, note, T) \/ Advances(s, q, u, note, T) \/ Completes(s, q, u, note, T)

\* What a request has come to.
Settled(s, t, q) ==
    \E p, u, note, T : Replied(s, t, p, u, note, T) /\ AnswerTo(p, q) /\ Relayed(s, q, p, u, note, T)

\* Changing the calls or the transfers of a table changes nothing else of it.
LEMMA ExceptCalls ==
    ASSUME NEW t, Shaped(t), NEW X
    PROVE  LET e == [t EXCEPT !.calls = X]
           IN  Shaped(e) /\ e.clients = t.clients /\ e.out = t.out /\ e.transfers = t.transfers
BY DEF Shaped, IsTables, Fields

LEMMA ExceptRelays ==
    ASSUME NEW t, Shaped(t), NEW X
    PROVE  LET e == [t EXCEPT !.transfers = X]
           IN  Shaped(e) /\ e.clients = t.clients /\ e.out = t.out /\ e.transfers = X
BY DEF Shaped, IsTables, Fields

\* A request that is handled is answered, or costs its sender the connection.
LEMMA HandleReplies ==
    ASSUME IInv, NEW s \in Slots, NEW t, NEW q \in Request, Sensible(q), Handle(s, t, q)
    PROVE  Settled(s, t, q)
<1>1. Serve(s, t)
  BY Zenon DEF Handle, Chat, Invite, StartFile, RelayChunk, DropFile, CompleteFile, ForwardCall
<1>2. Shaped(t) /\ t.calls = calls /\ t.transfers = transfers /\ t.clients = clients
  BY <1>1, FlushedTame, FlushedMidway DEF Midway
<1>3. \A op \in Ops, id \in Nat : Notify(op, id) \in Notifies /\ Notify(op, id).op = op
  BY ConstantTypes DEF Notify, NoPacket
<1>4. \A k \in {"ok", "error"} : \A op, id :
         LET p == Response(k, op, id) IN IsResponse(p) /\ p.kind = k /\ p.op = op /\ p.id = id
  BY PacketFields DEF IsResponse
<1>5. /\ calls \subseteq Call /\ transfers \subseteq Transfer /\ messages \in Seq(Message)
      /\ ids.transfer \in Nat /\ ids.call \in Nat
  BY DEF IInv, RestTypeOK, SoundTables, Sound, SoundBut, TablesType, Tables
<1>6. \A u, note : Midway(s, t, t, u, note)
  BY <1>1, FlushedMidway
<1> DEFINE plain == Notify("chat", 0)
<1>7. plain \in Notifies /\ plain.op \notin FileOps
  BY <1>3 DEF Ops, FileOps
<1> HIDE DEF plain
<1>8. CASE q.op = "chat" /\ Chat(s, t, q.to)
  <2> DEFINE m == Len(messages) + 1
             notes == [u \in {q.to} |-> Notify("chat", m)]
             p == Response("ok", "chat", m)
  <2>1. m \in Nat
    BY <1>5
  <2>2. Commit(Acknowledge(t, s, p, notes)) /\ ids' = ids
    BY <1>8 DEF Chat
  <2>3. \A w \in DOMAIN notes : notes[w] \in Notifies /\ notes[w].op \notin FileOps
    BY <1>3, <2>1 DEF Ops, FileOps
  <2>4. IsResponse(p) /\ p.kind = "ok" /\ p.op = "chat"
    BY <1>4
  <2> HIDE DEF m, notes, p
  <2>5. Replied(s, t, p, q.to, plain, t.transfers)
    BY <1>6, <2>2, <2>3, <2>4, AcknowledgeReplies
  <2>6. AnswerTo(p, q) /\ RelaysNothing(p, plain, t.transfers)
    BY <1>2, <1>7, <1>8, <2>2, <2>4 DEF AnswerTo, RelaysNothing
  <2> QED BY <2>5, <2>6 DEF Settled, Relayed
<1>9. CASE q.op = "invite" /\ Invite(s, t, q.to)
  <2> DEFINE note == Notify("invite", ids.call)
             p == Response("ok", "invite", ids.call)
  <2>1. PICK after : /\ Shaped(after) /\ after.clients = t.clients /\ after.out = t.out
                     /\ after.transfers = t.transfers
                     /\ Commit(Relay(t, s, q.to, note, after, p)) /\ ids' = [ids EXCEPT !.call = @ + 1]
    BY <1>2, <1>9, ExceptCalls DEF Invite
  <2>2. note \in Notifies /\ note.op \notin FileOps
    BY <1>3, <1>5 DEF Ops, CallOps, FileOps
  <2>3. IsResponse(p) /\ p.kind = "ok" /\ p.op = "invite"
    BY <1>4
  <2> HIDE DEF note, p
  <2>4. q.to \in Users
    BY <1>9 DEF Sensible
  <2>5. Replied(s, t, p, q.to, note, after.transfers)
    BY <1>1, <2>1, <2>2, <2>4, RelayReplies
  <2>6. ids'.transfer = ids.transfer
    BY <2>1 DEF IInv, RestTypeOK
  <2>7. AnswerTo(p, q) /\ RelaysNothing(p, note, after.transfers)
    BY <1>2, <1>9, <2>1, <2>2, <2>3, <2>6 DEF AnswerTo, RelaysNothing
  <2> QED BY <2>5, <2>7 DEF Settled, Relayed
<1>10. CASE q.op = "file-start" /\ StartFile(s, t, q.to, q.len)
  <2> DEFINE note == StartNotify(ids.transfer, q.len)
             p == Response("ok", "file-start", ids.transfer)
             x == [id |-> ids.transfer, row |-> Len(fileRows) + 1, sender |-> t.clients[s].user, receiver |-> q.to,
                   size |-> q.len, seen |-> 0, next |-> 0]
  <2>1. /\ t.clients[s].user # NoUser
        /\ Commit(Relay(t, s, q.to, note, [t EXCEPT !.transfers = @ \cup {x}], p))
        /\ ids' = [ids EXCEPT !.transfer = @ + 1]
    BY <1>10 DEF StartFile
  <2>2. PICK after : /\ Shaped(after) /\ after.clients = t.clients /\ after.out = t.out
                     /\ after.transfers = transfers \cup {x}
                     /\ Commit(Relay(t, s, q.to, note, after, p))
    <3> DEFINE after == [t EXCEPT !.transfers = @ \cup {x}]
    <3>1. Commit(Relay(t, s, q.to, note, after, p))
      BY <2>1
    <3> HIDE DEF x, note, p
    <3>2. Shaped(after) /\ after.clients = t.clients /\ after.out = t.out /\ after.transfers = transfers \cup {x}
      BY <1>2, ExceptRelays
    <3> QED BY <3>1, <3>2
  <2>3. q.to \in Users /\ q.len \in FileSizes /\ q.len \in Nat
    BY <1>10, ServerAssumption DEF Sensible
  <2>4. note \in Notifies
    BY <1>5, <2>3, ConstantTypes DEF StartNotify, Notify, NoPacket
  <2>5. clients[s].user \in Users
    BY <1>2, <2>1 DEF IInv, SoundTables, Sound, SoundBut, TablesType, Tables, Client
  <2>6. x \in Transfer /\ x.id = ids.transfer /\ x.sender = clients[s].user /\ x.receiver = q.to
        /\ x.size = q.len /\ x.seen = 0 /\ x.next = 0
    BY <1>2, <1>5, <2>3, <2>5 DEF Transfer, IInv, RestTypeOK
  <2>7. IsResponse(p) /\ p.kind = "ok" /\ p.op = "file-start"
    BY <1>4
  <2>8. ids'.transfer = ids.transfer + 1
    BY <2>1 DEF IInv, RestTypeOK
  <2> HIDE DEF p, x
  <2>9. Replied(s, t, p, q.to, note, transfers \cup {x})
    BY <1>1, <2>2, <2>3, <2>4, RelayReplies
  <2>10. AnswerTo(p, q) /\ Announces(s, q, q.to, note, transfers \cup {x})
    BY <1>10, <2>6, <2>7, <2>8 DEF AnswerTo, Announces
  <2> QED BY <2>9, <2>10 DEF Settled, Relayed
<1>11. ASSUME q.op = "file-chunk", NEW x \in transfers, x.id = q.id, q.index = x.next, RelayChunk(s, t, x, q.len)
       PROVE  Settled(s, t, q)
  <2> DEFINE note == ChunkNotify(x.id, x.next, q.len)
             p == Response("ok", "file-chunk", x.id)
             T == (transfers \ {x}) \cup {[x EXCEPT !.seen = @ + q.len, !.next = @ + 1]}
  <2>1. /\ x.sender = t.clients[s].user
        /\ Commit(Relay(t, s, x.receiver, note,
                        [t EXCEPT !.transfers = (@ \ {x}) \cup {[x EXCEPT !.seen = @ + q.len, !.next = @ + 1]}], p))
        /\ ids' = ids
    BY <1>11 DEF RelayChunk, Owns
  <2>2. PICK after : /\ Shaped(after) /\ after.clients = t.clients /\ after.out = t.out
                     /\ after.transfers = T
                     /\ Commit(Relay(t, s, x.receiver, note, after, p))
    <3> DEFINE e == [t EXCEPT !.transfers = (@ \ {x}) \cup {[x EXCEPT !.seen = @ + q.len, !.next = @ + 1]}]
    <3>1. Commit(Relay(t, s, x.receiver, note, e, p))
      BY <2>1
    <3>2. e = [t EXCEPT !.transfers = T]
      BY <1>2
    <3> HIDE DEF e, T
    <3>3. Shaped(e) /\ e.clients = t.clients /\ e.out = t.out /\ e.transfers = T
      BY <1>2, <3>2, ExceptRelays
    <3> QED BY <3>1, <3>3
  <2>3. x.receiver \in Users /\ x.id \in Nat /\ x.next \in Nat /\ q.len \in Nat
    BY <1>5 DEF Transfer, Request
  <2>4. note \in Notifies
    BY <2>3, ConstantTypes DEF ChunkNotify, Notify, NoPacket
  <2>5. IsResponse(p) /\ p.kind = "ok" /\ p.op = "file-chunk" /\ p.id = x.id
    BY <1>4
  <2> HIDE DEF p
  <2>6. Replied(s, t, p, x.receiver, note, T) /\ (clients'[s] # FreeClient => Told(s, x.receiver, note))
    <3> HIDE DEF T, note
    <3> QED BY <1>1, <2>2, <2>3, <2>4, RelayReplies
  <2>7. AnswerTo(p, q) /\ Advances(s, q, x.receiver, note, T)
    BY <1>2, <1>11, <2>1, <2>5, <2>6 DEF AnswerTo, Advances
  <2> QED BY <2>6, <2>7 DEF Settled, Relayed
<1>12. ASSUME q.op = "file-chunk", NEW x \in transfers, x.id = q.id, DropFile(s, t, x, q.index, q.len)
       PROVE  Settled(s, t, q)
  <2> DEFINE p == Response("error", "file-chunk", x.id)
  <2>1. PICK e : /\ \A u : Midway(s, t, e, u, plain) /\ e.transfers = transfers \ {x}
                 /\ Commit(Reply(e, s, p)) /\ ids' = ids
    <3> DEFINE e == [t EXCEPT !.transfers = @ \ {x}]
    <3>1. Commit(Reply(e, s, p)) /\ ids' = ids
      BY <1>12 DEF DropFile
    <3>2. Shaped(e) /\ e.clients = t.clients /\ e.out = t.out /\ e.transfers = transfers \ {x}
      BY <1>2, ExceptRelays
    <3> HIDE DEF e
    <3>3. \A u : Midway(s, t, e, u, plain)
      BY <1>6, <3>2 DEF Midway
    <3> QED BY <3>1, <3>2, <3>3
  <2>2. IsResponse(p) /\ p.kind = "error"
    BY <1>4
  <2> HIDE DEF p
  <2>3. Replied(s, t, p, x.receiver, plain, transfers \ {x})
    BY <2>1, ReplyReplies
  <2>4. AnswerTo(p, q) /\ RelaysNothing(p, plain, transfers \ {x})
    BY <1>7, <2>1, <2>2 DEF AnswerTo, RelaysNothing
  <2> QED BY <2>3, <2>4 DEF Settled, Relayed
<1>13. ASSUME q.op = "file-complete", NEW x \in transfers, x.id = q.id, CompleteFile(s, t, x)
       PROVE  Settled(s, t, q)
  <2> DEFINE note == Notify("file-complete", x.id)
             p == Response("ok", "file-complete", x.id)
             told == TellOne(t, x.receiver, note)
  <2>1. x.id \in Nat /\ "file-complete" \in Ops
    BY <1>5 DEF Transfer, Ops
  <2>2. note \in Notifies
    BY <1>3, <2>1
  <2>3. Midway(s, t, told, x.receiver, note) /\ told.transfers = transfers
    BY <1>2, <1>6, <2>2, TellMidway DEF TellOne
  <2>4. x.sender = t.clients[s].user /\ x.seen = x.size /\ ids' = ids
        /\ Commit(Reply([told EXCEPT !.transfers = @ \ {x}], s, p))
    BY <1>13 DEF CompleteFile, Owns
  <2>5. PICK e : Midway(s, t, e, x.receiver, note) /\ e.transfers = transfers \ {x} /\ Commit(Reply(e, s, p))
    <3> DEFINE e == [told EXCEPT !.transfers = @ \ {x}]
    <3>1. Commit(Reply(e, s, p)) /\ Shaped(told)
      BY <2>3, <2>4 DEF Midway
    <3> HIDE DEF told
    <3>2. Shaped(e) /\ e.clients = told.clients /\ e.out = told.out /\ e.transfers = transfers \ {x}
      BY <2>3, <3>1, ExceptRelays
    <3> HIDE DEF e, note
    <3>3. Midway(s, t, e, x.receiver, note)
      BY <2>3, <3>2 DEF Midway
    <3> QED BY <3>1, <3>2, <3>3
  <2>6. IsResponse(p) /\ p.kind = "ok" /\ p.op = "file-complete" /\ p.id = x.id
    BY <1>4
  <2> HIDE DEF p
  <2>7. Replied(s, t, p, x.receiver, note, transfers \ {x})
    BY <2>5, ReplyReplies
  <2>8. AnswerTo(p, q) /\ Completes(s, q, x.receiver, note, transfers \ {x})
    BY <1>2, <1>13, <2>4, <2>6 DEF AnswerTo, Completes
  <2> QED BY <2>7, <2>8 DEF Settled, Relayed
<1>14. ASSUME NEW c \in calls, ForwardCall(s, t, c, q.op)
       PROVE  Settled(s, t, q)
  <2>1. q.op \in CallOps /\ ids' = ids /\ q.op \notin FileOps
    BY <1>14 DEF ForwardCall, CallOps, EndOps, RelayOps, FileOps
  <2>2. CASE Commit(Reply([t EXCEPT !.calls = @ \ {c}], s, Response("error", q.op, c.id)))
    <3> DEFINE p == Response("error", q.op, c.id)
    <3>1. PICK e : /\ \A u : Midway(s, t, e, u, plain) /\ e.transfers = transfers
                   /\ Commit(Reply(e, s, p))
      <4> DEFINE e == [t EXCEPT !.calls = @ \ {c}]
      <4>1. Commit(Reply(e, s, p))
        BY <2>2
      <4>2. Shaped(e) /\ e.clients = t.clients /\ e.out = t.out /\ e.transfers = transfers
        BY <1>2, ExceptCalls
      <4> HIDE DEF e
      <4>3. \A u : Midway(s, t, e, u, plain)
        BY <1>6, <4>2 DEF Midway
      <4> QED BY <4>1, <4>2, <4>3
    <3>2. IsResponse(p) /\ p.kind = "error"
      BY <1>4
    <3> HIDE DEF p
    <3>3. \A u : Replied(s, t, p, u, plain, transfers)
      BY <3>1, ReplyReplies
    <3>4. AnswerTo(p, q) /\ RelaysNothing(p, plain, transfers)
      BY <1>7, <2>1, <3>2 DEF AnswerTo, RelaysNothing
    <3> QED BY <3>3, <3>4 DEF Settled, Relayed
  <2>3. CASE Commit(Relay(t, s, Peer(c, t.clients[s].user), Notify(q.op, c.id), AfterCallOp(t, c, q.op),
                          Response("ok", q.op, c.id)))
    <3> DEFINE note == Notify(q.op, c.id)
               p == Response("ok", q.op, c.id)
               u == Peer(c, t.clients[s].user)
    <3>1. PICK after : /\ Shaped(after) /\ after.clients = t.clients /\ after.out = t.out
                       /\ after.transfers = transfers
                       /\ Commit(Relay(t, s, u, note, after, p))
      BY <1>2, <2>3, ExceptCalls DEF AfterCallOp
    <3>2. note \in Notifies /\ note.op \notin FileOps
      BY <1>3, <1>5, <2>1 DEF Call, Request
    <3>3. u \in Users
      BY <1>5 DEF Call, Peer
    <3>4. IsResponse(p) /\ p.op = q.op /\ q.op \notin {"file-chunk", "file-complete"}
      BY <1>4, <2>1 DEF FileOps
    <3> HIDE DEF note, p, u
    <3>5. Replied(s, t, p, u, note, transfers)
      BY <1>1, <3>1, <3>2, <3>3, RelayReplies
    <3>6. AnswerTo(p, q) /\ RelaysNothing(p, note, transfers)
      BY <2>1, <3>2, <3>4 DEF AnswerTo, RelaysNothing
    <3> QED BY <3>5, <3>6 DEF Settled, Relayed
  <2> QED BY <1>14, <2>2, <2>3 DEF ForwardCall
<1> QED BY <1>8, <1>9, <1>10, <1>11, <1>12, <1>13, <1>14 DEF Handle

\* So is one that is refused.
LEMMA DeclineReplies ==
    ASSUME IInv, NEW s \in Slots, NEW t, NEW q, Decline(s, t, q)
    PROVE  Settled(s, t, q)
<1> DEFINE p == Response("error", "none", 0)
           plain == Notify("chat", 0)
<1>1. Serve(s, t) /\ Commit(Reply(t, s, p)) /\ ids' = ids
  BY DEF Decline, Refuse
<1>2. IsResponse(p) /\ p.kind = "error"
  BY PacketFields DEF IsResponse
<1>3. plain \in Notifies /\ plain.op \notin FileOps
  BY ConstantTypes DEF Notify, NoPacket, Ops, FileOps
<1>4. Midway(s, t, t, q.to, plain) /\ t.transfers = transfers
  BY <1>1, FlushedMidway, FlushedTame
<1> HIDE DEF p, plain
<1>5. Replied(s, t, p, q.to, plain, transfers)
  BY <1>1, <1>4, ReplyReplies
<1>6. AnswerTo(p, q) /\ RelaysNothing(p, plain, transfers)
  BY <1>1, <1>2, <1>3 DEF AnswerTo, RelaysNothing
<1> QED BY <1>5, <1>6 DEF Settled, Relayed

\* A request of a client is one that dispatch knows.
LEMMA HandleDispatches ==
    ASSUME IInv, NEW s \in Slots, NEW t, NEW q \in Request, Sensible(q), Handle(s, t, q) \/ Decline(s, t, q)
    PROVE  Visit(s, t)
<1>1. CASE Decline(s, t, q)
  BY <1>1 DEF Decline, Visit, Dispatch
<1>2. CASE q.op = "chat" /\ Chat(s, t, q.to)
  BY <1>2 DEF Sensible, Visit, Dispatch
<1>3. CASE q.op = "invite" /\ Invite(s, t, q.to)
  BY <1>3 DEF Sensible, Visit, Dispatch
<1>4. CASE q.op = "file-start" /\ StartFile(s, t, q.to, q.len)
  BY <1>4 DEF Sensible, Visit, Dispatch
<1>5. CASE q.op = "file-chunk" /\ \E x \in transfers : RelayChunk(s, t, x, q.len)
  BY <1>5 DEF Sensible, Visit, Dispatch
<1>6. CASE q.op = "file-chunk" /\ \E x \in transfers : DropFile(s, t, x, q.index, q.len)
  <2>1. PICK x \in transfers : DropFile(s, t, x, q.index, q.len)
    BY <1>6
  <2>2. x.next \in Nat
    BY DEF IInv, SoundTables, Sound, SoundBut, TablesType, Tables, Transfer
  <2>3. DropFile(s, t, x, x.next, q.len) \/ DropFile(s, t, x, x.next + 1, q.len)
    BY <2>1, <2>2 DEF DropFile
  <2> QED BY <1>6, <2>3 DEF Sensible, Visit, Dispatch
<1>7. CASE q.op = "file-complete" /\ \E x \in transfers : CompleteFile(s, t, x)
  BY <1>7 DEF Visit, Dispatch
<1>8. CASE \E c \in calls : ForwardCall(s, t, c, q.op)
  BY <1>8 DEF Request, Visit, Dispatch
<1> QED BY <1>1, <1>2, <1>3, <1>4, <1>5, <1>6, <1>7, <1>8 DEF Handle

-----------------------------------------------------------------------------
(* Counting responses.                                                     *)

Answers(q) == Count(q, IsResponse)

LEMMA AnswersAppend ==
    ASSUME NEW q \in Seq(Packet), NEW p \in Packet
    PROVE  /\ Answers(q) \in Nat
           /\ Answers(Append(q, p)) = Answers(q) + (IF IsResponse(p) THEN 1 ELSE 0)
<1> DEFINE S == {i \in DOMAIN q : IsResponse(q[i])}
           T == {i \in DOMAIN Append(q, p) : IsResponse(Append(q, p)[i])}
           n == Len(q) + 1
<1>1. n \in Nat /\ DOMAIN q = 1 .. n - 1 /\ DOMAIN Append(q, p) = 1 .. n
  OBVIOUS
<1>2. Append(q, p)[n] = p /\ \A i \in 1 .. n - 1 : Append(q, p)[i] = q[i]
  OBVIOUS
<1>3. S \in SUBSET (1 .. n - 1) /\ IsFiniteSet(1 .. n - 1)
  BY <1>1, FS_Interval
<1>4. IsFiniteSet(S) /\ n \notin S
  BY <1>1, <1>3, FS_Subset
<1>5. T = IF IsResponse(p) THEN S \cup {n} ELSE S
  <2>1. \A i : i \in 1 .. n <=> i \in 1 .. n - 1 \/ i = n
    BY <1>1
  <2> HIDE DEF n
  <2> QED BY <1>1, <1>2, <2>1
<1>6. Answers(q) = Cardinality(S) /\ Answers(Append(q, p)) = Cardinality(T)
  BY DEF Answers, Count
<1> HIDE DEF S, T, n
<1>7. Cardinality(S) \in Nat /\ Cardinality(S \cup {n}) = Cardinality(S) + 1
  BY <1>4, FS_AddElement, FS_CardinalityType
<1> QED BY <1>5, <1>6, <1>7

LEMMA AnswersTail ==
    ASSUME NEW q \in Seq(Packet), q # <<>>
    PROVE  /\ Answers(q) \in Nat /\ Answers(Tail(q)) \in Nat
           /\ Answers(q) = Answers(Tail(q)) + (IF IsResponse(Head(q)) THEN 1 ELSE 0)
<1> DEFINE S == {i \in DOMAIN q : IsResponse(q[i])}
           T == {i \in DOMAIN Tail(q) : IsResponse(Tail(q)[i])}
           R == S \ {1}
           f == [i \in T |-> i + 1]
<1>1. /\ Len(q) \in Nat \ {0} /\ DOMAIN q = 1 .. Len(q) /\ DOMAIN Tail(q) = 1 .. Len(q) - 1
      /\ \A i \in 1 .. Len(q) - 1 : Tail(q)[i] = q[i + 1]
      /\ Head(q) = q[1]
  OBVIOUS
<1>2. f \in Bijection(T, R)
  <2>1. \A i \in T : i \in Int /\ i + 1 \in R
    BY <1>1
  <2>2. \A j \in R : j - 1 \in T /\ (j - 1) + 1 = j
    BY <1>1
  <2>3. \A i \in T : f[i] = i + 1
    OBVIOUS
  <2> HIDE DEF T, R
  <2>4. f \in [T -> R]
    BY <2>1
  <2>5. \A i, j \in T : f[i] = f[j] => i = j
    BY <2>1, <2>3
  <2>6. \A j \in R : \E i \in T : f[i] = j
    BY <2>2, <2>3
  <2> HIDE DEF f
  <2> QED BY <2>4, <2>5, <2>6 DEF Bijection, Injection, Surjection, IsInjective
<1>3. IsFiniteSet(T) /\ IsFiniteSet(R) /\ IsFiniteSet(S)
  <2>1. IsFiniteSet(1 .. Len(q)) /\ IsFiniteSet(1 .. Len(q) - 1)
    BY <1>1, FS_Interval
  <2>2. T \in SUBSET (1 .. Len(q) - 1) /\ R \in SUBSET (1 .. Len(q)) /\ S \in SUBSET (1 .. Len(q))
    BY <1>1
  <2> QED BY <2>1, <2>2, FS_Subset
<1>4. 1 \in S <=> IsResponse(Head(q))
  BY <1>1
<1>5. Answers(q) = Cardinality(S) /\ Answers(Tail(q)) = Cardinality(T)
  BY DEF Answers, Count
<1> HIDE DEF S, T, f
<1>6. Cardinality(T) = Cardinality(R)
  BY <1>2, <1>3, FS_Bijection DEF ExistsBijection
<1>7. Cardinality(R) = IF 1 \in S THEN Cardinality(S) - 1 ELSE Cardinality(S)
  BY <1>3, FS_RemoveElement
<1>8. Cardinality(S) \in Nat /\ Cardinality(T) \in Nat
  BY <1>3, FS_CardinalityType
<1> QED BY <1>4, <1>5, <1>6, <1>7, <1>8

-----------------------------------------------------------------------------
(* A visit, seen from the two ends of the connections.                     *)

Asked == \A u \in Users : \A i \in DOMAIN up[u] : Sensible(up[u][i])

\* The buffer's packet is on its way to the client, or stays.
Flushes(s, kept) ==
    LET u == Seats[s]
    IN  \/ kept = out[s] /\ down'[u] = down[u]
        \/ kept = NoPacket /\ down'[u] = IF out[s] = NoPacket THEN down[u] ELSE Append(down[u], out[s])

\* What a client at its end of the connection sees of a visit: nothing is handled,
\* the first request is answered, or the connection is closed.
Serves(s, kept) ==
    LET u == Seats[s]
    IN  \/ clients'[s] = clients[s] /\ out'[s] = kept /\ up'[u] = up[u]
        \/ /\ clients'[s] = clients[s]
           /\ kept = NoPacket /\ IsResponse(out'[s])
           /\ up[u] # <<>> /\ up'[u] = Tail(up[u])
        \/ clients'[s] = FreeClient /\ up'[u] = <<>>

LEMMA SeatedUser ==
    ASSUME NEW s \in Slots
    PROVE  Seats[s] \in Users /\ SeatOf(Seats[s]) = s
<1>1. Seats[s] \in Users /\ \A r \in Slots : Seats[r] = Seats[s] => r = s
  BY LinksAssumption DEF LinksAssumption
<1> QED BY <1>1 DEF SeatOf

LEMMA TailOf ==
    ASSUME NEW S, NEW q \in Seq(S), q # <<>>
    PROVE  /\ Head(q) \in S /\ Head(q) = q[1] /\ 1 \in DOMAIN q /\ Tail(q) \in Seq(S)
           /\ \A i \in DOMAIN Tail(q) : i + 1 \in DOMAIN q /\ Tail(q)[i] = q[i + 1]
  OBVIOUS

LEMMA BufferTyped ==
    ASSUME IInv
    PROVE  out \in [Slots -> Packet] /\ clients \in [Slots -> Client]
  BY DEF IInv, SoundTables, Sound, SoundBut, TablesType, Tables

LEMMA ServeLinkVisits ==
    ASSUME IInv, LinksTypeOK, Asked, NEW s \in Slots, turn = s, NEW t \in Flushed(s), ServeLink(s, t)
    PROVE  /\ Visit(s, t) /\ OthersNotified(s)
           /\ \/ clients'[s] = clients[s] /\ out'[s] = t.out[s] /\ up' = up
              \/ /\ up[Seats[s]] # <<>>
                 /\ clients'[s] = clients[s] /\ t.out[s] = NoPacket /\ IsResponse(out'[s])
                 /\ up' = [up EXCEPT ![Seats[s]] = Tail(@)]
              \/ /\ clients'[s] = FreeClient /\ up' = [up EXCEPT ![Seats[s]] = <<>>]
                 /\ ~linked[Seats[s]] \/ up[Seats[s]] # <<>>
<1> DEFINE u == Seats[s]
           q == Head(up[u])
<1>1. u \in Users /\ up[u] \in Seq(Request)
  BY SeatedUser DEF LinksTypeOK
<1>2. Serve(s, t)
  BY Zenon DEF ServeLink, Idle, Disconnect, Handle, Decline, Refuse, Chat, Invite, StartFile, RelayChunk, DropFile,
         CompleteFile, ForwardCall
<1>3. clients[s].open /\ FreeClient.open = FALSE
  BY <1>2 DEF Serve, FreeClient
<1>4. CASE Idle(s, t) /\ up' = up
  <2>1. Midway(s, t, t, u, NoPacket) /\ Commit(t)
    BY <1>2, <1>4, FlushedMidway DEF Idle
  <2> QED BY <1>4, <2>1 DEF Midway, Commit, OthersNotified, Visit
<1>5. CASE ~linked[u] /\ Disconnect(s, t) /\ up' = [up EXCEPT ![u] = <<>>]
  <2>1. \A r \in Slots : clients'[r] = IF r = s THEN FreeClient ELSE clients[r]
    BY <1>2, <1>5, FlushedMidway, CloseForgets DEF Disconnect, CloseClient, Commit, Midway
  <2>2. Midway(s, t, t, u, NoPacket) /\ t.transfers = transfers /\ Commit(CloseClient(t, s))
    BY <1>2, <1>5, FlushedMidway, FlushedTame DEF Disconnect
  <2>3. Replied(s, t, NoPacket, u, NoPacket, transfers)
    BY <2>2, CloseReplies
  <2> QED BY <1>5, <2>1, <2>3 DEF Replied, Visit
<1>6. CASE /\ up[u] # <<>>
           /\ Handle(s, t, q) \/ Decline(s, t, q)
           /\ up' = [up EXCEPT ![u] = IF clients'[s].open THEN Tail(up[u]) ELSE <<>>]
  <2>1. q \in Request /\ Sensible(q)
    BY <1>1, <1>6, TailOf DEF Asked
  <2>2. Settled(s, t, q) /\ Visit(s, t)
    BY <1>6, <2>1, HandleReplies, DeclineReplies, HandleDispatches
  <2>3. /\ OthersNotified(s)
        /\ \/ clients'[s] = FreeClient
           \/ clients'[s] = clients[s] /\ t.out[s] = NoPacket /\ IsResponse(out'[s])
    BY <2>2 DEF Settled, Replied, AnswerTo
  <2> QED BY <1>3, <1>6, <2>2, <2>3
<1> QED BY <1>4, <1>5, <1>6 DEF ServeLink

LEMMA ServeLinkServes ==
    ASSUME IInv, LinksTypeOK, Asked, NEW s \in Slots, turn = s, NEW t \in Flushed(s), ServeLink(s, t), linked[Seats[s]]
    PROVE  Flushes(s, t.out[s]) /\ Serves(s, t.out[s])
<1> DEFINE u == Seats[s]
           sent == IF out[s] # NoPacket /\ t.out[s] = NoPacket THEN <<out[s]>> ELSE <<>>
<1>1. u \in Users /\ up \in [Users -> Seq(Request)] /\ down \in [Users -> Seq(Packet)] /\ out[s] \in Packet
  BY SeatedUser, BufferTyped DEF LinksTypeOK
<1>2. t.out[s] \in {out[s], NoPacket}
  <2>1. Shaped(Tables) /\ Tables.out = out
    BY StateFacts DEF Orderly
  <2> QED BY <1>1, <2>1, BufferTyped DEF Flushed, Shaped, IsTables, Fields
<1>3. down'[u] = down[u] \o sent
  BY <1>1 DEF ServeLink
<1>4. down[u] \o <<out[s]>> = Append(down[u], out[s]) /\ down[u] \o <<>> = down[u]
  BY <1>1, AppendIsConcat, ConcatEmptySeq
<1>5. Flushes(s, t.out[s])
  BY <1>2, <1>3, <1>4 DEF Flushes
<1>6. Serves(s, t.out[s])
  BY <1>1, ServeLinkVisits DEF Serves
<1> QED BY <1>5, <1>6

\* Every step of the server is one of ChatServer, and what is on the way stays typed.
LEMMA ServerSteps ==
    ASSUME IInv, LinksTypeOK, Asked, ServerStep
    PROVE  Next /\ LinksTypeOK' /\ Asked'
<1>1. CASE (AcceptDone \/ Sweep \/ \E s \in Slots : SkipClosed(s)) /\ UNCHANGED links
  BY <1>1 DEF Next, Pass, links, LinksTypeOK, Asked
<1>2. ASSUME NEW s \in Slots, turn = s, NEW t \in Flushed(s), ServeLink(s, t)
      PROVE  Next /\ LinksTypeOK' /\ Asked'
  <2> DEFINE u == Seats[s]
             sent == IF out[s] # NoPacket /\ t.out[s] = NoPacket THEN <<out[s]>> ELSE <<>>
  <2>1. u \in Users /\ up \in [Users -> Seq(Request)] /\ down \in [Users -> Seq(Packet)] /\ out[s] \in Packet
    BY SeatedUser, BufferTyped DEF LinksTypeOK
  <2>2. Next
    BY <1>2, ServeLinkVisits DEF Next, Pass
  <2>3. up' = up \/ (up[u] # <<>> /\ up' = [up EXCEPT ![u] = Tail(@)]) \/ up' = [up EXCEPT ![u] = <<>>]
    BY <1>2, ServeLinkVisits
  <2>4. up' \in [Users -> Seq(Request)] /\ Asked'
    <3>1. CASE up' = up
      BY <2>1, <3>1 DEF Asked
    <3>2. CASE up[u] # <<>> /\ up' = [up EXCEPT ![u] = Tail(@)]
      <4>1. /\ up[u] \in Seq(Request) /\ Tail(up[u]) \in Seq(Request)
            /\ \A i \in DOMAIN Tail(up[u]) : i + 1 \in DOMAIN up[u] /\ Tail(up[u])[i] = up[u][i + 1]
        BY <2>1, <3>2, TailOf
      <4>2. \A v \in Users : up'[v] = IF v = u THEN Tail(up[u]) ELSE up[v]
        BY <2>1, <3>2
      <4>3. up' \in [Users -> Seq(Request)]
        BY <2>1, <3>2, <4>1
      <4> HIDE DEF u
      <4>4. ASSUME NEW v \in Users, NEW i \in DOMAIN up'[v] PROVE Sensible(up'[v][i])
        BY <4>1, <4>2 DEF Asked
      <4> QED BY <4>3, <4>4 DEF Asked, Sensible
    <3>3. CASE up' = [up EXCEPT ![u] = <<>>]
      <4>1. \A v \in Users : up'[v] = IF v = u THEN <<>> ELSE up[v]
        BY <2>1, <3>3
      <4>2. up' \in [Users -> Seq(Request)]
        BY <2>1, <3>3
      <4>3. ASSUME NEW v \in Users, NEW i \in DOMAIN up'[v] PROVE Sensible(up'[v][i])
        BY <4>1 DEF Asked
      <4> QED BY <4>2, <4>3 DEF Asked, Sensible
    <3> QED BY <2>3, <3>1, <3>2, <3>3
  <2>5. down' \in [Users -> Seq(Packet)]
    <3>1. sent \in Seq(Packet)
      BY <2>1
    <3>2. down[u] \o sent \in Seq(Packet)
      BY <2>1, <3>1, ConcatProperties
    <3>3. down' = down \/ down' = [down EXCEPT ![u] = @ \o sent]
      BY <1>2 DEF ServeLink
    <3> QED BY <2>1, <3>2, <3>3
  <2>6. UNCHANGED <<job, linked>>
    BY <1>2 DEF ServeLink
  <2> QED BY <2>2, <2>4, <2>5, <2>6 DEF LinksTypeOK
<1> QED BY <1>1, <1>2 DEF ServerStep

-----------------------------------------------------------------------------
(* Requests and responses in step.                                         *)

\* What a client waits for covers what is on the way, and is no more than that
\* while the server has its connection.
Balanced(u) ==
    linked[u] =>
        /\ Pending(u) >= Len(up[u]) + Answers(InFlight(u))
        /\ Connected(u) => Pending(u) = Len(up[u]) + Answers(InFlight(u))

\* The slots belong to the users they are given to, or are free.
Placed == \A s \in Slots : clients[s] = FreeClient \/ (clients[s].open /\ clients[s].user = Seats[s])

LEMMA InFlightIs ==
    ASSUME NEW s \in Slots
    PROVE  /\ InFlight(Seats[s]) =
                 down[Seats[s]] \o IF Connected(Seats[s]) /\ out[s] # NoPacket THEN <<out[s]>> ELSE <<>>
           /\ Connected(Seats[s]) = (clients[s].open /\ clients[s].user = Seats[s])
           /\ InFlight(Seats[s])' =
                 down'[Seats[s]] \o IF Connected(Seats[s])' /\ out'[s] # NoPacket THEN <<out'[s]>> ELSE <<>>
           /\ Connected(Seats[s])' = (clients'[s].open /\ clients'[s].user = Seats[s])
<1>1. SeatOf(Seats[s]) = s
  BY SeatedUser
<1>2. Tables.clients = clients /\ Tables.clients' = clients'
  BY DEF Tables
<1>3. SeatOf(Seats[s])' = SeatOf(Seats[s])
  BY DEF SeatOf
<1>4. Connected(Seats[s]) = (clients[s].open /\ clients[s].user = Seats[s])
  BY <1>1, <1>2 DEF Connected, IsClient
<1>5. Connected(Seats[s])' = (clients'[s].open /\ clients'[s].user = Seats[s])
  BY <1>1, <1>2, <1>3 DEF Connected, IsClient
<1>6. InFlight(Seats[s]) = down[Seats[s]] \o IF Connected(Seats[s]) /\ out[s] # NoPacket THEN <<out[s]>> ELSE <<>>
  BY <1>1 DEF InFlight
<1>7. InFlight(Seats[s])' = down'[Seats[s]] \o IF Connected(Seats[s])' /\ out'[s] # NoPacket THEN <<out'[s]>> ELSE <<>>
  BY <1>1, <1>3 DEF InFlight
<1> QED BY <1>4, <1>5, <1>6, <1>7

Weight(p) == IF IsResponse(p) THEN 1 ELSE 0

\* What is in flight weighs what the client has yet to read and what is buffered for it.
LEMMA FlightWeighs ==
    ASSUME NEW s \in Slots, IInv, LinksTypeOK, IInv', LinksTypeOK'
    PROVE  LET u == Seats[s]
           IN  /\ Answers(InFlight(u)) = Answers(down[u]) + (IF Connected(u) THEN Weight(out[s]) ELSE 0)
               /\ Answers(InFlight(u)') = Answers(down'[u]) + (IF Connected(u)' THEN Weight(out'[s]) ELSE 0)
               /\ Answers(down[u]) \in Nat /\ Answers(down'[u]) \in Nat
               /\ InFlight(u) \in Seq(Packet)
<1> DEFINE u == Seats[s]
<1>1. Weight(NoPacket) = 0
  BY PacketFields DEF Weight, IsResponse
<1>2. ASSUME NEW d \in Seq(Packet), NEW p \in Packet
      PROVE  /\ Answers(d \o <<p>>) = Answers(d) + Weight(p)
             /\ Answers(d) \in Nat
             /\ d \o <<>> = d /\ d \o <<p>> \in Seq(Packet)
  <2>1. d \o <<p>> = Append(d, p) /\ d \o <<>> = d
    BY AppendIsConcat, ConcatEmptySeq
  <2>2. Append(d, p) \in Seq(Packet)
    BY AppendProperties
  <2> QED BY <2>1, <2>2, AnswersAppend DEF Weight
<1>3. u \in Users /\ down[u] \in Seq(Packet) /\ down'[u] \in Seq(Packet)
  BY SeatedUser DEF LinksTypeOK
<1>4. out[s] \in Packet /\ out'[s] \in Packet
  BY BuffersTyped
<1>5. InFlight(u) = down[u] \o IF Connected(u) /\ out[s] # NoPacket THEN <<out[s]>> ELSE <<>>
  BY InFlightIs
<1>6. InFlight(u)' = down'[u] \o IF Connected(u)' /\ out'[s] # NoPacket THEN <<out'[s]>> ELSE <<>>
  BY InFlightIs
<1> HIDE DEF u
<1>7. /\ Answers(InFlight(u)) = Answers(down[u]) + (IF Connected(u) THEN Weight(out[s]) ELSE 0)
      /\ InFlight(u) \in Seq(Packet) /\ Answers(down[u]) \in Nat
  <2>1. CASE Connected(u) /\ out[s] # NoPacket
    BY <1>2, <1>3, <1>4, <1>5, <2>1
  <2>2. CASE ~(Connected(u) /\ out[s] # NoPacket)
    <3>1. InFlight(u) = down[u]
      BY <1>2, <1>3, <1>4, <1>5, <2>2
    <3>2. (IF Connected(u) THEN Weight(out[s]) ELSE 0) = 0
      BY <1>1, <2>2
    <3>3. Answers(down[u]) \in Nat
      BY <1>2, <1>3, <1>4
    <3> QED BY <1>3, <3>1, <3>2, <3>3
  <2> QED BY <2>1, <2>2
<1>8. /\ Answers(InFlight(u)') = Answers(down'[u]) + (IF Connected(u)' THEN Weight(out'[s]) ELSE 0)
      /\ Answers(down'[u]) \in Nat
  <2>1. CASE Connected(u)' /\ out'[s] # NoPacket
    BY <1>2, <1>3, <1>4, <1>6, <2>1
  <2>2. CASE ~(Connected(u)' /\ out'[s] # NoPacket)
    <3>1. InFlight(u)' = down'[u]
      BY <1>2, <1>3, <1>4, <1>6, <2>2
    <3>2. (IF Connected(u)' THEN Weight(out'[s]) ELSE 0) = 0
      BY <1>1, <2>2
    <3>3. Answers(down'[u]) \in Nat
      BY <1>2, <1>3, <1>4
    <3> QED BY <1>3, <3>1, <3>2, <3>3
  <2> QED BY <2>1, <2>2
<1> QED BY <1>7, <1>8 DEF u

\* Only a user with a program has a connection.
Playing == \A u \in Users : linked[u] => \E s \in Slots : Seats[s] = u

\* A flush moves a response from the buffer to the way, if it moves one.
LEMMA FlushWeighs ==
    ASSUME IInv, LinksTypeOK, NEW s \in Slots, NEW kept, Flushes(s, kept)
    PROVE  LET u == Seats[s]
           IN  /\ Answers(down'[u]) + Weight(kept) = Answers(down[u]) + Weight(out[s])
               /\ Answers(down'[u]) \in Nat /\ Answers(down[u]) \in Nat
<1> DEFINE u == Seats[s]
<1>1. Weight(NoPacket) = 0
  BY PacketFields DEF Weight, IsResponse
<1>2. u \in Users /\ down[u] \in Seq(Packet) /\ out[s] \in Packet
  BY SeatedUser, BufferTyped DEF LinksTypeOK
<1>3. Answers(down[u]) \in Nat /\ Answers(Append(down[u], out[s])) = Answers(down[u]) + Weight(out[s])
  BY <1>2, AnswersAppend DEF Weight
<1>4. Weight(out[s]) \in {0, 1}
  BY DEF Weight
<1>5. CASE kept = out[s] /\ down'[u] = down[u]
  BY <1>3, <1>4, <1>5
<1>6. CASE kept = NoPacket /\ out[s] = NoPacket /\ down'[u] = down[u]
  BY <1>1, <1>3, <1>4, <1>6
<1>7. CASE kept = NoPacket /\ down'[u] = Append(down[u], out[s])
  BY <1>1, <1>3, <1>4, <1>7
<1> QED BY <1>5, <1>6, <1>7 DEF Flushes

LEMMA VisitedBalanced ==
    ASSUME IInv, IInv', LinksTypeOK, LinksTypeOK', NEW s \in Slots, NEW kept, Flushes(s, kept), Serves(s, kept),
           linked[Seats[s]], Balanced(Seats[s]), Pending(Seats[s]) \in Nat, Pending(Seats[s])' = Pending(Seats[s]),
           clients[s].open, clients[s].user = Seats[s]
    PROVE  Balanced(Seats[s])'
<1> DEFINE u == Seats[s]
           a == Answers(down[u])
           b == Answers(down'[u])
           k == Weight(kept)
           o == Weight(out[s])
           n == Len(up[u])
<1>1. Connected(u) /\ (Connected(u)' <=> clients'[s].open /\ clients'[s].user = u)
  BY InFlightIs
<1>2. /\ Answers(InFlight(u)) = a + o
      /\ Answers(InFlight(u)') = b + (IF Connected(u)' THEN Weight(out'[s]) ELSE 0)
      /\ b + k = a + o /\ a \in Nat /\ b \in Nat
  BY <1>1, FlightWeighs, FlushWeighs
<1>3. k \in {0, 1} /\ o \in {0, 1} /\ n \in Nat
  BY SeatedUser DEF Weight, LinksTypeOK
<1>4. Pending(u) = n + a + o
  BY <1>1, <1>2, <1>3 DEF Balanced
<1>5. CASE clients'[s] = clients[s] /\ out'[s] = kept /\ up'[u] = up[u]
  <2>1. Connected(u)' /\ Answers(InFlight(u)') = b + k /\ Len(up'[u]) = n
    BY <1>1, <1>2, <1>5
  <2>2. Pending(u)' = Len(up'[u]) + Answers(InFlight(u)')
    BY <1>2, <1>3, <1>4, <2>1
  <2> QED BY <1>2, <1>3, <2>1, <2>2 DEF Balanced
<1>6. CASE /\ clients'[s] = clients[s]
           /\ kept = NoPacket /\ IsResponse(out'[s])
           /\ up[u] # <<>> /\ up'[u] = Tail(up[u])
  <2>1. k = 0 /\ Weight(out'[s]) = 1
    BY <1>6, PacketFields DEF Weight, IsResponse
  <2>2. Connected(u)' /\ Answers(InFlight(u)') = b + 1
    BY <1>1, <1>2, <1>6, <2>1
  <2>3. Len(up'[u]) = n - 1 /\ n - 1 \in Nat
    BY <1>6, SeatedUser DEF LinksTypeOK
  <2>4. n + a + o = (n - 1) + (b + 1)
    <3> HIDE DEF n, a, o, b, k
    <3> QED BY <1>2, <1>3, <2>1
  <2>5. Pending(u)' = Len(up'[u]) + Answers(InFlight(u)')
    BY <1>4, <2>2, <2>3, <2>4
  <2> QED BY <1>2, <1>3, <2>2, <2>3, <2>5 DEF Balanced
<1>7. CASE clients'[s] = FreeClient /\ up'[u] = <<>>
  <2>1. ~Connected(u)' /\ Len(up'[u]) = 0
    BY <1>1, <1>7 DEF FreeClient
  <2>2. Answers(InFlight(u)') = b
    BY <1>2, <2>1
  <2>3. n + a + o >= 0 + b
    <3> HIDE DEF n, a, o, b, k
    <3> QED BY <1>2, <1>3
  <2>4. Pending(u)' >= Len(up'[u]) + Answers(InFlight(u)')
    BY <1>4, <2>1, <2>2, <2>3
  <2> QED BY <2>1, <2>4 DEF Balanced
<1> QED BY <1>5, <1>6, <1>7 DEF Serves

LEMMA PendingTyped ==
    ASSUME CliTypeOK, GuiTypeOK, NEW u \in Users
    PROVE  Pending(u) \in Nat
<1>1. gui[u].pending \in Seq([op : CallOps, id : Nat])
  BY DEF GuiTypeOK, Window
<1> QED BY <1>1 DEF Pending

\* The server keeps every account: its visits answer what they take, and what it
\* does between the visits touches nobody's packets.
LEMMA ServerBalances ==
    ASSUME IInv, IInv', LinksTypeOK, LinksTypeOK', CliTypeOK, GuiTypeOK, Asked, Placed, Playing,
           \A u \in Users : Balanced(u), ServerStep, UNCHANGED <<cliVars, receiveVars, guiVars>>
    PROVE  Placed' /\ Playing' /\ \A u \in Users : Balanced(u)'
<1>1. UNCHANGED <<job, linked, cli, gui>>
  BY DEF ServerStep, ServeLink, links, cliVars, guiVars
<1>2. \A u \in Users : Pending(u)' = Pending(u) /\ Pending(u) \in Nat
  BY <1>1, PendingTyped DEF Pending, IsGui
<1>3. Playing'
  BY <1>1 DEF Playing
<1>4. CASE (AcceptDone \/ Sweep \/ \E s \in Slots : SkipClosed(s)) /\ UNCHANGED links
  <2>1. UNCHANGED <<clients, out, up, down, linked>>
    BY <1>4 DEF AcceptDone, Sweep, SkipClosed, links
  <2>2. Placed'
    BY <2>1 DEF Placed
  <2>3. ASSUME NEW u \in Users PROVE Balanced(u)'
    <3>1. SeatOf(u)' = SeatOf(u)
      BY DEF SeatOf
    <3>2. Connected(u)' = Connected(u)
      BY <2>1, <3>1 DEF Connected, IsClient, Tables
    <3>3. InFlight(u)' = InFlight(u)
      BY <2>1, <3>1, <3>2 DEF InFlight
    <3> QED BY <1>2, <2>1, <3>2, <3>3 DEF Balanced
  <2> QED BY <1>3, <2>2, <2>3
<1>5. ASSUME NEW s \in Slots, turn = s, NEW t \in Flushed(s), ServeLink(s, t)
      PROVE  Placed' /\ \A u \in Users : Balanced(u)'
  <2>1. /\ OthersNotified(s) /\ clients'[s] \in {clients[s], FreeClient}
        /\ \A u \in Users \ {Seats[s]} : up'[u] = up[u]
    BY <1>5, ServeLinkVisits, SeatedUser DEF LinksTypeOK
  <2>2. Placed'
    BY <2>1 DEF Placed, OthersNotified
  <2>3. clients[s].open /\ clients[s].user = Seats[s]
    <3>1. clients[s].open
      BY <1>5, ServeLinkVisits, VisitServes DEF Serve
    <3> QED BY <3>1 DEF Placed, FreeClient
  <2>4. ASSUME linked[Seats[s]] PROVE Balanced(Seats[s])'
    BY <1>2, <1>5, <2>3, <2>4, ServeLinkServes, VisitedBalanced, SeatedUser
  <2>5. ASSUME NEW u \in Users, u # Seats[s], linked[u] PROVE Balanced(u)'
    <3>1. PICK r \in Slots : Seats[r] = u
      BY <2>5 DEF Playing
    <3>2. /\ clients'[r] = clients[r]
          /\ out'[r] = out[r] \/ (out[r] = NoPacket /\ out'[r].kind = "notify")
          /\ up'[u] = up[u]
      BY <2>1, <2>5, <3>1 DEF OthersNotified
    <3>3. down'[u] = down[u]
      BY <1>5, <2>5, SeatedUser DEF ServeLink, LinksTypeOK
    <3>4. Weight(out'[r]) = Weight(out[r])
      BY <3>2, PacketFields DEF Weight, IsResponse
    <3>5. Connected(u)' = Connected(u)
      BY <3>1, <3>2, InFlightIs
    <3>6. /\ Answers(InFlight(u)) = Answers(down[u]) + (IF Connected(u) THEN Weight(out[r]) ELSE 0)
          /\ Answers(InFlight(u)') = Answers(down'[u]) + (IF Connected(u)' THEN Weight(out'[r]) ELSE 0)
      BY <3>1, FlightWeighs
    <3>7. Answers(InFlight(u)') = Answers(InFlight(u))
      BY <3>3, <3>4, <3>5, <3>6
    <3> QED BY <1>1, <1>2, <2>5, <3>2, <3>5, <3>7 DEF Balanced
  <2>6. ASSUME NEW u \in Users, ~linked[u] PROVE Balanced(u)'
    BY <1>1, <2>6 DEF Balanced
  <2> QED BY <2>2, <2>4, <2>5, <2>6
<1> QED BY <1>3, <1>4, <1>5 DEF ServerStep

-----------------------------------------------------------------------------
(* A step of a program.                                                    *)

\* A client that reads w responses and sends n requests has n - w more to wait for.
LEMMA ClientBalanced ==
    ASSUME IInv, IInv', LinksTypeOK, LinksTypeOK', Playing, NEW u \in Users, Balanced(u), linked[u], linked'[u],
           UNCHANGED vars, NEW w, NEW n, Pending(u) \in Nat, Pending(u)' + w = Pending(u) + n, Pending(u)' \in Nat,
           \/ down'[u] = down[u] /\ w = 0
           \/ down[u] # <<>> /\ down'[u] = Tail(down[u]) /\ w = Weight(Head(down[u])),
           \/ up'[u] = up[u] /\ n = 0
           \/ n = 1 /\ \E q \in Request : up'[u] = Append(up[u], q)
    PROVE  Balanced(u)'
<1>1. PICK s \in Slots : Seats[s] = u
  BY DEF Playing
<1>2. clients' = clients /\ out' = out
  BY DEF vars
<1>3. Connected(u)' = Connected(u)
  BY <1>1, <1>2, InFlightIs
<1> DEFINE a == Answers(down[u])
           b == Answers(down'[u])
           o == IF Connected(u) THEN Weight(out[s]) ELSE 0
           k == Len(up[u])
           m == Len(up'[u])
<1>4. Answers(InFlight(u)) = a + o /\ Answers(InFlight(u)') = b + o /\ a \in Nat /\ b \in Nat /\ o \in {0, 1}
  <2>1. out'[s] = out[s]
    BY <1>2
  <2>2. /\ Answers(InFlight(u)) = Answers(down[u]) + (IF Connected(u) THEN Weight(out[s]) ELSE 0)
        /\ Answers(InFlight(u)') = Answers(down'[u]) + (IF Connected(u)' THEN Weight(out'[s]) ELSE 0)
        /\ Answers(down[u]) \in Nat /\ Answers(down'[u]) \in Nat
    BY <1>1, FlightWeighs
  <2> QED BY <1>3, <2>1, <2>2 DEF Weight
<1>5. b + w = a /\ w \in {0, 1}
  <2>1. CASE down'[u] = down[u] /\ w = 0
    BY <1>4, <2>1
  <2>2. CASE down[u] # <<>> /\ down'[u] = Tail(down[u]) /\ w = Weight(Head(down[u]))
    <3>1. down[u] \in Seq(Packet)
      BY DEF LinksTypeOK
    <3>2. a = Answers(Tail(down[u])) + (IF IsResponse(Head(down[u])) THEN 1 ELSE 0)
      BY <2>2, <3>1, AnswersTail
    <3> QED BY <2>2, <3>2 DEF Weight
  <2> QED BY <2>1, <2>2
<1>6. m = k + n /\ k \in Nat /\ m \in Nat /\ n \in {0, 1}
  <2>1. up[u] \in Seq(Request)
    BY DEF LinksTypeOK
  <2> QED BY <2>1
<1>7. Pending(u) >= k + (a + o) /\ (Connected(u) => Pending(u) = k + (a + o))
  BY <1>4 DEF Balanced
<1>8. ASSUME NEW x \in Nat, NEW y \in Nat, y + w = x + n
      PROVE  /\ x >= k + (a + o) => y >= m + (b + o)
             /\ x = k + (a + o) => y = m + (b + o)
  <2> HIDE DEF a, b, o, k, m
  <2> QED BY <1>4, <1>5, <1>6, <1>8
<1>9. /\ Pending(u) >= k + (a + o) => Pending(u)' >= m + (b + o)
      /\ Pending(u) = k + (a + o) => Pending(u)' = m + (b + o)
  <2> HIDE DEF a, b, o, k, m
  <2> QED BY <1>8
<1> QED BY <1>3, <1>4, <1>7, <1>9 DEF Balanced

\* A response that arrives is the answer to something.
LEMMA ResponseAwaited ==
    ASSUME IInv, IInv', LinksTypeOK, LinksTypeOK', Playing, NEW u \in Users, Balanced(u), linked[u],
           Pending(u) \in Nat, down[u] # <<>>
    PROVE  Pending(u) >= Weight(Head(down[u]))
<1>1. PICK s \in Slots : Seats[s] = u
  BY DEF Playing
<1> DEFINE a == Answers(down[u])
           o == IF Connected(u) THEN Weight(out[s]) ELSE 0
           k == Len(up[u])
           b == Answers(Tail(down[u]))
           w == Weight(Head(down[u]))
<1>2. Answers(InFlight(u)) = a + o /\ a \in Nat /\ o \in {0, 1}
  BY <1>1, FlightWeighs DEF Weight
<1>3. a = b + w /\ b \in Nat /\ w \in {0, 1}
  <2>1. down[u] \in Seq(Packet)
    BY DEF LinksTypeOK
  <2> QED BY <2>1, AnswersTail DEF Weight
<1>4. k \in Nat
  <2>1. up[u] \in Seq(Request)
    BY DEF LinksTypeOK
  <2> QED BY <2>1
<1>5. Pending(u) >= k + (a + o)
  BY <1>2 DEF Balanced
<1> HIDE DEF a, b, o, k, w
<1>6. Pending(u) >= w
  BY <1>2, <1>3, <1>4, <1>5
<1> QED BY <1>6 DEF w

\* Another client's step is no concern of an account.
LEMMA OthersBalanced ==
    ASSUME NEW u \in Users, Balanced(u), Pending(u)' = Pending(u), UNCHANGED vars,
           up'[u] = up[u], down'[u] = down[u], linked'[u] = linked[u]
    PROVE  Balanced(u)'
<1>1. SeatOf(u)' = SeatOf(u)
  BY DEF SeatOf
<1>2. clients' = clients /\ out' = out
  BY DEF vars
<1>3. Connected(u)' = Connected(u)
  BY <1>1, <1>2 DEF Connected, IsClient, Tables
<1>4. InFlight(u)' = InFlight(u)
  BY <1>1, <1>2, <1>3 DEF InFlight
<1> QED BY <1>3, <1>4 DEF Balanced

-----------------------------------------------------------------------------
(* The commands of chat_cli.                                               *)

\* A command that waits has sent a request of its program; the listener never does.
Commanded(u) ==
    LET c == cli[u]
    IN  /\ c.waiting => c.asks \in {"chat", "file-start", "file-chunk", "file-complete"}
        /\ c.waiting \/ c.asks \in {"chat", "file-start"} => job[u].program \in {"send", "send-file"}
        /\ c.asks \in {"file-start", "file-chunk"} => job[u].program = "send-file"
        /\ c.asks = "file-chunk" => c.sent < job[u].size

LEMMA JobTyped ==
    ASSUME job \in Casts, NEW u \in Users
    PROVE  job[u] \in Job /\ (job[u].program = "send-file" => job[u].size \in FileSizes)
  BY LinksAssumption DEF LinksAssumption

LEMMA NoRequestTyped == NoRequest \in Request
  BY DEF NoRequest, Request, Ops

\* What a command sends is a request the server knows.
LEMMA RequestTyped ==
    ASSUME job \in Casts, NEW u \in Users, NEW c \in Command,
           c.asks \in {"chat", "file-start", "file-chunk", "file-complete"},
           c.asks \in {"file-start", "file-chunk"} => job[u].program = "send-file",
           c.asks = "file-chunk" => c.sent < job[u].size
    PROVE  /\ RequestOf(u, c) \in Request /\ Sensible(RequestOf(u, c))
           /\ c.asks = "file-chunk" => RequestOf(u, c).len \in 1 .. job[u].size - c.sent
<1> DEFINE q == [NoRequest EXCEPT !.op = c.asks, !.id = c.id]
           rest == job[u].size - c.sent
           len == IF rest < MaxChunk THEN rest ELSE MaxChunk
<1>1. /\ job[u].to \in Users /\ job[u].size \in Nat /\ c.sent \in Nat /\ c.id \in Nat
      /\ MaxChunk \in Nat \ {0} /\ FileSizes \subseteq Nat
  BY JobTyped, ServerAssumption DEF Job, Command
<1>2. q \in Request /\ q.op = c.asks
  <2> DEFINE none == NoRequest
  <2>1. c.asks \in Ops /\ none \in Request
    BY NoRequestTyped DEF Ops
  <2> HIDE DEF none
  <2>2. [none EXCEPT !.op = c.asks, !.id = c.id] \in Request /\ [none EXCEPT !.op = c.asks, !.id = c.id].op = c.asks
    BY <1>1, <2>1 DEF Request
  <2> QED BY <2>2 DEF none
<1>3. CASE c.asks = "chat"
  <2>1. RequestOf(u, c) = [q EXCEPT !.to = job[u].to]
    BY <1>3 DEF RequestOf
  <2> HIDE DEF q
  <2>2. LET e == [q EXCEPT !.to = job[u].to] IN e \in Request /\ e.op = q.op /\ e.to = job[u].to
    BY <1>1, <1>2 DEF Request
  <2> QED BY <1>1, <1>2, <1>3, <2>1, <2>2 DEF Sensible
<1>4. CASE c.asks = "file-start"
  <2>1. RequestOf(u, c) = [q EXCEPT !.to = job[u].to, !.len = job[u].size]
    BY <1>4 DEF RequestOf
  <2>2. job[u].size \in FileSizes
    BY <1>4, JobTyped
  <2> HIDE DEF q
  <2>3. LET e == [q EXCEPT !.to = job[u].to, !.len = job[u].size]
        IN  e \in Request /\ e.op = q.op /\ e.to = job[u].to /\ e.len = job[u].size
    BY <1>1, <1>2 DEF Request
  <2> QED BY <1>1, <1>2, <1>4, <2>1, <2>2, <2>3 DEF Sensible
<1>5. CASE c.asks = "file-chunk"
  <2>1. RequestOf(u, c) = [q EXCEPT !.index = c.sent \div MaxChunk, !.len = len]
    BY <1>5 DEF RequestOf
  <2>2. len \in 1 .. MaxChunk /\ len \in 1 .. rest /\ len \in Nat
    BY <1>1, <1>5
  <2>3. c.sent \div MaxChunk \in Nat
    BY <1>1
  <2> HIDE DEF len, q, rest
  <2>4. LET e == [q EXCEPT !.index = c.sent \div MaxChunk, !.len = len] IN e \in Request /\ e.op = q.op /\ e.len = len
    BY <1>2, <2>2, <2>3 DEF Request
  <2> QED BY <1>2, <1>5, <2>1, <2>2, <2>4 DEF Sensible, rest
<1>6. CASE c.asks = "file-complete"
  <2>1. RequestOf(u, c) = q
    BY <1>6 DEF RequestOf
  <2> HIDE DEF q
  <2> QED BY <1>2, <1>6, <2>1 DEF Sensible
<1> QED BY <1>3, <1>4, <1>5, <1>6

\* The invariant: types, where everybody is, what is asked, and the accounts.
ClientsInv ==
    /\ IInv /\ LinksTypeOK /\ CliTypeOK /\ GuiTypeOK
    /\ job \in Casts /\ Placed /\ Playing /\ Asked
    /\ \A u \in Users : Commanded(u)
    /\ \A u \in Users : Balanced(u)

\* What a step of u leaves alone.
OnlyOf(u) ==
    /\ UNCHANGED <<vars, job>>
    /\ \A v \in Users \ {u} : up'[v] = up[v] /\ down'[v] = down[v] /\ linked'[v] = linked[v]
    /\ linked'[u] => linked[u]
    /\ \A v \in Users \ {u} : cli'[v] = cli[v] /\ gui'[v] = gui[v]

LEMMA OnlyOfKeeps ==
    ASSUME ClientsInv, NEW u \in Users, OnlyOf(u), LinksTypeOK', CliTypeOK', GuiTypeOK', Asked',
           Commanded(u)', Balanced(u)'
    PROVE  ClientsInv'
<1>1. IInv'
  BY StepSound DEF ClientsInv, OnlyOf
<1>2. clients' = clients /\ job' = job /\ job \in Casts
  BY DEF ClientsInv, OnlyOf, vars
<1>3. Placed'
  BY <1>2 DEF ClientsInv, Placed
<1>4. Playing'
  BY DEF ClientsInv, Playing, OnlyOf
<1>5. ASSUME NEW v \in Users \ {u} PROVE Commanded(v)'
  BY <1>2 DEF ClientsInv, Commanded, OnlyOf
<1>6. ASSUME NEW v \in Users \ {u} PROVE Balanced(v)'
  <2>1. Pending(v)' = Pending(v)
    BY <1>2 DEF OnlyOf, Pending, IsGui
  <2> QED BY <2>1, OthersBalanced DEF ClientsInv, OnlyOf
<1> QED BY <1>1, <1>2, <1>3, <1>4, <1>5, <1>6 DEF ClientsInv

LEMMA SendTyped ==
    ASSUME LinksTypeOK, Asked, NEW u \in Users, NEW q \in Request, Sensible(q), Send(u, q)
    PROVE  /\ up' \in [Users -> Seq(Request)] /\ Asked'
           /\ up'[u] = Append(up[u], q) /\ \A v \in Users \ {u} : up'[v] = up[v]
<1>1. up \in [Users -> Seq(Request)] /\ up' = [up EXCEPT ![u] = Append(@, q)]
  BY DEF LinksTypeOK, Send
<1>2. Append(up[u], q) \in Seq(Request)
  BY <1>1
<1>3. up' \in [Users -> Seq(Request)] /\ up'[u] = Append(up[u], q) /\ \A v \in Users \ {u} : up'[v] = up[v]
  BY <1>1, <1>2
<1>4. ASSUME NEW i \in DOMAIN up'[u] PROVE Sensible(up'[u][i])
  <2>1. up[u] \in Seq(Request)
    BY <1>1
  <2>2. i \in DOMAIN up[u] \/ Append(up[u], q)[i] = q
    BY <1>3, <1>4, <2>1
  <2>3. i \in DOMAIN up[u] => Append(up[u], q)[i] = up[u][i]
    BY <2>1
  <2> QED BY <1>3, <2>2, <2>3 DEF Asked
<1>5. ASSUME NEW v \in Users, NEW i \in DOMAIN up'[v] PROVE Sensible(up'[v][i])
  BY <1>3, <1>4, <1>5 DEF Asked
<1> QED BY <1>3, <1>5 DEF Asked, Sensible

LEMMA TakeTyped ==
    ASSUME LinksTypeOK, NEW u \in Users, Arrived(u), Take(u)
    PROVE  /\ down' \in [Users -> Seq(Packet)]
           /\ down'[u] = Tail(down[u]) /\ \A v \in Users \ {u} : down'[v] = down[v]
           /\ down[u] # <<>> /\ linked[u] /\ Head(down[u]) \in Packet
<1>1. down \in [Users -> Seq(Packet)] /\ down' = [down EXCEPT ![u] = Tail(@)] /\ down[u] # <<>> /\ linked[u]
  BY DEF LinksTypeOK, Take, Arrived
<1>2. Tail(down[u]) \in Seq(Packet) /\ Head(down[u]) \in Packet
  BY <1>1, TailOf
<1> QED BY <1>1, <1>2

LEMMA LeaveTyped ==
    ASSUME LinksTypeOK, NEW u \in Users, Leave(u)
    PROVE  /\ down' \in [Users -> Seq(Packet)] /\ linked' \in [Users -> BOOLEAN] /\ ~linked'[u]
           /\ \A v \in Users \ {u} : down'[v] = down[v] /\ linked'[v] = linked[v]
           /\ Balanced(u)'
<1>1. /\ down \in [Users -> Seq(Packet)] /\ linked \in [Users -> BOOLEAN]
      /\ linked' = [linked EXCEPT ![u] = FALSE] /\ down' = [down EXCEPT ![u] = <<>>]
  BY DEF LinksTypeOK, Leave
<1>2. ~linked'[u]
  BY <1>1
<1> QED BY <1>1, <1>2 DEF Balanced

LEMMA BeginKeepsInv ==
    ASSUME ClientsInv, NEW u \in Users, Begin(u), UNCHANGED guiVars
    PROVE  ClientsInv'
<1> DEFINE c == cli[u]
           q == RequestOf(u, c)
<1>1. /\ cli \in [Users -> Command] /\ c \in Command /\ job \in Casts
      /\ LinksTypeOK /\ IInv /\ Asked /\ Playing /\ Commanded(u) /\ Balanced(u) /\ CliTypeOK /\ GuiTypeOK
  BY DEF ClientsInv, CliTypeOK
<1>2. c.asks \in {"chat", "file-start"} /\ ~c.waiting /\ job[u].program \in {"send", "send-file"}
      /\ (c.asks = "file-start" => job[u].program = "send-file")
  BY <1>1 DEF Begin, Commanded
<1>3. q \in Request /\ Sensible(q)
  BY <1>1, <1>2, RequestTyped
<1>4. UNCHANGED <<vars, job, down, linked, gui, audio, awaited>> /\ Send(u, q) /\ cli' = [cli EXCEPT ![u].waiting = TRUE]
  BY DEF Begin, guiVars
<1> HIDE DEF q
<1>5. /\ up' \in [Users -> Seq(Request)] /\ Asked'
      /\ up'[u] = Append(up[u], q) /\ \A v \in Users \ {u} : up'[v] = up[v]
  BY <1>1, <1>3, <1>4, SendTyped
<1>6. LinksTypeOK'
  BY <1>1, <1>4, <1>5 DEF LinksTypeOK
<1>7. /\ cli' \in [Users -> Command] /\ \A v \in Users \ {u} : cli'[v] = cli[v]
      /\ cli'[u].waiting /\ cli'[u].asks = c.asks /\ cli'[u].sent = c.sent
  BY <1>1, <1>4 DEF Command
<1>8. CliTypeOK' /\ GuiTypeOK'
  BY <1>1, <1>4, <1>7 DEF CliTypeOK, GuiTypeOK
<1>9. Commanded(u)'
  BY <1>2, <1>4, <1>7 DEF Commanded
<1>10. Balanced(u)'
  <2>1. ~IsGui(u) /\ Pending(u) = 0 /\ Pending(u)' = 1
    BY <1>2, <1>4, <1>7 DEF Pending, IsGui
  <2>2. IInv'
    BY <1>1, <1>4, StepSound
  <2>3. CASE linked[u]
    <3>1. Pending(u)' + 0 = Pending(u) + 1 /\ Pending(u) \in Nat /\ Pending(u)' \in Nat
      BY <2>1
    <3>2. linked'[u] /\ down'[u] = down[u]
      BY <1>4, <2>3
    <3> QED BY <1>1, <1>3, <1>4, <1>5, <1>6, <2>2, <2>3, <3>1, <3>2, ClientBalanced
  <2>4. CASE ~linked[u]
    BY <1>4, <2>4 DEF Balanced
  <2> QED BY <2>3, <2>4
<1>11. OnlyOf(u)
  BY <1>4, <1>5, <1>7 DEF OnlyOf
<1> QED BY <1>6, <1>5, <1>8, <1>9, <1>10, <1>11, OnlyOfKeeps

LEMMA FailKeepsInv ==
    ASSUME ClientsInv, NEW u \in Users, Fail(u), UNCHANGED guiVars
    PROVE  ClientsInv'
<1>1. cli \in [Users -> Command] /\ LinksTypeOK /\ CliTypeOK /\ GuiTypeOK /\ Asked /\ job \in Casts
  BY DEF ClientsInv, CliTypeOK
<1>2. UNCHANGED <<vars, job, up, gui, audio, awaited>> /\ Leave(u) /\ cli' = [cli EXCEPT ![u] = Started("failed")]
  BY DEF Fail, guiVars
<1>3. /\ LinksTypeOK' /\ ~linked'[u] /\ Balanced(u)'
      /\ \A v \in Users \ {u} : down'[v] = down[v] /\ linked'[v] = linked[v]
  BY <1>1, <1>2, LeaveTyped DEF LinksTypeOK
<1>4. Started("failed") \in Command /\ Started("failed").sent = 0 /\ Started("failed").asks = "failed" /\ ~Started("failed").waiting
  BY DEF Started, Command
<1>5. cli' \in [Users -> Command] /\ cli'[u] = Started("failed") /\ \A v \in Users \ {u} : cli'[v] = cli[v]
  BY <1>1, <1>2, <1>4
<1>6. job[u].size \in Nat
  BY <1>1, JobTyped DEF Job
<1>7. CliTypeOK' /\ GuiTypeOK' /\ Asked'
  BY <1>1, <1>2, <1>4, <1>5, <1>6 DEF CliTypeOK, GuiTypeOK, Asked
<1>8. Commanded(u)'
  BY <1>4, <1>5 DEF Commanded
<1>9. OnlyOf(u)
  BY <1>2, <1>3, <1>5 DEF OnlyOf
<1> QED BY <1>3, <1>7, <1>8, <1>9, OnlyOfKeeps

LEMMA ListenLeavesInv ==
    ASSUME ClientsInv, NEW u \in Users, ListenEnds(u) \/ ListenerKilled(u), UNCHANGED guiVars
    PROVE  ClientsInv'
<1>1. cli \in [Users -> Command] /\ LinksTypeOK /\ CliTypeOK /\ GuiTypeOK /\ Asked /\ job \in Casts /\ Commanded(u)
  BY DEF ClientsInv, CliTypeOK
<1>2. PICK asks \in {"ok", "failed"} :
        /\ UNCHANGED <<vars, job, up, gui, audio, awaited>> /\ Leave(u)
        /\ cli' = [cli EXCEPT ![u].asks = asks]
        /\ job[u].program = "listen"
  <2>1. CASE ListenEnds(u)
    BY <2>1 DEF ListenEnds, Listening, guiVars
  <2>2. CASE ListenerKilled(u)
    BY <2>2 DEF ListenerKilled, Listening, guiVars
  <2> QED BY <2>1, <2>2
<1>3. /\ LinksTypeOK' /\ ~linked'[u] /\ Balanced(u)'
      /\ \A v \in Users \ {u} : down'[v] = down[v] /\ linked'[v] = linked[v]
  BY <1>1, <1>2, LeaveTyped DEF LinksTypeOK
<1>4. /\ cli' \in [Users -> Command] /\ \A v \in Users \ {u} : cli'[v] = cli[v]
      /\ cli'[u].asks = asks /\ cli'[u].waiting = cli[u].waiting /\ cli'[u].sent = cli[u].sent
  BY <1>1, <1>2 DEF Command
<1>5. CliTypeOK' /\ GuiTypeOK' /\ Asked'
  BY <1>1, <1>2, <1>4 DEF CliTypeOK, GuiTypeOK, Asked
<1>6. Commanded(u)'
  BY <1>1, <1>2, <1>4 DEF Commanded
<1>7. OnlyOf(u)
  BY <1>2, <1>3, <1>4 DEF OnlyOf
<1> QED BY <1>3, <1>5, <1>6, <1>7, OnlyOfKeeps

LEMMA HearKeepsInv ==
    ASSUME ClientsInv, NEW u \in Users, Hear(u), UNCHANGED guiVars
    PROVE  ClientsInv'
<1>1. /\ cli \in [Users -> Command] /\ LinksTypeOK /\ CliTypeOK /\ GuiTypeOK /\ Asked /\ job \in Casts /\ Commanded(u)
      /\ IInv /\ Playing /\ Balanced(u) /\ awaited \in [Users -> Nat]
  BY DEF ClientsInv, CliTypeOK
<1>2. PICK n \in {0, 1} :
        /\ UNCHANGED <<vars, job, up, linked, cli, gui, audio>> /\ Take(u) /\ Arrived(u)
        /\ awaited' = [awaited EXCEPT ![u] = @ - n]
        /\ job[u].program = "listen" /\ awaited[u] > 0 /\ linked[u]
  <2>1. awaited[u] - 0 = awaited[u]
    BY <1>1
  <2> QED BY <2>1 DEF Hear, Listening, guiVars
<1>3. /\ down' \in [Users -> Seq(Packet)]
      /\ down'[u] = Tail(down[u]) /\ \A v \in Users \ {u} : down'[v] = down[v]
      /\ down[u] # <<>> /\ linked[u]
  BY <1>1, <1>2, TakeTyped
<1>4. LinksTypeOK' /\ Asked'
  BY <1>1, <1>2, <1>3 DEF LinksTypeOK, Asked
<1>5. awaited' \in [Users -> Nat]
  BY <1>1, <1>2
<1>6. CliTypeOK' /\ GuiTypeOK' /\ Commanded(u)'
  BY <1>1, <1>2, <1>5 DEF CliTypeOK, GuiTypeOK, Commanded
<1>7. IInv'
  BY <1>1, <1>2, StepSound
<1>8. Pending(u) = 0 /\ Pending(u)' = 0
  BY <1>1, <1>2 DEF Pending, IsGui, Commanded
<1>9. Weight(Head(down[u])) = 0
  BY <1>1, <1>3, <1>4, <1>7, <1>8, ResponseAwaited DEF Weight
<1>10. Balanced(u)'
  <2>1. Pending(u)' + 0 = Pending(u) + 0 /\ Pending(u) \in Nat /\ Pending(u)' \in Nat
    BY <1>8
  <2>2. linked'[u] /\ up'[u] = up[u]
    BY <1>2
  <2> QED BY <1>1, <1>2, <1>3, <1>4, <1>7, <1>9, <2>1, <2>2, ClientBalanced
<1>11. OnlyOf(u)
  BY <1>2, <1>3 DEF OnlyOf
<1> QED BY <1>4, <1>6, <1>10, <1>11, OnlyOfKeeps

\* What a command does next is in order again.
LEMMA AnsweredTyped ==
    ASSUME ClientsInv, NEW u \in Users, cli[u].waiting, NEW p \in Packet
    PROVE  LET c == Answered(u, p)
           IN  /\ c \in Command /\ c.sent <= job[u].size
               /\ c.asks \in {"ok", "file-chunk", "file-complete"}
               /\ c.waiting = (c.asks # "ok")
               /\ c.asks # "ok" => job[u].program = "send-file"
               /\ c.asks = "file-chunk" => c.sent < job[u].size
<1> DEFINE c == cli[u]
           sent == SentAfter(u)
           next == CASE c.asks \in {"chat", "file-complete"} -> "ok"
                     [] c.asks \in {"file-start", "file-chunk"} /\ sent < job[u].size -> "file-chunk"
                     [] OTHER -> "file-complete"
           id == IF c.asks = "file-start" THEN p.id ELSE c.id
<1>1. /\ c \in Command /\ job \in Casts /\ c.sent \in Nat /\ c.sent <= job[u].size /\ c.id \in Nat
      /\ job[u].size \in Nat /\ Commanded(u) /\ p.id \in Nat
  BY JobTyped DEF ClientsInv, CliTypeOK, Command, Job, Packet
<1>2. /\ c.asks \in {"chat", "file-start", "file-chunk", "file-complete"}
      /\ c.asks \in {"file-start", "file-chunk"} => job[u].program = "send-file"
      /\ c.asks = "file-chunk" => c.sent < job[u].size
  BY <1>1 DEF Commanded
<1>3. sent \in Nat /\ sent <= job[u].size
  <2>1. CASE c.asks = "file-chunk"
    <3>1. RequestOf(u, c).len \in 1 .. job[u].size - c.sent
      BY <1>1, <1>2, <2>1, RequestTyped
    <3>2. sent = c.sent + RequestOf(u, c).len
      BY <2>1 DEF SentAfter
    <3> HIDE DEF sent
    <3> QED BY <1>1, <3>1, <3>2
  <2>2. CASE c.asks # "file-chunk"
    <3>1. sent = c.sent + 0
      BY <2>2 DEF SentAfter
    <3> HIDE DEF sent
    <3> QED BY <1>1, <3>1
  <2> QED BY <2>1, <2>2
<1>4. Answered(u, p) = [asks |-> next, waiting |-> next # "ok", sent |-> sent, id |-> id]
  BY DEF Answered
<1> HIDE DEF sent
<1>5. /\ next \in {"ok", "file-chunk", "file-complete"}
      /\ next = "file-chunk" => sent < job[u].size
      /\ next # "ok" => c.asks \in {"file-start", "file-chunk"}
  <2>1. CASE c.asks \in {"chat", "file-complete"}
    BY <2>1
  <2>2. CASE c.asks \notin {"chat", "file-complete"} /\ sent < job[u].size
    BY <1>2, <2>2
  <2>3. CASE c.asks \notin {"chat", "file-complete"} /\ ~(sent < job[u].size)
    BY <1>2, <2>3
  <2> QED BY <2>1, <2>2, <2>3
<1>6. id \in Nat
  BY <1>1
<1> HIDE DEF next, id
<1> QED BY <1>2, <1>3, <1>4, <1>5, <1>6 DEF Command

LEMMA ProceedKeepsInv ==
    ASSUME ClientsInv, NEW u \in Users, Proceed(u), UNCHANGED guiVars
    PROVE  ClientsInv'
<1> DEFINE p == Head(down[u])
           c == Answered(u, p)
           q == RequestOf(u, c)
<1>1. /\ cli \in [Users -> Command] /\ LinksTypeOK /\ CliTypeOK /\ GuiTypeOK /\ Asked /\ job \in Casts /\ Commanded(u)
      /\ IInv /\ Playing /\ Balanced(u)
  BY DEF ClientsInv, CliTypeOK
<1>2. /\ UNCHANGED <<vars, job, gui, audio, awaited>> /\ cli' = [cli EXCEPT ![u] = c]
      /\ cli[u].waiting /\ Arrived(u) /\ p.kind = "ok"
      /\ IF c.asks = "ok" THEN Leave(u) /\ UNCHANGED up ELSE Take(u) /\ Send(u, q) /\ UNCHANGED linked
  BY DEF Proceed, guiVars
<1>3. down[u] # <<>> /\ linked[u] /\ down[u] \in Seq(Packet) /\ p \in Packet
  BY <1>1, <1>2, TailOf DEF Arrived, LinksTypeOK
<1> HIDE DEF p
<1>4. /\ c \in Command /\ c.sent <= job[u].size
      /\ c.asks \in {"ok", "file-chunk", "file-complete"}
      /\ c.waiting = (c.asks # "ok")
      /\ c.asks # "ok" => job[u].program = "send-file"
      /\ c.asks = "file-chunk" => c.sent < job[u].size
  BY <1>2, <1>3, AnsweredTyped
<1> HIDE DEF c, q
<1>5. cli' \in [Users -> Command] /\ cli'[u] = c /\ \A v \in Users \ {u} : cli'[v] = cli[v]
  BY <1>1, <1>2, <1>4
<1>6. CliTypeOK' /\ GuiTypeOK'
  BY <1>1, <1>2, <1>4, <1>5 DEF CliTypeOK, GuiTypeOK
<1>7. Commanded(u)'
  BY <1>2, <1>4, <1>5 DEF Commanded
<1>8. CASE c.asks = "ok"
  <2>1. Leave(u) /\ up' = up
    BY <1>2, <1>8
  <2>2. /\ LinksTypeOK' /\ ~linked'[u] /\ Balanced(u)' /\ Asked'
        /\ \A v \in Users \ {u} : down'[v] = down[v] /\ linked'[v] = linked[v]
    BY <1>1, <1>2, <2>1, LeaveTyped DEF LinksTypeOK, Asked
  <2>3. OnlyOf(u)
    BY <1>2, <1>5, <2>1, <2>2 DEF OnlyOf
  <2> QED BY <1>6, <1>7, <2>2, <2>3, OnlyOfKeeps
<1>9. CASE c.asks # "ok"
  <2>1. Take(u) /\ Send(u, q) /\ linked' = linked
    BY <1>2, <1>9
  <2>2. q \in Request /\ Sensible(q)
    BY <1>1, <1>4, <1>9, RequestTyped DEF q
  <2>3. /\ down' \in [Users -> Seq(Packet)]
        /\ down'[u] = Tail(down[u]) /\ \A v \in Users \ {u} : down'[v] = down[v]
    BY <1>1, <1>2, <2>1, TakeTyped
  <2>4. /\ up' \in [Users -> Seq(Request)] /\ Asked'
        /\ up'[u] = Append(up[u], q) /\ \A v \in Users \ {u} : up'[v] = up[v]
    BY <1>1, <2>1, <2>2, SendTyped
  <2>5. LinksTypeOK'
    BY <1>1, <1>2, <2>1, <2>3, <2>4 DEF LinksTypeOK
  <2>6. IInv'
    BY <1>1, <1>2, StepSound
  <2>7. ~IsGui(u) /\ Pending(u) = 1 /\ Pending(u)' = 1
    BY <1>1, <1>2, <1>4, <1>5, <1>9 DEF Pending, IsGui, Commanded
  <2>8. Weight(p) = 1
    BY <1>2 DEF Weight, IsResponse
  <2>9. Balanced(u)'
    <3>1. Pending(u)' + 1 = Pending(u) + 1 /\ Pending(u) \in Nat /\ Pending(u)' \in Nat
      BY <2>7
    <3>2. linked'[u] /\ 1 = Weight(Head(down[u]))
      BY <1>3, <2>1, <2>8 DEF p
    <3> QED BY <1>1, <1>2, <1>3, <2>2, <2>3, <2>4, <2>5, <2>6, <3>1, <3>2, ClientBalanced
  <2>10. OnlyOf(u)
    BY <1>2, <1>5, <2>1, <2>3, <2>4 DEF OnlyOf
  <2> QED BY <1>6, <1>7, <2>4, <2>5, <2>9, <2>10, OnlyOfKeeps
<1> QED BY <1>8, <1>9

LEMMA CliKeepsInv ==
    ASSUME ClientsInv, NEW u \in Users, CliStep(u), UNCHANGED guiVars
    PROVE  ClientsInv'
BY BeginKeepsInv, ProceedKeepsInv, FailKeepsInv, HearKeepsInv, ListenLeavesInv DEF CliStep

-----------------------------------------------------------------------------
(* The windows of chat_gui.                                                *)

PendingCall == [op : CallOps, id : Nat]

LEMMA WindowFields ==
    ASSUME NEW w \in Window
    PROVE  /\ w.call \in Nat /\ w.pending \in Seq(PendingCall)
           /\ NoCall(w) \in Window /\ NoCall(w).pending = w.pending
           /\ \A q \in Seq(PendingCall) :
                 LET e == [w EXCEPT !.pending = q] IN e \in Window /\ e.pending = q
  BY DEF Window, NoCall, PendingCall

\* What the audio session can become.
LEMMA AudioTyped ==
    ASSUME NEW a \in Session
    PROVE  /\ \A signals \in Seq(RelayOps) : WithAudio(a, signals) \in Session
           /\ Stopped(a) \subseteq Session
           /\ <<>> \in Seq(RelayOps)
           /\ Made("offer") \o Made("ice") \in Seq(RelayOps)
           /\ Made("answer") \o Made("ice") \in Seq(RelayOps)
<1>1. a.ready \in Seq(RelayOps)
  BY DEF Session
<1>2. ASSUME NEW op \in RelayOps PROVE Made(op) \in Seq(RelayOps)
  BY <1>2 DEF Made
<1>3. \A q, r \in Seq(RelayOps) : q \o r \in Seq(RelayOps)
  BY ConcatProperties
<1>4. ASSUME NEW signals \in Seq(RelayOps) PROVE WithAudio(a, signals) \in Session
  <2>1. a.ready \o signals \in Seq(RelayOps)
    BY <1>1, <1>3
  <2> QED BY <2>1 DEF WithAudio, Session
<1>5. Stopped(a) \subseteq Session
  <2>1. ASSUME NEW n \in 0 .. Len(a.ready) PROVE SubSeq(a.ready, 1, n) \in Seq(RelayOps)
    BY <1>1
  <2>2. ASSUME NEW b \in Stopped(a) PROVE b \in Session
    <3>1. PICK n \in 0 .. Len(a.ready) : b = [on |-> FALSE, ready |-> SubSeq(a.ready, 1, n)]
      BY <2>2 DEF Stopped
    <3> QED BY <2>1, <3>1 DEF Session
  <2> QED BY <2>2
<1>6. Made("offer") \in Seq(RelayOps) /\ Made("ice") \in Seq(RelayOps) /\ Made("answer") \in Seq(RelayOps)
  BY <1>2 DEF RelayOps
<1> QED BY <1>3, <1>4, <1>5, <1>6

\* The request of a window joins the pending ones, or nothing is sent.
LEMMA QueueKeepsInv ==
    ASSUME ClientsInv, NEW u \in Users, Local(u), NEW op \in CallOps, NEW id \in Nat, NEW to \in Users \cup {NoUser},
           op = "invite" => to \in Users, NEW sent \in Window, NEW failed \in Window,
           sent.pending = gui[u].pending, failed.pending = gui[u].pending, Queue(u, op, id, to, sent, failed),
           audio' \in [Users -> Session], UNCHANGED <<cliVars, receiveVars>>
    PROVE  ClientsInv'
<1> DEFINE none == NoRequest
           q == [none EXCEPT !.op = op, !.id = id, !.to = to]
           r == [op |-> op, id |-> id]
<1>1. /\ gui \in [Users -> Window] /\ LinksTypeOK /\ CliTypeOK /\ GuiTypeOK /\ Asked /\ job \in Casts /\ Commanded(u)
      /\ IInv /\ Playing /\ Balanced(u)
  BY DEF ClientsInv, GuiTypeOK
<1>2. UNCHANGED <<vars, job, down, linked, cli, awaited>> /\ IsGui(u) /\ linked[u]
  BY DEF Local, Using, cliVars
<1>3. q \in Request /\ q.op = op /\ q.to = to
  <2>1. none \in Request /\ op \in Ops
    BY NoRequestTyped DEF Ops, CallOps
  <2> HIDE DEF none
  <2> QED BY <2>1 DEF Request
<1>4. Sensible(q)
  BY <1>3 DEF Sensible, CallOps, EndOps, RelayOps
<1>5. gui[u].pending \in Seq(PendingCall) /\ r \in PendingCall
  BY <1>1, WindowFields DEF PendingCall
<1>6. CliTypeOK' /\ Commanded(u)' /\ IInv' /\ linked'[u]
  BY <1>1, <1>2, StepSound DEF CliTypeOK, Commanded
<1>7. CASE Send(u, q) /\ gui' = [gui EXCEPT ![u] = [sent EXCEPT !.pending = Append(@, r)]]
  <2> HIDE DEF q, r
  <2>1. /\ up' \in [Users -> Seq(Request)] /\ Asked'
        /\ up'[u] = Append(up[u], q) /\ \A v \in Users \ {u} : up'[v] = up[v]
    BY <1>1, <1>3, <1>4, <1>7, SendTyped
  <2>2. Append(gui[u].pending, r) \in Seq(PendingCall) /\ Len(Append(gui[u].pending, r)) = Len(gui[u].pending) + 1
    BY <1>5
  <2> DEFINE after == [sent EXCEPT !.pending = Append(@, r)]
  <2>3. after \in Window /\ after.pending = Append(gui[u].pending, r)
    BY <2>2 DEF Window, PendingCall
  <2>4. gui' = [gui EXCEPT ![u] = after]
    BY <1>7
  <2> HIDE DEF after
  <2>5. gui' \in [Users -> Window] /\ gui'[u] = after /\ \A v \in Users \ {u} : gui'[v] = gui[v]
    BY <1>1, <2>3, <2>4
  <2>6. LinksTypeOK' /\ GuiTypeOK'
    BY <1>1, <1>2, <2>1, <2>5 DEF LinksTypeOK, GuiTypeOK
  <2>7. Pending(u) = Len(gui[u].pending) /\ Pending(u)' = Len(gui[u].pending) + 1
    BY <1>2, <2>2, <2>3, <2>5 DEF Pending, IsGui
  <2>8. Balanced(u)'
    <3>1. Len(gui[u].pending) \in Nat
      BY <1>5
    <3>2. Pending(u)' + 0 = Pending(u) + 1 /\ Pending(u) \in Nat /\ Pending(u)' \in Nat
      BY <2>7, <3>1
    <3>3. down'[u] = down[u]
      BY <1>2
    <3> QED BY <1>1, <1>2, <1>3, <1>6, <2>1, <2>6, <3>2, <3>3, ClientBalanced
  <2>9. OnlyOf(u)
    BY <1>2, <2>1, <2>5 DEF OnlyOf
  <2> QED BY <1>6, <2>1, <2>6, <2>8, <2>9, OnlyOfKeeps
<1>8. CASE gui' = [gui EXCEPT ![u] = failed] /\ up' = up
  <2>1. gui' \in [Users -> Window] /\ gui'[u] = failed /\ \A v \in Users \ {u} : gui'[v] = gui[v]
    BY <1>1, <1>8
  <2>2. LinksTypeOK' /\ GuiTypeOK' /\ Asked'
    BY <1>1, <1>2, <1>8, <2>1 DEF LinksTypeOK, GuiTypeOK, Asked
  <2>3. Pending(u)' = Pending(u)
    BY <1>2, <2>1 DEF Pending, IsGui
  <2>4. Balanced(u)'
    BY <1>1, <1>2, <1>8, <2>3, OthersBalanced
  <2>5. OnlyOf(u)
    BY <1>2, <1>8, <2>1 DEF OnlyOf
  <2> QED BY <1>6, <2>2, <2>4, <2>5, OnlyOfKeeps
<1> QED BY <1>7, <1>8 DEF Queue

LEMMA ClicksKeepInv ==
    ASSUME ClientsInv, NEW u \in Users,
           ClickInvite(u) \/ ClickAccept(u) \/ (\E op \in EndOps : ClickEnd(u, op)) \/ SignalReady(u),
           UNCHANGED <<cliVars, receiveVars>>
    PROVE  ClientsInv'
<1> DEFINE w == gui[u]
<1>1. gui \in [Users -> Window] /\ audio \in [Users -> Session] /\ w \in Window /\ audio[u] \in Session
  BY DEF ClientsInv, GuiTypeOK
<1>2. w.call \in Nat /\ NoCall(w) \in Window /\ NoCall(w).pending = w.pending
  BY <1>1, WindowFields
<1>3. CASE ClickInvite(u)
  <2>1. PICK to \in Users : Queue(u, "invite", 0, to, w, NoCall(w))
    BY <1>3 DEF ClickInvite
  <2>2. Local(u) /\ audio' = audio /\ "invite" \in CallOps
    BY <1>3 DEF ClickInvite, CallOps
  <2> QED BY <1>1, <1>2, <2>1, <2>2, QueueKeepsInv
<1>4. CASE ClickAccept(u)
  <2>1. Local(u) /\ "accept" \in CallOps /\ Queue(u, "accept", w.call, NoUser, w, w)
        /\ audio' = [audio EXCEPT ![u] = WithAudio(@, <<>>)]
    BY <1>4 DEF ClickAccept, CallOps
  <2>2. WithAudio(audio[u], <<>>) \in Session
    BY <1>1, AudioTyped
  <2>3. audio' \in [Users -> Session]
    BY <1>1, <2>1, <2>2
  <2> QED BY <1>1, <1>2, <2>1, <2>3, QueueKeepsInv
<1>5. CASE \E op \in EndOps : ClickEnd(u, op)
  <2>1. PICK op \in EndOps : ClickEnd(u, op)
    BY <1>5
  <2>2. PICK a \in Stopped(audio[u]) : audio' = [audio EXCEPT ![u] = a]
    BY <2>1 DEF ClickEnd
  <2>3. audio' \in [Users -> Session]
    BY <1>1, <2>2, AudioTyped
  <2>4. Local(u) /\ op \in CallOps /\ op # "invite" /\ Queue(u, op, w.call, NoUser, NoCall(w), NoCall(w))
    BY <2>1 DEF ClickEnd, CallOps, EndOps
  <2> QED BY <1>1, <1>2, <2>3, <2>4, QueueKeepsInv
<1>6. CASE SignalReady(u)
  <2> DEFINE ready == audio[u].ready
             op == Head(ready)
             a == [audio[u] EXCEPT !.ready = Tail(@)]
  <2>1. ready \in Seq(RelayOps) /\ ready # <<>>
    BY <1>1, <1>6 DEF Session, SignalReady
  <2>2. op \in RelayOps /\ Tail(ready) \in Seq(RelayOps)
    BY <2>1, TailOf
  <2>3. op \in CallOps /\ op # "invite"
    BY <2>2 DEF CallOps, RelayOps
  <2>4. a \in Session
    BY <1>1, <2>2 DEF Session
  <2>5. Local(u) /\ audio' = [audio EXCEPT ![u] = a]
    BY <1>6 DEF SignalReady
  <2> HIDE DEF a
  <2>6. audio' \in [Users -> Session]
    BY <1>1, <2>4, <2>5
  <2>7. CASE w.call # 0
    <3>1. Queue(u, op, w.call, NoUser, w, w)
      BY <1>6, <2>7 DEF SignalReady
    <3> HIDE DEF op
    <3> QED BY <1>1, <1>2, <2>3, <2>5, <2>6, <3>1, QueueKeepsInv
  <2>8. CASE w.call = 0
    <3>1. UNCHANGED <<gui, up, vars, job, down, linked, cli, awaited>>
      BY <1>6, <2>5, <2>8 DEF SignalReady, Local, cliVars
    <3>2. LinksTypeOK' /\ CliTypeOK' /\ GuiTypeOK' /\ Asked' /\ Commanded(u)'
      BY <2>6, <3>1 DEF ClientsInv, LinksTypeOK, CliTypeOK, GuiTypeOK, Asked, Commanded
    <3>3. Balanced(u)'
      <4>1. Pending(u)' = Pending(u)
        BY <3>1 DEF Pending, IsGui
      <4> QED BY <3>1, <4>1, OthersBalanced DEF ClientsInv
    <3>4. OnlyOf(u)
      BY <3>1 DEF OnlyOf
    <3> QED BY <3>2, <3>3, <3>4, OnlyOfKeeps
  <2> QED BY <2>7, <2>8
<1> QED BY <1>3, <1>4, <1>5, <1>6

\* What a packet makes of the window and the audio: a response uses up a request.
LEMMA EventTyped ==
    ASSUME NEW w \in Window, NEW a \in Session, NEW p \in Packet, NEW r
    PROVE  LET e == OnResponse(w, a, r, p)
               f == OnNotify(w, a, p)
           IN  /\ e.window \in Window /\ e.window.pending = w.pending /\ e.audio \subseteq Session
               /\ f.window \in Window /\ f.window.pending = w.pending /\ f.audio \subseteq Session
<1>1. NoCall(w) \in Window /\ NoCall(w).pending = w.pending
  BY WindowFields
<1>2. p.id \in Nat
  BY DEF Packet
<1>3. \A b \in BOOLEAN : LET e == [w EXCEPT !.call = p.id, !.incoming = b] IN e \in Window /\ e.pending = w.pending
  BY <1>2 DEF Window
<1>4. [w EXCEPT !.call = p.id] \in Window /\ [w EXCEPT !.call = p.id].pending = w.pending
  BY <1>2 DEF Window
<1>5. /\ WithAudio(a, Made("offer") \o Made("ice")) \in Session
      /\ WithAudio(a, Made("answer") \o Made("ice")) \in Session
      /\ Stopped(a) \subseteq Session
  BY AudioTyped
<1> DEFINE x == [w EXCEPT !.call = p.id, !.incoming = FALSE]
           y == [w EXCEPT !.call = p.id, !.incoming = TRUE]
           z == [w EXCEPT !.call = p.id]
           n == NoCall(w)
           b == WithAudio(a, Made("offer") \o Made("ice"))
           c == WithAudio(a, Made("answer") \o Made("ice"))
           d == Stopped(a)
<1>6. /\ x \in Window /\ x.pending = w.pending /\ y \in Window /\ y.pending = w.pending
      /\ z \in Window /\ z.pending = w.pending /\ n \in Window /\ n.pending = w.pending
      /\ b \in Session /\ c \in Session /\ d \subseteq Session
  BY <1>1, <1>3, <1>4, <1>5
<1>7. OnResponse(w, a, r, p) \in {Becomes(x, {b}), Becomes(n, {a}), Becomes(w, {a})}
  BY DEF OnResponse
<1>8. OnNotify(w, a, p) \in {Becomes(y, {a}), Becomes(x, {a}), Becomes(n, d), Becomes(z, {c}), Becomes(w, {a})}
  BY DEF OnNotify
<1> HIDE DEF x, y, z, n, b, c, d
<1>9. \A v, A : Becomes(v, A).window = v /\ Becomes(v, A).audio = A
  BY DEF Becomes
<1> QED BY <1>6, <1>7, <1>8, <1>9

LEMMA ReceiveKeepsInv ==
    ASSUME ClientsInv, NEW u \in Users, Receive(u), UNCHANGED <<cliVars, receiveVars>>
    PROVE  ClientsInv'
<1> DEFINE p == Head(down[u])
           w == gui[u]
           a == audio[u]
           v == [w EXCEPT !.pending = Tail(@)]
           answered == IsResponse(p)
           after == IF answered THEN OnResponse(v, a, Head(w.pending), p) ELSE OnNotify(w, a, p)
<1>1. /\ gui \in [Users -> Window] /\ audio \in [Users -> Session] /\ w \in Window /\ a \in Session
      /\ LinksTypeOK /\ CliTypeOK /\ GuiTypeOK /\ Asked /\ job \in Casts /\ Commanded(u) /\ IInv /\ Playing /\ Balanced(u)
      /\ Pending(u) \in Nat
  BY PendingTyped DEF ClientsInv, GuiTypeOK
<1>2. /\ UNCHANGED <<vars, job, up, linked, cli, awaited>> /\ IsGui(u) /\ Arrived(u) /\ Take(u)
      /\ gui' = [gui EXCEPT ![u] = after.window]
      /\ \E b \in after.audio : audio' = [audio EXCEPT ![u] = b]
  BY DEF Receive, Using, cliVars
<1>3. /\ down' \in [Users -> Seq(Packet)]
      /\ down'[u] = Tail(down[u]) /\ \A r \in Users \ {u} : down'[r] = down[r]
      /\ down[u] # <<>> /\ linked[u] /\ p \in Packet
  BY <1>1, <1>2, TakeTyped
<1>4. LinksTypeOK' /\ Asked' /\ IInv' /\ CliTypeOK' /\ Commanded(u)'
  BY <1>1, <1>2, <1>3, StepSound DEF LinksTypeOK, Asked, CliTypeOK, Commanded
<1>5. Pending(u) = Len(w.pending) /\ w.pending \in Seq(PendingCall)
  BY <1>1, <1>2, WindowFields DEF Pending
<1>6. answered => w.pending # <<>>
  <2>1. Pending(u) >= Weight(p)
    BY <1>1, <1>3, <1>4, ResponseAwaited
  <2>2. answered => Weight(p) = 1
    BY DEF Weight
  <2> HIDE DEF p, w, answered
  <2> QED BY <1>5, <2>1, <2>2
<1>7. /\ after.window \in Window /\ after.audio \subseteq Session
      /\ after.window.pending = IF answered THEN Tail(w.pending) ELSE w.pending
  <2>1. CASE answered
    <3>1. Tail(w.pending) \in Seq(PendingCall)
      BY <1>5, <1>6, <2>1
    <3>2. v \in Window /\ v.pending = Tail(w.pending)
      BY <1>1, <3>1 DEF Window, PendingCall
    <3> HIDE DEF v, w, a, p
    <3> QED BY <1>1, <1>3, <2>1, <3>2, EventTyped
  <2>2. CASE ~answered
    <3> HIDE DEF v, w, a, p
    <3> QED BY <1>1, <1>3, <2>2, EventTyped
  <2> QED BY <2>1, <2>2
<1> HIDE DEF after
<1>8. gui' \in [Users -> Window] /\ gui'[u] = after.window /\ \A r \in Users \ {u} : gui'[r] = gui[r]
  BY <1>1, <1>2, <1>7
<1>9. GuiTypeOK'
  BY <1>1, <1>2, <1>7, <1>8 DEF GuiTypeOK
<1>10. Balanced(u)'
  <2>1. Pending(u)' = Len(after.window.pending)
    BY <1>2, <1>8 DEF Pending, IsGui
  <2>2. Pending(u)' + Weight(p) = Pending(u) + 0 /\ Pending(u)' \in Nat
    <3>1. CASE answered
      <4>1. Len(Tail(w.pending)) = Len(w.pending) - 1 /\ Len(w.pending) \in Nat \ {0}
        BY <1>5, <1>6, <3>1
      <4>2. Weight(p) = 1
        BY <3>1 DEF Weight
      <4> QED BY <1>5, <1>7, <2>1, <3>1, <4>1, <4>2
    <3>2. CASE ~answered
      <4>1. Weight(p) = 0
        BY <3>2 DEF Weight
      <4> QED BY <1>5, <1>7, <2>1, <3>2, <4>1
    <3> QED BY <3>1, <3>2
  <2>3. linked'[u] /\ up'[u] = up[u]
    BY <1>2, <1>3
  <2> QED BY <1>1, <1>2, <1>3, <1>4, <2>2, <2>3, ClientBalanced
<1>11. OnlyOf(u)
  BY <1>2, <1>3, <1>8 DEF OnlyOf
<1> QED BY <1>4, <1>9, <1>10, <1>11, OnlyOfKeeps

LEMMA DisconnectedKeepsInv ==
    ASSUME ClientsInv, NEW u \in Users, Disconnected(u), UNCHANGED <<cliVars, receiveVars>>
    PROVE  ClientsInv'
<1> DEFINE n == NoCall(gui[u])
           w == [n EXCEPT !.pending = <<>>]
<1>1. /\ gui \in [Users -> Window] /\ audio \in [Users -> Session] /\ gui[u] \in Window /\ audio[u] \in Session
      /\ LinksTypeOK /\ CliTypeOK /\ GuiTypeOK /\ Asked /\ job \in Casts /\ Commanded(u)
  BY DEF ClientsInv, GuiTypeOK
<1>2. /\ UNCHANGED <<vars, job, up, cli, awaited>> /\ Leave(u)
      /\ gui' = [gui EXCEPT ![u] = w]
      /\ \E a \in Stopped(audio[u]) : audio' = [audio EXCEPT ![u] = a]
  BY DEF Disconnected, cliVars
<1>3. w \in Window
  <2>1. n \in Window /\ <<>> \in Seq(PendingCall)
    BY <1>1, WindowFields
  <2> HIDE DEF n
  <2> QED BY <2>1 DEF Window, PendingCall
<1> HIDE DEF w
<1>4. /\ LinksTypeOK' /\ ~linked'[u] /\ Balanced(u)'
      /\ \A v \in Users \ {u} : down'[v] = down[v] /\ linked'[v] = linked[v]
  BY <1>1, <1>2, LeaveTyped DEF LinksTypeOK
<1>5. gui' \in [Users -> Window] /\ \A v \in Users \ {u} : gui'[v] = gui[v]
  BY <1>1, <1>2, <1>3
<1>6. GuiTypeOK' /\ CliTypeOK' /\ Asked' /\ Commanded(u)'
  BY <1>1, <1>2, <1>5, AudioTyped DEF GuiTypeOK, CliTypeOK, Asked, Commanded
<1>7. OnlyOf(u)
  BY <1>2, <1>4, <1>5 DEF OnlyOf
<1> QED BY <1>4, <1>6, <1>7, OnlyOfKeeps

LEMMA GuiKeepsInv ==
    ASSUME ClientsInv, NEW u \in Users, GuiStep(u), UNCHANGED <<cliVars, receiveVars>>
    PROVE  ClientsInv'
BY ClicksKeepInv, ReceiveKeepsInv, DisconnectedKeepsInv DEF GuiStep

-----------------------------------------------------------------------------
(* The instance as a whole.                                                *)

LEMMA ServerKeepsInv ==
    ASSUME ClientsInv, ServerStep, UNCHANGED <<cliVars, receiveVars, guiVars>>
    PROVE  ClientsInv'
<1>1. IInv /\ LinksTypeOK /\ CliTypeOK /\ GuiTypeOK /\ job \in Casts /\ Placed /\ Playing /\ Asked
  BY DEF ClientsInv
<1>2. IInv' /\ LinksTypeOK' /\ Asked'
  BY <1>1, ServerSteps, StepSound
<1>3. job' = job
  BY DEF ServerStep, ServeLink, links
<1>4. CliTypeOK' /\ GuiTypeOK' /\ \A u \in Users : Commanded(u)'
  BY <1>1, <1>3 DEF ClientsInv, CliTypeOK, GuiTypeOK, Commanded, cliVars, guiVars
<1>5. Placed' /\ Playing' /\ \A u \in Users : Balanced(u)'
  BY <1>1, <1>2, ServerBalances DEF ClientsInv
<1> QED BY <1>1, <1>2, <1>3, <1>4, <1>5 DEF ClientsInv

LEMMA ClientsStep == ClientsInv /\ [ClientsNext]_clientsVars => ClientsInv'
<1> SUFFICES ASSUME ClientsInv, [ClientsNext]_clientsVars PROVE ClientsInv'
  OBVIOUS
<1>1. CASE UNCHANGED clientsVars
  <2>1. UNCHANGED <<vars, job, up, down, linked, cli, awaited, gui, audio>>
    BY <1>1 DEF clientsVars, links, cliVars, guiVars
  <2>2. IInv'
    BY <2>1, StepSound DEF ClientsInv
  <2>3. LinksTypeOK' /\ CliTypeOK' /\ GuiTypeOK' /\ Asked' /\ Playing' /\ job' \in Casts
        /\ \A u \in Users : Commanded(u)'
    BY <2>1 DEF ClientsInv, LinksTypeOK, CliTypeOK, GuiTypeOK, Asked, Playing, Commanded
  <2>4. Placed'
    BY <2>1 DEF ClientsInv, Placed, vars
  <2>5. ASSUME NEW u \in Users PROVE Balanced(u)'
    <3>1. Pending(u)' = Pending(u)
      BY <2>1 DEF Pending, IsGui
    <3> QED BY <2>1, <3>1, OthersBalanced DEF ClientsInv
  <2> QED BY <2>2, <2>3, <2>4, <2>5 DEF ClientsInv
<1> QED BY <1>1, ServerKeepsInv, CliKeepsInv, GuiKeepsInv DEF ClientsNext

LEMMA LinksInitSound == LinksInit => IInv
<1> SUFFICES ASSUME LinksInit PROVE IInv
  OBVIOUS
<1>1. /\ clients = [s \in Slots |-> IF job[Seats[s]].program = "none" THEN FreeClient
                                    ELSE [open |-> TRUE, user |-> Seats[s], session |-> s]]
      /\ out = [s \in Slots |-> NoPacket] /\ calls = {} /\ transfers = {}
      /\ ids = [FirstIds EXCEPT !.session = NSlots + 1] /\ turn = 0 /\ accounts = Users
      /\ messages = <<>> /\ groups = <<>> /\ fileRows = <<>>
  BY DEF LinksInit, EmptyTables
<1>2. \A s \in Slots : Seats[s] \in Users /\ s \in Nat /\ (\A r \in Slots : Seats[r] = Seats[s] => r = s)
  BY LinksAssumption DEF Slots, LinksAssumption
<1>3. NSlots \in Nat /\ NoUser \notin Users
  BY ServerAssumption
<1>4. RestTypeOK
  <2>1. ids \in [session : Nat \ {0}, call : Nat \ {0}, transfer : Nat \ {0}]
    BY <1>1, <1>3 DEF FirstIds
  <2> QED BY <1>1, <1>3, <2>1 DEF RestTypeOK
<1>5. clients \in [Slots -> Client] /\ FreeClient.user = NoUser /\ FreeClient \in Client
  <2>1. FreeClient \in Client /\ FreeClient.user = NoUser
    BY ConstantTypes DEF FreeClient
  <2>2. \A s \in Slots : [open |-> TRUE, user |-> Seats[s], session |-> s] \in Client
    BY <1>2 DEF Client
  <2> QED BY <1>1, <2>1, <2>2
<1>6. out \in [Slots -> Packet] /\ NoPacket.kind = "none"
  BY <1>1, ConstantTypes, PacketFields DEF Responses
<1>7. \A s \in Slots : clients[s] = FreeClient \/ (clients[s].open /\ clients[s].user = Seats[s])
  BY <1>1
<1>8. Tables \in TablesType
  BY <1>1, <1>5, <1>6 DEF Tables, TablesType
<1>9. ClosedIsClean(Tables)
  BY <1>1, <1>7 DEF ClosedIsClean, Tables
<1>10. OnePerUser(Tables)
  BY <1>2, <1>5, <1>7 DEF OnePerUser, Tables
<1>11. OneCall(Tables) /\ Addressed(Tables, Slots)
  BY <1>1, <1>6 DEF OneCall, Addressed, Tables
<1> QED BY <1>4, <1>8, <1>9, <1>10, <1>11 DEF IInv, SoundTables, Sound, SoundBut

LEMMA ClientsInitHolds == ClientsInit => ClientsInv
<1> SUFFICES ASSUME ClientsInit PROVE ClientsInv
  OBVIOUS
<1>1. LinksInit /\ CliInit /\ GuiInit /\ job \in Casts /\ IInv
  BY LinksInitSound DEF ClientsInit, LinksInit
<1>2. \A u \in Users : job[u] \in Job /\ job[u].size \in Nat /\ job[u].expect \in Nat
  BY <1>1, JobTyped DEF Job
<1>3. job \in [Users -> Job]
  BY <1>1, LinksAssumption DEF LinksAssumption
<1>4. /\ up = [u \in Users |-> <<>>] /\ down = [u \in Users |-> <<>>]
      /\ linked = [u \in Users |-> job[u].program # "none"]
      /\ \A s \in Slots : out[s] = NoPacket
  BY <1>1 DEF LinksInit, EmptyTables
<1>5. LinksTypeOK /\ Asked
  BY <1>3, <1>4 DEF LinksTypeOK, Asked
<1>6. Playing
  BY <1>1, <1>4, LinksAssumption DEF Playing, LinksAssumption
<1>7. Placed
  BY <1>1 DEF Placed, LinksInit
<1>8. \A u \in Users : /\ cli[u] \in Command /\ ~cli[u].waiting /\ cli[u].sent = 0
                       /\ cli[u].asks \in {"chat", "file-start", "none"}
                       /\ cli[u].asks = "chat" => job[u].program = "send"
                       /\ cli[u].asks = "file-start" => job[u].program = "send-file"
  <2>1. ASSUME NEW u \in Users
        PROVE  \E asks \in {"chat", "file-start", "none"} :
                  /\ cli[u] = Started(asks)
                  /\ asks = "chat" => job[u].program = "send"
                  /\ asks = "file-start" => job[u].program = "send-file"
    <3>1. CASE job[u].program = "send"
      BY <1>1, <3>1 DEF CliInit
    <3>2. CASE job[u].program = "send-file"
      BY <1>1, <3>2 DEF CliInit
    <3>3. CASE job[u].program \notin {"send", "send-file"}
      BY <1>1, <3>3 DEF CliInit
    <3> QED BY <3>1, <3>2, <3>3
  <2>2. \A asks \in {"chat", "file-start", "none"} :
           LET c == Started(asks) IN c \in Command /\ ~c.waiting /\ c.sent = 0 /\ c.asks = asks
    BY DEF Started, Command
  <2> QED BY <2>1, <2>2
<1>9. CliTypeOK
  <2>1. cli \in [Users -> Command]
    BY <1>1, <1>8 DEF CliInit
  <2>2. awaited \in [Users -> Nat]
    BY <1>1, <1>2 DEF CliInit
  <2> QED BY <1>2, <1>8, <2>1, <2>2 DEF CliTypeOK
<1>10. GuiTypeOK
  <2>1. [call |-> 0, incoming |-> FALSE, pending |-> <<>>] \in Window /\ [on |-> FALSE, ready |-> <<>>] \in Session
    BY DEF Window, Session
  <2> QED BY <1>1, <2>1 DEF GuiInit, GuiTypeOK
<1>11. \A u \in Users : Commanded(u)
  BY <1>8 DEF Commanded
<1>12. ASSUME NEW u \in Users PROVE Balanced(u)
  <2>1. Pending(u) = 0
    BY <1>1, <1>8 DEF Pending, GuiInit
  <2>2. SUFFICES ASSUME linked[u] PROVE Balanced(u)
    BY DEF Balanced
  <2>3. PICK s \in Slots : Seats[s] = u
    BY <1>6, <2>2 DEF Playing
  <2>4. InFlight(u) = <<>> \o <<>>
    BY <1>4, <2>3, InFlightIs
  <2>5. <<>> \o <<>> = <<>> /\ Len(up[u]) = 0
    BY <1>4
  <2>6. Answers(<<>>) = 0
    <3>1. {i \in DOMAIN <<>> : IsResponse(<<>>[i])} = {}
      OBVIOUS
    <3> QED BY <3>1, FS_EmptySet DEF Answers, Count
  <2> QED BY <2>1, <2>4, <2>5, <2>6 DEF Balanced
<1> QED BY <1>1, <1>5, <1>6, <1>7, <1>9, <1>10, <1>11, <1>12 DEF ClientsInv

LEMMA ClientsInvHolds == ClientsSpec => []ClientsInv
BY ClientsInitHolds, ClientsStep, PTL DEF ClientsSpec

\* Requests and responses stay in step for any number of users and whatever they run:
\* no handler answers twice or forgets to answer.
THEOREM RequestsAreAnsweredOnce == ClientsSpec => []AnsweredOnce
<1>1. ClientsInv => AnsweredOnce
  BY DEF ClientsInv, Balanced, AnsweredOnce, Answers
<1> QED BY <1>1, ClientsInvHolds, PTL

LEMMA ClientsServe == ClientsInv /\ [ClientsNext]_clientsVars => [Next]_vars
<1> SUFFICES ASSUME ClientsInv, [ClientsNext]_clientsVars PROVE [Next]_vars
  OBVIOUS
<1>1. CASE ServerStep
  BY <1>1, ServerSteps DEF ClientsInv
<1>2. ASSUME NEW u \in Users, CliStep(u) PROVE UNCHANGED vars
  BY <1>2 DEF CliStep, Begin, Proceed, Fail, Hear, ListenEnds, ListenerKilled
<1>3. ASSUME NEW u \in Users, GuiStep(u) PROVE UNCHANGED vars
  BY <1>3 DEF GuiStep, ClickInvite, ClickAccept, ClickEnd, SignalReady, Receive, Disconnected, Local
<1>4. CASE UNCHANGED clientsVars
  BY <1>4 DEF clientsVars
<1> QED BY <1>1, <1>2, <1>3, <1>4 DEF ClientsNext

\* What the server does among the programs of its users is what ChatServer says it
\* may do, so the step properties proved of ChatServer are theirs too.
THEOREM ServerAmongClients == ClientsSpec => [][Next]_vars
BY ClientsServe, ClientsInvHolds, PTL DEF ClientsSpec

LEMMA ClientsRelayOpen == ClientsSpec => []RelayOpen
<1>1. ClientsInit => RelayOpen
  BY DEF ClientsInit, LinksInit, EmptyTables, RelayOpen, RowsOpen
<1>2. ClientsInv /\ RelayOpen /\ [ClientsNext]_clientsVars => RelayOpen'
  BY ClientsServe, RelayStep DEF ClientsInv
<1> QED BY <1>1, <1>2, ClientsInvHolds, PTL DEF ClientsSpec

\* Active transfers own their rows and their ids among the senders and listeners, too.
THEOREM ClientsTransfersOwnRows == ClientsSpec => []TransferRowsOpen
<1>1. RelayOpen => TransferRowsOpen
  BY DEF RelayOpen, RowsOpen, TransferRowsOpen
<1> QED BY <1>1, ClientsRelayOpen, PTL

-----------------------------------------------------------------------------
(* The receiver among the clients.                                         *)

\* Content of a file is named by its transfer and its place.
LEMMA ContentTyped ==
    ASSUME Nat \X Nat \subseteq Data, NEW id \in Nat, NEW first \in Nat, NEW len \in Nat
    PROVE  Content(id, first, len) \in Seq(Data)
<1>1. \A i \in 1 .. len : <<id, first + i>> \in Data
  OBVIOUS
<1>2. [i \in 1 .. len |-> <<id, first + i>>] \in [1 .. len -> Data]
  BY <1>1
<1> QED BY <1>2 DEF Content

\* What a listener makes of a notify is one of the receiver's steps, or none.
LEMMA HearReceives ==
    ASSUME ClientsInv, Nat \X Nat \subseteq Data, NEW u \in Users, Hear(u)
    PROVE  [ReceiveStep]_receiveVars
<1> DEFINE p == Head(down[u])
<1>1. p \in Packet
  <2>1. down[u] \in Seq(Packet) /\ down[u] # <<>>
    BY DEF ClientsInv, LinksTypeOK, Hear, Arrived
  <2> QED BY <2>1, TailOf
<1>2. /\ p.id \in Nat /\ p.index \in Nat /\ p.len \in Nat
      /\ p.index * MaxChunk \in Nat
  BY <1>1, ServerAssumption DEF Packet
<1>3. /\ \/ UNCHANGED receiveVars
         \/ \E name \in Names : BeginFile([id |-> p.id, whole |-> Content(p.id, 0, p.len), name |-> name])
         \/ WriteChunk([id |-> p.id, index |-> p.index, bytes |-> Content(p.id, p.index * MaxChunk, p.len)])
         \/ FinishFile(p.id)
  BY DEF Hear
<1>4. Content(p.id, 0, p.len) \in Seq(Data) /\ Content(p.id, p.index * MaxChunk, p.len) \in Seq(Data)
  BY <1>2, ContentTyped
<1>5. /\ \A name \in Names : [id |-> p.id, whole |-> Content(p.id, 0, p.len), name |-> name] \in Announced
      /\ [id |-> p.id, index |-> p.index, bytes |-> Content(p.id, p.index * MaxChunk, p.len)] \in Pieces
  BY <1>2, <1>4 DEF Announced, Pieces
<1> HIDE DEF p
<1> QED BY <1>2, <1>3, <1>5 DEF ReceiveStep

LEMMA ClientsReceive ==
    ASSUME ClientsInv, Nat \X Nat \subseteq Data, [ClientsNext]_clientsVars
    PROVE  [ReceiveStep]_receiveVars
<1>1. ASSUME NEW u \in Users, CliStep(u) PROVE [ReceiveStep]_receiveVars
  <2>1. CASE Hear(u)
    BY <2>1, HearReceives
  <2>2. CASE ~Hear(u)
    BY <1>1, <2>2 DEF CliStep, Begin, Proceed, Fail, ListenEnds, ListenerKilled, ReceiveStep
  <2> QED BY <2>1, <2>2
<1>2. CASE UNCHANGED receiveVars
  BY <1>2
<1>3. CASE UNCHANGED clientsVars
  BY <1>3 DEF clientsVars
<1> QED BY <1>1, <1>2, <1>3 DEF ClientsNext

LEMMA ReceiverAmongClients ==
    ASSUME Nat \X Nat \subseteq Data
    PROVE  ClientsSpec => []ReceiveInvariant
<1>1. ClientsInit => ReceiveInvariant
  BY ReceiveInitHolds DEF ClientsInit, CliInit
<1>2. ClientsInv /\ ReceiveInvariant /\ [ClientsNext]_clientsVars => ReceiveInvariant'
  BY ClientsReceive, ReceiveStepKeeps
<1> QED BY <1>1, <1>2, ClientsInvHolds, PTL DEF ClientsSpec

\* The types of everything in the composition, the receiver's files included, when
\* the units that files are made of are what the receiver takes.
THEOREM ClientsTypeCorrect ==
    ASSUME Nat \X Nat \subseteq Data
    PROVE  ClientsSpec => []ClientsTypeOK
<1>1. ClientsInv /\ ReceiveInvariant => ClientsTypeOK
  BY DEF ClientsInv, ReceiveInvariant, ClientsTypeOK
<1> QED BY <1>1, ClientsInvHolds, ReceiverAmongClients, PTL

\* What a listener leaves behind is whole, now that its notifies are those of the
\* server and it shares the system with other commands.
THEOREM ListenersKeepWholeFiles ==
    ASSUME Nat \X Nat \subseteq Data
    PROVE  ClientsSpec => []KeptFilesAreWhole
<1>1. ReceiveInvariant => KeptFilesAreWhole
  BY DEF ReceiveInvariant
<1> QED BY <1>1, ReceiverAmongClients, PTL

\* What a listener has printed as received stays, too.
THEOREM ListenersKeepReported ==
    ASSUME Nat \X Nat \subseteq Data
    PROVE  ClientsSpec => ReceivedFilesStay
<1>1. ClientsInv /\ ReceiveInvariant /\ [ClientsNext]_clientsVars =>
        [\A p \in Paths : reported[p] # NoFile /\ disk'[p] # disk[p] =>
            \E n \in Names : p = Candidates[n][1] /\ Taken(disk, n)]_receiveVars
  BY ClientsReceive, ReportedUnlessTaken
<1> QED
  BY <1>1, ClientsInvHolds, ReceiverAmongClients, PTL DEF ClientsSpec, ReceivedFilesStay

-----------------------------------------------------------------------------
(* Files in step: what is on the way of one file.                          *)

\* What n full chunks hold, and what n chunks of a file of `size` units hold.
Full(n) == n * MaxChunk
Past(n, size) == IF Full(n) < size THEN Full(n) ELSE size

\* None of n chunks begins behind the end of the file.
Begins(n, size) == n = 0 \/ Full(n - 1) < size

AboutFile(p, id) == p.kind = "notify" /\ p.op \in FileOps /\ p.id = id
Mentions(q, id) == \E i \in DOMAIN q : AboutFile(q[i], id)

\* The chunks of file id in q are those from `first` on and before `end`; the complete
\* notify comes after them and after the last chunk of the file, the start notify
\* before anything else of the file and before chunk 0.
InStep(q, id, first, end, size) ==
    /\ first <= end /\ Begins(end, size) /\ InOrder(q, id, first, end)
    /\ \A i \in DOMAIN q : IsOf(q[i], "file-complete", id) =>
          size <= Full(end) /\ \A j \in DOMAIN q : IsOf(q[j], "file-chunk", id) => j < i
    /\ \A i \in DOMAIN q : IsOf(q[i], "file-start", id) =>
          first = 0 /\ q[i].len = size /\ \A j \in DOMAIN q \ {i} : AboutFile(q[j], id) => i < j

\* Chunks hold something.
LEMMA FullGrows ==
    /\ Full(0) = 0
    /\ \A n \in Nat : Full(n) \in Nat /\ n <= Full(n) /\ Full(n + 1) = Full(n) + MaxChunk
<1>1. MaxChunk \in Nat /\ MaxChunk >= 1
  BY ServerAssumption
<1> QED BY <1>1 DEF Full

\* The index that a request gives to the chunk at the end of n chunks.
LEMMA FullDivides == \A n \in Nat : Full(n) \div MaxChunk = n
<1>1. MaxChunk \in Nat /\ MaxChunk >= 1
  BY ServerAssumption
<1> QED BY <1>1 DEF Full

\* A packet more at the end of a queue.
LEMMA AppendIs ==
    ASSUME NEW q \in Seq(Packet), NEW p \in Packet
    PROVE  \E m \in Nat : /\ m \notin DOMAIN q /\ DOMAIN Append(q, p) = DOMAIN q \cup {m} /\ Append(q, p)[m] = p
                          /\ \A i \in DOMAIN q : i < m /\ Append(q, p)[i] = q[i]
<1>1. /\ Len(q) + 1 \in Nat /\ Len(q) + 1 \notin DOMAIN q /\ DOMAIN Append(q, p) = DOMAIN q \cup {Len(q) + 1}
      /\ Append(q, p)[Len(q) + 1] = p
  OBVIOUS
<1>2. \A i \in DOMAIN q : i < Len(q) + 1 /\ Append(q, p)[i] = q[i]
  OBVIOUS
<1> QED BY <1>1, <1>2

\* A packet about something else changes nothing.
LEMMA AppendOther ==
    ASSUME NEW q \in Seq(Packet), NEW p \in Packet, NEW id, NEW first, NEW end, NEW size,
           InStep(q, id, first, end, size), ~AboutFile(p, id)
    PROVE  InStep(Append(q, p), id, first, end, size)
<1> DEFINE r == Append(q, p)
<1>1. PICK m : /\ m \notin DOMAIN q /\ DOMAIN r = DOMAIN q \cup {m} /\ r[m] = p
               /\ \A i \in DOMAIN q : i < m /\ r[i] = q[i]
  BY AppendIs
<1> HIDE DEF r
<1>2. \A op \in FileOps : ~IsOf(p, op, id)
  BY DEF IsOf, AboutFile
<1>3. \A op \in FileOps, i \in DOMAIN r : IsOf(r[i], op, id) => i \in DOMAIN q
  BY <1>1, <1>2
<1>4. {"file-start", "file-chunk", "file-complete"} = FileOps
  BY DEF FileOps
<1>5. {i \in DOMAIN r : IsOf(r[i], "file-chunk", id)} = {i \in DOMAIN q : IsOf(q[i], "file-chunk", id)}
  BY <1>1, <1>3, <1>4
<1>6. InOrder(r, id, first, end)
  <2> DEFINE S == {i \in DOMAIN q : IsOf(q[i], "file-chunk", id)}
  <2>1. S \subseteq DOMAIN q /\ {q[i].index : i \in S} = first .. end - 1
        /\ \A i, j \in S : i < j => q[i].index < q[j].index
    BY DEF InStep, InOrder
  <2>2. {r[i].index : i \in S} = {q[i].index : i \in S}
    BY <1>1, <2>1
  <2> HIDE DEF S
  <2>3. \A i, j \in S : i < j => r[i].index < r[j].index
    BY <1>1, <2>1
  <2> QED BY <1>5, <2>1, <2>2, <2>3 DEF InOrder, S
<1>7. ASSUME NEW i \in DOMAIN r, IsOf(r[i], "file-complete", id)
      PROVE  size <= Full(end) /\ \A j \in DOMAIN r : IsOf(r[j], "file-chunk", id) => j < i
  BY <1>1, <1>3, <1>4, <1>7 DEF InStep
<1>8. ASSUME NEW i \in DOMAIN r, IsOf(r[i], "file-start", id)
      PROVE  first = 0 /\ r[i].len = size /\ \A j \in DOMAIN r \ {i} : AboutFile(r[j], id) => i < j
  BY <1>1, <1>3, <1>4, <1>8 DEF InStep
<1> QED BY <1>6, <1>7, <1>8 DEF InStep, r

\* The next chunk, when the file goes on.
LEMMA AppendChunk ==
    ASSUME NEW q \in Seq(Packet), NEW p \in Packet, NEW id, NEW first \in Nat, NEW end \in Nat, NEW size \in Nat,
           InStep(q, id, first, end, size), IsOf(p, "file-chunk", id), p.index = end, Full(end) < size
    PROVE  InStep(Append(q, p), id, first, end + 1, size)
<1> DEFINE r == Append(q, p)
           S == {i \in DOMAIN q : IsOf(q[i], "file-chunk", id)}
<1>1. PICK m : /\ m \notin DOMAIN q /\ DOMAIN r = DOMAIN q \cup {m} /\ r[m] = p
               /\ \A i \in DOMAIN q : i < m /\ r[i] = q[i]
  BY AppendIs
<1>2. S \subseteq DOMAIN q /\ {q[i].index : i \in S} = first .. end - 1
      /\ \A i, j \in S : i < j => q[i].index < q[j].index
  BY DEF InStep, InOrder
<1>3. DOMAIN q \subseteq Nat /\ m \in Nat
  <2>1. DOMAIN r \subseteq Nat
    OBVIOUS
  <2> QED BY <1>1, <2>1
<1> HIDE DEF r
<1>4. {i \in DOMAIN r : IsOf(r[i], "file-chunk", id)} = S \cup {m}
  BY <1>1
<1> HIDE DEF S
<1>5. {r[i].index : i \in S \cup {m}} = first .. (end + 1) - 1
  <2>1. {r[i].index : i \in S \cup {m}} = {q[i].index : i \in S} \cup {end}
    BY <1>1, <1>2
  <2>2. first .. (end + 1) - 1 = (first .. end - 1) \cup {end}
    BY DEF InStep
  <2> QED BY <1>2, <2>1, <2>2
<1>6. ASSUME NEW i \in S \cup {m}, NEW j \in S \cup {m}, i < j
      PROVE  r[i].index < r[j].index
  <2>1. i \in S
    BY <1>1, <1>2, <1>3, <1>6
  <2>2. CASE j \in S
    BY <1>1, <1>2, <1>6, <2>1, <2>2
  <2>3. CASE j = m
    <3>1. q[i].index \in first .. end - 1
      BY <1>2, <2>1
    <3>2. r[i].index = q[i].index /\ r[j].index = end
      BY <1>1, <1>2, <2>1, <2>3
    <3> QED BY <3>1, <3>2
  <2> QED BY <2>2, <2>3
<1>7. InOrder(r, id, first, end + 1)
  BY <1>4, <1>5, <1>6 DEF InOrder
<1>8. \A i \in DOMAIN q : ~IsOf(q[i], "file-complete", id)
  <2>1. Full(end) \in Nat
    BY FullGrows
  <2> QED BY <2>1 DEF InStep
<1>9. \A i \in DOMAIN r : ~IsOf(r[i], "file-complete", id)
  BY <1>1, <1>8 DEF IsOf
<1>10. ASSUME NEW i \in DOMAIN r, IsOf(r[i], "file-start", id)
       PROVE  first = 0 /\ r[i].len = size /\ \A j \in DOMAIN r \ {i} : AboutFile(r[j], id) => i < j
  <2>1. i \in DOMAIN q
    BY <1>1, <1>10 DEF IsOf
  <2> QED BY <1>1, <1>10, <2>1 DEF InStep
<1>11. first <= end + 1 /\ Begins(end + 1, size)
  BY DEF InStep, Begins
<1> QED BY <1>7, <1>9, <1>10, <1>11 DEF InStep, r

\* The complete notify, when all chunks have gone.
LEMMA AppendComplete ==
    ASSUME NEW q \in Seq(Packet), NEW p \in Packet, NEW id, NEW first, NEW end, NEW size,
           InStep(q, id, first, end, size), IsOf(p, "file-complete", id), size <= Full(end)
    PROVE  InStep(Append(q, p), id, first, end, size)
<1> DEFINE r == Append(q, p)
           S == {i \in DOMAIN q : IsOf(q[i], "file-chunk", id)}
<1>1. PICK m : /\ m \notin DOMAIN q /\ DOMAIN r = DOMAIN q \cup {m} /\ r[m] = p
               /\ \A i \in DOMAIN q : i < m /\ r[i] = q[i]
  BY AppendIs
<1>2. S \subseteq DOMAIN q /\ {q[i].index : i \in S} = first .. end - 1
      /\ \A i, j \in S : i < j => q[i].index < q[j].index
  BY DEF InStep, InOrder
<1> HIDE DEF r
<1>3. {i \in DOMAIN r : IsOf(r[i], "file-chunk", id)} = S
  BY <1>1 DEF IsOf
<1> HIDE DEF S
<1>4. {r[i].index : i \in S} = {q[i].index : i \in S}
  BY <1>1, <1>2
<1>5. \A i, j \in S : i < j => r[i].index < r[j].index
  BY <1>1, <1>2
<1>6. InOrder(r, id, first, end)
  BY <1>2, <1>3, <1>4, <1>5 DEF InOrder
<1>7. ASSUME NEW i \in DOMAIN r, NEW j \in DOMAIN r, IsOf(r[i], "file-complete", id), IsOf(r[j], "file-chunk", id)
      PROVE  j < i
  <2>1. j \in DOMAIN q
    BY <1>1, <1>7 DEF IsOf
  <2> QED BY <1>1, <1>7, <2>1 DEF InStep
<1>8. ASSUME NEW i \in DOMAIN r, IsOf(r[i], "file-start", id)
      PROVE  first = 0 /\ r[i].len = size /\ \A j \in DOMAIN r \ {i} : AboutFile(r[j], id) => i < j
  <2>1. i \in DOMAIN q
    BY <1>1, <1>8 DEF IsOf
  <2> QED BY <1>1, <1>8, <2>1 DEF InStep
<1> QED BY <1>6, <1>7, <1>8 DEF InStep, r

\* Nothing of the file is there.
LEMMA NotMentioned ==
    ASSUME NEW q, NEW id, NEW n \in Nat, NEW size, ~Mentions(q, id), Begins(n, size)
    PROVE  InStep(q, id, n, n, size)
<1>1. \A op \in FileOps, i \in DOMAIN q : ~IsOf(q[i], op, id)
  BY DEF Mentions, AboutFile, IsOf
<1>2. {"file-start", "file-chunk", "file-complete"} = FileOps
  BY DEF FileOps
<1>3. {i \in DOMAIN q : IsOf(q[i], "file-chunk", id)} = {} /\ n .. n - 1 = {}
  BY <1>1, <1>2
<1>4. InOrder(q, id, n, n)
  BY <1>3 DEF InOrder
<1> QED BY <1>1, <1>2, <1>4 DEF InStep

\* The start notify of a new file.
LEMMA AppendStart ==
    ASSUME NEW q \in Seq(Packet), NEW p \in Packet, NEW id, ~Mentions(q, id), IsOf(p, "file-start", id)
    PROVE  InStep(Append(q, p), id, 0, 0, p.len)
<1> DEFINE r == Append(q, p)
<1>1. PICK m : /\ m \notin DOMAIN q /\ DOMAIN r = DOMAIN q \cup {m} /\ r[m] = p
               /\ \A i \in DOMAIN q : i < m /\ r[i] = q[i]
  BY AppendIs
<1> HIDE DEF r
<1>2. \A i \in DOMAIN r : AboutFile(r[i], id) => i = m
  BY <1>1 DEF Mentions
<1>3. \A i \in DOMAIN r : ~IsOf(r[i], "file-chunk", id) /\ ~IsOf(r[i], "file-complete", id)
  BY <1>1, <1>2 DEF IsOf, AboutFile, FileOps
<1>4. {i \in DOMAIN r : IsOf(r[i], "file-chunk", id)} = {} /\ 0 .. 0 - 1 = {}
  BY <1>3
<1>5. InOrder(r, id, 0, 0)
  BY <1>4 DEF InOrder
<1>6. ASSUME NEW i \in DOMAIN r, IsOf(r[i], "file-start", id)
      PROVE  r[i].len = p.len /\ \A j \in DOMAIN r \ {i} : ~AboutFile(r[j], id)
  BY <1>1, <1>2, <1>6 DEF IsOf, AboutFile, FileOps
<1> QED BY <1>3, <1>5, <1>6 DEF InStep, Begins, r

\* Something other than a chunk of the file is read.
LEMMA TailKeepsStep ==
    ASSUME NEW q \in Seq(Packet), q # <<>>, NEW id, NEW first, NEW end, NEW size,
           InStep(q, id, first, end, size), ~IsOf(Head(q), "file-chunk", id)
    PROVE  InStep(Tail(q), id, first, end, size)
<1> DEFINE r == Tail(q)
           S == {i \in DOMAIN q : IsOf(q[i], "file-chunk", id)}
           R == {i \in DOMAIN r : IsOf(r[i], "file-chunk", id)}
<1>1. /\ 1 \in DOMAIN q /\ Head(q) = q[1]
      /\ \A i \in DOMAIN r : i \in Nat /\ i + 1 \in DOMAIN q /\ r[i] = q[i + 1]
  OBVIOUS
<1>2. \A j \in DOMAIN q : j # 1 => j \in Nat /\ j - 1 \in DOMAIN r /\ r[j - 1] = q[j] /\ (j - 1) + 1 = j
  OBVIOUS
<1>3. S \subseteq DOMAIN q /\ {q[i].index : i \in S} = first .. end - 1
      /\ \A i, j \in S : i < j => q[i].index < q[j].index
  BY DEF InStep, InOrder
<1> HIDE DEF r
<1>4. \A i \in R : i + 1 \in S /\ r[i] = q[i + 1]
  BY <1>1
<1>5. \A j \in S : j - 1 \in R /\ r[j - 1] = q[j]
  BY <1>1, <1>2
<1>10. R \subseteq Nat
  BY <1>1
<1> HIDE DEF S, R
<1>6. {r[i].index : i \in R} = {q[i].index : i \in S}
  BY <1>4, <1>5
<1>7. \A i, j \in R : i < j => r[i].index < r[j].index
  BY <1>3, <1>4, <1>10
<1>8. InOrder(r, id, first, end)
  BY <1>3, <1>6, <1>7 DEF InOrder, R
<1>9. ASSUME NEW i \in DOMAIN r, NEW j \in DOMAIN r
      PROVE  /\ IsOf(r[i], "file-complete", id) /\ IsOf(r[j], "file-chunk", id) => j < i
             /\ IsOf(r[i], "file-start", id) /\ AboutFile(r[j], id) /\ j # i => i < j
  <2>1. i + 1 \in DOMAIN q /\ j + 1 \in DOMAIN q /\ r[i] = q[i + 1] /\ r[j] = q[j + 1] /\ i \in Nat /\ j \in Nat
    BY <1>1
  <2>2. IsOf(q[i + 1], "file-complete", id) /\ IsOf(q[j + 1], "file-chunk", id) => j + 1 < i + 1
    BY <2>1 DEF InStep
  <2>3. IsOf(q[i + 1], "file-start", id) /\ AboutFile(q[j + 1], id) /\ j + 1 # i + 1 => i + 1 < j + 1
    BY <2>1 DEF InStep
  <2> QED BY <2>1, <2>2, <2>3
<1>11. \A i \in DOMAIN r : IsOf(r[i], "file-complete", id) => size <= Full(end)
  BY <1>1 DEF InStep
<1>12. \A i \in DOMAIN r : IsOf(r[i], "file-start", id) => first = 0 /\ r[i].len = size
  BY <1>1 DEF InStep
<1> QED BY <1>8, <1>9, <1>11, <1>12 DEF InStep, r

\* The first of its chunks is read.
LEMMA TailChunk ==
    ASSUME NEW q \in Seq(Packet), q # <<>>, NEW id, NEW first \in Nat, NEW end \in Nat, NEW size,
           InStep(q, id, first, end, size), IsOf(Head(q), "file-chunk", id), Head(q).index = first
    PROVE  InStep(Tail(q), id, first + 1, end, size)
<1> DEFINE r == Tail(q)
           S == {i \in DOMAIN q : IsOf(q[i], "file-chunk", id)}
           R == {i \in DOMAIN r : IsOf(r[i], "file-chunk", id)}
<1>1. /\ 1 \in DOMAIN q /\ Head(q) = q[1] /\ \A j \in DOMAIN q : j \in Nat /\ (j # 1 => 1 < j)
      /\ \A i \in DOMAIN r : i \in Nat /\ i + 1 \in DOMAIN q /\ i + 1 # 1 /\ r[i] = q[i + 1]
  OBVIOUS
<1>2. \A j \in DOMAIN q : j # 1 => j - 1 \in DOMAIN r /\ r[j - 1] = q[j]
  OBVIOUS
<1>3. S \subseteq DOMAIN q /\ {q[i].index : i \in S} = first .. end - 1
      /\ \A i, j \in S : i < j => q[i].index < q[j].index
  BY DEF InStep, InOrder
<1> HIDE DEF r
<1>4. \A i \in R : i + 1 \in S /\ i + 1 # 1 /\ r[i] = q[i + 1]
  BY <1>1
<1>5. \A j \in S : j # 1 => j - 1 \in R /\ r[j - 1] = q[j]
  BY <1>1, <1>2
<1>6. 1 \in S /\ R \subseteq Nat
  BY <1>1
<1> HIDE DEF S, R
<1>7. q[1].index = first /\ first \in first .. end - 1
  BY <1>1, <1>3, <1>6
<1>8. {r[i].index : i \in R} = first + 1 .. end - 1
  <2>1. ASSUME NEW i \in R PROVE r[i].index \in first + 1 .. end - 1
    <3>1. q[i + 1].index \in first .. end - 1 /\ q[1].index < q[i + 1].index
      BY <1>1, <1>3, <1>4, <1>6
    <3>2. r[i].index = q[i + 1].index
      BY <1>4
    <3> QED BY <1>7, <3>1, <3>2
  <2>2. ASSUME NEW k \in first + 1 .. end - 1 PROVE k \in {r[i].index : i \in R}
    <3>1. k \in first .. end - 1 /\ k # first
      BY <2>2
    <3>2. PICK j \in S : q[j].index = k
      BY <1>3, <3>1
    <3>3. j # 1
      BY <1>7, <3>1, <3>2
    <3> QED BY <1>5, <3>2, <3>3
  <2> QED BY <2>1, <2>2
<1>9. \A i, j \in R : i < j => r[i].index < r[j].index
  BY <1>3, <1>4, <1>6
<1>10. InOrder(r, id, first + 1, end) /\ first + 1 <= end
  BY <1>7, <1>8, <1>9 DEF InOrder, R
<1>11. ASSUME NEW i \in DOMAIN r, NEW j \in DOMAIN r, IsOf(r[i], "file-complete", id), IsOf(r[j], "file-chunk", id)
       PROVE  j < i
  <2>1. i + 1 \in DOMAIN q /\ j + 1 \in DOMAIN q /\ r[i] = q[i + 1] /\ r[j] = q[j + 1] /\ i \in Nat /\ j \in Nat
    BY <1>1
  <2>2. j + 1 < i + 1
    BY <1>11, <2>1 DEF InStep
  <2> QED BY <2>1, <2>2
<1>12. \A i \in DOMAIN r : IsOf(r[i], "file-complete", id) => size <= Full(end)
  BY <1>1 DEF InStep
<1>13. ASSUME NEW i \in DOMAIN r, IsOf(r[i], "file-start", id) PROVE FALSE
  <2>1. i + 1 \in DOMAIN q /\ i + 1 # 1 /\ IsOf(q[i + 1], "file-start", id) /\ i + 1 \in Nat
    BY <1>1, <1>13
  <2>2. AboutFile(q[1], id)
    BY <1>1 DEF AboutFile, IsOf, FileOps
  <2>3. i + 1 < 1
    BY <1>1, <2>1, <2>2 DEF InStep
  <2> QED BY <1>1, <2>1, <2>3
<1> QED BY <1>10, <1>11, <1>12, <1>13 DEF InStep, r

-----------------------------------------------------------------------------
(* Files in step: what a visit does to what is on the way.                 *)

\* A visit on which no request is handled: at most the buffer has drained.
Quiet(s, t) ==
    /\ clients'[s] = clients[s] /\ out'[s] = t.out[s] /\ up' = up
    /\ transfers' = transfers /\ ids'.transfer = ids.transfer
    /\ \A r \in Slots \ {s} : clients'[r] = clients[r] /\ out'[r] = out[r]

\* A visit on which the request q has come to this, or the client had left.
Comprises(s, t, q, p, u, note, T) ==
    /\ Replied(s, t, p, u, note, T) /\ Relayed(s, q, p, u, note, T)
    /\ \/ clients'[s] = FreeClient /\ RelaysNothing(p, note, T)
       \/ up[Seats[s]] # <<>> /\ q = Head(up[Seats[s]]) /\ AnswerTo(p, q)

\* A visit is one of these.
LEMMA ServeLinkComprises ==
    ASSUME IInv, LinksTypeOK, Asked, NEW s \in Slots, turn = s, NEW t \in Flushed(s), ServeLink(s, t)
    PROVE  Quiet(s, t) \/ \E q, p, u, note, T : Comprises(s, t, q, p, u, note, T)
<1> DEFINE v == Seats[s]
           plain == Notify("chat", 0)
<1>1. v \in Users /\ up[v] \in Seq(Request)
  BY SeatedUser DEF LinksTypeOK
<1>2. Serve(s, t)
  BY Zenon DEF ServeLink, Idle, Disconnect, Handle, Decline, Refuse, Chat, Invite, StartFile, RelayChunk, DropFile,
         CompleteFile, ForwardCall
<1>3. t.transfers = transfers
  BY <1>2, FlushedTame
<1>4. CASE Idle(s, t) /\ up' = up
  <2>1. Midway(s, t, t, v, [NoPacket EXCEPT !.kind = "notify"]) /\ Commit(t) /\ ids' = ids
    BY <1>2, <1>4, FlushedMidway DEF Idle
  <2>2. \A r \in Slots \ {s} : t.out[r] = out[r]
    <3>1. t \in Flushed(s) /\ Shaped(Tables)
      BY <1>2, StateFacts DEF Serve, Orderly
    <3> QED BY <3>1 DEF Flushed, Tables, Shaped, IsTables, Fields
  <2> QED BY <1>3, <1>4, <2>1, <2>2 DEF Quiet, Midway, Commit
<1>5. CASE ~linked[v] /\ Disconnect(s, t) /\ up' = [up EXCEPT ![v] = <<>>]
  <2>1. plain \in Notifies /\ plain.op \notin FileOps
    BY ConstantTypes DEF Notify, NoPacket, Ops, FileOps
  <2> HIDE DEF plain
  <2>2. Midway(s, t, t, v, plain) /\ t.transfers = transfers /\ Commit(CloseClient(t, s)) /\ ids' = ids
    BY <1>2, <1>3, <1>5, FlushedMidway DEF Disconnect
  <2>3. Replied(s, t, NoPacket, v, plain, transfers)
    BY <2>2, CloseReplies
  <2>4. clients'[s] = FreeClient
    BY <2>2, CloseForgets DEF Commit, CloseClient, Midway
  <2>5. RelaysNothing(NoPacket, plain, transfers)
    BY <2>1, <2>2, PacketFields DEF RelaysNothing
  <2> QED BY <2>3, <2>4, <2>5 DEF Comprises, Relayed
<1>6. CASE /\ up[v] # <<>>
           /\ Handle(s, t, Head(up[v])) \/ Decline(s, t, Head(up[v]))
           /\ up' = [up EXCEPT ![v] = IF clients'[s].open THEN Tail(up[v]) ELSE <<>>]
  <2> DEFINE q == Head(up[v])
  <2>1. q \in Request /\ Sensible(q)
    BY <1>1, <1>6, TailOf DEF Asked
  <2>2. Settled(s, t, q)
    BY <1>6, <2>1, HandleReplies, DeclineReplies
  <2> QED BY <1>6, <2>2 DEF Settled, Comprises
<1> QED BY <1>4, <1>5, <1>6 DEF ServeLink

\* What is in flight to a client is there, or is what this visit has put into its buffer.
LEMMA FlightGrows ==
    ASSUME IInv, IInv', LinksTypeOK, LinksTypeOK', Asked, Placed, NEW s \in Slots, turn = s, NEW t \in Flushed(s),
           ServeLink(s, t), NEW r \in Slots, linked[Seats[r]]
    PROVE  LET u == Seats[r]
           IN  \/ /\ InFlight(u)' = InFlight(u)
                  /\ r # s /\ Connected(u)' => out'[r] = out[r]
               \/ /\ ~Connected(u)' /\ r = s
                  /\ InFlight(u)' \in Seq(Packet)
                  /\ \A i \in DOMAIN InFlight(u)' : \E j \in DOMAIN InFlight(u) : InFlight(u)'[i] = InFlight(u)[j]
               \/ /\ Connected(u) /\ Connected(u)'
                  /\ InFlight(u)' = Append(InFlight(u), out'[r])
                  /\ r # s => out'[r] # out[r]
                  /\ r = s => /\ up[u] # <<>> /\ clients'[s] = clients[s]
                              /\ t.out[s] = NoPacket /\ IsResponse(out'[s])
<1> DEFINE u == Seats[r]
           d == down[u]
           f == InFlight(u)
<1>1. u \in Users /\ d \in Seq(Packet) /\ down'[u] \in Seq(Packet) /\ down \in [Users -> Seq(Packet)]
  BY SeatedUser DEF LinksTypeOK
<1>2. out[r] \in Packet /\ out'[r] \in Packet
  BY BuffersTyped
<1>3. \A a \in Seq(Packet), b \in Packet : a \o <<b>> = Append(a, b) /\ a \o <<>> = a
  BY AppendIsConcat, ConcatEmptySeq
<1>4. /\ Connected(u) = (clients[r].open /\ clients[r].user = u)
      /\ Connected(u)' = (clients'[r].open /\ clients'[r].user = u)
      /\ f = IF Connected(u) /\ out[r] # NoPacket THEN Append(d, out[r]) ELSE d
      /\ InFlight(u)' = IF Connected(u)' /\ out'[r] # NoPacket THEN Append(down'[u], out'[r]) ELSE down'[u]
  <2>1. f = d \o IF Connected(u) /\ out[r] # NoPacket THEN <<out[r]>> ELSE <<>>
    BY InFlightIs
  <2>2. InFlight(u)' = down'[u] \o IF Connected(u)' /\ out'[r] # NoPacket THEN <<out'[r]>> ELSE <<>>
    BY InFlightIs
  <2>3. f = IF Connected(u) /\ out[r] # NoPacket THEN Append(d, out[r]) ELSE d
    <3> HIDE DEF f, d, u
    <3> QED BY <1>1, <1>2, <1>3, <2>1
  <2>4. InFlight(u)' = IF Connected(u)' /\ out'[r] # NoPacket THEN Append(down'[u], out'[r]) ELSE down'[u]
    <3> DEFINE a == down'[u]
               b == out'[r]
               c == Connected(u)'
    <3>1. a \in Seq(Packet) /\ b \in Packet /\ InFlight(u)' = a \o IF c /\ b # NoPacket THEN <<b>> ELSE <<>>
      BY <1>1, <1>2, <2>2
    <3> HIDE DEF a, b, c
    <3>2. InFlight(u)' = IF c /\ b # NoPacket THEN Append(a, b) ELSE a
      BY <1>3, <3>1
    <3> QED BY <3>2 DEF a, b, c
  <2> QED BY <2>3, <2>4, InFlightIs
<1>5. OthersNotified(s) /\ NoPacket.kind = "none"
  BY ServeLinkVisits, PacketFields
<1> HIDE DEF u, d, f
<1>6. CASE r # s
  <2>1. clients'[r] = clients[r] /\ (out'[r] = out[r] \/ (out[r] = NoPacket /\ out'[r].kind = "notify"))
    BY <1>5, <1>6 DEF OthersNotified
  <2>2. down'[u] = d
    <3>1. Seats[s] # u /\ Seats[s] \in Users
      BY <1>6, LinksAssumption DEF LinksAssumption, u
    <3> QED BY <1>1, <3>1 DEF ServeLink, d
  <2>3. Connected(u)' = Connected(u)
    BY <1>4, <2>1
  <2>4. CASE out'[r] = out[r] \/ ~Connected(u)
    <3>1. InFlight(u)' = f
      BY <1>4, <2>2, <2>3, <2>4
    <3> QED BY <2>3, <2>4, <3>1 DEF f, u
  <2>5. CASE out'[r] # out[r] /\ Connected(u)
    <3>1. out[r] = NoPacket /\ out'[r] # NoPacket
      BY <1>5, <2>1, <2>5
    <3>2. InFlight(u)' = Append(f, out'[r]) /\ Connected(u)'
      BY <1>4, <2>2, <2>3, <2>5, <3>1
    <3> QED BY <1>6, <2>5, <3>2 DEF f, u
  <2> QED BY <2>4, <2>5
<1>7. CASE r = s
  <2> DEFINE kept == t.out[s]
  <2>1. Flushes(s, kept)
    BY <1>7, ServeLinkServes DEF u
  <2>2. clients[s].open /\ clients[s].user = u
    <3>1. clients[s].open
      BY Zenon DEF ServeLink, Idle, Disconnect, Handle, Decline, Refuse, Chat, Invite, StartFile, RelayChunk, DropFile,
             CompleteFile, ForwardCall, Serve
    <3> QED BY <1>7, <3>1 DEF Placed, FreeClient, u
  <2>3. Connected(u)
    BY <1>4, <1>7, <2>2
  <2> HIDE DEF kept
  <2>4. (kept = out[s] /\ down'[u] = d) \/ (kept = NoPacket /\ down'[u] = f)
    <3>1. \/ kept = out[s] /\ down'[u] = down[u]
          \/ kept = NoPacket /\ down'[u] = IF out[s] = NoPacket THEN down[u] ELSE Append(down[u], out[s])
      BY <1>7, <2>1 DEF Flushes, u
    <3>2. f = IF out[r] # NoPacket THEN Append(d, out[r]) ELSE d
      BY <1>4, <2>3
    <3>3. CASE kept = out[s] /\ down'[u] = down[u]
      BY <3>3 DEF d
    <3>4. CASE kept = NoPacket /\ down'[u] = IF out[s] = NoPacket THEN down[u] ELSE Append(down[u], out[s])
      <4>1. out[s] = out[r] /\ down[u] = d
        BY <1>7 DEF d
      <4>2. down'[u] = IF out[r] = NoPacket THEN d ELSE Append(d, out[r])
        BY <3>4, <4>1
      <4> QED BY <3>2, <3>4, <4>2
    <3> QED BY <3>1, <3>3, <3>4
  <2>5. \/ clients'[s] = clients[s] /\ out'[s] = kept
        \/ up[u] # <<>> /\ clients'[s] = clients[s] /\ kept = NoPacket /\ IsResponse(out'[s])
        \/ clients'[s] = FreeClient
    BY <1>7, ServeLinkVisits DEF kept, u
  <2>6. CASE clients'[s] = clients[s] /\ out'[s] = kept
    <3>1. Connected(u)'
      BY <1>4, <1>7, <2>2, <2>6
    <3>2. InFlight(u)' = f
      BY <1>4, <1>7, <2>3, <2>4, <2>6, <3>1
    <3> QED BY <1>7, <3>2 DEF f, u
  <2>7. CASE up[u] # <<>> /\ clients'[s] = clients[s] /\ kept = NoPacket /\ IsResponse(out'[s])
    <3>1. Connected(u)' /\ out'[s] # NoPacket
      BY <1>4, <1>5, <1>7, <2>2, <2>7 DEF IsResponse
    <3>2. down'[u] = f
      BY <1>4, <1>7, <2>3, <2>4, <2>7
    <3>3. InFlight(u)' = Append(f, out'[r])
      BY <1>4, <1>7, <3>1, <3>2
    <3>4. t.out[s] = NoPacket
      BY <2>7 DEF kept
    <3> QED BY <3>4, <1>7, <2>3, <2>7, <3>1, <3>3 DEF f, u
  <2>8. CASE clients'[s] = FreeClient
    <3>1. ~Connected(u)'
      <4>1. clients'[r].open = FALSE
        BY <1>7, <2>8 DEF FreeClient
      <4> QED BY <1>4, <4>1
    <3>2. InFlight(u)' = down'[u]
      BY <1>4, <3>1
    <3>3. \A i \in DOMAIN d : i \in DOMAIN f /\ f[i] = d[i]
      <4>1. \A i \in DOMAIN d : i \in DOMAIN Append(d, out[r]) /\ Append(d, out[r])[i] = d[i]
        BY <1>1 DEF d
      <4> QED BY <1>4, <4>1
    <3>4. down'[u] \in {d, f}
      BY <2>4
    <3>5. \A i \in DOMAIN InFlight(u)' : \E j \in DOMAIN f : InFlight(u)'[i] = f[j]
      BY <3>2, <3>3, <3>4
    <3> QED BY <1>1, <1>7, <3>1, <3>2, <3>5 DEF f, u
  <2> QED BY <2>5, <2>6, <2>7, <2>8
<1> QED BY <1>6, <1>7

\* The packets that relays queue.
LEMMA FilePackets ==
    /\ \A id, size, to, session :
          LET p == Addressing(StartNotify(id, size), to, session)
          IN  p.kind = "notify" /\ p.op = "file-start" /\ p.id = id /\ p.len = size
    /\ \A id, index, len, to, session :
          LET p == Addressing(ChunkNotify(id, index, len), to, session)
          IN  p.kind = "notify" /\ p.op = "file-chunk" /\ p.id = id /\ p.index = index
    /\ \A id, to, session :
          LET p == Addressing(Notify("file-complete", id), to, session)
          IN  p.kind = "notify" /\ p.op = "file-complete" /\ p.id = id
BY DEF Addressing, StartNotify, ChunkNotify, Notify, NoPacket

-----------------------------------------------------------------------------
(* Files in step: the invariant.                                           *)

\* A transfer is as far as its next chunk says, and its file is its sender's.
RelaysApt ==
    \A x \in transfers :
        /\ x.id # 0 /\ x.size = job[x.sender].size
        /\ x.seen = Past(x.next, x.size) /\ Begins(x.next, x.size)

\* A start request offers the user's file, and a chunk request carries the whole of a
\* chunk that the file has.
Apt(v, q) ==
    LET size == job[v].size
        rest == size - Full(q.index)
    IN  /\ q.op = "file-start" => q.len = size
        /\ q.op = "file-chunk" => Full(q.index) < size /\ q.len = (IF rest < MaxChunk THEN rest ELSE MaxChunk)

RequestsApt == \A v \in Users : \A i \in DOMAIN up[v] : Apt(v, up[v][i])

\* A sender goes on at the end of a chunk; only its transfer has an id.
Progress(v) ==
    LET c == cli[v]
    IN  /\ c.asks = "chat" \/ job[v].program = "listen" => c.id = 0
        /\ c.asks = "file-start" => c.sent = 0
        /\ c.asks = "file-chunk" => \E k \in Nat : c.sent = Full(k)

\* While a command waits, what is on the way is its request or the answer to it.
InAnswer(v) ==
    linked[v] /\ cli[v].waiting =>
        /\ \A i \in DOMAIN up[v] : up[v][i] = RequestOf(v, cli[v])
        /\ \A i \in DOMAIN InFlight(v) :
              LET p == InFlight(v)[i]
              IN  p.kind = "ok" =>
                    p.op = cli[v].asks /\ (p.op \in {"file-chunk", "file-complete"} => p.id = cli[v].id)

\* User v has been told that file t is complete, or the response is on its way.
DoneBy(v, t) ==
    \/ cli[v].asks = "ok" /\ cli[v].id = t
    \/ linked[v] /\ \E i \in DOMAIN InFlight(v) :
          LET p == InFlight(v)[i] IN p.kind = "ok" /\ p.op = "file-complete" /\ p.id = t
Done(t) == \E v \in Users : DoneBy(v, t)

\* A completed transfer was one and is over.
DoneSound == \A t \in Nat \ {0} : Done(t) => t < ids.transfer /\ \A x \in transfers : x.id # t

Open(t) == receiving.active /\ receiving.id = t
Comes(u, t) == Open(t) \/ Mentions(InFlight(u), t)

\* What is on its way to the listener u of a file in chunks `first` to `end` - 1 is in
\* step with the command that receives it, the relay that feeds it and the sender.
Follows(u, t, first, end, size) ==
    /\ InStep(InFlight(u), t, first, end, size)
    /\ \A x \in transfers : x.id = t => x.receiver = u /\ x.next = end /\ x.size = size
    /\ Done(t) => size <= Full(end)
    /\ Open(t) => receiving.next = first /\ Len(receiving.whole) = size

Delivers(u, t) == t # 0 /\ t < ids.transfer /\ \E first, end, size \in Nat : Follows(u, t, first, end, size)

FilesFollow ==
    \A u \in Users : Listening(u) /\ Connected(u) => \A t \in Nat : Comes(u, t) => Delivers(u, t)

FileInv ==
    /\ RelaysApt /\ RequestsApt /\ DoneSound /\ FilesFollow
    /\ \A v \in Users : Progress(v) /\ InAnswer(v)

\* The steps that leave the listener's queue and the file alone, or tell it about others.
LEMMA ComesStays ==
    ASSUME NEW u, NEW t, InFlight(u) \in Seq(Packet), receiving' = receiving,
           \/ InFlight(u)' = InFlight(u)
           \/ \E o \in Packet : InFlight(u)' = Append(InFlight(u), o) /\ ~AboutFile(o, t)
    PROVE  (Open(t)' = Open(t)) /\ (Comes(u, t)' => Comes(u, t))
<1> DEFINE q == InFlight(u)
           r == InFlight(u)'
<1>1. Mentions(r, t) => Mentions(q, t)
  <2>1. CASE r = q
    BY <2>1
  <2>2. ASSUME NEW o \in Packet, r = Append(q, o), ~AboutFile(o, t)
        PROVE  Mentions(r, t) => Mentions(q, t)
    <3>1. PICK m : DOMAIN r = DOMAIN q \cup {m} /\ r[m] = o /\ \A i \in DOMAIN q : r[i] = q[i]
      BY <2>2, AppendIs
    <3> HIDE DEF q, r
    <3> QED BY <2>2, <3>1 DEF Mentions
  <2> QED BY <2>1, <2>2
<1>2. Mentions(InFlight(u), t)' = Mentions(r, t)
  BY DEF Mentions, AboutFile, FileOps
<1>3. Open(t)' = Open(t)
  BY DEF Open
<1> QED BY <1>1, <1>2, <1>3 DEF Comes

\* What was in step stays so, if the rest of the file's state does not contradict it.
LEMMA FollowsStays ==
    ASSUME NEW u, NEW t, NEW first, NEW end, NEW size, Follows(u, t, first, end, size), InFlight(u) \in Seq(Packet),
           \/ InFlight(u)' = InFlight(u)
           \/ \E o \in Packet : InFlight(u)' = Append(InFlight(u), o) /\ ~AboutFile(o, t),
           \A x \in transfers' : x.id = t => x \in transfers, Done(t)' => Done(t) \/ size <= Full(end),
           receiving' = receiving
    PROVE  Follows(u, t, first, end, size)'
<1> DEFINE q == InFlight(u)
           r == InFlight(u)'
<1>1. InStep(q, t, first, end, size)
  BY DEF Follows
<1>2. InStep(r, t, first, end, size)
  <2>1. CASE r = q
    BY <1>1, <2>1
  <2>2. ASSUME NEW o \in Packet, r = Append(q, o), ~AboutFile(o, t) PROVE InStep(r, t, first, end, size)
    BY <1>1, <2>2, AppendOther
  <2> QED BY <2>1, <2>2
<1>3. InStep(InFlight(u), t, first, end, size)'
  BY <1>2 DEF InStep, InOrder, Begins, Full, IsOf, AboutFile, FileOps
<1>4. ASSUME NEW x \in transfers', x.id = t PROVE x.receiver = u /\ x.next = end /\ x.size = size
  BY <1>4 DEF Follows
<1>5. Open(t)' => receiving'.next = first /\ Len(receiving'.whole) = size
  BY DEF Follows, Open
<1>6. Done(t)' => size <= Full(end)
  BY DEF Follows
<1>7. (size <= Full(end))' = (size <= Full(end))
  BY DEF Full
<1> QED BY <1>3, <1>4, <1>5, <1>6, <1>7 DEF Follows

-----------------------------------------------------------------------------
(* Files in step: the steps of the programs.                               *)

\* What is in flight to a connected user is packets.
LEMMA FlightTyped ==
    ASSUME ClientsInv, ClientsInv', NEW u \in Users, linked[u]
    PROVE  InFlight(u) \in Seq(Packet)
<1>1. PICK s \in Slots : Seats[s] = u
  BY DEF ClientsInv, Playing
<1> QED BY <1>1, FlightWeighs DEF ClientsInv

\* What there is about a user is the same when the user's queues and buffer are.
LEMMA FlightStays ==
    ASSUME clients' = clients, out' = out, NEW u \in Users, down'[u] = down[u]
    PROVE  InFlight(u)' = InFlight(u) /\ Connected(u)' = Connected(u)
<1>1. SeatOf(u)' = SeatOf(u)
  BY DEF SeatOf
<1>2. Connected(u)' = Connected(u)
  BY <1>1 DEF Connected, IsClient, Tables
<1> QED BY <1>1, <1>2 DEF InFlight

\* The users outside W rest, the server at most forgets transfers, and those of W keep
\* their part of the invariant.
Rests(W) ==
    /\ clients' = clients /\ out' = out /\ job' = job /\ ids'.transfer = ids.transfer /\ transfers' \subseteq transfers
    /\ \A u \in Users \ W : up'[u] = up[u] /\ down'[u] = down[u] /\ linked'[u] = linked[u] /\ cli'[u] = cli[u]

Sent(u) == \A i \in DOMAIN up[u] : Apt(u, up[u][i])

\* All of the invariant but FilesFollow, over such a step.
LEMMA RestKeeps ==
    ASSUME FileInv, NEW W \in SUBSET Users, Rests(W),
           \A w \in W : Sent(w)' /\ Progress(w)' /\ InAnswer(w)' /\ \A t \in Nat \ {0} : DoneBy(w, t)' => DoneBy(w, t)
    PROVE  /\ RelaysApt' /\ RequestsApt' /\ DoneSound'
           /\ \A v \in Users : Progress(v)' /\ InAnswer(v)'
           /\ \A t \in Nat \ {0} : Done(t)' => Done(t)
<1>1. \A u \in Users \ W : /\ up'[u] = up[u] /\ linked'[u] = linked[u] /\ cli'[u] = cli[u] /\ job'[u] = job[u]
                           /\ InFlight(u)' = InFlight(u)
  BY FlightStays DEF Rests
<1>2. RelaysApt'
  BY DEF Rests, FileInv, RelaysApt, Past, Begins, Full
<1>3. ASSUME NEW u \in Users \ W PROVE Sent(u)' /\ Progress(u)' /\ InAnswer(u)'
  <2>1. Sent(u)'
    BY <1>1 DEF FileInv, RequestsApt, Sent, Apt, Full
  <2>2. Progress(u)'
    BY <1>1 DEF FileInv, Progress, Full
  <2>3. RequestOf(u, cli[u])' = RequestOf(u, cli[u])
    BY <1>1 DEF RequestOf
  <2>4. InAnswer(u)'
    BY <1>1, <2>3 DEF FileInv, InAnswer
  <2> QED BY <2>1, <2>2, <2>4
<1>4. \A u \in Users : Sent(u)' /\ Progress(u)' /\ InAnswer(u)'
  BY <1>3
<1>5. RequestsApt'
  BY <1>4 DEF RequestsApt, Sent
<1>6. ASSUME NEW t \in Nat \ {0}, NEW u \in Users, DoneBy(u, t)' PROVE DoneBy(u, t)
  BY <1>1, <1>6 DEF DoneBy
<1>7. \A t \in Nat \ {0} : Done(t)' => Done(t)
  BY <1>6 DEF Done
<1>8. DoneSound'
  BY <1>7 DEF FileInv, DoneSound, Rests
<1> QED BY <1>2, <1>4, <1>5, <1>7, <1>8

\* A step that no listener takes part in, unless to leave.
LEMMA RestFollows ==
    ASSUME ClientsInv, ClientsInv', FileInv, NEW W \in SUBSET Users, Rests(W),
           \A t \in Nat \ {0} : Done(t)' => Done(t), \A w \in W : ~Listening(w)',
           receiving' = receiving \/ \A u \in Users : ~Listening(u)'
    PROVE  FilesFollow'
<1> SUFFICES ASSUME NEW u \in Users, Listening(u)', Connected(u)', NEW t \in Nat, Comes(u, t)'
             PROVE  Delivers(u, t)'
  BY DEF FilesFollow
<1>1. u \notin W /\ receiving' = receiving
  OBVIOUS
<1>2. /\ InFlight(u)' = InFlight(u) /\ Connected(u) /\ Listening(u) /\ InFlight(u) \in Seq(Packet)
  BY <1>1, FlightStays, FlightTyped DEF Rests, Listening
<1>3. Comes(u, t)
  BY <1>1, <1>2 DEF Comes, Open, Mentions, AboutFile, FileOps
<1>4. PICK first \in Nat, end \in Nat, size \in Nat : t # 0 /\ t < ids.transfer /\ Follows(u, t, first, end, size)
  BY <1>2, <1>3 DEF FileInv, FilesFollow, Delivers
<1>5. Follows(u, t, first, end, size)'
  BY <1>1, <1>2, <1>4, FollowsStays DEF Rests
<1> QED BY <1>4, <1>5 DEF Rests, Delivers

\* The queue of a client that reads a packet.
LEMMA FlightRead ==
    ASSUME ClientsInv, ClientsInv', NEW u \in Users, linked[u], UNCHANGED vars, down[u] # <<>>, down'[u] = Tail(down[u])
    PROVE  LET q == InFlight(u)
           IN  /\ q \in Seq(Packet) /\ q # <<>> /\ Head(q) = Head(down[u])
               /\ InFlight(u)' = Tail(q) /\ Connected(u)' = Connected(u)
<1> DEFINE d == down[u]
<1>1. PICK s \in Slots : Seats[s] = u
  BY DEF ClientsInv, Playing
<1>2. clients' = clients /\ out' = out
  BY DEF vars
<1>3. Connected(u)' = Connected(u)
  BY <1>1, <1>2, InFlightIs
<1>4. d \in Seq(Packet) /\ d # <<>> /\ Tail(d) \in Seq(Packet) /\ out[s] \in Packet
  BY TailOf, BufferTyped DEF ClientsInv, LinksTypeOK
<1>5. /\ InFlight(u) = d \o IF Connected(u) /\ out[s] # NoPacket THEN <<out[s]>> ELSE <<>>
      /\ InFlight(u)' = Tail(d) \o IF Connected(u) /\ out[s] # NoPacket THEN <<out[s]>> ELSE <<>>
  BY <1>1, <1>2, <1>3, InFlightIs
<1> HIDE DEF d
<1>6. \A b \in Packet :
         /\ d \o <<b>> = Append(d, b) /\ Tail(d) \o <<b>> = Append(Tail(d), b)
         /\ d \o <<>> = d /\ Tail(d) \o <<>> = Tail(d)
  BY <1>4, AppendIsConcat, ConcatEmptySeq
<1>7. \A b \in Packet : /\ Append(d, b) \in Seq(Packet) /\ Append(d, b) # <<>> /\ Head(Append(d, b)) = Head(d)
                        /\ Tail(Append(d, b)) = Append(Tail(d), b)
  BY <1>4
<1>8. CASE Connected(u) /\ out[s] # NoPacket
  <2>1. InFlight(u) = Append(d, out[s]) /\ InFlight(u)' = Append(Tail(d), out[s])
    BY <1>4, <1>5, <1>6, <1>8
  <2> QED BY <1>3, <1>4, <1>7, <2>1 DEF d
<1>9. CASE ~(Connected(u) /\ out[s] # NoPacket)
  <2>1. InFlight(u) = d /\ InFlight(u)' = Tail(d)
    BY <1>4, <1>5, <1>6, <1>9
  <2> QED BY <1>3, <1>4, <2>1 DEF d
<1> QED BY <1>8, <1>9

\* The request that is on its way is the only thing that is, when one is waited for.
LEMMA SentAlone ==
    ASSUME ClientsInv, ClientsInv', NEW u \in Users, linked'[u], Pending(u)' = 1, NEW q, up'[u] = Append(up[u], q)
    PROVE  up'[u] = <<q>> /\ \A i \in DOMAIN InFlight(u)' : ~IsResponse(InFlight(u)'[i])
<1>1. PICK s \in Slots : Seats[s] = u
  BY DEF ClientsInv, Playing
<1> DEFINE r == InFlight(u)'
           S == {i \in DOMAIN r : IsResponse(r[i])}
<1>2. up[u] \in Seq(Request)
  BY DEF ClientsInv, LinksTypeOK
<1>3. Pending(u)' >= Len(up'[u]) + Answers(r)
  BY DEF ClientsInv, Balanced, Answers, Count, IsResponse
<1>4. r \in Seq(Packet)
  <2>1. out'[s] \in Packet /\ down'[u] \in Seq(Packet)
    BY BuffersTyped DEF ClientsInv, LinksTypeOK
  <2>2. r = down'[u] \o IF Connected(u)' /\ out'[s] # NoPacket THEN <<out'[s]>> ELSE <<>>
    BY <1>1, InFlightIs
  <2> HIDE DEF r
  <2> QED BY <2>1, <2>2, ConcatProperties
<1> HIDE DEF r
<1>5. IsFiniteSet(S)
  <2>1. DOMAIN r = 1 .. Len(r) /\ Len(r) \in Nat
    BY <1>4
  <2>2. S \in SUBSET (1 .. Len(r)) /\ IsFiniteSet(1 .. Len(r))
    BY <2>1, FS_Interval
  <2> QED BY <2>2, FS_Subset
<1>6. Answers(r) = Cardinality(S)
  BY DEF Answers, Count
<1> HIDE DEF S
<1>7. Cardinality(S) \in Nat /\ (Cardinality(S) = 0 => S = {})
  BY <1>5, FS_CardinalityType, FS_EmptySet
<1>8. Len(up'[u]) = Len(up[u]) + 1 /\ Len(up[u]) \in Nat
  BY <1>2
<1>9. Len(up[u]) = 0 /\ Cardinality(S) = 0
  BY <1>3, <1>6, <1>7, <1>8
<1>10. up[u] = <<>>
  BY <1>2, <1>9
<1> QED BY <1>7, <1>9, <1>10 DEF r, S

\* Both together: a step that only the users of W take part in.
LEMMA StepRests ==
    ASSUME ClientsInv, ClientsInv', FileInv, NEW W \in SUBSET Users, Rests(W),
           \A w \in W : Sent(w)' /\ Progress(w)' /\ InAnswer(w)' /\ \A t \in Nat \ {0} : DoneBy(w, t)' => DoneBy(w, t),
           \A w \in W : ~Listening(w)', receiving' = receiving \/ \A u \in Users : ~Listening(u)'
    PROVE  FileInv'
<1>1. /\ RelaysApt' /\ RequestsApt' /\ DoneSound' /\ \A v \in Users : Progress(v)' /\ InAnswer(v)'
      /\ \A t \in Nat \ {0} : Done(t)' => Done(t)
  BY RestKeeps
<1>2. FilesFollow'
  BY <1>1, RestFollows
<1> QED BY <1>1, <1>2 DEF FileInv

\* What a request of a command says.
LEMMA RequestFields ==
    ASSUME job \in Casts, NEW u \in Users, NEW c \in Command, NEW k \in Nat,
           c.asks \in {"chat", "file-start", "file-chunk", "file-complete"},
           c.asks = "file-chunk" => c.sent = Full(k) /\ c.sent < job[u].size
    PROVE  LET q == RequestOf(u, c) IN q.op = c.asks /\ q.id = c.id /\ Apt(u, q)
<1> DEFINE none == NoRequest
           q == [none EXCEPT !.op = c.asks, !.id = c.id]
           rest == job[u].size - c.sent
           len == IF rest < MaxChunk THEN rest ELSE MaxChunk
<1>1. none \in Request /\ \A op, id : LET e == [none EXCEPT !.op = op, !.id = id] IN
                                       e.op = op /\ e.id = id /\ DOMAIN e = {"op", "id", "index", "len", "to"}
  BY NoRequestTyped DEF NoRequest
<1>2. q.op = c.asks /\ q.id = c.id /\ DOMAIN q = {"op", "id", "index", "len", "to"}
  BY <1>1
<1> HIDE DEF none
<1>3. CASE c.asks = "chat"
  <2>1. RequestOf(u, c) = [q EXCEPT !.to = job[u].to]
    BY <1>3 DEF RequestOf, none
  <2> HIDE DEF q
  <2> QED BY <1>2, <1>3, <2>1 DEF Apt
<1>4. CASE c.asks = "file-start"
  <2>1. RequestOf(u, c) = [q EXCEPT !.to = job[u].to, !.len = job[u].size]
    BY <1>4 DEF RequestOf, none
  <2> HIDE DEF q
  <2> QED BY <1>2, <1>4, <2>1 DEF Apt
<1>5. CASE c.asks = "file-chunk"
  <2>1. RequestOf(u, c) = [q EXCEPT !.index = c.sent \div MaxChunk, !.len = len]
    BY <1>5 DEF RequestOf, none
  <2>2. c.sent \div MaxChunk = k
    BY <1>5, FullDivides
  <2> HIDE DEF q, len
  <2>3. LET e == RequestOf(u, c) IN e.op = c.asks /\ e.id = c.id /\ e.index = k /\ e.len = len
    BY <1>2, <2>1, <2>2
  <2> QED BY <1>5, <2>3 DEF Apt, len
<1>6. CASE c.asks = "file-complete"
  <2>1. RequestOf(u, c) = q
    BY <1>6 DEF RequestOf, none
  <2> HIDE DEF q
  <2> QED BY <1>2, <1>6, <2>1 DEF Apt
<1> QED BY <1>3, <1>4, <1>5, <1>6

\* A user sends one request more, that suits the user's file.
LEMMA SentGrows ==
    ASSUME ClientsInv, FileInv, NEW u \in Users, job' = job, NEW q, up'[u] = Append(up[u], q), Apt(u, q)
    PROVE  Sent(u)'
<1>1. up[u] \in Seq(Request) /\ \A i \in DOMAIN up[u] : Apt(u, up[u][i])
  BY DEF ClientsInv, LinksTypeOK, FileInv, RequestsApt
<1>2. \A i \in DOMAIN Append(up[u], q) : Append(up[u], q)[i] = q \/ (i \in DOMAIN up[u] /\ Append(up[u], q)[i] = up[u][i])
  BY <1>1
<1>3. \A i \in DOMAIN up'[u] : Apt(u, up'[u][i])
  BY <1>1, <1>2
<1> QED BY <1>3 DEF Sent, Apt, Full

\* The steps of the commands: the first request goes out, ...
LEMMA BeginKeepsFiles ==
    ASSUME ClientsInv, ClientsInv', FileInv, NEW u \in Users, Begin(u)
    PROVE  FileInv'
<1> DEFINE c == cli[u]
           q == RequestOf(u, c)
<1>1. /\ cli \in [Users -> Command] /\ c \in Command /\ job \in Casts /\ up \in [Users -> Seq(Request)]
      /\ Commanded(u) /\ Progress(u)
  BY DEF ClientsInv, CliTypeOK, LinksTypeOK, FileInv
<1>2. /\ UNCHANGED <<vars, job, down, linked, receiving>> /\ up' = [up EXCEPT ![u] = Append(@, q)]
      /\ cli' = [cli EXCEPT ![u].waiting = TRUE] /\ c.asks \in {"chat", "file-start"}
  BY DEF Begin, Send, receiveVars
<1>3. job[u].program \in {"send", "send-file"}
  BY <1>1, <1>2 DEF Commanded
<1> HIDE DEF q
<1>4. up'[u] = Append(up[u], q) /\ \A v \in Users \ {u} : up'[v] = up[v] /\ cli'[v] = cli[v]
  BY <1>1, <1>2
<1>5. cli'[u].waiting /\ cli'[u].asks = c.asks /\ cli'[u].id = c.id /\ cli'[u].sent = c.sent
  BY <1>1, <1>2 DEF Command
<1>6. Rests({u})
  BY <1>2, <1>4 DEF Rests, vars
<1>7. q.op = c.asks /\ q.id = c.id /\ Apt(u, q)
  BY <1>1, <1>2, RequestFields DEF q
<1>8. Sent(u)'
  BY <1>2, <1>4, <1>7, SentGrows
<1>9. Progress(u)'
  BY <1>1, <1>2, <1>5 DEF Progress
<1>10. InFlight(u)' = InFlight(u)
  BY <1>2, FlightStays DEF vars
<1>11. ASSUME NEW t \in Nat \ {0}, DoneBy(u, t)' PROVE DoneBy(u, t)
  BY <1>2, <1>5, <1>10, <1>11 DEF DoneBy
<1>12. InAnswer(u)'
  <2>1. SUFFICES ASSUME linked'[u] PROVE InAnswer(u)'
    BY DEF InAnswer
  <2>2. Pending(u)' = 1
    BY <1>2, <1>3, <1>5 DEF Pending, IsGui
  <2>3. up'[u] = <<q>> /\ \A i \in DOMAIN InFlight(u)' : ~IsResponse(InFlight(u)'[i])
    BY <1>4, <2>1, <2>2, SentAlone
  <2>4. RequestOf(u, cli[u])' = q
    BY <1>2, <1>5 DEF RequestOf, q
  <2>5. \A i \in DOMAIN up'[u] : up'[u][i] = q
    BY <2>3
  <2> QED BY <2>3, <2>4, <2>5 DEF InAnswer, IsResponse
<1>13. ~Listening(u)' /\ receiving' = receiving
  BY <1>2, <1>3 DEF Listening
<1> QED BY <1>6, <1>8, <1>9, <1>11, <1>12, <1>13, StepRests

\* At most one user listens.
LEMMA OneListener == ASSUME ClientsInv, NEW u \in Users, NEW v \in Users, Listening(u), Listening(v) PROVE u = v
BY CliAssumption DEF ClientsInv, Listening, CliAssumption

\* A program that leaves takes nothing along.
LEMMA LeaveKeepsFiles ==
    ASSUME ClientsInv, ClientsInv', FileInv, NEW u \in Users, UNCHANGED <<vars, job, up>>, Leave(u),
           Progress(u)', \A v \in Users \ {u} : cli'[v] = cli[v],
           \A t \in Nat \ {0} : cli'[u].asks = "ok" /\ cli'[u].id = t => DoneBy(u, t),
           receiving' = receiving \/ Listening(u)
    PROVE  FileInv'
<1>1. ~linked'[u] /\ \A v \in Users \ {u} : down'[v] = down[v] /\ linked'[v] = linked[v]
  BY LeaveTyped DEF ClientsInv
<1>2. Rests({u})
  BY <1>1 DEF Rests, vars
<1>3. Sent(u)'
  BY DEF FileInv, RequestsApt, Sent, Apt, Full
<1>4. InAnswer(u)' /\ ~Listening(u)'
  BY <1>1 DEF InAnswer, Listening
<1>5. ASSUME NEW t \in Nat \ {0}, DoneBy(u, t)' PROVE DoneBy(u, t)
  BY <1>1, <1>5 DEF DoneBy
<1>6. receiving' = receiving \/ \A v \in Users : ~Listening(v)'
  <2>1. ASSUME NEW v \in Users, Listening(u), Listening(v)' PROVE FALSE
    <3>1. v # u
      BY <1>4, <2>1
    <3>2. Listening(v)
      BY <1>1, <2>1, <3>1 DEF Listening
    <3> QED BY <2>1, <3>1, <3>2, OneListener
  <2> QED BY <2>1
<1> QED BY <1>2, <1>3, <1>4, <1>5, <1>6, StepRests

\* ... a command gives up, ends or is killed, ...
LEMMA EndsKeepFiles ==
    ASSUME ClientsInv, ClientsInv', FileInv, NEW u \in Users, Fail(u) \/ ListenEnds(u) \/ ListenerKilled(u)
    PROVE  FileInv'
<1>1. cli \in [Users -> Command] /\ job \in Casts /\ Progress(u)
  BY DEF ClientsInv, CliTypeOK, FileInv
<1>2. CASE Fail(u)
  <2>1. UNCHANGED <<vars, job, up, receiving>> /\ Leave(u) /\ cli' = [cli EXCEPT ![u] = Started("failed")]
    BY <1>2 DEF Fail, receiveVars
  <2>2. Started("failed").asks = "failed" /\ Started("failed").id = 0
    BY DEF Started
  <2>3. cli'[u] = Started("failed") /\ \A v \in Users \ {u} : cli'[v] = cli[v]
    BY <1>1, <2>1
  <2>4. Progress(u)'
    BY <2>2, <2>3 DEF Progress
  <2> QED BY <2>1, <2>2, <2>3, <2>4, LeaveKeepsFiles
<1>3. CASE ListenEnds(u) \/ ListenerKilled(u)
  <2>1. PICK asks \in {"ok", "failed"} :
          /\ UNCHANGED <<vars, job, up>> /\ Leave(u) /\ cli' = [cli EXCEPT ![u].asks = asks] /\ Listening(u)
    <3>1. CASE ListenEnds(u)
      BY <3>1 DEF ListenEnds
    <3>2. CASE ListenerKilled(u)
      BY <3>2 DEF ListenerKilled
    <3> QED BY <1>3, <3>1, <3>2
  <2>2. cli'[u].asks = asks /\ cli'[u].id = cli[u].id /\ \A v \in Users \ {u} : cli'[v] = cli[v]
    BY <1>1, <2>1 DEF Command
  <2>3. cli[u].id = 0
    BY <1>1, <2>1 DEF Progress, Listening
  <2>4. Progress(u)'
    BY <2>2, <2>3 DEF Progress
  <2> QED BY <2>1, <2>2, <2>3, <2>4, LeaveKeepsFiles
<1> QED BY <1>2, <1>3

\* The end of what has gone out is the end of a chunk while there is more.
LEMMA AnsweredFull ==
    ASSUME ClientsInv, NEW u \in Users, cli[u].waiting, Progress(u), NEW p \in Packet,
           Answered(u, p).asks = "file-chunk"
    PROVE  \E k \in Nat : Answered(u, p).sent = Full(k) /\ Answered(u, p).sent < job[u].size
<1> DEFINE c == cli[u]
           size == job[u].size
           rest == size - c.sent
           q == RequestOf(u, c)
<1>1. /\ c \in Command /\ job \in Casts /\ Commanded(u) /\ c.sent \in Nat /\ size \in Nat /\ MaxChunk \in Nat \ {0}
  BY JobTyped, ServerAssumption DEF ClientsInv, CliTypeOK, Command, Job
<1>2. c.asks \in {"file-start", "file-chunk"} /\ Answered(u, p).sent = SentAfter(u)
  BY <1>1 DEF Answered, Commanded
<1>3. Answered(u, p).sent < size
  BY AnsweredTyped
<1>4. CASE c.asks = "file-start"
  <2>1. SentAfter(u) = c.sent + 0
    BY <1>4 DEF SentAfter
  <2>2. c.sent = 0 /\ Full(0) = 0
    BY <1>4, FullGrows DEF Progress
  <2> QED BY <1>2, <1>3, <2>1, <2>2
<1>5. CASE c.asks = "file-chunk"
  <2>1. PICK k \in Nat : c.sent = Full(k)
    BY <1>5 DEF Progress
  <2>2. c.sent < size
    BY <1>1, <1>5 DEF Commanded
  <2>3. Apt(u, q) /\ q.op = "file-chunk"
    BY <1>1, <1>5, <2>1, <2>2, RequestFields
  <2>4. q.len = IF rest < MaxChunk THEN rest ELSE MaxChunk
    <3>1. q.index = k
      <4>1. q = [[NoRequest EXCEPT !.op = c.asks, !.id = c.id] EXCEPT !.index = c.sent \div MaxChunk,
                                                    !.len = IF rest < MaxChunk THEN rest ELSE MaxChunk]
        BY <1>5 DEF RequestOf
      <4>2. c.sent \div MaxChunk = k
        BY <2>1, FullDivides
      <4> HIDE DEF q
      <4> QED BY <4>1, <4>2 DEF NoRequest
    <3> QED BY <2>1, <2>3, <3>1 DEF Apt
  <2>5. SentAfter(u) = c.sent + q.len
    BY <1>5 DEF SentAfter
  <2>6. SentAfter(u) = c.sent + MaxChunk
    <3> HIDE DEF q, size
    <3>1. SentAfter(u) < size
      BY <1>2, <1>3
    <3> QED BY <1>1, <2>2, <2>4, <2>5, <3>1
  <2>7. Full(k + 1) = Full(k) + MaxChunk
    BY FullGrows
  <2> QED BY <1>2, <1>3, <2>1, <2>6, <2>7
<1> QED BY <1>2, <1>4, <1>5

\* ... the awaited response has come.
LEMMA ProceedKeepsFiles ==
    ASSUME ClientsInv, ClientsInv', FileInv, NEW u \in Users, Proceed(u)
    PROVE  FileInv'
<1> DEFINE p == Head(down[u])
           c == Answered(u, p)
           q == RequestOf(u, c)
<1>1. /\ cli \in [Users -> Command] /\ job \in Casts /\ up \in [Users -> Seq(Request)] /\ LinksTypeOK
      /\ Commanded(u) /\ Progress(u) /\ InAnswer(u)
  BY DEF ClientsInv, CliTypeOK, LinksTypeOK, FileInv
<1>2. /\ UNCHANGED <<vars, job, receiving>> /\ cli' = [cli EXCEPT ![u] = c]
      /\ cli[u].waiting /\ Arrived(u) /\ p.kind = "ok"
      /\ IF c.asks = "ok" THEN Leave(u) /\ UNCHANGED up ELSE Take(u) /\ Send(u, q) /\ UNCHANGED linked
  BY DEF Proceed, receiveVars
<1>3. down[u] # <<>> /\ linked[u] /\ down[u] \in Seq(Packet) /\ p \in Packet
  BY <1>1, <1>2, TailOf DEF Arrived, LinksTypeOK
<1>4. /\ c \in Command /\ c.asks \in {"ok", "file-chunk", "file-complete"}
      /\ c.waiting = (c.asks # "ok")
  BY <1>2, <1>3, AnsweredTyped
<1>5. c.asks = "file-chunk" => \E k \in Nat : c.sent = Full(k) /\ c.sent < job[u].size
  BY <1>1, <1>2, <1>3, AnsweredFull
<1>6. job[u].program \in {"send", "send-file"} /\ ~Listening(u)
  BY <1>1, <1>2 DEF Commanded, Listening
<1>7. cli'[u] = c /\ \A v \in Users \ {u} : cli'[v] = cli[v]
  BY <1>1, <1>2, <1>4
<1>8. Progress(u)'
  <2> HIDE DEF c
  <2> QED BY <1>2, <1>4, <1>5, <1>6, <1>7 DEF Progress, Full
<1>9. CASE c.asks = "ok"
  <2>1. Leave(u) /\ up' = up
    BY <1>2, <1>9
  <2>2. ASSUME NEW t \in Nat \ {0}, c.id = t PROVE DoneBy(u, t)
    <3>1. cli[u].asks \in {"chat", "file-complete"}
      BY <1>9 DEF Answered
    <3>2. c.id = cli[u].id
      BY <3>1 DEF Answered
    <3>3. cli[u].asks = "file-complete"
      BY <1>1, <2>2, <3>1, <3>2 DEF Progress
    <3>4. PICK s \in Slots : Seats[s] = u
      BY <1>3 DEF ClientsInv, Playing
    <3>5. 1 \in DOMAIN InFlight(u) /\ InFlight(u)[1] = p
      <4>1. 1 \in DOMAIN down[u] /\ down[u][1] = p
        BY <1>3, TailOf
      <4>2. out[s] \in Packet
        BY BufferTyped DEF ClientsInv
      <4>3. InFlight(u) = down[u] \o IF Connected(u) /\ out[s] # NoPacket THEN <<out[s]>> ELSE <<>>
        BY <3>4, InFlightIs
      <4>4. \A b \in Packet : /\ down[u] \o <<b>> = Append(down[u], b) /\ down[u] \o <<>> = down[u]
                              /\ 1 \in DOMAIN Append(down[u], b) /\ Append(down[u], b)[1] = down[u][1]
        BY <1>3, <4>1, AppendIsConcat, ConcatEmptySeq
      <4> HIDE DEF p
      <4>5. InFlight(u) = down[u] \/ InFlight(u) = Append(down[u], out[s])
        BY <4>2, <4>3, <4>4
      <4> QED BY <4>1, <4>2, <4>4, <4>5
    <3>6. p.op = "file-complete" /\ p.id = cli[u].id
      BY <1>1, <1>2, <1>3, <3>3, <3>5 DEF InAnswer
    <3> QED BY <1>2, <1>3, <2>2, <3>2, <3>5, <3>6 DEF DoneBy
  <2> QED BY <1>2, <1>7, <1>8, <2>1, <2>2, LeaveKeepsFiles
<1>10. CASE c.asks # "ok"
  <2> HIDE DEF c, q
  <2>1. Take(u) /\ Send(u, q) /\ linked' = linked
    BY <1>2, <1>10
  <2>2. down'[u] = Tail(down[u]) /\ \A v \in Users \ {u} : down'[v] = down[v]
    BY <1>1, <1>2, <2>1, TakeTyped
  <2>3. up'[u] = Append(up[u], q) /\ \A v \in Users \ {u} : up'[v] = up[v]
    BY <1>1, <2>1 DEF Send
  <2>4. Rests({u})
    BY <1>2, <1>7, <2>1, <2>2, <2>3 DEF Rests, vars
  <2>5. q.op = c.asks /\ q.id = c.id /\ Apt(u, q)
    <3>1. 0 \in Nat
      OBVIOUS
    <3>2. CASE c.asks = "file-chunk"
      BY <1>1, <1>4, <1>5, <3>2, RequestFields DEF q
    <3>3. CASE c.asks = "file-complete"
      BY <1>1, <1>4, <3>1, <3>3, RequestFields DEF q
    <3> QED BY <1>4, <1>10, <3>2, <3>3
  <2>6. Sent(u)'
    BY <1>2, <2>3, <2>5, SentGrows
  <2>7. /\ InFlight(u) \in Seq(Packet) /\ InFlight(u) # <<>> /\ InFlight(u)' = Tail(InFlight(u))
    BY <1>2, <1>3, <2>2, FlightRead
  <2>8. ASSUME NEW t \in Nat \ {0}, DoneBy(u, t)' PROVE DoneBy(u, t)
    <3>1. \A i \in DOMAIN InFlight(u)' : i + 1 \in DOMAIN InFlight(u) /\ InFlight(u)'[i] = InFlight(u)[i + 1]
      BY <2>7, TailOf
    <3> QED BY <1>3, <1>7, <1>10, <2>8, <3>1 DEF DoneBy
  <2>9. InAnswer(u)'
    <3>1. linked'[u] /\ Pending(u)' = 1
      <4>1. job' = job /\ linked'[u]
        BY <1>2, <1>3, <2>1
      <4>2. cli'[u].waiting
        BY <1>4, <1>7, <1>10
      <4> QED BY <1>6, <4>1, <4>2 DEF Pending, IsGui
    <3>2. up'[u] = <<q>> /\ \A i \in DOMAIN InFlight(u)' : ~IsResponse(InFlight(u)'[i])
      BY <2>3, <3>1, SentAlone
    <3>3. RequestOf(u, cli[u])' = q
      <4>1. job' = job
        BY <1>2
      <4> QED BY <1>7, <4>1 DEF RequestOf, q
    <3>4. \A i \in DOMAIN up'[u] : up'[u][i] = q
      BY <3>2
    <3> QED BY <3>2, <3>3, <3>4 DEF InAnswer, IsResponse
  <2>10. ~Listening(u)' /\ receiving' = receiving
    BY <1>2, <1>6, <2>1 DEF Listening
  <2> QED BY <1>8, <2>4, <2>6, <2>8, <2>9, <2>10, StepRests
<1> QED BY <1>9, <1>10

\* A window sends nothing but call requests, and reads.
Moves(u) ==
    /\ UNCHANGED <<vars, job>> /\ IsGui(u) /\ linked[u]
    /\ \A v \in Users \ {u} : up'[v] = up[v] /\ down'[v] = down[v] /\ linked'[v] = linked[v]
    /\ up'[u] = up[u] \/ \E q : up'[u] = Append(up[u], q) /\ q.op \in CallOps
    /\ \/ linked'[u] /\ down'[u] = down[u]
       \/ linked'[u] /\ down[u] # <<>> /\ down'[u] = Tail(down[u])
       \/ ~linked'[u]

\* Windows send call requests, or read, and never listen.
LEMMA GuiMoves == ASSUME ClientsInv, NEW u \in Users, GuiStep(u) PROVE Moves(u)
<1>1. LinksTypeOK /\ up \in [Users -> Seq(Request)] /\ audio[u].ready \in Seq(RelayOps)
  BY DEF ClientsInv, LinksTypeOK, GuiTypeOK, Session
<1>2. ASSUME Local(u), NEW op \in CallOps, NEW id, NEW to, NEW sent, NEW failed, Queue(u, op, id, to, sent, failed)
      PROVE  Moves(u)
  <2> DEFINE q == [NoRequest EXCEPT !.op = op, !.id = id, !.to = to]
  <2>1. q.op = op
    BY DEF NoRequest
  <2> HIDE DEF q
  <2>2. up' = up \/ up' = [up EXCEPT ![u] = Append(@, q)]
    BY <1>2 DEF Queue, Send, q
  <2>3. /\ up'[u] = up[u] \/ (up'[u] = Append(up[u], q) /\ q.op \in CallOps)
        /\ \A v \in Users \ {u} : up'[v] = up[v]
    BY <1>1, <1>2, <2>1, <2>2
  <2> QED BY <1>2, <2>3 DEF Moves, Local, Using
<1>3. CASE Local(u) /\ up' = up
  BY <1>3 DEF Moves, Local, Using
<1>4. CASE ClickInvite(u) \/ ClickAccept(u)
  BY <1>2, <1>4 DEF ClickInvite, ClickAccept, CallOps
<1>5. CASE \E op \in EndOps : ClickEnd(u, op)
  BY <1>2, <1>5 DEF ClickEnd, CallOps
<1>6. CASE SignalReady(u)
  <2>1. Local(u) /\ (up' = up \/ Queue(u, Head(audio[u].ready), gui[u].call, NoUser, gui[u], gui[u]))
    BY <1>6 DEF SignalReady
  <2>2. Head(audio[u].ready) \in CallOps
    <3>1. audio[u].ready # <<>>
      BY <1>6 DEF SignalReady
    <3>2. Head(audio[u].ready) \in RelayOps
      BY <1>1, <3>1, TailOf
    <3> QED BY <3>2 DEF CallOps
  <2> QED BY <1>2, <1>3, <2>1, <2>2
<1>7. CASE Receive(u)
  <2>1. /\ UNCHANGED <<vars, job, up, linked>> /\ IsGui(u) /\ Arrived(u) /\ Take(u)
    BY <1>7 DEF Receive, Using
  <2>2. down'[u] = Tail(down[u]) /\ down[u] # <<>> /\ linked[u] /\ \A v \in Users \ {u} : down'[v] = down[v]
    BY <1>1, <2>1, TakeTyped
  <2> QED BY <2>1, <2>2 DEF Moves
<1>8. CASE Disconnected(u)
  <2>1. UNCHANGED <<vars, job, up>> /\ IsGui(u) /\ linked[u] /\ Leave(u)
    BY <1>8 DEF Disconnected, Using
  <2>2. ~linked'[u] /\ \A v \in Users \ {u} : down'[v] = down[v] /\ linked'[v] = linked[v]
    BY <1>1, <2>1, LeaveTyped
  <2> QED BY <2>1, <2>2 DEF Moves
<1> QED BY <1>4, <1>5, <1>6, <1>7, <1>8 DEF GuiStep

\* So no window touches a file.
LEMMA GuiKeepsFiles ==
    ASSUME ClientsInv, ClientsInv', FileInv, NEW u \in Users, GuiStep(u), UNCHANGED <<cliVars, receiveVars>>
    PROVE  FileInv'
<1>1. Moves(u) /\ cli' = cli /\ receiving' = receiving /\ Commanded(u) /\ Progress(u)
  BY GuiMoves DEF cliVars, receiveVars, ClientsInv, FileInv
<1>2. Rests({u}) /\ ~cli[u].waiting /\ ~Listening(u)'
  BY <1>1 DEF Moves, Rests, vars, Commanded, IsGui, Listening
<1>3. Sent(u)'
  <2>1. CASE up'[u] = up[u]
    BY <1>1, <2>1 DEF Moves, FileInv, RequestsApt, Sent, Apt, Full
  <2>2. ASSUME NEW q, up'[u] = Append(up[u], q), q.op \in CallOps PROVE Sent(u)'
    <3>1. Apt(u, q)
      BY <2>2 DEF Apt, CallOps, EndOps, RelayOps
    <3> QED BY <1>1, <2>2, <3>1, SentGrows DEF Moves
  <2> QED BY <1>1, <2>1, <2>2 DEF Moves
<1>4. Progress(u)' /\ InAnswer(u)'
  BY <1>1, <1>2 DEF Moves, Progress, InAnswer, Full
<1>5. ASSUME NEW t \in Nat \ {0}, DoneBy(u, t)' PROVE DoneBy(u, t)
  <2>1. CASE linked'[u] /\ down'[u] = down[u]
    <3>1. InFlight(u)' = InFlight(u)
      BY <1>1, <2>1, FlightStays DEF Moves, vars
    <3> QED BY <1>1, <1>5, <3>1 DEF DoneBy, Moves
  <2>2. CASE linked'[u] /\ down[u] # <<>> /\ down'[u] = Tail(down[u])
    <3>1. InFlight(u) \in Seq(Packet) /\ InFlight(u) # <<>> /\ InFlight(u)' = Tail(InFlight(u))
      BY <1>1, <2>2, FlightRead DEF Moves
    <3>2. \A i \in DOMAIN InFlight(u)' : i + 1 \in DOMAIN InFlight(u) /\ InFlight(u)'[i] = InFlight(u)[i + 1]
      BY <3>1, TailOf
    <3> QED BY <1>1, <1>5, <3>2 DEF DoneBy, Moves
  <2>3. CASE ~linked'[u]
    BY <1>1, <1>5, <2>3 DEF DoneBy
  <2> QED BY <1>1, <2>1, <2>2, <2>3 DEF Moves
<1> QED BY <1>1, <1>2, <1>3, <1>4, <1>5, StepRests

\* Steps of the server in which no client is served.
LEMMA StutterKeepsFiles ==
    ASSUME ClientsInv, ClientsInv', FileInv,
           \/ UNCHANGED clientsVars
           \/ (AcceptDone \/ Sweep \/ \E s \in Slots : SkipClosed(s)) /\ UNCHANGED <<links, cliVars, receiveVars>>
    PROVE  FileInv'
<1>1. CASE UNCHANGED clientsVars
  <2>1. UNCHANGED <<clients, out, ids, transfers, job, up, down, linked, cli, receiving>>
    BY <1>1 DEF clientsVars, vars, links, cliVars, receiveVars
  <2>2. Rests({})
    BY <2>1 DEF Rests
  <2> QED BY <2>1, <2>2, StepRests
<1>2. CASE (AcceptDone \/ Sweep \/ \E s \in Slots : SkipClosed(s)) /\ UNCHANGED <<links, cliVars, receiveVars>>
  <2>1. UNCHANGED <<clients, out, ids, job, up, down, linked, cli, receiving>> /\ transfers' \subseteq transfers
    BY <1>2 DEF AcceptDone, Sweep, SkipClosed, links, cliVars, receiveVars
  <2>2. Rests({})
    BY <2>1 DEF Rests
  <2> QED BY <2>1, <2>2, StepRests
<1> QED BY <1>1, <1>2

\* What the listener has read of the file it receives, and the rest of any other.
LEMMA HearKeepsFiles ==
    ASSUME ClientsInv, ClientsInv', FileInv, NEW u \in Users, Hear(u)
    PROVE  FileInv'
<1> DEFINE p == Head(down[u])
           q == InFlight(u)
           r == InFlight(u)'
<1>1. /\ UNCHANGED <<vars, job, up, linked, cli>> /\ Take(u) /\ Arrived(u) /\ Listening(u) /\ p.kind = "notify"
  BY DEF Hear
<1>2. /\ down[u] # <<>> /\ linked[u] /\ p \in Packet /\ down'[u] = Tail(down[u])
      /\ \A v \in Users \ {u} : down'[v] = down[v]
  BY <1>1, TakeTyped DEF ClientsInv
<1>3. q \in Seq(Packet) /\ q # <<>> /\ Head(q) = p /\ r = Tail(q) /\ Connected(u)' = Connected(u)
  BY <1>1, <1>2, FlightRead
<1>4. \A i \in DOMAIN r : i + 1 \in DOMAIN q /\ r[i] = q[i + 1]
  BY <1>3, TailOf
<1>5. Rests({u})
  BY <1>1, <1>2 DEF Rests, vars
<1>6. Sent(u)' /\ Progress(u)' /\ InAnswer(u)'
  <2>1. ~cli[u].waiting
    BY <1>1 DEF ClientsInv, Commanded, Listening
  <2>2. Sent(u)'
    BY <1>1 DEF FileInv, RequestsApt, Sent, Apt, Full
  <2>3. Progress(u)'
    BY <1>1 DEF FileInv, Progress, Full
  <2> QED BY <1>1, <2>1, <2>2, <2>3 DEF InAnswer
<1>7. ASSUME NEW t \in Nat \ {0}, DoneBy(u, t)' PROVE DoneBy(u, t)
  BY <1>1, <1>4, <1>7 DEF DoneBy
<1>8. /\ RelaysApt' /\ RequestsApt' /\ DoneSound' /\ \A v \in Users : Progress(v)' /\ InAnswer(v)'
      /\ \A t \in Nat \ {0} : Done(t)' => Done(t)
  BY <1>5, <1>6, <1>7, RestKeeps
<1>9. ASSUME NEW t \in Nat, Connected(u), Comes(u, t)'
      PROVE  Delivers(u, t)'
  <2>1. Mentions(r, t) => Mentions(q, t)
    BY <1>4 DEF Mentions
  <2>2. Mentions(InFlight(u), t)' = Mentions(r, t)
    BY DEF Mentions, AboutFile, FileOps
  <2>3. AboutFile(p, t) => Mentions(q, t)
    <3>1. 1 \in DOMAIN q /\ q[1] = p
      BY <1>3, TailOf
    <3> QED BY <3>1 DEF Mentions
  <2>4. Open(t)' => Open(t) \/ (AboutFile(p, t) /\ p.op = "file-start")
    <3>1. CASE UNCHANGED receiveVars
      BY <3>1 DEF Open, receiveVars
    <3>2. CASE /\ p.op = "file-start"
               /\ \E name \in Names : BeginFile([id |-> p.id, whole |-> Content(p.id, 0, p.len), name |-> name])
      BY <1>1, <3>2 DEF Open, BeginFile, AboutFile, FileOps
    <3>3. CASE WriteChunk([id |-> p.id, index |-> p.index, bytes |-> Content(p.id, p.index * MaxChunk, p.len)])
      BY <3>3 DEF Open, WriteChunk
    <3>4. CASE FinishFile(p.id)
      BY <3>4 DEF Open, FinishFile, AfterFinish
    <3>5. \/ UNCHANGED receiveVars
          \/ /\ p.op = "file-start"
             /\ \E name \in Names : BeginFile([id |-> p.id, whole |-> Content(p.id, 0, p.len), name |-> name])
          \/ WriteChunk([id |-> p.id, index |-> p.index, bytes |-> Content(p.id, p.index * MaxChunk, p.len)])
          \/ FinishFile(p.id)
      BY DEF Hear
    <3> HIDE DEF p
    <3> QED BY <3>1, <3>2, <3>3, <3>4, <3>5
  <2>5. Comes(u, t)
    BY <1>9, <2>1, <2>2, <2>3, <2>4 DEF Comes
  <2>6. PICK first \in Nat, end \in Nat, size \in Nat : t # 0 /\ t < ids.transfer /\ Follows(u, t, first, end, size)
    BY <1>1, <1>9, <2>5 DEF FileInv, FilesFollow, Delivers
  <2> DEFINE next == IF IsOf(p, "file-chunk", t) THEN first + 1 ELSE first
  <2>7. next \in Nat /\ InStep(r, t, next, end, size) /\ (Open(t)' => receiving'.next = next /\ Len(receiving'.whole) = size)
    <3>1. InStep(q, t, first, end, size) /\ (Open(t) => receiving.next = first /\ Len(receiving.whole) = size)
      BY <2>6 DEF Follows
    <3>2. CASE IsOf(p, "file-chunk", t)
      <4>1. WriteChunk([id |-> p.id, index |-> p.index, bytes |-> Content(p.id, p.index * MaxChunk, p.len)])
        BY <3>2 DEF Hear, IsOf, CallOps, EndOps, RelayOps
      <4>2. receiving.active /\ receiving.id = t /\ receiving.next = p.index
        BY <3>2, <4>1 DEF WriteChunk, Expects, IsOf
      <4>3. first = p.index
        BY <3>1, <4>2 DEF Open
      <4>4. InStep(r, t, first + 1, end, size)
        BY <1>3, <2>6, <3>1, <3>2, <4>3, TailChunk
      <4>5. receiving'.next = receiving.next + 1 /\ receiving'.whole = receiving.whole
        BY <4>1 DEF WriteChunk
      <4> QED BY <3>1, <3>2, <4>2, <4>4, <4>5 DEF Open
    <3>3. CASE ~IsOf(p, "file-chunk", t)
      <4>1. InStep(r, t, first, end, size)
        BY <1>3, <2>6, <3>1, <3>3, TailKeepsStep
      <4>2. CASE UNCHANGED receiveVars
        BY <3>1, <3>3, <4>1, <4>2 DEF Open, receiveVars
      <4>3. ASSUME p.op = "file-start", NEW name \in Names,
                   BeginFile([id |-> p.id, whole |-> Content(p.id, 0, p.len), name |-> name]), Open(t)'
            PROVE  receiving'.next = first /\ Len(receiving'.whole) = size
        <5>1. receiving'.next = 0 /\ receiving'.id = p.id /\ receiving'.whole = Content(p.id, 0, p.len)
          BY <4>3 DEF BeginFile
        <5>2. IsOf(p, "file-start", t)
          BY <1>1, <4>3, <5>1 DEF Open, IsOf
        <5>3. first = 0 /\ p.len = size
          <6>1. 1 \in DOMAIN q /\ q[1] = p
            BY <1>3, TailOf
          <6> QED BY <3>1, <5>2, <6>1 DEF InStep
        <5>4. Len(Content(p.id, 0, p.len)) = p.len
          <6>1. p.len \in Nat
            BY <1>2 DEF Packet
          <6> QED BY <6>1 DEF Content
        <5> QED BY <5>1, <5>3, <5>4
      <4>4. CASE WriteChunk([id |-> p.id, index |-> p.index, bytes |-> Content(p.id, p.index * MaxChunk, p.len)])
                 /\ p.op = "file-chunk"
        <5>1. receiving'.id = receiving.id /\ receiving.id = p.id
          BY <4>4 DEF WriteChunk, Expects
        <5>2. ~Open(t)'
          BY <1>1, <3>3, <4>4, <5>1 DEF Open, IsOf
        <5> QED BY <2>6, <3>3, <4>1, <5>2
      <4>5. CASE FinishFile(p.id)
        <5>1. ~Open(t)'
          BY <4>5 DEF Open, FinishFile, AfterFinish
        <5> QED BY <2>6, <3>3, <4>1, <5>1
      <4>6. CASE \E name \in Names : /\ p.op = "file-start"
                                     /\ BeginFile([id |-> p.id, whole |-> Content(p.id, 0, p.len), name |-> name])
        BY <2>6, <3>3, <4>1, <4>3, <4>6
      <4> QED BY <4>2, <4>4, <4>5, <4>6 DEF Hear
    <3> QED BY <3>2, <3>3
  <2>8. PICK n \in Nat : InStep(r, t, n, end, size) /\ (Open(t)' => receiving'.next = n /\ Len(receiving'.whole) = size)
    BY <2>7
  <2> HIDE DEF next
  <2>9. InStep(InFlight(u), t, n, end, size)'
    BY <2>8 DEF InStep, InOrder, Begins, Full, IsOf, AboutFile, FileOps
  <2>10. \A x \in transfers' : x.id = t => x.receiver = u /\ x.next = end /\ x.size = size
    BY <1>1, <2>6 DEF Follows, vars
  <2>11. Done(t)' => size <= Full(end)
    BY <1>8, <2>6 DEF Follows
  <2>12. Follows(u, t, n, end, size)'
    BY <2>8, <2>9, <2>10, <2>11 DEF Follows
  <2> QED BY <1>1, <2>6, <2>8, <2>12 DEF vars, Delivers
<1>10. FilesFollow'
  <2>1. ASSUME NEW v \in Users, Listening(v)', Connected(v)' PROVE v = u /\ Connected(u)
    BY <1>1, <1>3, <2>1, OneListener DEF Listening
  <2> QED BY <1>9, <2>1 DEF FilesFollow
<1> QED BY <1>8, <1>10 DEF FileInv

-----------------------------------------------------------------------------
(* Files in step: a visit of the server.                                   *)

\* A visit of slot s under the invariants, with the table t after the flush.
Visits(s, t) ==
    /\ ClientsInv /\ RelayOpen /\ FileInv /\ turn = s /\ ServeLink(s, t)
    /\ UNCHANGED <<cliVars, receiveVars>>

\* The request that a visit has handled, and what came of it; or nothing did.
Handled(s, t, q, p, u, note, T) ==
    /\ Replied(s, t, p, u, note, T)
    /\ AnswerTo(p, q) /\ up[Seats[s]] # <<>> /\ q = Head(up[Seats[s]])
    /\ Announces(s, q, u, note, T) \/ Advances(s, q, u, note, T) \/ Completes(s, q, u, note, T)

Spared(s, t, q, p, u, note, T) ==
    /\ Replied(s, t, p, u, note, T) /\ RelaysNothing(p, note, T)
    /\ clients'[s] = FreeClient \/ (AnswerTo(p, q) /\ up[Seats[s]] # <<>> /\ q = Head(up[Seats[s]]))

\* The three kinds of visits.
LEMMA VisitIs ==
    ASSUME NEW s \in Slots, NEW t \in Flushed(s), Visits(s, t)
    PROVE  \/ Quiet(s, t)
           \/ \E q, p, u, note, T : Spared(s, t, q, p, u, note, T)
           \/ \E q, p, u, note, T : Handled(s, t, q, p, u, note, T)
<1>1. Quiet(s, t) \/ \E q, p, u, note, T : Comprises(s, t, q, p, u, note, T)
  BY ServeLinkComprises DEF Visits, ClientsInv
<1>2. ASSUME NEW q, NEW p, NEW u, NEW note, NEW T, Comprises(s, t, q, p, u, note, T)
      PROVE  Spared(s, t, q, p, u, note, T) \/ Handled(s, t, q, p, u, note, T)
  BY <1>2 DEF Comprises, Relayed, Spared, Handled
<1> QED BY <1>1, <1>2

\* Who is served, and what the user has asked for.
LEMMA VisitedUser ==
    ASSUME NEW s \in Slots, NEW t \in Flushed(s), Visits(s, t)
    PROVE  LET v == Seats[s]
           IN  /\ v \in Users /\ clients[s].open /\ clients[s].user = v /\ clients[s] # FreeClient
               /\ UNCHANGED <<job, linked, cli, receiving>>
               /\ up[v] # <<>> => Head(up[v]) \in Request /\ Apt(v, Head(up[v]))
               /\ \A u \in Users : \A i \in DOMAIN up'[u] : \E j \in DOMAIN up[u] : up'[u][i] = up[u][j]
<1> DEFINE v == Seats[s]
<1>1. ClientsInv /\ FileInv /\ ServeLink(s, t) /\ turn = s
  BY DEF Visits
<1>2. v \in Users /\ up \in [Users -> Seq(Request)]
  BY <1>1, SeatedUser DEF ClientsInv, LinksTypeOK
<1>3. clients[s].open /\ clients[s].user = v /\ clients[s] # FreeClient
  <2>1. clients[s].open
    BY <1>1, ServeLinkVisits, VisitServes DEF Serve, ClientsInv
  <2> QED BY <1>1, <2>1 DEF ClientsInv, Placed, FreeClient
<1>4. UNCHANGED <<job, linked, cli, receiving>>
  BY DEF Visits, ServeLink, cliVars, receiveVars
<1>5. up[v] # <<>> => Head(up[v]) \in Request /\ Apt(v, Head(up[v]))
  BY <1>1, <1>2, TailOf DEF FileInv, RequestsApt
<1>6. ASSUME NEW u \in Users, NEW i \in DOMAIN up'[u] PROVE \E j \in DOMAIN up[u] : up'[u][i] = up[u][j]
  <2>1. up' = up \/ (up[v] # <<>> /\ up' = [up EXCEPT ![v] = Tail(@)]) \/ up' = [up EXCEPT ![v] = <<>>]
    BY <1>1, ServeLinkVisits DEF ClientsInv
  <2>2. CASE up'[u] = up[u]
    BY <1>6, <2>2
  <2>3. CASE up[u] # <<>> /\ up'[u] = Tail(up[u])
    BY <1>2, <1>6, <2>3, TailOf
  <2>4. CASE up'[u] = <<>>
    BY <1>6, <2>4
  <2> HIDE DEF v
  <2> QED BY <1>2, <2>1, <2>2, <2>3, <2>4
<1> QED BY <1>2, <1>3, <1>4, <1>5, <1>6

\* What is new in flight to somebody is a notify, or the response to the served client.
LEMMA FlightNews ==
    ASSUME NEW s \in Slots, NEW t \in Flushed(s), Visits(s, t), ClientsInv', NEW v \in Users, linked[v],
           NEW i \in DOMAIN InFlight(v)'
    PROVE  LET o == InFlight(v)'[i]
           IN  \/ \E j \in DOMAIN InFlight(v) : o = InFlight(v)[j]
               \/ o.kind = "notify"
               \/ /\ v = Seats[s] /\ up[v] # <<>> /\ clients'[s] = clients[s]
                  /\ t.out[s] = NoPacket /\ IsResponse(o) /\ o = out'[s]
<1>1. PICK r \in Slots : Seats[r] = v
  BY DEF Visits, ClientsInv, Playing
<1>2. ClientsInv /\ IInv /\ IInv' /\ ServeLink(s, t) /\ turn = s /\ OthersNotified(s)
  BY ServeLinkVisits DEF Visits, ClientsInv
<1>3. InFlight(v) \in Seq(Packet) /\ out'[r] \in Packet
  BY <1>2, FlightTyped, BuffersTyped
<1>6. LinksTypeOK /\ LinksTypeOK' /\ Asked /\ Placed
  BY <1>2 DEF ClientsInv
<1>7. LET u == Seats[r]
      IN  \/ InFlight(u)' = InFlight(u)
          \/ \A j \in DOMAIN InFlight(u)' : \E k \in DOMAIN InFlight(u) : InFlight(u)'[j] = InFlight(u)[k]
          \/ /\ InFlight(u)' = Append(InFlight(u), out'[r])
             /\ r # s => out'[r] # out[r]
             /\ r = s => /\ up[u] # <<>> /\ clients'[s] = clients[s]
                         /\ t.out[s] = NoPacket /\ IsResponse(out'[s])
  <2>1. linked[Seats[r]]
    BY <1>1
  <2> QED BY <1>2, <1>6, <2>1, FlightGrows
<1>4. \/ InFlight(v)' = InFlight(v)
      \/ \A j \in DOMAIN InFlight(v)' : \E k \in DOMAIN InFlight(v) : InFlight(v)'[j] = InFlight(v)[k]
      \/ /\ InFlight(v)' = Append(InFlight(v), out'[r])
         /\ r # s => out'[r] # out[r]
         /\ r = s => /\ up[v] # <<>> /\ clients'[s] = clients[s]
                     /\ t.out[s] = NoPacket /\ IsResponse(out'[s])
  BY <1>1, <1>7
<1>5. CASE /\ InFlight(v)' = Append(InFlight(v), out'[r])
           /\ r # s => out'[r] # out[r]
           /\ r = s => /\ up[v] # <<>> /\ clients'[s] = clients[s]
                       /\ t.out[s] = NoPacket /\ IsResponse(out'[s])
  <2>1. InFlight(v)'[i] = out'[r] \/ \E j \in DOMAIN InFlight(v) : InFlight(v)'[i] = InFlight(v)[j]
    BY <1>3, <1>5, AppendIs
  <2>2. r # s => out'[r].kind = "notify"
    BY <1>2, <1>5 DEF OthersNotified
  <2> QED BY <1>1, <1>5, <2>1, <2>2
<1> QED BY <1>4, <1>5

\* Requests wait as they did, and a command that waits gets the answer to its request.
LEMMA VisitAnswers ==
    ASSUME NEW s \in Slots, NEW t \in Flushed(s), Visits(s, t), ClientsInv'
    PROVE  RequestsApt' /\ \A v \in Users : Progress(v)' /\ InAnswer(v)'
<1>1. UNCHANGED <<job, linked, cli, receiving>> /\ FileInv
  BY VisitedUser DEF Visits
<1>2. \A u \in Users : \A i \in DOMAIN up'[u] : \E j \in DOMAIN up[u] : up'[u][i] = up[u][j]
  BY VisitedUser
<1>3. RequestsApt'
  BY <1>1, <1>2 DEF FileInv, RequestsApt, Apt, Full
<1>4. \A v \in Users : Progress(v)'
  BY <1>1 DEF FileInv, Progress, Full
<1>5. ASSUME NEW v \in Users, linked[v], cli[v].waiting PROVE InAnswer(v)'
  <2>1. RequestOf(v, cli[v])' = RequestOf(v, cli[v])
    BY <1>1 DEF RequestOf
  <2>2. \A i \in DOMAIN up'[v] : up'[v][i] = RequestOf(v, cli[v])
    BY <1>1, <1>2, <1>5 DEF FileInv, InAnswer
  <2>3. ASSUME NEW i \in DOMAIN InFlight(v)'
        PROVE  LET p == InFlight(v)'[i]
               IN  p.kind = "ok" =>
                     p.op = cli[v].asks /\ (p.op \in {"file-chunk", "file-complete"} => p.id = cli[v].id)
    <3> DEFINE o == InFlight(v)'[i]
    <3>1. CASE \E j \in DOMAIN InFlight(v) : o = InFlight(v)[j]
      BY <1>1, <1>5, <3>1 DEF FileInv, InAnswer
    <3>2. CASE /\ v = Seats[s] /\ up[v] # <<>> /\ clients'[s] = clients[s]
               /\ t.out[s] = NoPacket /\ IsResponse(o) /\ o = out'[s]
      <4>1. clients'[s] # FreeClient
        BY <3>2, VisitedUser
      <4>2. ASSUME NEW q, NEW p, NEW u, NEW note, NEW T, Replied(s, t, p, u, note, T), AnswerTo(p, q), q = Head(up[v])
            PROVE  o.kind = "ok" => o.op = cli[v].asks /\ (o.op \in {"file-chunk", "file-complete"} => o.id = cli[v].id)
        <5>1. o = p
          BY <3>2, <4>1, <4>2 DEF Replied
        <5>2. q = RequestOf(v, cli[v])
          <6>1. up[v] \in Seq(Request)
            BY DEF Visits, ClientsInv, LinksTypeOK
          <6>2. 1 \in DOMAIN up[v] /\ Head(up[v]) = up[v][1]
            BY <3>2, <6>1, TailOf
          <6> QED BY <1>1, <1>5, <4>2, <6>2 DEF FileInv, InAnswer
        <5>3. q.op = cli[v].asks /\ q.id = cli[v].id
          <6>1. /\ job \in Casts /\ cli[v] \in Command /\ Commanded(v) /\ Progress(v)
            BY <1>1 DEF Visits, ClientsInv, CliTypeOK, FileInv
          <6>2. \E k \in Nat : cli[v].asks = "file-chunk" => cli[v].sent = Full(k) /\ cli[v].sent < job[v].size
            BY <6>1 DEF Commanded, Progress
          <6> QED BY <1>5, <5>2, <6>1, <6>2, RequestFields DEF Commanded
        <5> QED BY <4>2, <5>1, <5>3 DEF AnswerTo
      <4>3. CASE Quiet(s, t)
        BY <3>2, <4>3, PacketFields DEF Quiet, IsResponse
      <4> QED BY <3>2, <4>1, <4>2, <4>3, VisitIs DEF Spared, Handled
    <3>3. CASE o.kind = "notify"
      BY <3>3
    <3> QED BY <1>5, <3>1, <3>2, <3>3, FlightNews
  <2> QED BY <1>1, <2>1, <2>2, <2>3 DEF InAnswer
<1>6. \A v \in Users : InAnswer(v)'
  BY <1>1, <1>5 DEF InAnswer
<1> QED BY <1>3, <1>4, <1>6

\* The next chunk of a file is there, and after it the relay is one chunk on.
LEMMA NextChunk ==
    ASSUME NEW n \in Nat, NEW size \in Nat, NEW len, Full(n) < size,
           len = IF size - Full(n) < MaxChunk THEN size - Full(n) ELSE MaxChunk
    PROVE  Past(n, size) + len = Past(n + 1, size) /\ Begins(n + 1, size) /\ Past(n, size) # size
<1>1. /\ Full(n) \in Nat /\ Full(n + 1) = Full(n) + MaxChunk /\ MaxChunk \in Nat \ {0}
      /\ (n + 1) - 1 = n
  BY FullGrows, ServerAssumption
<1>2. Begins(n + 1, size)
  BY <1>1 DEF Begins
<1> QED BY <1>1, <1>2 DEF Past

\* The fields of a transfer.
LEMMA TransfersTyped ==
    ASSUME ClientsInv, NEW x \in transfers
    PROVE  /\ x \in Transfer /\ x.id \in Nat /\ x.size \in Nat /\ x.seen \in Nat /\ x.next \in Nat
           /\ ids.transfer \in Nat
  BY DEF ClientsInv, IInv, RestTypeOK, SoundTables, Sound, SoundBut, TablesType, Tables, Transfer

Moved(x, seen, next) == [x EXCEPT !.seen = seen, !.next = next]

\* A transfer that is further than it was.
LEMMA MovedIs ==
    ASSUME NEW x \in Transfer, NEW seen \in Nat, NEW next \in Nat
    PROVE  LET y == Moved(x, seen, next)
           IN  /\ y \in Transfer /\ y.id = x.id /\ y.sender = x.sender /\ y.receiver = x.receiver /\ y.size = x.size
               /\ y.next = next /\ y.seen = seen
<1> DEFINE y == Moved(x, seen, next)
<1>1. y.id = x.id /\ y.sender = x.sender /\ y.receiver = x.receiver /\ y.size = x.size /\ y.next = next /\ y.seen = seen
  BY DEF Moved, Transfer
<1>2. y \in Transfer
  BY DEF Moved, Transfer
<1> QED BY <1>1, <1>2

\* What a chunk makes of its transfer.
LEMMA VisitAdvances ==
    ASSUME NEW s \in Slots, NEW t \in Flushed(s), Visits(s, t), NEW q, NEW p, NEW u, NEW note, NEW T,
           Handled(s, t, q, p, u, note, T), Advances(s, q, u, note, T)
    PROVE  \E x \in transfers, y \in Transfer :
              /\ x.id = q.id /\ x.sender = clients[s].user /\ u = x.receiver /\ note = ChunkNotify(x.id, x.next, q.len)
              /\ Full(x.next) < x.size /\ x.seen # x.size
              /\ y.id = x.id /\ y.sender = x.sender /\ y.receiver = x.receiver /\ y.size = x.size
              /\ y.next = x.next + 1 /\ y.seen = Past(y.next, y.size) /\ Begins(y.next, y.size)
              /\ T = (transfers \ {x}) \cup {y}
<1> DEFINE v == Seats[s]
<1>1. PICK x \in transfers :
        /\ x.id = q.id /\ x.next = q.index /\ x.sender = clients[s].user
        /\ u = x.receiver /\ note = ChunkNotify(x.id, x.next, q.len)
        /\ T = (transfers \ {x}) \cup {[x EXCEPT !.seen = @ + q.len, !.next = @ + 1]}
  BY DEF Advances
<1> DEFINE y == [x EXCEPT !.seen = @ + q.len, !.next = @ + 1]
<1>2. ClientsInv /\ FileInv /\ q.op = "file-chunk"
  BY DEF Visits, Advances
<1>3. q = Head(up[v]) /\ q \in Request /\ Apt(v, q) /\ clients[s].user = v
  BY VisitedUser DEF Handled
<1>4. x \in Transfer /\ x.size \in Nat /\ x.seen \in Nat /\ x.next \in Nat /\ q.len \in Nat
  <2>1. \A z \in Request : z.len \in Nat
    BY DEF Request
  <2> QED BY <1>2, <1>3, <2>1, TransfersTyped
<1>5. x.size = job[v].size /\ x.seen = Past(x.next, x.size)
  <2>1. RelaysApt
    BY <1>2, SMTT(30) DEF FileInv
  <2> QED BY <1>1, <1>3, <2>1 DEF RelaysApt
<1>6. /\ Full(x.next) < x.size
      /\ q.len = IF x.size - Full(x.next) < MaxChunk THEN x.size - Full(x.next) ELSE MaxChunk
  BY <1>1, <1>2, <1>3, <1>5 DEF Apt
<1>7. x.seen + q.len = Past(x.next + 1, x.size) /\ Begins(x.next + 1, x.size) /\ x.seen # x.size
  BY <1>4, <1>5, <1>6, NextChunk
<1>8. /\ y \in Transfer /\ y.id = x.id /\ y.sender = x.sender /\ y.receiver = x.receiver /\ y.size = x.size
      /\ y.next = x.next + 1 /\ y.seen = x.seen + q.len
  <2>1. PICK a \in Nat, b \in Nat : a = x.seen + q.len /\ b = x.next + 1
    BY <1>4
  <2>2. y = Moved(x, a, b)
    BY <2>1 DEF Moved
  <2> HIDE DEF y
  <2>3. x \in Transfer
    BY <1>4
  <2>4. /\ y \in Transfer /\ y.id = x.id /\ y.sender = x.sender /\ y.receiver = x.receiver /\ y.size = x.size
        /\ y.next = b /\ y.seen = a
    BY <2>2, <2>3, MovedIs
  <2> QED BY <2>1, <2>4
<1> HIDE DEF y
<1>9. T = (transfers \ {x}) \cup {y}
  BY <1>1 DEF y
<1> QED BY <1>1, <1>6, <1>7, <1>8, <1>9

\* Transfers stay apt: a new one starts at 0, an advanced one is at the end of its next chunk.
LEMMA VisitRelays ==
    ASSUME NEW s \in Slots, NEW t \in Flushed(s), Visits(s, t), ClientsInv'
    PROVE  /\ RelaysApt' /\ ids.transfer \in Nat \ {0} /\ ids'.transfer \in {ids.transfer, ids.transfer + 1}
           /\ \A y \in transfers' : y.id = ids.transfer \/ \E x \in transfers : x.id = y.id
<1> DEFINE Fit(y) == /\ y.id # 0 /\ y.size = job[y.sender].size
                     /\ y.seen = Past(y.next, y.size) /\ Begins(y.next, y.size)
                     /\ y.id = ids.transfer \/ \E x \in transfers : x.id = y.id
<1>1. ClientsInv /\ FileInv /\ job' = job
  BY VisitedUser DEF Visits
<1>2. \A y \in transfers : Fit(y)
  BY <1>1 DEF FileInv, RelaysApt
<1>3. ids.transfer \in Nat \ {0}
  BY <1>1 DEF ClientsInv, IInv, RestTypeOK
<1>4. CASE Quiet(s, t)
  BY <1>1, <1>2, <1>3, <1>4 DEF Quiet, RelaysApt, Past, Begins, Full
<1>5. ASSUME NEW q, NEW p, NEW u, NEW note, NEW T, Spared(s, t, q, p, u, note, T)
      PROVE  (\A y \in transfers' : Fit(y)) /\ ids'.transfer = ids.transfer
  <2>1. transfers' \subseteq transfers
    BY <1>5 DEF Spared, Replied, RelaysNothing
  <2> QED BY <1>2, <1>5, <2>1 DEF Spared, RelaysNothing
<1>6. ASSUME NEW q, NEW p, NEW u, NEW note, NEW T, Handled(s, t, q, p, u, note, T)
      PROVE  (\A y \in transfers' : Fit(y)) /\ ids'.transfer \in {ids.transfer, ids.transfer + 1}
  <2>1. \A y \in transfers' : y \in T \cup transfers
    BY <1>6 DEF Handled, Replied
  <2>2. CASE Announces(s, q, u, note, T)
    <3>1. PICK x \in Transfer :
            /\ x.id = ids.transfer /\ x.sender = clients[s].user
            /\ x.size = q.len /\ x.seen = 0 /\ x.next = 0 /\ T = transfers \cup {x}
      BY <2>2, SMTT(30) DEF Announces
    <3>2. q.len = job[Seats[s]].size /\ clients[s].user = Seats[s]
      BY <1>6, <2>2, VisitedUser DEF Handled, Announces, Apt
    <3>3. x.size \in Nat /\ Full(0) = 0
      BY FullGrows DEF Transfer
    <3>4. x.seen = Past(x.next, x.size) /\ Begins(x.next, x.size)
      BY <3>1, <3>3 DEF Past, Begins
    <3>5. Fit(x)
      BY <1>3, <3>1, <3>2, <3>4
    <3> HIDE DEF Fit
    <3> QED BY <1>2, <2>1, <2>2, <3>1, <3>5 DEF Announces
  <2>3. CASE Advances(s, q, u, note, T)
    <3>1. PICK x \in transfers, y \in Transfer :
            /\ y.id = x.id /\ y.sender = x.sender /\ y.size = x.size
            /\ y.seen = Past(y.next, y.size) /\ Begins(y.next, y.size)
            /\ T = (transfers \ {x}) \cup {y}
      BY <1>6, <2>3, VisitAdvances
    <3>2. Fit(y)
      BY <1>2, <3>1
    <3> HIDE DEF Fit
    <3> QED BY <1>2, <2>1, <2>3, <3>1, <3>2 DEF Advances
  <2>4. CASE Completes(s, q, u, note, T)
    <3>1. T \subseteq transfers
      BY <2>4 DEF Completes
    <3> QED BY <1>2, <2>1, <2>4, <3>1 DEF Completes
  <2> QED BY <1>6, <2>2, <2>3, <2>4 DEF Handled
<1>7. (\A y \in transfers' : Fit(y)) => RelaysApt'
  BY <1>1 DEF RelaysApt, Past, Begins, Full
<1>8. (\A y \in transfers' : Fit(y)) => \A y \in transfers' : y.id = ids.transfer \/ \E x \in transfers : x.id = y.id
  OBVIOUS
<1>9. Quiet(s, t) => (\A y \in transfers' : Fit(y)) /\ ids'.transfer = ids.transfer
  BY <1>2 DEF Quiet
<1> HIDE DEF Fit
<1> QED BY <1>3, <1>5, <1>6, <1>7, <1>8, <1>9, VisitIs

\* A file becomes complete by the response that says so.
LEMMA DoneNews ==
    ASSUME NEW s \in Slots, NEW t \in Flushed(s), Visits(s, t), ClientsInv', NEW k, Done(k)', ~Done(k)
    PROVE  LET o == out'[s]
           IN  /\ up[Seats[s]] # <<>> /\ clients'[s] = clients[s] /\ clients'[s] # FreeClient /\ t.out[s] = NoPacket
               /\ o.kind = "ok" /\ o.op = "file-complete" /\ o.id = k
<1>1. UNCHANGED <<linked, cli>> /\ clients[s] # FreeClient
  BY VisitedUser
<1>2. PICK v \in Users : DoneBy(v, k)' /\ ~DoneBy(v, k)
  BY DEF Done
<1>3. PICK i \in DOMAIN InFlight(v)' :
        LET o == InFlight(v)'[i] IN linked[v] /\ o.kind = "ok" /\ o.op = "file-complete" /\ o.id = k
  BY <1>1, <1>2 DEF DoneBy
<1>4. ~ \E j \in DOMAIN InFlight(v) : InFlight(v)'[i] = InFlight(v)[j]
  BY <1>2, <1>3 DEF DoneBy
<1> QED BY <1>1, <1>3, <1>4, FlightNews

\* A visit that relays nothing completes nothing, ...
LEMMA SparedDone ==
    ASSUME NEW s \in Slots, NEW t \in Flushed(s), Visits(s, t), ClientsInv', NEW k, Done(k)',
           Quiet(s, t) \/ \E q, p, u, note, T : Spared(s, t, q, p, u, note, T)
    PROVE  Done(k)
<1> SUFFICES ASSUME ~Done(k) PROVE FALSE
  OBVIOUS
<1>1. /\ clients'[s] # FreeClient /\ t.out[s] = NoPacket
      /\ out'[s].kind = "ok" /\ out'[s].op = "file-complete"
  BY DoneNews
<1>2. CASE Quiet(s, t)
  BY <1>1, <1>2, PacketFields DEF Quiet
<1>3. ASSUME NEW q, NEW p, NEW u, NEW note, NEW T, Spared(s, t, q, p, u, note, T) PROVE FALSE
  BY <1>1, <1>3 DEF Spared, Replied, RelaysNothing
<1> QED BY <1>2, <1>3

\* ... and one that relays completes the file it says.
LEMMA HandledDone ==
    ASSUME NEW s \in Slots, NEW t \in Flushed(s), Visits(s, t), ClientsInv', NEW k, Done(k)',
           NEW q, NEW p, NEW u, NEW note, NEW T, Handled(s, t, q, p, u, note, T)
    PROVE  Done(k) \/ (q.op = "file-complete" /\ q.id = k /\ transfers' = T)
<1> SUFFICES ASSUME ~Done(k) PROVE q.op = "file-complete" /\ q.id = k /\ transfers' = T
  OBVIOUS
<1>1. clients'[s] # FreeClient /\ out'[s].kind = "ok" /\ out'[s].op = "file-complete" /\ out'[s].id = k
  BY DoneNews
<1>2. out'[s] = p /\ transfers' = T
  BY <1>1 DEF Handled, Replied
<1> QED BY <1>1, <1>2 DEF Handled, AnswerTo

\* A file is complete only once its transfer is over.
LEMMA VisitDoneSound ==
    ASSUME NEW s \in Slots, NEW t \in Flushed(s), Visits(s, t), ClientsInv'
    PROVE  DoneSound'
<1>1. SUFFICES ASSUME NEW k \in Nat \ {0}, Done(k)'
               PROVE  k < ids'.transfer /\ \A y \in transfers' : y.id # k
  BY DEF DoneSound
<1>2. ClientsInv /\ FileInv /\ RelayOpen
  BY DEF Visits
<1>3. /\ ids.transfer \in Nat \ {0} /\ ids'.transfer \in {ids.transfer, ids.transfer + 1}
      /\ \A y \in transfers' : y.id = ids.transfer \/ \E x \in transfers : x.id = y.id
  BY VisitRelays
<1>4. CASE Done(k)
  <2>1. k < ids.transfer /\ \A x \in transfers : x.id # k
    BY <1>2, <1>4 DEF FileInv, DoneSound
  <2> QED BY <1>3, <2>1
<1>5. ASSUME NEW q, NEW p, NEW u, NEW note, NEW T, Handled(s, t, q, p, u, note, T),
             q.op = "file-complete", q.id = k, transfers' = T
      PROVE  k < ids'.transfer /\ \A y \in transfers' : y.id # k
  <2>1. PICK x \in transfers : x.id = k /\ T = transfers \ {x}
    BY <1>5, Zenon DEF Handled, Announces, Advances, Completes
  <2>2. k < ids.transfer /\ \A y \in transfers : y.id = x.id => y = x
    BY <1>2, <2>1 DEF RelayOpen, RowsOpen
  <2> QED BY <1>3, <1>5, <2>1, <2>2
<1> QED BY <1>1, <1>4, <1>5, SparedDone, HandledDone, VisitIs

\* What a visit puts on the way to the listener.
LEMMA ListenerFlight ==
    ASSUME NEW s \in Slots, NEW t \in Flushed(s), Visits(s, t), ClientsInv', NEW w \in Users, Listening(w)', Connected(w)'
    PROVE  /\ Listening(w) /\ Connected(w) /\ InFlight(w) \in Seq(Packet)
           /\ \E r \in Slots :
                 /\ clients[r].user = w /\ Seats[r] = w /\ out'[r] \in Packet
                 /\ \/ InFlight(w)' = InFlight(w) /\ (r # s => out'[r] = out[r])
                    \/ r # s /\ InFlight(w)' = Append(InFlight(w), out'[r]) /\ out'[r] # out[r]
<1>1. UNCHANGED <<job, linked, cli, receiving>>
  BY VisitedUser
<1>2. Listening(w) /\ linked[w]
  BY <1>1 DEF Listening
<1>3. ClientsInv /\ IInv /\ IInv' /\ ServeLink(s, t) /\ turn = s /\ OthersNotified(s)
  BY ServeLinkVisits DEF Visits, ClientsInv
<1>4. InFlight(w) \in Seq(Packet)
  BY <1>2, <1>3, FlightTyped
<1>5. PICK r \in Slots : Seats[r] = w
  BY <1>2, <1>3 DEF ClientsInv, Playing
<1>6. out'[r] \in Packet
  BY <1>3, BuffersTyped
<1>7. clients[r].open /\ clients[r].user = w
  <2>1. CASE r = s
    BY <1>5, <2>1, VisitedUser
  <2>2. CASE r # s
    BY <1>3, <1>5, <2>2, InFlightIs DEF OthersNotified
  <2> QED BY <2>1, <2>2
<1>8. Connected(w)
  BY <1>5, <1>7, InFlightIs
<1>9. up[w] = <<>>
  <2>1. Pending(w) = 0
    BY <1>2, <1>3 DEF Pending, IsGui, Listening, ClientsInv, Commanded
  <2>2. up[w] \in Seq(Request) /\ Pending(w) >= Len(up[w]) + Answers(InFlight(w))
    BY <1>2, <1>3 DEF ClientsInv, LinksTypeOK, Balanced
  <2>3. Answers(InFlight(w)) \in Nat
    BY <1>4, <1>6, AnswersAppend
  <2> QED BY <2>1, <2>2, <2>3
<1>10. \/ InFlight(w)' = InFlight(w) /\ (r # s => out'[r] = out[r])
       \/ /\ InFlight(w)' = Append(InFlight(w), out'[r])
          /\ r # s => out'[r] # out[r]
          /\ r = s => up[w] # <<>>
  BY <1>2, <1>3, <1>5, FlightGrows DEF ClientsInv
<1> QED BY <1>2, <1>4, <1>5, <1>6, <1>7, <1>8, <1>9, <1>10

\* A file that the visit was not about stays in step.
LEMMA ListenerKeeps ==
    ASSUME NEW s \in Slots, NEW t \in Flushed(s), Visits(s, t), ClientsInv', NEW w \in Users, Listening(w)', Connected(w)',
           NEW k \in Nat, Comes(w, k)',
           \/ InFlight(w)' = InFlight(w)
           \/ \E o \in Packet : InFlight(w)' = Append(InFlight(w), o) /\ ~AboutFile(o, k),
           \A x \in transfers' : x.id = k => x \in transfers, Done(k)' => Done(k)
    PROVE  Delivers(w, k)'
<1>1. receiving' = receiving /\ FileInv /\ ids.transfer \in Nat /\ ids'.transfer \in {ids.transfer, ids.transfer + 1}
  BY VisitedUser, VisitRelays DEF Visits
<1>2. Listening(w) /\ Connected(w) /\ InFlight(w) \in Seq(Packet)
  BY ListenerFlight
<1>3. Comes(w, k)
  BY <1>1, <1>2, ComesStays
<1>4. PICK first \in Nat, end \in Nat, size \in Nat : k # 0 /\ k < ids.transfer /\ Follows(w, k, first, end, size)
  BY <1>1, <1>2, <1>3 DEF FileInv, FilesFollow, Delivers
<1>5. Follows(w, k, first, end, size)'
  BY <1>1, <1>2, <1>4, FollowsStays
<1>6. k < ids'.transfer
  BY <1>1, <1>4
<1> QED BY <1>4, <1>5, <1>6 DEF Delivers

\* A notify about a file that a visit has queued is the relayed one.
LEMMA RelayNote ==
    ASSUME NEW s \in Slots, NEW t, NEW p, NEW u, NEW note, NEW T, Replied(s, t, p, u, note, T),
           NEW r \in Slots \ {s}, out'[r] # out[r], NEW k, AboutFile(out'[r], k)
    PROVE  clients[r].user = u /\ \E to, session : out'[r] = Addressing(note, to, session)
  BY DEF Replied, Carries, AboutFile

\* What is on its way to the listener about the file of a transfer leads up to where
\* the relay is.
LEMMA RelayFollows ==
    ASSUME ClientsInv, RelayOpen, FileInv, NEW w \in Users, Listening(w), Connected(w), InFlight(w) \in Seq(Packet),
           NEW x \in transfers, Comes(w, x.id) \/ x.receiver = w
    PROVE  /\ x.id \in Nat \ {0} /\ x.id < ids.transfer /\ x.receiver = w /\ x.next \in Nat /\ x.size \in Nat
           /\ \A y \in transfers : y.id = x.id => y = x
           /\ ~Done(x.id) /\ x.seen = Past(x.next, x.size)
           /\ \E first \in Nat :
                 /\ InStep(InFlight(w), x.id, first, x.next, x.size)
                 /\ Open(x.id) => receiving.next = first /\ Len(receiving.whole) = x.size
<1>1. x.id \in Nat /\ x.next \in Nat /\ x.size \in Nat
  BY TransfersTyped
<1>2. x.id # 0 /\ Begins(x.next, x.size) /\ x.seen = Past(x.next, x.size)
  BY DEF FileInv, RelaysApt
<1>3. x.id < ids.transfer /\ \A y \in transfers : y.id = x.id => y = x
  BY DEF RelayOpen, RowsOpen
<1>4. ~Done(x.id)
  BY <1>1, <1>2 DEF FileInv, DoneSound
<1>5. CASE Comes(w, x.id)
  <2>1. PICK first \in Nat, end \in Nat, size \in Nat : Follows(w, x.id, first, end, size)
    BY <1>1, <1>5 DEF FileInv, FilesFollow, Delivers
  <2>2. x.receiver = w /\ x.next = end /\ x.size = size
    BY <2>1 DEF Follows
  <2>3. /\ InStep(InFlight(w), x.id, first, x.next, x.size)
        /\ Open(x.id) => receiving.next = first /\ Len(receiving.whole) = x.size
    BY <2>1, <2>2 DEF Follows
  <2> QED BY <1>1, <1>2, <1>3, <1>4, <2>2, <2>3
<1>6. CASE ~Comes(w, x.id)
  <2>1. InStep(InFlight(w), x.id, x.next, x.next, x.size)
    BY <1>1, <1>2, <1>6, NotMentioned DEF Comes
  <2>2. ~Open(x.id) /\ x.receiver = w
    BY <1>6 DEF Comes
  <2> QED BY <1>1, <1>2, <1>3, <1>4, <2>1, <2>2
<1> QED BY <1>5, <1>6

\* The start of a file is in step: it is the first that is heard of it.
LEMMA AnnouncedFollows ==
    ASSUME NEW s \in Slots, NEW t \in Flushed(s), Visits(s, t), ClientsInv',
           NEW q, NEW p, NEW u, NEW note, NEW T, Handled(s, t, q, p, u, note, T), Announces(s, q, u, note, T),
           NEW w \in Users, Listening(w)', Connected(w)', NEW k \in Nat, Comes(w, k)'
    PROVE  Delivers(w, k)'
<1> DEFINE f == InFlight(w)
           n == ids.transfer
<1>1. /\ ClientsInv /\ FileInv /\ RelayOpen /\ receiving' = receiving
      /\ n \in Nat \ {0} /\ ids'.transfer = n + 1 /\ q.op = "file-start" /\ Replied(s, t, p, u, note, T)
      /\ note = StartNotify(n, q.len)
  BY VisitedUser, VisitRelays DEF Visits, Announces, Handled
<1>2. Listening(w) /\ Connected(w) /\ f \in Seq(Packet)
  BY ListenerFlight
<1>3. PICK r \in Slots :
        /\ clients[r].user = w /\ out'[r] \in Packet
        /\ \/ f' = f
           \/ r # s /\ f' = Append(f, out'[r]) /\ out'[r] # out[r]
  BY ListenerFlight
<1>4. PICK x \in Transfer :
        /\ x.id = n /\ x.receiver = u /\ x.size = q.len /\ x.next = 0
        /\ \A z \in transfers' : z \in transfers \/ z = x
  BY <1>1 DEF Announces, Replied
<1>5. \A z \in transfers : z.id < n
  BY <1>1 DEF RelayOpen, RowsOpen
<1>6. Done(k)' => Done(k)
  BY <1>1, HandledDone
<1>7. ASSUME r # s, out'[r] # out[r], AboutFile(out'[r], k)
      PROVE  k = n /\ w = u /\ IsOf(out'[r], "file-start", n) /\ out'[r].len = q.len
  <2>1. w = u /\ \E to, session : out'[r] = Addressing(StartNotify(n, q.len), to, session)
    BY <1>1, <1>3, <1>7, RelayNote
  <2> QED BY <1>7, <2>1, FilePackets DEF AboutFile, IsOf
<1>8. CASE k # n
  <2>1. \A z \in transfers' : z.id = k => z \in transfers
    BY <1>4, <1>8
  <2>2. \/ f' = f
        \/ \E o \in Packet : f' = Append(f, o) /\ ~AboutFile(o, k)
    BY <1>3, <1>7, <1>8
  <2> QED BY <1>6, <2>1, <2>2, ListenerKeeps
<1>9. CASE k = n
  <2>1. ~Comes(w, k)
    BY <1>1, <1>2, <1>9 DEF FileInv, FilesFollow, Delivers
  <2>2. ~Done(k)'
    BY <1>1, <1>6, <1>9 DEF FileInv, DoneSound
  <2>3. r # s /\ f' = Append(f, out'[r]) /\ out'[r] # out[r] /\ AboutFile(out'[r], k)
    BY <1>1, <1>2, <1>3, <2>1, ComesStays
  <2>4. w = u /\ IsOf(out'[r], "file-start", k) /\ out'[r].len = q.len
    BY <1>7, <1>9, <2>3
  <2>5. InStep(f', k, 0, 0, q.len)
    BY <1>2, <1>3, <2>1, <2>3, <2>4, AppendStart DEF Comes
  <2>6. InStep(InFlight(w), k, 0, 0, q.len)'
    BY <2>5 DEF InStep, InOrder, Begins, Full, IsOf, AboutFile, FileOps
  <2>7. \A z \in transfers' : z.id = k => z.receiver = w /\ z.next = 0 /\ z.size = q.len
    BY <1>4, <1>5, <1>9, <2>4
  <2>8. ~Open(k)'
    BY <1>1, <2>1 DEF Open, Comes
  <2>9. q.len \in Nat
    BY <1>4 DEF Transfer
  <2>10. Follows(w, k, 0, 0, q.len)'
    BY <2>2, <2>6, <2>7, <2>8 DEF Follows
  <2>11. k # 0 /\ k < ids'.transfer
    BY <1>1, <1>9
  <2> QED BY <2>9, <2>10, <2>11 DEF Delivers
<1> QED BY <1>8, <1>9

\* A chunk is in step: it reaches the listener, or its sender is gone and the file stops.
LEMMA AdvancedFollows ==
    ASSUME NEW s \in Slots, NEW t \in Flushed(s), Visits(s, t), ClientsInv',
           NEW q, NEW p, NEW u, NEW note, NEW T, Handled(s, t, q, p, u, note, T), Advances(s, q, u, note, T),
           NEW w \in Users, Listening(w)', Connected(w)', NEW k \in Nat, Comes(w, k)'
    PROVE  Delivers(w, k)'
<1> DEFINE f == InFlight(w)
<1>1. /\ ClientsInv /\ FileInv /\ RelayOpen /\ receiving' = receiving
      /\ ids.transfer \in Nat /\ ids'.transfer = ids.transfer /\ Replied(s, t, p, u, note, T)
      /\ q.op = "file-chunk" /\ (clients'[s] # FreeClient => Told(s, u, note))
  BY VisitedUser, VisitRelays, Zenon DEF Visits, Advances, Handled
<1>2. Listening(w) /\ Connected(w) /\ f \in Seq(Packet)
  BY ListenerFlight
<1>3. PICK r \in Slots :
        /\ clients[r].user = w /\ Seats[r] = w /\ out'[r] \in Packet
        /\ \/ f' = f /\ (r # s => out'[r] = out[r])
           \/ r # s /\ f' = Append(f, out'[r]) /\ out'[r] # out[r]
  BY ListenerFlight
<1>4. PICK x \in transfers, y \in Transfer :
        /\ x.sender = clients[s].user /\ u = x.receiver /\ note = ChunkNotify(x.id, x.next, q.len)
        /\ Full(x.next) < x.size
        /\ y.id = x.id /\ y.sender = x.sender /\ y.receiver = x.receiver /\ y.size = x.size
        /\ y.next = x.next + 1 /\ T = (transfers \ {x}) \cup {y}
  BY VisitAdvances
<1>5. Done(k)' => Done(k)
  BY <1>1, HandledDone
<1>6. ASSUME r # s, out'[r] # out[r], AboutFile(out'[r], k)
      PROVE  k = x.id /\ w = u /\ IsOf(out'[r], "file-chunk", k) /\ out'[r].index = x.next
  <2>1. w = u /\ \E to, session : out'[r] = Addressing(note, to, session)
    BY <1>1, <1>3, <1>6, RelayNote
  <2>2. note = ChunkNotify(x.id, x.next, q.len)
    BY <1>4
  <2> QED BY <1>6, <2>1, <2>2, FilePackets DEF AboutFile, IsOf
<1>7. \A y1, y2 \in transfers : y1.id = y2.id => y1 = y2
  BY <1>1 DEF RelayOpen, RowsOpen
<1>8. /\ \A z \in transfers' : z \in transfers \/ z = y
      /\ clients'[s] = FreeClient => \A z \in transfers' : z.sender # x.sender
      /\ clients'[s] # FreeClient => transfers' = T
  BY <1>1, <1>4, VisitedUser DEF Replied, Ends
<1>9. CASE k # x.id
  <2>1. \A z \in transfers' : z.id = k => z \in transfers
    BY <1>4, <1>8, <1>9
  <2>2. \/ f' = f
        \/ \E o \in Packet : f' = Append(f, o) /\ ~AboutFile(o, k)
    BY <1>3, <1>6, <1>9
  <2> QED BY <1>5, <2>1, <2>2, ListenerKeeps
<1>10. CASE k = x.id
  <2>1. \A z \in transfers' : z.id = k => clients'[s] # FreeClient /\ z = y
    BY <1>4, <1>7, <1>8, <1>10
  <2>2. CASE r # s /\ f' = Append(f, out'[r]) /\ out'[r] # out[r] /\ AboutFile(out'[r], k)
    <3>1. w = u /\ IsOf(out'[r], "file-chunk", k) /\ out'[r].index = x.next
      BY <1>6, <2>2
    <3>2. /\ k # 0 /\ k < ids.transfer /\ x.next \in Nat /\ x.size \in Nat /\ ~Done(k)
          /\ \E first \in Nat :
                /\ InStep(f, k, first, x.next, x.size)
                /\ Open(k) => receiving.next = first /\ Len(receiving.whole) = x.size
      BY <1>1, <1>2, <1>4, <1>10, <3>1, RelayFollows
    <3>3. PICK first \in Nat : /\ InStep(f, k, first, x.next, x.size)
                               /\ Open(k) => receiving.next = first /\ Len(receiving.whole) = x.size
      BY <3>2
    <3>4. InStep(f', k, first, x.next + 1, x.size)
      BY <1>2, <1>3, <1>4, <2>2, <3>1, <3>2, <3>3, AppendChunk
    <3>5. PICK end \in Nat, size \in Nat : end = x.next + 1 /\ size = x.size
      BY <3>2
    <3>6. InStep(InFlight(w), k, first, end, size)'
      BY <3>4, <3>5 DEF InStep, InOrder, Begins, Full, IsOf, AboutFile, FileOps
    <3>7. \A z \in transfers' : z.id = k => z.receiver = w /\ z.next = end /\ z.size = size
      BY <1>4, <2>1, <3>1, <3>5
    <3>8. Open(k)' => receiving'.next = first /\ Len(receiving'.whole) = size
      BY <1>1, <3>3, <3>5 DEF Open
    <3>9. Follows(w, k, first, end, size)'
      BY <1>5, <3>2, <3>6, <3>7, <3>8 DEF Follows
    <3> QED BY <1>1, <3>2, <3>9 DEF Delivers
  <2>3. CASE ~(r # s /\ f' = Append(f, out'[r]) /\ out'[r] # out[r] /\ AboutFile(out'[r], k))
    <3>1. \/ f' = f
          \/ \E o \in Packet : f' = Append(f, o) /\ ~AboutFile(o, k)
      BY <1>3, <2>3
    <3>2. Comes(w, k)
      BY <1>1, <1>2, <3>1, ComesStays
    <3>3. u = w
      BY <1>1, <1>2, <1>4, <1>10, <3>2, RelayFollows
    <3>4. clients'[s] = FreeClient
      <4>1. SUFFICES ASSUME NEW r2 \in Slots \ {s}, IsClient(Tables, r2, w),
                            NEW session, out'[r2] = Addressing(note, w, session), out[r2] = NoPacket
                     PROVE  FALSE
        BY <1>1, <3>3 DEF Told
      <4>2. clients[r2].open /\ clients[r2].user = w
        BY <4>1 DEF IsClient, Tables
      <4>3. Seats[r2] = w
        BY <1>1, <4>2 DEF ClientsInv, Placed, FreeClient
      <4>4. r2 = r
        BY <1>3, <4>3, LinksAssumption DEF LinksAssumption
      <4>5. out'[r].kind = "notify" /\ out'[r].op = "file-chunk" /\ out'[r].id = k
        BY <1>4, <1>10, <4>1, <4>4, FilePackets
      <4>6. out'[r] # out[r] /\ AboutFile(out'[r], k)
        BY <4>1, <4>4, <4>5, PacketFields DEF AboutFile, FileOps
      <4> QED BY <1>3, <2>3, <4>1, <4>4, <4>6
    <3>5. \A z \in transfers' : z.id = k => z \in transfers
      BY <2>1, <3>4
    <3> QED BY <1>5, <3>1, <3>5, ListenerKeeps
  <2> QED BY <2>2, <2>3
<1> QED BY <1>9, <1>10

\* A completion is in step: it is relayed when all chunks are.
LEMMA CompletedFollows ==
    ASSUME NEW s \in Slots, NEW t \in Flushed(s), Visits(s, t), ClientsInv',
           NEW q, NEW p, NEW u, NEW note, NEW T, Handled(s, t, q, p, u, note, T), Completes(s, q, u, note, T),
           NEW w \in Users, Listening(w)', Connected(w)', NEW k \in Nat, Comes(w, k)'
    PROVE  Delivers(w, k)'
<1> DEFINE f == InFlight(w)
<1>1. /\ ClientsInv /\ FileInv /\ RelayOpen /\ receiving' = receiving
      /\ ids.transfer \in Nat /\ ids'.transfer = ids.transfer /\ Replied(s, t, p, u, note, T)
  BY VisitedUser, VisitRelays DEF Visits, Completes, Handled
<1>2. Listening(w) /\ Connected(w) /\ f \in Seq(Packet)
  BY ListenerFlight
<1>3. PICK r \in Slots :
        /\ clients[r].user = w /\ out'[r] \in Packet
        /\ \/ f' = f
           \/ r # s /\ f' = Append(f, out'[r]) /\ out'[r] # out[r]
  BY ListenerFlight
<1>4. PICK x \in transfers :
        /\ x.id = q.id /\ x.seen = x.size /\ x.sender = clients[s].user
        /\ u = x.receiver /\ note = Notify("file-complete", x.id) /\ T = transfers \ {x}
  BY DEF Completes
<1>5. Done(k)' => Done(k) \/ k = x.id
  BY <1>1, <1>4, HandledDone
<1>6. ASSUME r # s, out'[r] # out[r], AboutFile(out'[r], k)
      PROVE  k = x.id /\ w = u /\ IsOf(out'[r], "file-complete", k)
  <2>1. w = u /\ \E to, session : out'[r] = Addressing(Notify("file-complete", x.id), to, session)
    BY <1>1, <1>3, <1>4, <1>6, RelayNote
  <2> QED BY <1>6, <2>1, FilePackets DEF AboutFile, IsOf
<1>7. /\ \A z \in transfers' : z \in transfers
      /\ clients'[s] = FreeClient => \A z \in transfers' : z.sender # x.sender
      /\ clients'[s] # FreeClient => transfers' = T
  BY <1>1, <1>4, VisitedUser DEF Replied, Ends
<1>8. CASE k # x.id
  <2>1. \/ f' = f
        \/ \E o \in Packet : f' = Append(f, o) /\ ~AboutFile(o, k)
    BY <1>3, <1>6, <1>8
  <2> QED BY <1>5, <1>7, <1>8, <2>1, ListenerKeeps
<1>9. CASE k = x.id
  <2>1. Comes(w, k) \/ x.receiver = w
    <3>1. CASE r # s /\ f' = Append(f, out'[r]) /\ out'[r] # out[r] /\ AboutFile(out'[r], k)
      BY <1>4, <1>6, <3>1
    <3>2. CASE ~(r # s /\ f' = Append(f, out'[r]) /\ out'[r] # out[r] /\ AboutFile(out'[r], k))
      <4>1. \/ f' = f
            \/ \E o \in Packet : f' = Append(f, o) /\ ~AboutFile(o, k)
        BY <1>3, <3>2
      <4> QED BY <1>1, <1>2, <4>1, ComesStays
    <3> QED BY <3>1, <3>2
  <2>2. /\ k # 0 /\ k < ids.transfer /\ x.receiver = w /\ x.next \in Nat /\ x.size \in Nat
        /\ \A z \in transfers : z.id = x.id => z = x
        /\ x.seen = Past(x.next, x.size)
        /\ \E first \in Nat :
              /\ InStep(f, k, first, x.next, x.size)
              /\ Open(k) => receiving.next = first /\ Len(receiving.whole) = x.size
    BY <1>1, <1>2, <1>9, <2>1, RelayFollows
  <2>3. PICK first \in Nat, end \in Nat, size \in Nat :
          /\ end = x.next /\ size = x.size /\ InStep(f, k, first, end, size)
          /\ Open(k) => receiving.next = first /\ Len(receiving.whole) = size
    BY <2>2
  <2>4. size <= Full(end)
    <3>1. Full(end) \in Nat
      BY FullGrows
    <3>2. Past(end, size) = size
      BY <1>4, <2>2, <2>3
    <3> QED BY <3>1, <3>2 DEF Past
  <2>5. InStep(f', k, first, end, size)
    <3>1. CASE f' = f
      BY <2>3, <3>1
    <3>2. CASE r # s /\ f' = Append(f, out'[r]) /\ out'[r] # out[r]
      <4>1. CASE AboutFile(out'[r], k)
        BY <1>2, <1>3, <1>6, <2>3, <2>4, <3>2, <4>1, AppendComplete
      <4>2. CASE ~AboutFile(out'[r], k)
        BY <1>2, <1>3, <2>3, <3>2, <4>2, AppendOther
      <4> QED BY <4>1, <4>2
    <3> QED BY <1>3, <3>1, <3>2
  <2>6. InStep(InFlight(w), k, first, end, size)'
    BY <2>5 DEF InStep, InOrder, Begins, Full, IsOf, AboutFile, FileOps
  <2>7. \A z \in transfers' : z.id # k
    BY <1>4, <1>7, <1>9, <2>2
  <2>8. (size <= Full(end))'
    BY <2>4 DEF Full
  <2>9. Open(k)' => receiving'.next = first /\ Len(receiving'.whole) = size
    BY <1>1, <2>3 DEF Open
  <2>10. Follows(w, k, first, end, size)'
    BY <2>6, <2>7, <2>8, <2>9 DEF Follows
  <2> QED BY <1>1, <2>2, <2>10 DEF Delivers
<1> QED BY <1>8, <1>9

\* A visit keeps what is on its way to the listener in step.
LEMMA VisitFollows ==
    ASSUME NEW s \in Slots, NEW t \in Flushed(s), Visits(s, t), ClientsInv'
    PROVE  FilesFollow'
<1>1. SUFFICES ASSUME NEW w \in Users, Listening(w)', Connected(w)', NEW k \in Nat, Comes(w, k)'
               PROVE  Delivers(w, k)'
  BY DEF FilesFollow
<1> DEFINE f == InFlight(w)
<1>2. PICK r \in Slots :
        /\ clients[r].user = w /\ out'[r] \in Packet
        /\ \/ f' = f
           \/ r # s /\ f' = Append(f, out'[r]) /\ out'[r] # out[r]
  BY <1>1, ListenerFlight
<1>3. CASE Quiet(s, t)
  <2>1. f' = f
    BY <1>2, <1>3 DEF Quiet
  <2>2. transfers' = transfers
    BY <1>3 DEF Quiet
  <2>3. Done(k)' => Done(k)
    BY <1>3, SparedDone
  <2> QED BY <1>1, <2>1, <2>2, <2>3, ListenerKeeps
<1>4. ASSUME NEW q, NEW p, NEW u, NEW note, NEW T, Spared(s, t, q, p, u, note, T)
      PROVE  Delivers(w, k)'
  <2>1. Replied(s, t, p, u, note, T) /\ note \in Notifies /\ note.op \notin FileOps
    BY <1>4 DEF Spared, RelaysNothing
  <2>2. ASSUME r # s, out'[r] # out[r], AboutFile(out'[r], k) PROVE FALSE
    <3>1. \E to, session : out'[r] = Addressing(note, to, session)
      BY <2>1, <2>2, RelayNote
    <3>2. out'[r].op = note.op
      BY <2>1, <3>1, PacketFields
    <3> QED BY <2>1, <2>2, <3>2 DEF AboutFile
  <2>3. \/ f' = f
        \/ \E o \in Packet : f' = Append(f, o) /\ ~AboutFile(o, k)
    BY <1>2, <2>2
  <2>4. \A z \in transfers' : z \in transfers
    BY <1>4 DEF Spared, Replied, RelaysNothing
  <2>5. Done(k)' => Done(k)
    BY <1>4, SparedDone
  <2> QED BY <1>1, <2>3, <2>4, <2>5, ListenerKeeps
<1>5. ASSUME NEW q, NEW p, NEW u, NEW note, NEW T, Handled(s, t, q, p, u, note, T)
      PROVE  Delivers(w, k)'
  BY <1>1, <1>5, AnnouncedFollows, AdvancedFollows, CompletedFollows DEF Handled
<1> QED BY <1>3, <1>4, <1>5, VisitIs

\* A visit keeps the invariant, ...
LEMMA VisitKeepsFiles ==
    ASSUME NEW s \in Slots, NEW t \in Flushed(s), Visits(s, t), ClientsInv'
    PROVE  FileInv'
  BY VisitRelays, VisitAnswers, VisitDoneSound, VisitFollows DEF FileInv

\* ... and so does every step of the composition.
LEMMA FilesStep == ClientsInv /\ RelayOpen /\ FileInv /\ [ClientsNext]_clientsVars => FileInv'
<1> SUFFICES ASSUME ClientsInv, RelayOpen, FileInv, [ClientsNext]_clientsVars PROVE FileInv'
  OBVIOUS
<1>1. ClientsInv'
  BY ClientsStep
<1>2. CASE ServerStep /\ UNCHANGED <<cliVars, receiveVars, guiVars>>
  <2>1. CASE (AcceptDone \/ Sweep \/ \E s \in Slots : SkipClosed(s)) /\ UNCHANGED links
    BY <1>1, <1>2, <2>1, StutterKeepsFiles
  <2>2. ASSUME NEW s \in Slots, turn = s, NEW t \in Flushed(s), ServeLink(s, t) PROVE FileInv'
    BY <1>1, <1>2, <2>2, VisitKeepsFiles DEF Visits
  <2> QED BY <1>2, <2>1, <2>2 DEF ServerStep
<1>3. ASSUME NEW u \in Users, CliStep(u) PROVE FileInv'
  BY <1>1, <1>3, BeginKeepsFiles, ProceedKeepsFiles, EndsKeepFiles, HearKeepsFiles DEF CliStep
<1>4. ASSUME NEW u \in Users, GuiStep(u), UNCHANGED <<cliVars, receiveVars>> PROVE FileInv'
  BY <1>1, <1>4, GuiKeepsFiles
<1>5. CASE UNCHANGED clientsVars
  BY <1>1, <1>5, StutterKeepsFiles
<1> QED BY <1>2, <1>3, <1>4, <1>5 DEF ClientsNext

\* No file is under way at first.
LEMMA FilesInit == ClientsInit => FileInv
<1> SUFFICES ASSUME ClientsInit PROVE FileInv
  OBVIOUS
<1>1. ClientsInv /\ LinksInit /\ CliInit /\ receiving = NothingReceived
  BY ClientsInitHolds DEF ClientsInit, CliInit, ReceiveInit
<1>2. /\ up = [u \in Users |-> <<>>] /\ down = [u \in Users |-> <<>>] /\ transfers = {}
      /\ \A s \in Slots : out[s] = NoPacket
  BY <1>1 DEF LinksInit, EmptyTables
<1>3. \A u \in Users : /\ cli[u].id = 0 /\ ~cli[u].waiting /\ cli[u].sent = 0
                       /\ cli[u].asks \in {"chat", "file-start", "none"}
  BY <1>1 DEF CliInit, Started
<1>4. ASSUME NEW u \in Users, linked[u] PROVE InFlight(u) = <<>>
  <2>1. PICK s \in Slots : Seats[s] = u
    BY <1>1, <1>4 DEF ClientsInv, Playing
  <2>2. InFlight(u) = <<>> \o <<>>
    BY <1>2, <2>1, InFlightIs
  <2> QED BY <2>2, ConcatEmptySeq
<1>5. RelaysApt /\ RequestsApt
  BY <1>2 DEF RelaysApt, RequestsApt
<1>6. \A u \in Users : Progress(u) /\ InAnswer(u)
  BY <1>3 DEF Progress, InAnswer
<1>7. DoneSound
  BY <1>3, <1>4 DEF DoneSound, Done, DoneBy
<1>8. FilesFollow
  BY <1>1, <1>4 DEF FilesFollow, Listening, Comes, Open, NothingReceived, Mentions
<1> QED BY <1>5, <1>6, <1>7, <1>8 DEF FileInv

\* The invariant holds for any number of users, senders and files.
LEMMA FilesInvHolds == ClientsSpec => []FileInv
BY FilesInit, FilesStep, ClientsInvHolds, ClientsRelayOpen, PTL DEF ClientsSpec

\* Where the chunks end that are on the way of a file that is open, or complete.
LEMMA FollowsCuts ==
    ASSUME NEW end \in Nat, NEW size \in Nat, Begins(end, size)
    PROVE  end <= size /\ (size <= Full(end) => Cuts(end, size))
<1>1. MaxChunk \in Nat \ {0} /\ Full(0) = 0
  BY ServerAssumption, FullGrows
<1>2. CASE end = 0
  BY <1>1, <1>2 DEF Cuts, Full
<1>3. CASE end # 0
  <2>1. end - 1 \in Nat /\ Full(end - 1) \in Nat /\ end - 1 <= Full(end - 1)
    BY <1>3, FullGrows
  <2>2. Full(end - 1) < size
    BY <1>3 DEF Begins
  <2> QED BY <2>1, <2>2 DEF Cuts, Full
<1> QED BY <1>2, <1>3

\* The file that a listener is receiving reaches it in one piece, whatever else the
\* server relays, and its sender is not told that it is complete too early.
THEOREM FilesArriveInStep ==
    ASSUME Nat \X Nat \subseteq Data
    PROVE  ClientsSpec => []FileInStep
<1>1. ASSUME FileInv, ReceiveInvariant, NEW u \in Users, Listening(u), Connected(u), receiving.active
      PROVE  \E end \in receiving.next .. Len(receiving.whole) :
                 LET q == InFlight(u)
                     id == receiving.id
                 IN  /\ InOrder(q, id, receiving.next, end)
                     /\ \A x \in transfers : x.id = id => x.next = end
                     /\ \A i \in DOMAIN q : IsOf(q[i], "file-complete", id) =>
                           /\ Cuts(end, Len(receiving.whole))
                           /\ \A j \in DOMAIN q : IsOf(q[j], "file-chunk", id) => j < i
                     /\ (\E v \in Users : cli[v].asks = "ok" /\ cli[v].id = id) => Cuts(end, Len(receiving.whole))
  <2> DEFINE q == InFlight(u)
             id == receiving.id
  <2>1. id \in Nat /\ Open(id)
    BY <1>1 DEF ReceiveInvariant, ReceiveTypeOK, Open
  <2>2. PICK first \in Nat, end \in Nat, size \in Nat : Follows(u, id, first, end, size)
    BY <1>1, <2>1 DEF FileInv, FilesFollow, Comes, Delivers
  <2>3. receiving.next = first /\ Len(receiving.whole) = size
    BY <2>1, <2>2 DEF Follows
  <2>4. InStep(q, id, first, end, size)
    BY <2>2 DEF Follows
  <2>5. first <= end /\ end <= size /\ (size <= Full(end) => Cuts(end, size))
    BY <2>4, FollowsCuts DEF InStep
  <2>6. end \in receiving.next .. Len(receiving.whole)
    BY <2>3, <2>5
  <2>7. InOrder(q, id, receiving.next, end)
    BY <2>3, <2>4 DEF InStep
  <2>8. \A x \in transfers : x.id = id => x.next = end
    BY <2>2 DEF Follows
  <2>9. \A i \in DOMAIN q : IsOf(q[i], "file-complete", id) =>
           /\ Cuts(end, Len(receiving.whole))
           /\ \A j \in DOMAIN q : IsOf(q[j], "file-chunk", id) => j < i
    BY <2>3, <2>4, <2>5 DEF InStep
  <2>10. (\E v \in Users : cli[v].asks = "ok" /\ cli[v].id = id) => Cuts(end, Len(receiving.whole))
    BY <2>2, <2>3, <2>5 DEF Follows, Done, DoneBy
  <2> QED BY <2>6, <2>7, <2>8, <2>9, <2>10
<1>2. FileInv /\ ReceiveInvariant => FileInStep
  BY <1>1 DEF FileInStep
<1> QED BY <1>2, FilesInvHolds, ReceiverAmongClients, PTL

-----------------------------------------------------------------------------
(* The calls of the windows.                                               *)

\* The responses among the first i packets of q: packet i of q, if it is a response, is
\* the one to the request of this number among those the window has none for.
Rank(q, i) == Answers(SubSeq(q, 1, i))

LEMMA RankBounds ==
    ASSUME NEW q \in Seq(Packet), NEW i \in 1 .. Len(q)
    PROVE  /\ Rank(q, i) \in Nat /\ Rank(q, i) <= Answers(q)
           /\ IsResponse(q[i]) => Rank(q, i) >= 1
<1> DEFINE b == SubSeq(q, 1, i)
           S == {k \in DOMAIN b : IsResponse(b[k])}
           T == {k \in DOMAIN q : IsResponse(q[k])}
<1>1. /\ DOMAIN b = 1 .. i /\ DOMAIN q = 1 .. Len(q) /\ Len(q) \in Nat /\ i \in Nat
      /\ \A k \in 1 .. i : b[k] = q[k] /\ k \in 1 .. Len(q)
  OBVIOUS
<1>2. Rank(q, i) = Cardinality(S) /\ Answers(q) = Cardinality(T)
  BY DEF Rank, Answers, Count
<1> HIDE DEF b
<1>3. S \subseteq T /\ T \subseteq 1 .. Len(q) /\ IsFiniteSet(1 .. Len(q))
  <2>1. \A k \in S : k \in T
    BY <1>1, Zenon
  <2>2. T \subseteq 1 .. Len(q)
    BY <1>1, Zenon
  <2>3. IsFiniteSet(1 .. Len(q))
    BY <1>1, FS_Interval
  <2> HIDE DEF S, T
  <2> QED BY <2>1, <2>2, <2>3
<1>4. IsFiniteSet(T) /\ IsFiniteSet(S)
  BY <1>3, FS_Subset
<1>5. Cardinality(S) \in Nat /\ Cardinality(S) <= Cardinality(T)
  BY <1>3, <1>4, FS_Subset, FS_CardinalityType
<1>6. IsResponse(q[i]) => Cardinality(S) # 0
  <2>1. IsResponse(q[i]) => i \in S
    BY <1>1
  <2> HIDE DEF S
  <2> QED BY <1>4, <2>1, FS_EmptySet
<1> HIDE DEF S, T
<1> QED BY <1>2, <1>5, <1>6

LEMMA RankAppend ==
    ASSUME NEW q \in Seq(Packet), NEW p \in Packet
    PROVE  /\ \A i \in 1 .. Len(q) : Rank(Append(q, p), i) = Rank(q, i)
           /\ Rank(Append(q, p), Len(q) + 1) = Answers(q) + Weight(p)
<1>1. \A i \in 1 .. Len(q) : SubSeq(Append(q, p), 1, i) = SubSeq(q, 1, i)
  OBVIOUS
<1>2. SubSeq(Append(q, p), 1, Len(q) + 1) = Append(q, p)
  OBVIOUS
<1> QED BY <1>1, <1>2, AnswersAppend DEF Rank, Weight

LEMMA RankTail ==
    ASSUME NEW q \in Seq(Packet), q # <<>>
    PROVE  /\ Rank(q, 1) = Weight(Head(q))
           /\ \A i \in 1 .. Len(q) - 1 : Rank(q, i + 1) = Rank(Tail(q), i) + Weight(Head(q))
<1>1. Answers(<<>>) = 0
  BY FS_EmptySet DEF Answers, Count
<1>2. Rank(q, 1) = Weight(Head(q))
  <2> DEFINE b == SubSeq(q, 1, 1)
  <2>1. b \in Seq(Packet) /\ b # <<>> /\ Head(b) = Head(q) /\ Tail(b) \in Seq(Packet) /\ Len(Tail(b)) = 0
    OBVIOUS
  <2> HIDE DEF b
  <2>2. Tail(b) = <<>>
    BY <2>1, EmptySeq
  <2>3. Answers(b) = Answers(Tail(b)) + Weight(Head(b))
    BY <2>1, AnswersTail DEF Weight
  <2>4. Weight(Head(b)) \in Nat
    BY DEF Weight
  <2>5. Answers(b) = Weight(Head(q))
    <3>1. Answers(b) = 0 + Weight(Head(b))
      BY <1>1, <2>2, <2>3
    <3> QED BY <2>1, <2>4, <3>1
  <2> QED BY <2>5 DEF Rank, b
<1>3. ASSUME NEW i \in 1 .. Len(q) - 1 PROVE Rank(q, i + 1) = Rank(Tail(q), i) + Weight(Head(q))
  <2> DEFINE b == SubSeq(q, 1, i + 1)
  <2>1. b \in Seq(Packet) /\ b # <<>> /\ Head(b) = Head(q)
    OBVIOUS
  <2>2. Tail(b) = SubSeq(Tail(q), 1, i)
    OBVIOUS
  <2> HIDE DEF b
  <2>3. Answers(b) = Answers(Tail(b)) + Weight(Head(q))
    BY <2>1, AnswersTail DEF Weight
  <2> QED BY <2>2, <2>3 DEF Rank, b
<1> QED BY <1>2, <1>3

\* What a packet does to the call of a window, where r is the request it responds to if
\* it is a response: it gives the window a call, takes the window's call off, or neither;
\* id is the call it is about.
Raises(id) == [sort |-> "raise", id |-> id]
Falls(id) == [sort |-> "end", id |-> id]
Level == [sort |-> "plain", id |-> 0]

Effect(p, r) ==
    CASE p.kind = "notify" /\ p.op \in {"invite", "accept", "offer"} -> Raises(p.id)
      [] p.kind = "notify" /\ p.op \in EndOps -> Falls(p.id)
      [] p.kind = "ok" /\ r.op = "invite" -> Raises(p.id)
      [] p.kind = "ok" /\ r.op \in EndOps -> Falls(r.id)
      [] OTHER -> Level

\* The call a window has, 0 for none, and after it what the packets on their way do, in order.
Course(call, pend, q) ==
    [i \in 0 .. Len(q) |-> IF i = 0 THEN (IF call = 0 THEN Level ELSE Raises(call)) ELSE Effect(q[i], pend[Rank(q, i)])]

\* In the course f of a window every call the server no longer has, M being the one it has
\* or none, is taken off later on, and a call gives way to another one, or to the end of
\* another one, only after it was taken off.
Story(f, n, M) ==
    /\ \A i \in 0 .. n : f[i].sort = "raise" /\ f[i].id \notin M => \E j \in i + 1 .. n : f[j].sort = "end"
    /\ \A i, j \in 0 .. n :
          i < j /\ f[i].sort = "raise" /\ f[j].sort # "plain" /\ f[i].id # f[j].id =>
              \E m \in i + 1 .. j - 1 : f[m].sort = "end"

\* A packet that does nothing, ...
LEMMA StoryLevel ==
    ASSUME NEW n \in Nat, NEW f, NEW g, NEW M, Story(f, n, M), \A i \in 0 .. n : g[i] = f[i],
           g[n + 1].sort = "plain"
    PROVE  Story(g, n + 1, M)
<1>1. \A i \in 0 .. n + 1 : i \in 0 .. n \/ i = n + 1
  OBVIOUS
<1>2. ASSUME NEW i \in 0 .. n + 1, g[i].sort = "raise", g[i].id \notin M
      PROVE  \E j \in i + 1 .. n + 1 : g[j].sort = "end"
  <2>1. i \in 0 .. n /\ f[i].sort = "raise" /\ f[i].id \notin M
    BY <1>1, <1>2
  <2>2. PICK j \in i + 1 .. n : f[j].sort = "end"
    BY <2>1 DEF Story
  <2> QED BY <2>1, <2>2
<1>3. ASSUME NEW i \in 0 .. n + 1, NEW j \in 0 .. n + 1, i < j, g[i].sort = "raise", g[j].sort # "plain", g[i].id # g[j].id
      PROVE  \E m \in i + 1 .. j - 1 : g[m].sort = "end"
  <2>1. i \in 0 .. n /\ j \in 0 .. n /\ f[i] = g[i] /\ f[j] = g[j]
    BY <1>1, <1>3
  <2>2. PICK m \in i + 1 .. j - 1 : f[m].sort = "end"
    BY <1>3, <2>1 DEF Story
  <2> QED BY <2>1, <2>2
<1> QED BY <1>2, <1>3 DEF Story

\* ... one that gives the window the call it is to have, ...
LEMMA StoryRaise ==
    ASSUME NEW n \in Nat, NEW f, NEW g, NEW M, Story(f, n, M), \A i \in 0 .. n : g[i] = f[i],
           NEW d, g[n + 1].id = d, M \subseteq {d}
    PROVE  Story(g, n + 1, {d})
<1>1. \A i \in 0 .. n + 1 : i \in 0 .. n \/ i = n + 1
  OBVIOUS
<1>2. ASSUME NEW i \in 0 .. n + 1, g[i].sort = "raise", g[i].id # d
      PROVE  \E j \in i + 1 .. n : g[j].sort = "end"
  <2>1. i \in 0 .. n /\ f[i].sort = "raise" /\ f[i].id \notin M
    BY <1>1, <1>2
  <2>2. PICK j \in i + 1 .. n : f[j].sort = "end"
    BY <2>1 DEF Story
  <2> QED BY <2>1, <2>2
<1>3. ASSUME NEW i \in 0 .. n + 1, NEW j \in 0 .. n + 1, i < j, g[i].sort = "raise", g[j].sort # "plain", g[i].id # g[j].id
      PROVE  \E m \in i + 1 .. j - 1 : g[m].sort = "end"
  <2>1. CASE j = n + 1
    BY <1>2, <1>3, <2>1
  <2>2. CASE j # n + 1
    <3>1. i \in 0 .. n /\ j \in 0 .. n /\ f[i] = g[i] /\ f[j] = g[j]
      BY <1>1, <1>3, <2>2
    <3>2. PICK m \in i + 1 .. j - 1 : f[m].sort = "end"
      BY <1>3, <3>1 DEF Story
    <3> QED BY <3>1, <3>2
  <2> QED BY <2>1, <2>2
<1>4. ASSUME NEW i \in 0 .. n + 1, g[i].sort = "raise", g[i].id \notin {d}
      PROVE  \E j \in i + 1 .. n + 1 : g[j].sort = "end"
  <2>1. PICK j \in i + 1 .. n : g[j].sort = "end"
    BY <1>2, <1>4
  <2> QED BY <2>1
<1> QED BY <1>3, <1>4 DEF Story

\* ... or takes off the call it has.
LEMMA StoryFall ==
    ASSUME NEW n \in Nat, NEW f, NEW g, NEW M, Story(f, n, M), \A i \in 0 .. n : g[i] = f[i],
           NEW d, g[n + 1].sort = "end", g[n + 1].id = d, M \subseteq {d}, NEW N
    PROVE  Story(g, n + 1, N)
<1>1. \A i \in 0 .. n + 1 : i \in 0 .. n \/ i = n + 1
  OBVIOUS
<1>3. Story(g, n + 1, {d})
  BY StoryRaise
<1>4. ASSUME NEW i \in 0 .. n + 1, g[i].sort = "raise"
      PROVE  \E j \in i + 1 .. n + 1 : g[j].sort = "end"
  BY <1>1, <1>4
<1> QED BY <1>3, <1>4 DEF Story

\* The window reads the first packet.
LEMMA StoryRead ==
    ASSUME NEW n \in Nat, NEW f, NEW g, NEW M, Story(f, n + 1, M), \A i \in 1 .. n : g[i] = f[i + 1],
           \/ g[0].sort # "raise"
           \/ f[1].sort = "plain" /\ g[0] = f[0]
           \/ g[0] = f[1]
    PROVE  Story(g, n, M)
<1>1. \A i \in 0 .. n : i = 0 \/ (i \in 1 .. n /\ i + 1 \in 0 .. n + 1)
  OBVIOUS
<1>2. ASSUME NEW i \in 0 .. n, g[i].sort = "raise"
      PROVE  \E k \in 0 .. n + 1 : /\ f[k] = g[i] /\ (k = i + 1 \/ (k = 0 /\ i = 0 /\ f[1].sort = "plain"))
  <2>1. CASE i # 0
    BY <1>1, <2>1
  <2>2. CASE i = 0
    BY <1>2, <2>2
  <2> QED BY <2>1, <2>2
<1>3. ASSUME NEW i \in 0 .. n, g[i].sort = "raise", g[i].id \notin M
      PROVE  \E j \in i + 1 .. n : g[j].sort = "end"
  <2>1. PICK k \in 0 .. n + 1 : f[k] = g[i] /\ (k = i + 1 \/ (k = 0 /\ i = 0 /\ f[1].sort = "plain"))
    BY <1>2, <1>3
  <2>2. PICK j \in k + 1 .. n + 1 : f[j].sort = "end"
    BY <1>3, <2>1 DEF Story
  <2>3. j # 1
    BY <2>1, <2>2
  <2>4. j - 1 \in i + 1 .. n /\ g[j - 1] = f[(j - 1) + 1] /\ (j - 1) + 1 = j
    BY <2>1, <2>3
  <2> QED BY <2>2, <2>4
<1>4. ASSUME NEW i \in 0 .. n, NEW j \in 0 .. n, i < j, g[i].sort = "raise", g[j].sort # "plain", g[i].id # g[j].id
      PROVE  \E m \in i + 1 .. j - 1 : g[m].sort = "end"
  <2>1. PICK k \in 0 .. n + 1 : f[k] = g[i] /\ (k = i + 1 \/ (k = 0 /\ i = 0 /\ f[1].sort = "plain"))
    BY <1>2, <1>4
  <2>2. j \in 1 .. n /\ g[j] = f[j + 1] /\ j + 1 \in 0 .. n + 1 /\ k < j + 1
    BY <1>4, <2>1
  <2>3. PICK m \in k + 1 .. (j + 1) - 1 : f[m].sort = "end"
    BY <1>4, <2>1, <2>2 DEF Story
  <2>4. m # 1
    BY <2>1, <2>3
  <2>5. m - 1 \in i + 1 .. j - 1 /\ m - 1 \in 1 .. n /\ g[m - 1] = f[(m - 1) + 1] /\ (m - 1) + 1 = m
    BY <2>1, <2>2, <2>4
  <2> QED BY <2>3, <2>5
<1> QED BY <1>3, <1>4 DEF Story

\* The window changes its call by itself only to give it up.
LEMMA StoryDrops ==
    ASSUME NEW n \in Nat, NEW f, NEW g, NEW M, Story(f, n, M), \A i \in 1 .. n : g[i] = f[i],
           g[0] = f[0] \/ g[0].sort # "raise"
    PROVE  Story(g, n, M)
<1>1. \A i \in 0 .. n : i = 0 \/ i \in 1 .. n
  OBVIOUS
<1>2. \A i \in 0 .. n : g[i].sort = "raise" => f[i] = g[i]
  BY <1>1
<1>3. ASSUME NEW i \in 0 .. n, g[i].sort = "raise", g[i].id \notin M
      PROVE  \E j \in i + 1 .. n : g[j].sort = "end"
  <2>1. PICK j \in i + 1 .. n : f[j].sort = "end"
    BY <1>2, <1>3 DEF Story
  <2> QED BY <2>1
<1>4. ASSUME NEW i \in 0 .. n, NEW j \in 0 .. n, i < j, g[i].sort = "raise", g[j].sort # "plain", g[i].id # g[j].id
      PROVE  \E m \in i + 1 .. j - 1 : g[m].sort = "end"
  <2>1. f[i] = g[i] /\ f[j] = g[j]
    BY <1>2, <1>4
  <2>2. PICK m \in i + 1 .. j - 1 : f[m].sort = "end"
    BY <1>4, <2>1 DEF Story
  <2> QED BY <2>2
<1> QED BY <1>3, <1>4 DEF Story

\* Only of an ok response does it matter what it responds to.
LEMMA EffectAlone ==
    /\ \A p, r, e : p.kind # "ok" => Effect(p, r) = Effect(p, e)
    /\ \A p, r : p.kind = "ok" => IsResponse(p)
<1>1. ASSUME NEW p, NEW r, NEW e, p.kind # "ok" PROVE Effect(p, r) = Effect(p, e)
  BY <1>1 DEF Effect
<1> QED BY <1>1 DEF IsResponse

LEMMA CourseIs ==
    ASSUME NEW call, NEW pend, NEW q \in Seq(Packet)
    PROVE  /\ Course(call, pend, q)[0] = IF call = 0 THEN Level ELSE Raises(call)
           /\ \A i \in 1 .. Len(q) : Course(call, pend, q)[i] = Effect(q[i], pend[Rank(q, i)])
<1>1. 0 \in 0 .. Len(q) /\ \A i \in 1 .. Len(q) : i \in 0 .. Len(q) /\ i # 0
  OBVIOUS
<1> QED BY <1>1 DEF Course

\* The course when one packet more is on its way, ...
LEMMA CourseAppend ==
    ASSUME NEW call, NEW pend, NEW q \in Seq(Packet), NEW p \in Packet
    PROVE  \A i \in 0 .. Len(q) : Course(call, pend, Append(q, p))[i] = Course(call, pend, q)[i]
<1> DEFINE b == Append(q, p)
           f == Course(call, pend, q)
           g == Course(call, pend, b)
<1>1. b \in Seq(Packet) /\ Len(b) = Len(q) + 1 /\ Len(q) \in Nat /\ b[Len(q) + 1] = p
      /\ \A i \in 1 .. Len(q) : b[i] = q[i]
  OBVIOUS
<1>2. /\ \A i \in 1 .. Len(q) : Rank(b, i) = Rank(q, i)
      /\ Rank(b, Len(q) + 1) = Answers(q) + Weight(p)
  BY RankAppend
<1>3. /\ g[0] = f[0]
      /\ \A i \in 1 .. Len(q) : f[i] = Effect(q[i], pend[Rank(q, i)])
      /\ \A i \in 1 .. Len(b) : g[i] = Effect(b[i], pend[Rank(b, i)])
  <2> HIDE DEF b
  <2>1. f[0] = (IF call = 0 THEN Level ELSE Raises(call)) /\ g[0] = (IF call = 0 THEN Level ELSE Raises(call))
    BY <1>1, CourseIs
  <2>2. \A i \in 1 .. Len(q) : f[i] = Effect(q[i], pend[Rank(q, i)])
    BY CourseIs
  <2>3. \A i \in 1 .. Len(b) : g[i] = Effect(b[i], pend[Rank(b, i)])
    BY <1>1, CourseIs
  <2> QED BY <2>1, <2>2, <2>3
<1> HIDE DEF f, g, b
<1>4. \A i \in 0 .. Len(q) : i = 0 \/ (i \in 1 .. Len(q) /\ i \in 1 .. Len(b))
  BY <1>1
<1>5. \A i \in 0 .. Len(q) : g[i] = f[i]
  BY <1>1, <1>2, <1>3, <1>4
<1> QED BY <1>5 DEF f, g, b

LEMMA CourseLast ==
    ASSUME NEW call, NEW pend, NEW q \in Seq(Packet), NEW p \in Packet
    PROVE  Course(call, pend, Append(q, p))[Len(q) + 1] = Effect(p, pend[Answers(q) + Weight(p)])
<1> DEFINE b == Append(q, p)
           n == Len(q) + 1
<1>1. b \in Seq(Packet) /\ n \in 1 .. Len(b) /\ b[n] = p
  OBVIOUS
<1>2. Rank(b, n) = Answers(q) + Weight(p)
  BY RankAppend
<1>3. Course(call, pend, b)[n] = Effect(b[n], pend[Rank(b, n)])
  <2> HIDE DEF b, n
  <2> QED BY <1>1, CourseIs
<1> QED BY <1>1, <1>2, <1>3

\* ... when the window sends a request, ...
LEMMA CourseSend ==
    ASSUME NEW call, NEW was, NEW pend \in Seq(PendingCall), NEW r \in PendingCall, NEW q \in Seq(Packet),
           Answers(q) <= Len(pend)
    PROVE  \A i \in 1 .. Len(q) : Course(call, Append(pend, r), q)[i] = Course(was, pend, q)[i]
<1> DEFINE more == Append(pend, r)
<1> SUFFICES ASSUME NEW i \in 1 .. Len(q) PROVE Course(call, more, q)[i] = Course(was, pend, q)[i]
  OBVIOUS
<1>1. /\ Course(call, more, q)[i] = Effect(q[i], more[Rank(q, i)])
      /\ Course(was, pend, q)[i] = Effect(q[i], pend[Rank(q, i)])
  <2> HIDE DEF more
  <2> QED BY CourseIs
<1>2. CASE q[i].kind = "ok"
  <2>1. Rank(q, i) \in Nat /\ Rank(q, i) <= Answers(q) /\ Rank(q, i) >= 1 /\ Answers(q) \in Nat
    <3>1. IsResponse(q[i])
      BY <1>2, EffectAlone
    <3>2. q[i] \in Packet
      OBVIOUS
    <3>3. Answers(q) \in Nat
      BY <3>2, AnswersAppend
    <3> QED BY <3>1, <3>3, RankBounds
  <2>2. Rank(q, i) \in 1 .. Len(pend)
    BY <2>1
  <2>3. more[Rank(q, i)] = pend[Rank(q, i)]
    BY <2>2
  <2> QED BY <1>1, <2>3
<1>3. CASE q[i].kind # "ok"
  BY <1>1, <1>3, EffectAlone
<1> QED BY <1>2, <1>3

\* ... and when it reads the first packet.
LEMMA CourseRead ==
    ASSUME NEW call, NEW was, NEW pend \in Seq(PendingCall), NEW q \in Seq(Packet), q # <<>>, Answers(q) <= Len(pend)
    PROVE  LET f == Course(was, pend, q)
               rest == IF IsResponse(Head(q)) THEN Tail(pend) ELSE pend
               g == Course(call, rest, Tail(q))
           IN  /\ f[1] = Effect(Head(q), Head(pend))
               /\ \A i \in 1 .. Len(Tail(q)) : g[i] = f[i + 1]
<1> DEFINE f == Course(was, pend, q)
           rest == IF IsResponse(Head(q)) THEN Tail(pend) ELSE pend
           b == Tail(q)
           g == Course(call, rest, b)
<1>1. /\ b \in Seq(Packet) /\ Len(b) = Len(q) - 1 /\ Len(q) \in Nat \ {0} /\ Head(q) = q[1] /\ Head(q) \in Packet
      /\ \A i \in 1 .. Len(b) : b[i] = q[i + 1] /\ i + 1 \in 1 .. Len(q)
      /\ 1 \in 1 .. Len(q)
  OBVIOUS
<1>2. /\ Rank(q, 1) = Weight(Head(q))
      /\ \A i \in 1 .. Len(b) : Rank(q, i + 1) = Rank(b, i) + Weight(Head(q))
  <2>1. 1 .. Len(b) = 1 .. Len(q) - 1
    BY <1>1
  <2> QED BY <2>1, RankTail
<1>3. \A i \in 1 .. Len(q) : f[i] = Effect(q[i], pend[Rank(q, i)])
  BY CourseIs
<1>4. \A i \in 1 .. Len(b) : g[i] = Effect(b[i], rest[Rank(b, i)])
  <2> HIDE DEF b, rest
  <2> QED BY <1>1, CourseIs
<1>5. Answers(q) \in Nat /\ Answers(q) = Answers(b) + Weight(Head(q)) /\ Answers(b) \in Nat
  BY AnswersTail DEF Weight
<1> HIDE DEF f, g
<1>6. f[1] = Effect(Head(q), Head(pend))
  <2>1. f[1] = Effect(Head(q), pend[Weight(Head(q))])
    BY <1>1, <1>2, <1>3
  <2>2. CASE Head(q).kind = "ok"
    <3>1. Weight(Head(q)) = 1
      BY <2>2, EffectAlone DEF Weight
    <3> QED BY <2>1, <3>1
  <2>3. CASE Head(q).kind # "ok"
    BY <2>1, <2>3, EffectAlone
  <2> QED BY <2>2, <2>3
<1>7. ASSUME NEW i \in 1 .. Len(b) PROVE g[i] = f[i + 1]
  <2>1. g[i] = Effect(b[i], rest[Rank(b, i)]) /\ f[i + 1] = Effect(b[i], pend[Rank(q, i + 1)])
    BY <1>1, <1>3, <1>4
  <2>2. CASE b[i].kind = "ok"
    <3>1. Rank(b, i) \in Nat /\ Rank(b, i) >= 1 /\ Rank(b, i) <= Answers(b)
      <4>1. IsResponse(b[i])
        BY <2>2, EffectAlone
      <4> HIDE DEF b
      <4> QED BY <1>1, <4>1, RankBounds
    <3>2. Rank(q, i + 1) = Rank(b, i) + Weight(Head(q))
      BY <1>2
    <3> DEFINE k == Rank(b, i)
               n == Rank(q, i + 1)
               a == Answers(b)
               c == Answers(q)
    <3>3. rest[k] = pend[n]
      <4>1. CASE IsResponse(Head(q))
        <5>1. Weight(Head(q)) = 1 /\ rest = Tail(pend)
          BY <4>1 DEF Weight
        <5>2. k \in Nat /\ k >= 1 /\ k <= a /\ n = k + 1 /\ c = a + 1 /\ a \in Nat /\ c <= Len(pend)
          BY <1>5, <3>1, <3>2, <5>1
        <5> HIDE DEF k, n, a, c, rest
        <5>3. k \in 1 .. Len(pend) - 1
          BY <5>2
        <5>4. Tail(pend)[k] = pend[k + 1]
          BY <5>3
        <5> QED BY <5>1, <5>2, <5>4
      <4>2. CASE ~IsResponse(Head(q))
        BY <3>1, <3>2, <4>2 DEF Weight
      <4> QED BY <4>1, <4>2
    <3> QED BY <2>1, <3>3
  <2>3. CASE b[i].kind # "ok"
    BY <2>1, <2>3, EffectAlone
  <2> QED BY <2>2, <2>3
<1> QED BY <1>6, <1>7 DEF f, g

\* A window does to its call what the packet it reads says; an invite that has failed
\* takes off the call, too.
LEMMA EventEffect ==
    ASSUME NEW w \in Window, NEW a, NEW p \in Packet, NEW r, r.op \in CallOps
    PROVE  /\ IsResponse(p) =>
                LET e == Effect(p, r)
                    c == OnResponse(w, a, r, p).window.call
                IN  \/ c = IF e.sort = "raise" THEN e.id ELSE IF e.sort = "end" THEN 0 ELSE w.call
                    \/ c = 0 /\ e.sort = "plain" /\ p.kind = "error" /\ r.op = "invite"
           /\ p.kind = "notify" =>
                LET e == Effect(p, r)
                    c == OnNotify(w, a, p).window.call
                IN  c = IF e.sort = "raise" THEN e.id ELSE IF e.sort = "end" THEN 0 ELSE w.call
<1>1. NoCall(w).call = 0 /\ \A id, b : [w EXCEPT !.call = id, !.incoming = b].call = id
  BY DEF Window, NoCall
<1>2. \A id : [w EXCEPT !.call = id].call = id
  BY DEF Window
<1>3. \A x, y : Becomes(x, y).window = x
  BY DEF Becomes
<1>4. \A id : /\ Raises(id).sort = "raise" /\ Raises(id).id = id /\ Falls(id).sort = "end" /\ Falls(id).id = id
              /\ Level.sort = "plain"
  BY DEF Raises, Falls, Level
<1>5. ASSUME IsResponse(p)
      PROVE  LET e == Effect(p, r)
                 c == OnResponse(w, a, r, p).window.call
             IN  \/ c = IF e.sort = "raise" THEN e.id ELSE IF e.sort = "end" THEN 0 ELSE w.call
                 \/ c = 0 /\ e.sort = "plain" /\ p.kind = "error" /\ r.op = "invite"
  <2> DEFINE c == OnResponse(w, a, r, p).window.call
             e == Effect(p, r)
             AsDue == \/ c = IF e.sort = "raise" THEN e.id ELSE IF e.sort = "end" THEN 0 ELSE w.call
                      \/ c = 0 /\ e.sort = "plain" /\ p.kind = "error" /\ r.op = "invite"
  <2> SUFFICES AsDue
    OBVIOUS
  <2>1. ASSUME p.kind = "ok" /\ r.op = "invite" PROVE AsDue
    <3>1. Effect(p, r) = Raises(p.id)
      BY <2>1 DEF Effect, EndOps
    <3>2. OnResponse(w, a, r, p).window = [w EXCEPT !.call = p.id, !.incoming = FALSE]
      BY <1>3, <2>1 DEF OnResponse, EndOps
    <3> QED BY <1>1, <1>4, <3>1, <3>2
  <2>2. ASSUME p.kind = "ok" /\ r.op \in EndOps PROVE AsDue
    <3>1. Effect(p, r) = Falls(r.id) /\ r.op # "invite"
      BY <2>2 DEF Effect, EndOps
    <3>2. OnResponse(w, a, r, p).window = NoCall(w)
      BY <1>3, <2>2, <3>1 DEF OnResponse
    <3> QED BY <1>1, <1>4, <3>1, <3>2
  <2>3. ASSUME p.kind = "ok" /\ r.op # "invite" /\ r.op \notin EndOps PROVE AsDue
    <3>1. Effect(p, r) = Level
      BY <2>3 DEF Effect
    <3>2. OnResponse(w, a, r, p).window = w
      BY <1>3, <2>3 DEF OnResponse
    <3> QED BY <1>4, <3>1, <3>2
  <2>4. ASSUME p.kind = "error" /\ r.op = "invite" PROVE AsDue
    <3>1. Effect(p, r) = Level
      BY <2>4 DEF Effect
    <3>2. OnResponse(w, a, r, p).window = NoCall(w)
      BY <1>3, <2>4 DEF OnResponse
    <3> QED BY <1>1, <1>4, <2>4, <3>1, <3>2
  <2>6. ASSUME p.kind = "error" /\ r.op # "invite" PROVE AsDue
    <3>1. Effect(p, r) = Level
      BY <2>6 DEF Effect
    <3>2. OnResponse(w, a, r, p).window = w
      BY <1>3, <2>6 DEF OnResponse
    <3> QED BY <1>4, <3>1, <3>2
  <2>5. p.kind = "ok" \/ p.kind = "error"
    BY <1>5 DEF IsResponse
  <2> HIDE DEF Done
  <2> QED BY <2>1, <2>2, <2>3, <2>4, <2>5, <2>6
<1>6. ASSUME p.kind = "notify"
      PROVE  LET e == Effect(p, r)
                 c == OnNotify(w, a, p).window.call
             IN  c = IF e.sort = "raise" THEN e.id ELSE IF e.sort = "end" THEN 0 ELSE w.call
  <2>1. CASE p.op \in {"invite", "accept", "offer"}
    <3>1. Effect(p, r) = Raises(p.id) /\ p.op \notin EndOps
      BY <1>6, <2>1 DEF Effect, EndOps
    <3>2. OnNotify(w, a, p).window.call = p.id
      <4>1. CASE p.op = "invite"
        <5> DEFINE v == [w EXCEPT !.call = p.id, !.incoming = TRUE]
        <5>1. v.call = p.id
          BY <1>1
        <5>2. \E y : OnNotify(w, a, p) = Becomes(v, y)
          BY <4>1 DEF OnNotify, EndOps
        <5> HIDE DEF v
        <5> QED BY <1>3, <5>1, <5>2
      <4>2. CASE p.op = "accept"
        <5> DEFINE v == [w EXCEPT !.call = p.id, !.incoming = FALSE]
        <5>1. v.call = p.id
          BY <1>1
        <5>2. \E y : OnNotify(w, a, p) = Becomes(v, y)
          BY <4>2 DEF OnNotify, EndOps
        <5> HIDE DEF v
        <5> QED BY <1>3, <5>1, <5>2
      <4>3. CASE p.op = "offer"
        <5> DEFINE v == [w EXCEPT !.call = p.id]
        <5>1. v.call = p.id
          BY <1>2
        <5>2. \E y : OnNotify(w, a, p) = Becomes(v, y)
          BY <4>3 DEF OnNotify, EndOps
        <5> HIDE DEF v
        <5> QED BY <1>3, <5>1, <5>2
      <4> QED BY <2>1, <4>1, <4>2, <4>3
    <3> QED BY <1>4, <3>1, <3>2
  <2>2. CASE p.op \in EndOps
    <3>1. Effect(p, r) = Falls(p.id) /\ p.op \notin {"invite", "accept", "offer"}
      BY <1>6, <2>2 DEF Effect, EndOps
    <3>2. OnNotify(w, a, p).window.call = 0
      BY <1>1, <1>3, <2>2, <3>1 DEF OnNotify
    <3> QED BY <1>4, <3>1, <3>2
  <2>3. CASE p.op \notin {"invite", "accept", "offer"} /\ p.op \notin EndOps
    <3>1. Effect(p, r) = Level
      BY <1>6, <2>3 DEF Effect
    <3>2. OnNotify(w, a, p).window = w
      BY <1>3, <2>3 DEF OnNotify
    <3> QED BY <1>4, <3>1, <3>2
  <2> QED BY <2>1, <2>2, <2>3
<1> QED BY <1>5, <1>6

-----------------------------------------------------------------------------
(* What becomes of the calls when the server handles a request and its     *)
(* client stays.                                                           *)

\* Of the other connections those of user u at most have got something, and that is op about id.
OnlyTold(s, u, op, id) ==
    \A r \in Slots \ {s} : out'[r] # out[r] =>
        clients[r].user = u /\ out'[r].kind = "notify" /\ out'[r].op = op /\ out'[r].id = id

\* User u has got it, and the sender an ok about id.
Passed(s, u, op, id) ==
    /\ OnlyTold(s, u, op, id)
    /\ \E r \in Slots \ {s} : clients[r].user = u /\ out'[r] # out[r]
    /\ out'[s].kind = "ok" /\ out'[s].id = id

\* The request of the client in slot s was not about a call or was refused, ...
Unconcerned(s, q) ==
    /\ calls' = calls
    /\ \A r \in Slots \ {s} : out'[r] # out[r] => out'[r].kind = "notify" /\ out'[r].op \notin CallOps
    /\ out'[s].kind = "ok" => q.op \notin {"invite"} \cup EndOps

\* ... has made the call c, ...
Calling(s, q) ==
    /\ q.op = "invite"
    /\ \E c \in Call :
          /\ calls' = calls \cup {c} /\ Parties(c) = {clients[s].user, q.to}
          /\ \A d \in calls : Parties(d) \cap Parties(c) = {}
          /\ Passed(s, q.to, "invite", c.id)

\* ... or was passed on to the other party of call c, which it may have ended.
Forwards(s, q) ==
    /\ q.op \in CallOps \ {"invite"}
    /\ \E c \in calls :
          /\ c.id = q.id /\ clients[s].user \in Parties(c)
          /\ Passed(s, Peer(c, clients[s].user), q.op, q.id)
          /\ \/ q.op \in EndOps /\ calls' = calls \ {c}
             \/ q.op \notin EndOps /\ \E d : d.id = c.id /\ Parties(d) = Parties(c) /\ calls' = (calls \ {c}) \cup {d}

\* The send buffers of the other connections are left alone before the handler runs.
LEMMA FlushedOthers ==
    ASSUME IInv, NEW s \in Slots, NEW t, Serve(s, t)
    PROVE  /\ Shaped(t) /\ t.clients = clients /\ t.calls = calls
           /\ \A r \in Slots \ {s} : t.out[r] = out[r]
           /\ clients[s].open
<1>1. Shaped(t) /\ t.clients = clients /\ t.calls = calls
  BY FlushedTame, FlushedMidway DEF Midway
<1>2. out \in [Slots -> Packet]
  BY BufferTyped
<1>3. t.out = out \/ t.out = [out EXCEPT ![s] = NoPacket]
  BY DEF Serve, Flushed, Tables
<1> QED BY <1>1, <1>2, <1>3 DEF Serve

\* A client that is still there has got its response.
LEMMA ReplyStands ==
    ASSUME NEW s \in Slots, NEW e, Shaped(e), NEW p, Commit(Reply(e, s, p)), clients'[s] # FreeClient
    PROVE  e.out[s] = NoPacket /\ calls' = e.calls /\ \A r \in Slots : out'[r] = IF r = s THEN p ELSE e.out[r]
<1>1. CanQueue(e, s)
  <2>1. ASSUME ~CanQueue(e, s) PROVE FALSE
    <3>1. Commit(CloseClient(e, s))
      BY <2>1 DEF Reply
    <3>2. clients'[s] = FreeClient
      BY <3>1, CloseForgets DEF Commit, CloseClient
    <3> QED BY <3>2
  <2> QED BY <2>1
<1>2. Commit([e EXCEPT !.out[s] = p])
  BY <1>1 DEF Reply
<1>3. calls' = e.calls /\ \A r \in Slots : out'[r] = IF r = s THEN p ELSE e.out[r]
  BY <1>2 DEF Commit, Shaped, IsTables, Fields
<1> QED BY <1>1, <1>3 DEF CanQueue

LEMMA RelayStands ==
    ASSUME IInv, NEW s \in Slots, NEW t, Serve(s, t), NEW u \in Users, NEW note \in Notifies,
           NEW after, Shaped(after), after.clients = t.clients, after.out = t.out,
           NEW p, p.kind = "ok", p.id = note.id,
           Commit(Relay(t, s, u, note, after, p)), clients'[s] # FreeClient
    PROVE  Passed(s, u, note.op, note.id) /\ calls' = after.calls
<1> DEFINE told == TellOne(after, u, note)
           notes == [v \in {u} |-> note]
<1>1. Told(s, u, note)
  BY RelayReplies
<1>2. Shaped(t) /\ t.clients = clients /\ \A r \in Slots \ {s} : t.out[r] = out[r]
  BY FlushedOthers
<1>3. CanTell(t, u)
  <2>1. ASSUME ~CanTell(t, u) PROVE FALSE
    <3>1. Commit(CloseClient(t, s))
      BY <2>1 DEF Relay
    <3>2. clients'[s] = FreeClient
      BY <1>2, <3>1, CloseForgets DEF Commit, CloseClient
    <3> QED BY <3>2
  <2> QED BY <2>1
<1>4. Commit(Reply(told, s, p))
  BY <1>3 DEF Relay
<1>5. Shaped(told) /\ told.calls = after.calls
  BY TellTame, TellCalls DEF TellOne
<1>6. \A r \in Slots : \/ told.out[r] = after.out[r]
                       \/ /\ after.clients[r].user = u
                          /\ \E to, session : told.out[r] = Addressing(note, to, session)
  <2>1. told = Tell(after, notes)
    BY DEF TellOne
  <2>2. DOMAIN notes = {u} /\ notes[u] = note
    OBVIOUS
  <2> HIDE DEF told, notes
  <2>3. \A r \in Slots :
           \/ told.out[r] = after.out[r]
           \/ /\ after.clients[r].user \in {u}
              /\ told.out[r] = Addressing(notes[after.clients[r].user], after.clients[r].user, after.clients[r].session)
    BY <2>1, <2>2, TellTells
  <2> QED BY <2>2, <2>3
<1> HIDE DEF told
<1>7. calls' = after.calls /\ \A r \in Slots : out'[r] = IF r = s THEN p ELSE told.out[r]
  BY <1>4, <1>5, ReplyStands
<1>8. \A to, session : LET a == Addressing(note, to, session) IN a.kind = "notify" /\ a.op = note.op /\ a.id = note.id
  BY PacketFields
<1>9. OnlyTold(s, u, note.op, note.id)
  <2>1. ASSUME NEW r \in Slots \ {s}, out'[r] # out[r]
        PROVE  clients[r].user = u /\ out'[r].kind = "notify" /\ out'[r].op = note.op /\ out'[r].id = note.id
    <3>1. out'[r] = told.out[r] /\ after.out[r] = out[r] /\ after.clients[r] = clients[r]
      BY <1>2, <1>7
    <3>2. clients[r].user = u /\ \E to, session : out'[r] = Addressing(note, to, session)
      BY <1>6, <2>1, <3>1
    <3> QED BY <1>8, <3>2
  <2> QED BY <2>1 DEF OnlyTold
<1>10. \E r \in Slots \ {s} : clients[r].user = u /\ out'[r] # out[r]
  <2>1. PICK r \in Slots \ {s} : /\ IsClient(Tables, r, u) /\ out[r] = NoPacket
                                 /\ \E session : out'[r] = Addressing(note, u, session)
    BY <1>1 DEF Told
  <2>2. out'[r].kind = "notify" /\ out[r].kind = "none"
    BY <1>8, <2>1, PacketFields
  <2> QED BY <2>1, <2>2 DEF IsClient, Tables
<1> QED BY <1>7, <1>9, <1>10 DEF Passed

\* A relay about a file, or a reply to a request about one.
LEMMA FileRelayStands ==
    ASSUME IInv, NEW s \in Slots, NEW t, Serve(s, t), NEW u \in Users, NEW note \in Notifies, note.op \notin CallOps,
           NEW X, NEW p, p.kind = "ok", p.id = note.id,
           Commit(Relay(t, s, u, note, [t EXCEPT !.transfers = X], p)), clients'[s] # FreeClient,
           NEW q, q.op \notin CallOps
    PROVE  Unconcerned(s, q)
<1> DEFINE after == [t EXCEPT !.transfers = X]
<1>1. Shaped(t) /\ t.calls = calls
  BY FlushedOthers
<1>2. Shaped(after) /\ after.clients = t.clients /\ after.out = t.out
  BY <1>1, ExceptRelays
<1>3. after.calls = calls
  BY <1>1 DEF Shaped, IsTables, Fields
<1> HIDE DEF after
<1>4. Passed(s, u, note.op, note.id) /\ calls' = calls
  <2>1. Commit(Relay(t, s, u, note, after, p))
    BY DEF after
  <2> QED BY <1>2, <1>3, <2>1, RelayStands
<1> QED BY <1>4 DEF Passed, OnlyTold, Unconcerned, CallOps, EndOps

LEMMA ReplyUnconcerned ==
    ASSUME NEW s \in Slots, NEW e, Shaped(e), e.calls = calls,
           \A r \in Slots \ {s} : e.out[r] # out[r] => e.out[r].kind = "notify" /\ e.out[r].op \notin CallOps,
           NEW p, Commit(Reply(e, s, p)), clients'[s] # FreeClient,
           NEW q, p.kind = "ok" => q.op \notin CallOps
    PROVE  Unconcerned(s, q)
<1>1. calls' = e.calls /\ \A r \in Slots : out'[r] = IF r = s THEN p ELSE e.out[r]
  BY ReplyStands
<1> QED BY <1>1 DEF Unconcerned, CallOps, EndOps

Concerns(s, q) == Unconcerned(s, q) \/ Calling(s, q) \/ Forwards(s, q)

\* Chat: the receivers get a note that is about no call.
LEMMA AcknowledgeUnconcerned ==
    ASSUME NEW s \in Slots, NEW t, Shaped(t), t.calls = calls, \A r \in Slots \ {s} : t.out[r] = out[r],
           NEW notes, \A w \in DOMAIN notes : notes[w] \in Notifies /\ notes[w].op \notin CallOps,
           NEW p, Commit(Acknowledge(t, s, p, notes)), clients'[s] # FreeClient, NEW q, q.op \notin CallOps
    PROVE  Unconcerned(s, q)
<1>1. CanQueue(t, s)
  <2>1. ASSUME ~CanQueue(t, s) PROVE FALSE
    <3>1. Commit(CloseClient(t, s))
      BY <2>1 DEF Acknowledge
    <3>2. clients'[s] = FreeClient
      BY <3>1, CloseForgets DEF Commit, CloseClient
    <3> QED BY <3>2
  <2> QED BY <2>1
<1> DEFINE e == [t EXCEPT !.out[s] = p]
<1>2. Shaped(e) /\ e.calls = t.calls /\ \A r \in Slots : e.out[r] = IF r = s THEN p ELSE t.out[r]
  BY DEF Shaped, IsTables, Fields
<1>3. Commit(Tell(e, notes))
  BY <1>1 DEF Acknowledge, Reply
<1> HIDE DEF e
<1>4. calls' = calls
  BY <1>2, <1>3, TellCalls DEF Commit
<1>5. ASSUME NEW r \in Slots \ {s}, out'[r] # out[r]
      PROVE  out'[r].kind = "notify" /\ out'[r].op \notin CallOps
  <2>1. out'[r] = Tell(e, notes).out[r] /\ e.out[r] = out[r]
    BY <1>2, <1>3 DEF Commit
  <2>2. /\ e.clients[r].user \in DOMAIN notes
        /\ out'[r] = Addressing(notes[e.clients[r].user], e.clients[r].user, e.clients[r].session)
    BY <1>2, <1>5, <2>1, TellTells
  <2> QED BY <2>2, PacketFields
<1> QED BY <1>4, <1>5 DEF Unconcerned, CallOps, EndOps

LEMMA InviteConcerns ==
    ASSUME IInv, NEW s \in Slots, NEW t, NEW q \in Request, q.op = "invite", Invite(s, t, q.to), clients'[s] # FreeClient,
           q.to \in Users
    PROVE  Calling(s, q)
<1> DEFINE me == t.clients[s].user
           c == [id |-> ids.call, caller |-> me, callee |-> q.to, accepted |-> FALSE]
           note == Notify("invite", ids.call)
           p == Response("ok", "invite", ids.call)
           after == [t EXCEPT !.calls = @ \cup {c}]
<1>1. /\ Serve(s, t) /\ me # NoUser /\ ~Busy(t, me) /\ ~Busy(t, q.to)
      /\ Commit(Relay(t, s, q.to, note, after, p))
  BY DEF Invite
<1>2. Shaped(t) /\ t.clients = clients /\ t.calls = calls
  BY <1>1, FlushedOthers
<1>3. ids.call \in Nat /\ me \in Users
  BY <1>1, <1>2 DEF IInv, RestTypeOK, SoundTables, Sound, SoundBut, TablesType, Tables, Client
<1>4. c \in Call /\ Parties(c) = {me, q.to} /\ c.id = ids.call
  BY <1>3 DEF Call, Parties
<1>5. note \in Notifies /\ note.op = "invite" /\ note.id = ids.call
  BY <1>3, ConstantTypes DEF Notify, NoPacket, Ops, CallOps
<1>6. p.kind = "ok" /\ p.id = ids.call
  BY PacketFields
<1>7. Shaped(after) /\ after.clients = t.clients /\ after.out = t.out /\ after.calls = calls \cup {c}
  <2> HIDE DEF c
  <2>1. after.calls = t.calls \cup {c}
    BY <1>2 DEF Shaped, IsTables, Fields
  <2> QED BY <1>2, <2>1, ExceptCalls
<1>8. \A d \in calls : Parties(d) \cap Parties(c) = {}
  BY <1>1, <1>2, <1>4 DEF Busy
<1> HIDE DEF note, p, after, c
<1>9. Passed(s, q.to, note.op, note.id) /\ calls' = after.calls
  BY <1>1, <1>5, <1>6, <1>7, RelayStands
<1> QED BY <1>2, <1>4, <1>5, <1>7, <1>8, <1>9 DEF Calling

LEMMA ForwardConcerns ==
    ASSUME IInv, NEW s \in Slots, NEW t, NEW q \in Request, NEW c \in calls, c.id = q.id, ForwardCall(s, t, c, q.op),
           clients'[s] # FreeClient, \A u \in Parties(c) : Online(Tables, u)
    PROVE  Forwards(s, q)
<1> DEFINE me == t.clients[s].user
           u == Peer(c, me)
           note == Notify(q.op, c.id)
           p == Response("ok", q.op, c.id)
           after == AfterCallOp(t, c, q.op)
           kept == IF q.op \in EndOps THEN {} ELSE IF q.op = "accept" THEN {[c EXCEPT !.accepted = TRUE]} ELSE {c}
<1>1. Serve(s, t) /\ q.op \in CallOps \ {"invite"} /\ MaySend(c, me, q.op)
  BY DEF ForwardCall
<1>2. Shaped(t) /\ t.clients = clients /\ t.calls = calls
  BY <1>1, FlushedOthers
<1>3. c \in Call /\ u \in Parties(c) /\ u \in Users /\ me \in Parties(c)
  BY <1>1, StateFacts DEF Call, Peer, Parties, MaySend
<1>4. Online(t, u)
  BY <1>2, <1>3 DEF Online, IsClient, Tables
<1>5. Commit(Relay(t, s, u, note, after, p))
  BY <1>4 DEF ForwardCall
<1>6. note \in Notifies /\ note.op = q.op /\ note.id = q.id
  BY <1>3, ConstantTypes DEF Notify, NoPacket, Request, Call
<1>7. p.kind = "ok" /\ p.id = q.id
  BY PacketFields
<1>8. Shaped(after) /\ after.clients = t.clients /\ after.out = t.out /\ after.calls = (calls \ {c}) \cup kept
  <2>1. after = [t EXCEPT !.calls = (@ \ {c}) \cup kept]
    BY DEF AfterCallOp
  <2> HIDE DEF kept, after
  <2>2. after.calls = (t.calls \ {c}) \cup kept
    BY <1>2, <2>1 DEF Shaped, IsTables, Fields
  <2> QED BY <1>2, <2>1, <2>2, ExceptCalls
<1>9. \/ q.op \in EndOps /\ kept = {}
      \/ q.op \notin EndOps /\ \E d : d.id = c.id /\ Parties(d) = Parties(c) /\ kept = {d}
  <2>1. CASE q.op \in EndOps
    BY <2>1
  <2>2. CASE q.op \notin EndOps /\ q.op = "accept"
    <3> DEFINE d == [c EXCEPT !.accepted = TRUE]
    <3>1. d.id = c.id /\ Parties(d) = Parties(c)
      BY <1>3 DEF Call, Parties
    <3>2. kept = {d}
      BY <2>2
    <3> QED BY <2>2, <3>1, <3>2
  <2>3. CASE q.op \notin EndOps /\ q.op # "accept"
    BY <2>3
  <2> QED BY <2>1, <2>2, <2>3
<1> HIDE DEF note, p, after, u, kept
<1>10. Passed(s, u, note.op, note.id) /\ calls' = after.calls
  BY <1>1, <1>3, <1>5, <1>6, <1>7, <1>8, RelayStands
<1>11. \/ q.op \in EndOps /\ calls' = calls \ {c}
       \/ q.op \notin EndOps /\ \E d : d.id = c.id /\ Parties(d) = Parties(c) /\ calls' = (calls \ {c}) \cup {d}
  BY <1>8, <1>9, <1>10
<1> QED BY <1>1, <1>2, <1>3, <1>6, <1>10, <1>11 DEF Forwards, u

LEMMA HandleConcerns ==
    ASSUME IInv, NEW s \in Slots, NEW t, NEW q \in Request, Sensible(q), Handle(s, t, q), clients'[s] # FreeClient,
           \A c \in calls : \A u \in Parties(c) : Online(Tables, u)
    PROVE  Concerns(s, q)
<1>1. Serve(s, t)
  BY Zenon DEF Handle, Chat, Invite, StartFile, RelayChunk, DropFile, CompleteFile, ForwardCall
<1>2. Shaped(t) /\ t.clients = clients /\ t.calls = calls /\ \A r \in Slots \ {s} : t.out[r] = out[r]
  BY <1>1, FlushedOthers
<1>3. \A op \in Ops, id \in Nat : Notify(op, id) \in Notifies /\ Notify(op, id).op = op /\ Notify(op, id).id = id
  BY ConstantTypes DEF Notify, NoPacket
<1>4. \A k \in {"ok", "error"} : \A op, id : Response(k, op, id).kind = k /\ Response(k, op, id).id = id
  BY PacketFields
<1>5. /\ transfers \subseteq Transfer /\ messages \in Seq(Message) /\ ids.transfer \in Nat
  BY DEF IInv, RestTypeOK, SoundTables, Sound, SoundBut, TablesType, Tables
<1>6. {"chat", "file-start", "file-chunk", "file-complete"} \cap CallOps = {}
      /\ {"chat", "file-start", "file-chunk", "file-complete"} \subseteq Ops
  BY DEF CallOps, EndOps, RelayOps, Ops
<1>7. CASE q.op = "chat" /\ Chat(s, t, q.to)
  <2> DEFINE m == Len(messages) + 1
             notes == [u \in {q.to} |-> Notify("chat", m)]
             p == Response("ok", "chat", m)
  <2>1. m \in Nat
    BY <1>5
  <2>2. Commit(Acknowledge(t, s, p, notes))
    BY <1>7 DEF Chat
  <2>3. \A w \in DOMAIN notes : notes[w] \in Notifies /\ notes[w].op \notin CallOps
    BY <1>3, <1>6, <2>1
  <2> HIDE DEF m, notes, p
  <2>4. q.op \notin CallOps
    BY <1>6, <1>7
  <2> QED BY <1>2, <2>2, <2>3, <2>4, AcknowledgeUnconcerned DEF Concerns
<1>8. CASE q.op = "invite" /\ Invite(s, t, q.to)
  BY <1>8, InviteConcerns DEF Sensible, Concerns
<1>9. CASE q.op = "file-start" /\ StartFile(s, t, q.to, q.len)
  <2> DEFINE note == StartNotify(ids.transfer, q.len)
             p == Response("ok", "file-start", ids.transfer)
             x == [id |-> ids.transfer, row |-> Len(fileRows) + 1, sender |-> t.clients[s].user, receiver |-> q.to,
                   size |-> q.len, seen |-> 0, next |-> 0]
             X == t.transfers \cup {x}
  <2>1. Commit(Relay(t, s, q.to, note, [t EXCEPT !.transfers = X], p))
    BY <1>9 DEF StartFile
  <2>2. q.to \in Users /\ q.len \in Nat
    BY <1>9, ServerAssumption DEF Sensible
  <2>3. note \in Notifies /\ note.op = "file-start" /\ note.id = ids.transfer
    BY <1>5, <2>2, ConstantTypes DEF StartNotify, Notify, NoPacket
  <2>4. p.kind = "ok" /\ p.id = ids.transfer
    BY <1>4
  <2>5. q.op \notin CallOps /\ note.op \notin CallOps
    BY <1>6, <1>9, <2>3
  <2> HIDE DEF note, p, X
  <2> QED BY <1>1, <2>1, <2>2, <2>3, <2>4, <2>5, FileRelayStands DEF Concerns
<1>10. ASSUME q.op = "file-chunk", NEW x \in transfers, x.id = q.id, RelayChunk(s, t, x, q.len)
       PROVE  Concerns(s, q)
  <2> DEFINE note == ChunkNotify(x.id, x.next, q.len)
             p == Response("ok", "file-chunk", x.id)
             X == (t.transfers \ {x}) \cup {[x EXCEPT !.seen = @ + q.len, !.next = @ + 1]}
  <2>1. Commit(Relay(t, s, x.receiver, note, [t EXCEPT !.transfers = X], p))
    BY <1>10 DEF RelayChunk
  <2>2. x.receiver \in Users /\ x.id \in Nat /\ x.next \in Nat /\ q.len \in Nat
    BY <1>5 DEF Transfer, Request
  <2>3. note \in Notifies /\ note.op = "file-chunk" /\ note.id = x.id
    BY <2>2, ConstantTypes DEF ChunkNotify, Notify, NoPacket
  <2>4. p.kind = "ok" /\ p.id = x.id
    BY <1>4
  <2>5. q.op \notin CallOps /\ note.op \notin CallOps
    BY <1>6, <1>10, <2>3
  <2> HIDE DEF note, p, X
  <2> QED BY <1>1, <2>1, <2>2, <2>3, <2>4, <2>5, FileRelayStands DEF Concerns
<1>11. ASSUME q.op = "file-chunk", NEW x \in transfers, DropFile(s, t, x, q.index, q.len)
       PROVE  Concerns(s, q)
  <2> DEFINE p == Response("error", "file-chunk", x.id)
             e == [t EXCEPT !.transfers = @ \ {x}]
  <2>1. Commit(Reply(e, s, p))
    BY <1>11 DEF DropFile
  <2>2. Shaped(e) /\ e.out = t.out /\ e.calls = calls
    BY <1>2, ExceptRelays DEF Shaped, IsTables, Fields
  <2>3. p.kind = "error"
    BY <1>4
  <2> HIDE DEF p, e
  <2> QED BY <1>2, <2>1, <2>2, <2>3, ReplyUnconcerned DEF Concerns
<1>12. ASSUME q.op = "file-complete", NEW x \in transfers, CompleteFile(s, t, x)
       PROVE  Concerns(s, q)
  <2> DEFINE note == Notify("file-complete", x.id)
             notes == [v \in {x.receiver} |-> note]
             p == Response("ok", "file-complete", x.id)
             told == TellOne(t, x.receiver, note)
             e == [told EXCEPT !.transfers = @ \ {x}]
  <2>1. Commit(Reply(e, s, p))
    BY <1>12 DEF CompleteFile
  <2>2. told = Tell(t, notes) /\ DOMAIN notes = {x.receiver} /\ notes[x.receiver] = note
    BY DEF TellOne
  <2>3. note \in Notifies /\ note.op = "file-complete"
    BY <1>3, <1>5, <1>6 DEF Transfer
  <2> HIDE DEF note, notes, told
  <2>4. Shaped(told) /\ told.calls = calls
    BY <1>2, <2>2, TellTame, TellCalls
  <2>5. Shaped(e) /\ e.out = told.out /\ e.calls = calls
    BY <2>4, ExceptRelays DEF Shaped, IsTables, Fields
  <2> HIDE DEF p, e
  <2>6. ASSUME NEW r \in Slots \ {s}, e.out[r] # out[r]
        PROVE  e.out[r].kind = "notify" /\ e.out[r].op \notin CallOps
    <3>1. e.out[r] = Addressing(note, t.clients[r].user, t.clients[r].session)
      <4>1. told.out[r] # t.out[r]
        BY <1>2, <2>5, <2>6
      <4>2. /\ t.clients[r].user \in DOMAIN notes
            /\ told.out[r] = Addressing(notes[t.clients[r].user], t.clients[r].user, t.clients[r].session)
        BY <1>2, <2>2, <4>1, TellTells
      <4> QED BY <2>2, <2>5, <4>2
    <3> QED BY <1>6, <2>3, <3>1, PacketFields
  <2>7. q.op \notin CallOps
    BY <1>6, <1>12
  <2> QED BY <2>1, <2>5, <2>6, <2>7, ReplyUnconcerned DEF Concerns
<1>13. ASSUME NEW c \in calls, c.id = q.id, ForwardCall(s, t, c, q.op)
       PROVE  Concerns(s, q)
  BY <1>13, ForwardConcerns DEF Concerns
<1> QED BY <1>7, <1>8, <1>9, <1>10, <1>11, <1>12, <1>13 DEF Handle

\* A visit on which nothing is handled.
Passes(s, t) ==
    /\ calls' = calls /\ up' = up /\ out'[s] = t.out[s]
    /\ \A r \in Slots \ {s} : out'[r] = out[r]

LEMMA VisitConcerns ==
    ASSUME IInv, LinksTypeOK, Asked, NEW s \in Slots, turn = s, NEW t \in Flushed(s), ServeLink(s, t),
           clients'[s] # FreeClient, clients'[s].open,
           \A c \in calls : \A u \in Parties(c) : Online(Tables, u)
    PROVE  \/ Passes(s, t)
           \/ /\ up[Seats[s]] # <<>> /\ up' = [up EXCEPT ![Seats[s]] = Tail(@)]
              /\ Concerns(s, Head(up[Seats[s]]))
<1> DEFINE u == Seats[s]
           q == Head(up[u])
<1>1. u \in Users /\ up[u] \in Seq(Request)
  BY SeatedUser DEF LinksTypeOK
<1>2. Serve(s, t)
  BY Zenon DEF ServeLink, Idle, Disconnect, Handle, Decline, Refuse, Chat, Invite, StartFile, RelayChunk, DropFile,
         CompleteFile, ForwardCall
<1>3. Shaped(t) /\ t.clients = clients /\ t.calls = calls /\ \A r \in Slots \ {s} : t.out[r] = out[r]
  BY <1>2, FlushedOthers
<1>4. CASE Idle(s, t) /\ up' = up
  BY <1>3, <1>4 DEF Idle, Commit, Passes
<1>5. CASE ~linked[u] /\ Disconnect(s, t) /\ up' = [up EXCEPT ![u] = <<>>]
  <2>1. clients'[s] = FreeClient
    BY <1>3, <1>5, CloseForgets DEF Disconnect, CloseClient, Commit
  <2> QED BY <2>1
<1>6. CASE /\ up[u] # <<>>
           /\ Handle(s, t, q) \/ Decline(s, t, q)
           /\ up' = [up EXCEPT ![u] = IF clients'[s].open THEN Tail(up[u]) ELSE <<>>]
  <2>1. q \in Request /\ Sensible(q)
    BY <1>1, <1>6, TailOf DEF Asked
  <2>2. CASE Handle(s, t, q)
    BY <1>6, <2>1, <2>2, HandleConcerns
  <2>3. CASE Decline(s, t, q)
    <3> DEFINE p == Response("error", "none", 0)
    <3>1. Commit(Reply(t, s, p))
      BY <2>3 DEF Decline, Refuse
    <3>2. p.kind = "error"
      BY PacketFields
    <3> HIDE DEF p
    <3>3. Unconcerned(s, q)
      BY <1>3, <3>1, <3>2, ReplyUnconcerned
    <3> QED BY <1>6, <3>3 DEF Concerns
  <2> QED BY <1>6, <2>2, <2>3
<1> QED BY <1>4, <1>5, <1>6 DEF ServeLink

-----------------------------------------------------------------------------
(* A window.                                                               *)

\* The requests on their way to the server are the last of those the window has no
\* response for, in this order, and the course of its call is as it should be.
Consistent(call, pend, asked, q, M) ==
    /\ \A i \in DOMAIN asked :
          pend[Answers(q) + i].op = asked[i].op /\ pend[Answers(q) + i].id = asked[i].id
    /\ Story(Course(call, pend, q), Len(q), M)

\* An event e suits a window whose call was in M and is in N when the event is on its way.
Suits(e, M, N) ==
    \/ e.sort = "plain" /\ N = M
    \/ M \subseteq {e.id} /\ (N = {e.id} \/ e.sort = "end")

\* There are as many requests without a response as are on their way, and their responses.
Matched(pend, asked, q) == Len(pend) = Len(asked) + Answers(q)

LEMMA MatchedSend ==
    ASSUME NEW call, NEW was, NEW pend \in Seq(PendingCall), NEW r \in PendingCall, NEW q \in Seq(Packet),
           NEW asked \in Seq(Request), Matched(pend, asked, q), NEW i \in 1 .. Len(q)
    PROVE  Course(call, Append(pend, r), q)[i] = Course(was, pend, q)[i]
<1>1. Answers(q) \in Nat
  BY AnswersAppend, ConstantTypes DEF Responses
<1>2. Len(pend) \in Nat /\ Len(asked) \in Nat
  OBVIOUS
<1>3. Answers(q) <= Len(pend)
  BY <1>1, <1>2 DEF Matched
<1> QED BY <1>3, CourseSend

LEMMA ConsistentGrows ==
    ASSUME NEW call, NEW pend, NEW asked \in Seq(Request), NEW q \in Seq(Packet), NEW M, Consistent(call, pend, asked, q, M),
           NEW o \in Packet, NEW N, NEW k, k = Answers(q) + Weight(o), Suits(Effect(o, pend[k]), M, N), NEW rest,
           \/ ~IsResponse(o) /\ rest = asked
           \/ IsResponse(o) /\ asked # <<>> /\ rest = Tail(asked)
    PROVE  Consistent(call, pend, rest, Append(q, o), N)
<1> DEFINE f == Course(call, pend, q)
           b == Append(q, o)
           g == Course(call, pend, b)
           e == Effect(o, pend[k])
           n == Len(q)
<1>1. n \in Nat /\ Len(b) = n + 1
  OBVIOUS
<1>2. \A i \in 0 .. n : g[i] = f[i]
  BY CourseAppend
<1>3. g[n + 1] = e
  <2>1. Course(call, pend, Append(q, o))[Len(q) + 1] = Effect(o, pend[k])
    BY CourseLast
  <2> QED BY <2>1
<1>4. Answers(q) \in Nat /\ Answers(b) = Answers(q) + Weight(o)
  BY AnswersAppend DEF Weight
<1>5. Story(g, n + 1, N)
  <2>1. Story(f, n, M) /\ Suits(e, M, N)
    BY DEF Consistent
  <2> HIDE DEF f, g, e, n
  <2>2. CASE e.sort = "plain" /\ N = M
    BY <1>1, <1>2, <1>3, <2>1, <2>2, StoryLevel
  <2>3. CASE M \subseteq {e.id} /\ N = {e.id}
    BY <1>1, <1>2, <1>3, <2>1, <2>3, StoryRaise
  <2>4. CASE M \subseteq {e.id} /\ e.sort = "end"
    BY <1>1, <1>2, <1>3, <2>1, <2>4, StoryFall
  <2> QED BY <2>1, <2>2, <2>3, <2>4 DEF Suits
<1> HIDE DEF f, g, e, b
<1>6. ASSUME NEW i \in DOMAIN rest
      PROVE  pend[Answers(b) + i].op = rest[i].op /\ pend[Answers(b) + i].id = rest[i].id
  <2>1. CASE ~IsResponse(o) /\ rest = asked
    <3>1. Answers(b) = Answers(q)
      BY <1>4, <2>1 DEF Weight
    <3> QED BY <1>6, <2>1, <3>1 DEF Consistent
  <2>2. CASE IsResponse(o) /\ asked # <<>> /\ rest = Tail(asked)
    <3>1. Answers(b) = Answers(q) + 1
      BY <1>4, <2>2 DEF Weight
    <3>2. i \in Nat /\ i + 1 \in DOMAIN asked /\ rest[i] = asked[i + 1]
      BY <1>6, <2>2
    <3>3. Answers(b) + i = Answers(q) + (i + 1)
      BY <1>4, <3>1, <3>2
    <3> QED BY <3>2, <3>3 DEF Consistent
  <2> QED BY <2>1, <2>2
<1> QED BY <1>1, <1>5, <1>6 DEF Consistent, g, b

\* Whatever else the window does with its call, it gives it up.
LEMMA ConsistentDrops ==
    ASSUME NEW call, NEW pend, NEW asked, NEW q \in Seq(Packet), NEW M, Consistent(call, pend, asked, q, M),
           NEW now, now \in {call, 0}
    PROVE  Consistent(now, pend, asked, q, M)
<1> DEFINE f == Course(call, pend, q)
           g == Course(now, pend, q)
           n == Len(q)
<1>1. n \in Nat
  OBVIOUS
<1>2. \A i \in 1 .. n : f[i] = Effect(q[i], pend[Rank(q, i)])
  BY CourseIs
<1>3. \A i \in 1 .. n : g[i] = Effect(q[i], pend[Rank(q, i)])
  BY CourseIs
<1>4. f[0] = (IF call = 0 THEN Level ELSE Raises(call)) /\ g[0] = (IF now = 0 THEN Level ELSE Raises(now))
  BY CourseIs
<1>5. Level.sort = "plain"
  BY DEF Level
<1>6. Story(f, n, M)
  BY DEF Consistent
<1> HIDE DEF f, g, n
<1>7. Story(g, n, M)
  BY <1>1, <1>2, <1>3, <1>4, <1>5, <1>6, StoryDrops
<1> QED BY <1>7 DEF Consistent, g, n

LEMMA ConsistentSends ==
    ASSUME NEW call, NEW pend \in Seq(PendingCall), NEW asked \in Seq(Request), NEW q \in Seq(Packet), NEW M,
           Consistent(call, pend, asked, q, M), Matched(pend, asked, q),
           NEW r \in PendingCall, NEW x \in Request, x.op = r.op, x.id = r.id
    PROVE  Consistent(call, Append(pend, r), Append(asked, x), q, M)
<1> DEFINE more == Append(pend, r)
           f == Course(call, pend, q)
           g == Course(call, more, q)
           n == Len(q)
<1>1. n \in Nat /\ Answers(q) \in Nat /\ Len(asked) \in Nat /\ Answers(q) <= Len(pend)
  <2>1. Answers(q) \in Nat
    BY AnswersAppend, ConstantTypes DEF Responses
  <2> QED BY <2>1 DEF Matched
<1>2. ASSUME NEW i \in 1 .. Len(q) PROVE g[i] = f[i]
  <2>1. Course(call, Append(pend, r), q)[i] = Course(call, pend, q)[i]
    BY MatchedSend
  <2> QED BY <2>1
<1>3. f[0] = g[0]
  <2> HIDE DEF more
  <2> QED BY CourseIs
<1>4. Story(f, n, M)
  BY DEF Consistent
<1>5. Story(g, n, M)
  <2>1. \A i \in 1 .. n : g[i] = f[i]
    BY <1>2
  <2> HIDE DEF f, g, n
  <2> QED BY <1>1, <1>3, <1>4, <2>1, StoryDrops
<1>6. ASSUME NEW i \in DOMAIN Append(asked, x)
      PROVE  more[Answers(q) + i].op = Append(asked, x)[i].op /\ more[Answers(q) + i].id = Append(asked, x)[i].id
  <2> DEFINE k == Answers(q) + i
  <2>1. CASE i \in DOMAIN asked
    <3>1. Append(asked, x)[i] = asked[i]
      BY <2>1
    <3>2. k \in 1 .. Len(pend)
      BY <1>1, <2>1 DEF Matched
    <3>3. more[k] = pend[k]
      <4> HIDE DEF k
      <4> QED BY <3>2
    <3> QED BY <2>1, <3>1, <3>3 DEF Consistent
  <2>2. CASE i = Len(asked) + 1
    <3>1. Append(asked, x)[i] = x
      BY <2>2
    <3>2. k = Len(pend) + 1
      BY <1>1, <2>2 DEF Matched
    <3>3. more[k] = r
      <4> HIDE DEF k
      <4> QED BY <3>2
    <3> QED BY <3>1, <3>3
  <2>3. i \in DOMAIN asked \/ i = Len(asked) + 1
    OBVIOUS
  <2> QED BY <2>1, <2>2, <2>3
<1> QED BY <1>5, <1>6 DEF Consistent

LEMMA EffectShape ==
    ASSUME NEW p, NEW r
    PROVE  LET e == Effect(p, r)
           IN  (e.sort = "raise" /\ e = Raises(e.id)) \/ e.sort = "end" \/ e.sort = "plain"
<1>1. \/ \E id : Effect(p, r) = Raises(id)
      \/ \E id : Effect(p, r) = Falls(id)
      \/ Effect(p, r) = Level
  BY DEF Effect
<1> QED BY <1>1 DEF Raises, Falls, Level

LEMMA ConsistentReads ==
    ASSUME NEW call, NEW pend \in Seq(PendingCall), NEW asked \in Seq(Request), NEW q \in Seq(Packet), NEW M,
           Consistent(call, pend, asked, q, M), Matched(pend, asked, q), q # <<>>, NEW now,
           LET e == Effect(Head(q), Head(pend))
           IN  now = (IF e.sort = "raise" THEN e.id ELSE IF e.sort = "end" THEN 0 ELSE call) \/ (now = 0 /\ e.sort = "plain")
    PROVE  Consistent(now, IF IsResponse(Head(q)) THEN Tail(pend) ELSE pend, asked, Tail(q), M)
<1> DEFINE rest == IF IsResponse(Head(q)) THEN Tail(pend) ELSE pend
           b == Tail(q)
           f == Course(call, pend, q)
           g == Course(now, rest, b)
           e == Effect(Head(q), Head(pend))
           n == Len(b)
<1>1. n \in Nat /\ Len(q) = n + 1 /\ Len(asked) \in Nat /\ b \in Seq(Packet)
  OBVIOUS
<1>2. Answers(q) \in Nat /\ Answers(b) \in Nat /\ Answers(q) = Answers(b) + Weight(Head(q)) /\ Answers(q) <= Len(pend)
  <2>1. Answers(q) \in Nat /\ Answers(b) \in Nat /\ Answers(q) = Answers(b) + Weight(Head(q))
    BY AnswersTail DEF Weight
  <2> HIDE DEF b
  <2> QED BY <1>1, <2>1 DEF Matched
<1>3. f[1] = e /\ \A i \in 1 .. n : g[i] = f[i + 1]
  <2>1. Answers(q) <= Len(pend)
    BY <1>2
  <2>2. f[1] = e
    BY <2>1, CourseRead, Zenon
  <2>3. ASSUME NEW i \in 1 .. n PROVE g[i] = f[i + 1]
    BY <2>1, CourseRead, ZenonT(60)
  <2> QED BY <2>2, <2>3
<1>4. f[0] = (IF call = 0 THEN Level ELSE Raises(call)) /\ g[0] = (IF now = 0 THEN Level ELSE Raises(now))
  <2> HIDE DEF b, rest
  <2> QED BY <1>1, CourseIs
<1>5. Level.sort = "plain"
  BY DEF Level
<1>6. Story(f, n + 1, M)
  BY <1>1 DEF Consistent
<1>7. (e.sort = "raise" /\ e = Raises(e.id)) \/ e.sort = "end" \/ e.sort = "plain"
  BY EffectShape
<1>8. now = (IF e.sort = "raise" THEN e.id ELSE IF e.sort = "end" THEN 0 ELSE call) \/ (now = 0 /\ e.sort = "plain")
  OBVIOUS
<1>9. Story(g, n, M)
  <2> HIDE DEF f, g, e, n
  <2>1. CASE now = 0
    BY <1>1, <1>3, <1>4, <1>5, <1>6, <2>1, StoryRead
  <2>2. CASE now # 0 /\ e.sort = "raise"
    <3>1. g[0] = f[1]
      BY <1>3, <1>4, <1>7, <1>8, <2>2
    <3> QED BY <1>1, <1>3, <1>6, <3>1, StoryRead
  <2>3. CASE now # 0 /\ e.sort # "raise"
    <3>1. f[1].sort = "plain" /\ g[0] = f[0]
      BY <1>3, <1>4, <1>7, <1>8, <2>3
    <3> QED BY <1>1, <1>3, <1>6, <3>1, StoryRead
  <2> QED BY <2>1, <2>2, <2>3
<1> HIDE DEF g
<1>10. ASSUME NEW i \in DOMAIN asked
       PROVE  rest[Answers(b) + i].op = asked[i].op /\ rest[Answers(b) + i].id = asked[i].id
  <2>1. pend[Answers(q) + i].op = asked[i].op /\ pend[Answers(q) + i].id = asked[i].id
    BY <1>10 DEF Consistent
  <2> DEFINE d == Answers(b)
             c == Answers(q)
  <2>2. d \in Nat /\ c = d + Weight(Head(q)) /\ i \in Nat /\ i >= 1 /\ i <= Len(asked) /\ Len(pend) = Len(asked) + c
    BY <1>2 DEF Matched
  <2> HIDE DEF d, c, b
  <2>3. rest[d + i] = pend[c + i]
    <3>1. CASE IsResponse(Head(q))
      <4>1. rest = Tail(pend) /\ c = d + 1
        BY <2>2, <3>1 DEF Weight
      <4> DEFINE k == d + i
      <4>2. k \in 1 .. Len(pend) - 1 /\ c + i = k + 1
        <5> HIDE DEF rest
        <5>1. Len(pend) \in Nat /\ Len(asked) \in Nat
          OBVIOUS
        <5>2. c = d + 1 /\ d \in Nat /\ i \in Nat /\ i >= 1 /\ i <= Len(asked) /\ Len(pend) = Len(asked) + c
          BY <2>2, <4>1
        <5>3. c + i = k + 1
          BY <5>2
        <5>4. k >= 1 /\ k <= Len(pend) - 1 /\ k \in Int
          BY <5>1, <5>2
        <5> QED BY <5>1, <5>3, <5>4
      <4> HIDE DEF k, rest
      <4>3. Tail(pend)[k] = pend[k + 1]
        BY <4>2
      <4>4. rest[k] = pend[k + 1]
        BY <4>1, <4>3
      <4> QED BY <4>2, <4>4 DEF k
    <3>2. CASE ~IsResponse(Head(q))
      BY <2>2, <3>2 DEF Weight
    <3> QED BY <3>1, <3>2
  <2> QED BY <2>1, <2>3 DEF d, c
<1> QED BY <1>9, <1>10 DEF Consistent, g

-----------------------------------------------------------------------------
(* The windows' calls among the steps, while everybody is there.           *)

\* The call of user u on the server.
Mine(u) == {c.id : c \in {d \in calls : u \in Parties(d)}}

\* What is on its way are packets.
Worded(q) == \A i \in DOMAIN q : q[i].kind # "none"

WindowSound(u) ==
    /\ Consistent(gui[u].call, gui[u].pending, up[u], InFlight(u), Mine(u))
    /\ Worded(InFlight(u))

\* Whoever is connected, or in a call, has been there from the start.
Peopled ==
    /\ \A s \in Slots : clients[s].open => job[Seats[s]].program # "none"
    /\ \A c \in calls : \A u \in Parties(c) : job[u].program # "none"

WindowsSound == \A u \in Users : IsGui(u) => WindowSound(u)

CallsInv ==
    /\ \A u \in Users : ~IsGui(u) => gui[u].call = 0
    /\ OnTheLine => Peopled /\ WindowsSound

LEMMA OnTheLineSeat ==
    ASSUME ClientsInv, OnTheLine, NEW u \in Users, job[u].program # "none"
    PROVE  linked[u] /\ Connected(u) /\ \E s \in Slots : Seats[s] = u /\ IsClient(Tables, s, u)
<1>1. linked[u] /\ Connected(u)
  BY DEF OnTheLine
<1>2. PICK s \in Slots : Seats[s] = u
  BY <1>1 DEF ClientsInv, Playing
<1>3. clients[s].open /\ clients[s].user = u
  BY <1>1, <1>2, InFlightIs
<1> QED BY <1>1, <1>2, <1>3 DEF IsClient, Tables

LEMMA WindowMatched ==
    ASSUME ClientsInv, NEW u \in Users, IsGui(u), linked[u], Connected(u)
    PROVE  Matched(gui[u].pending, up[u], InFlight(u))
<1>1. Pending(u) = Len(up[u]) + Answers(InFlight(u))
  BY DEF ClientsInv, Balanced
<1> QED BY <1>1 DEF Pending, Matched

\* A step of a command is none of a window.
LEMMA CliMoves ==
    ASSUME ClientsInv, NEW u \in Users, CliStep(u)
    PROVE  /\ UNCHANGED <<vars, job>> /\ ~IsGui(u)
           /\ linked'[u] => linked[u]
           /\ \A v \in Users \ {u} : up'[v] = up[v] /\ down'[v] = down[v] /\ linked'[v] = linked[v]
<1>1. LinksTypeOK /\ Commanded(u) /\ up \in [Users -> Seq(Request)] /\ down \in [Users -> Seq(Packet)]
      /\ linked \in [Users -> BOOLEAN]
  BY DEF ClientsInv, LinksTypeOK
<1>2. UNCHANGED <<vars, job>>
  BY DEF CliStep, Begin, Proceed, Fail, Hear, ListenEnds, ListenerKilled
<1>3. ~IsGui(u)
  <2>1. CASE cli[u].waiting \/ cli[u].asks \in {"chat", "file-start"}
    BY <1>1, <2>1 DEF Commanded, IsGui
  <2>2. CASE Listening(u)
    BY <2>2 DEF Listening, IsGui
  <2> QED BY <2>1, <2>2 DEF CliStep, Begin, Proceed, Fail, Hear, ListenEnds, ListenerKilled
<1>4. linked' = linked \/ linked' = [linked EXCEPT ![u] = FALSE]
  BY DEF CliStep, Begin, Proceed, Fail, Hear, ListenEnds, ListenerKilled, Leave
<1>5. up' = up \/ \E q : up' = [up EXCEPT ![u] = Append(@, q)]
  BY DEF CliStep, Begin, Proceed, Fail, Hear, ListenEnds, ListenerKilled, Send
<1>6. down' = down \/ \E d : down' = [down EXCEPT ![u] = d]
  BY DEF CliStep, Begin, Proceed, Fail, Hear, ListenEnds, ListenerKilled, Leave, Take
<1> QED BY <1>1, <1>2, <1>3, <1>4, <1>5, <1>6

\* What a visit leaves of the connections.
LEMMA VisitConnects ==
    ASSUME ClientsInv, NEW s \in Slots, turn = s, NEW t \in Flushed(s), ServeLink(s, t)
    PROVE  \A r \in Slots : clients'[r] = clients[r] \/ (r = s /\ clients'[r] = FreeClient)
<1>1. OthersNotified(s) /\ (clients'[s] = clients[s] \/ clients'[s] = FreeClient)
  BY ServeLinkVisits DEF ClientsInv
<1> QED BY <1>1 DEF OthersNotified

\* Nobody joins.
LEMMA OnTheLineBefore ==
    ASSUME ClientsInv, [ClientsNext]_clientsVars, OnTheLine'
    PROVE  OnTheLine
<1>1. ASSUME clients' = clients, job' = job, \A u \in Users : linked'[u] => linked[u] PROVE OnTheLine
  <2> SUFFICES ASSUME NEW u \in Users, job[u].program # "none" PROVE linked[u] /\ Connected(u)
    BY DEF OnTheLine
  <2>1. SeatOf(u)' = SeatOf(u)
    BY DEF SeatOf
  <2>2. Connected(u)' = Connected(u)
    BY <1>1, <2>1 DEF Connected, IsClient, Tables
  <2> QED BY <1>1, <2>2 DEF OnTheLine
<1>2. ASSUME NEW s \in Slots, turn = s, NEW t \in Flushed(s), ServeLink(s, t) PROVE OnTheLine
  <2> SUFFICES ASSUME NEW u \in Users, job[u].program # "none" PROVE linked[u] /\ Connected(u)
    BY DEF OnTheLine
  <2>1. linked' = linked /\ job' = job
    BY <1>2 DEF ServeLink
  <2>2. linked[u] /\ Connected(u)'
    BY <2>1 DEF OnTheLine
  <2>3. PICK r \in Slots : Seats[r] = u
    BY <2>2 DEF ClientsInv, Playing
  <2>4. clients'[r].open /\ clients'[r].user = u
    BY <2>2, <2>3, InFlightIs
  <2>5. clients'[r] = clients[r]
    BY <1>2, <2>4, VisitConnects DEF FreeClient
  <2> QED BY <2>2, <2>3, <2>4, <2>5, InFlightIs
<1>3. CASE ServerStep
  <2>1. CASE (AcceptDone \/ Sweep \/ \E s \in Slots : SkipClosed(s)) /\ UNCHANGED links
    BY <1>1, <2>1 DEF AcceptDone, Sweep, SkipClosed, links
  <2> QED BY <1>2, <1>3, <2>1 DEF ServerStep
<1>4. ASSUME NEW u \in Users, CliStep(u) PROVE OnTheLine
  <2>1. clients' = clients /\ job' = job /\ \A v \in Users : linked'[v] => linked[v]
    BY <1>4, CliMoves DEF vars
  <2> QED BY <1>1, <2>1
<1>5. ASSUME NEW u \in Users, GuiStep(u) PROVE OnTheLine
  <2>1. clients' = clients /\ job' = job /\ \A v \in Users : linked'[v] => linked[v]
    BY <1>5, GuiMoves DEF Moves, vars
  <2> QED BY <1>1, <2>1
<1>6. CASE UNCHANGED clientsVars
  BY <1>1, <1>6 DEF clientsVars, vars, links
<1> QED BY <1>3, <1>4, <1>5, <1>6 DEF ClientsNext

\* Whoever takes no part in a step has the window that was.
LEMMA WindowStays ==
    ASSUME UNCHANGED vars, NEW u \in Users, gui'[u] = gui[u], up'[u] = up[u], down'[u] = down[u], WindowSound(u)
    PROVE  WindowSound(u)'
<1>1. InFlight(u)' = InFlight(u) /\ calls' = calls
  BY FlightStays DEF vars
<1>2. Mine(u)' = Mine(u)
  BY <1>1 DEF Mine
<1> QED BY <1>1, <1>2 DEF WindowSound

\* The window's side of a request, sent or taken back.
LEMMA WindowQueues ==
    ASSUME ClientsInv, ClientsInv', NEW u \in Users, Local(u), Connected(u), WindowSound(u),
           NEW op \in CallOps, NEW id \in Nat, NEW to \in Users \cup {NoUser}, NEW sent \in Window, NEW failed \in Window,
           sent.pending = gui[u].pending, failed.pending = gui[u].pending,
           sent.call \in {gui[u].call, 0}, failed.call \in {gui[u].call, 0}, Queue(u, op, id, to, sent, failed)
    PROVE  WindowSound(u)'
<1> DEFINE none == NoRequest
           x == [none EXCEPT !.op = op, !.id = id, !.to = to]
           r == [op |-> op, id |-> id]
           q == InFlight(u)
           w == gui[u]
           M == Mine(u)
<1>1. gui \in [Users -> Window] /\ up \in [Users -> Seq(Request)] /\ w \in Window
  BY DEF ClientsInv, GuiTypeOK, LinksTypeOK
<1>2. UNCHANGED <<vars, job, down, linked>> /\ IsGui(u) /\ linked[u]
  BY DEF Local, Using
<1>3. q \in Seq(Packet) /\ Matched(w.pending, up[u], q)
  BY <1>2, FlightTyped, WindowMatched
<1>4. InFlight(u)' = q /\ Mine(u)' = M
  BY <1>2, FlightStays DEF vars, Mine
<1>5. x \in Request /\ x.op = op /\ x.id = id
  <2>1. none \in Request /\ op \in Ops
    BY NoRequestTyped DEF Ops, CallOps
  <2> HIDE DEF none
  <2> QED BY <2>1 DEF Request
<1>6. w.pending \in Seq(PendingCall) /\ r \in PendingCall /\ r.op = op /\ r.id = id
  BY <1>1, WindowFields DEF PendingCall
<1>7. Consistent(w.call, w.pending, up[u], q, M) /\ Worded(q)
  BY DEF WindowSound
<1>8. CASE Send(u, x) /\ gui' = [gui EXCEPT ![u] = [sent EXCEPT !.pending = Append(@, r)]]
  <2> HIDE DEF x, r, q, M
  <2>1. up'[u] = Append(up[u], x)
    BY <1>1, <1>8 DEF Send
  <2> DEFINE after == [sent EXCEPT !.pending = Append(@, r)]
  <2>2. after.call = sent.call /\ after.pending = Append(w.pending, r)
    BY DEF Window
  <2>3. gui'[u] = after
    BY <1>1, <1>8
  <2> HIDE DEF after, w
  <2>4. Consistent(w.call, Append(w.pending, r), Append(up[u], x), q, M)
    <3>1. up[u] \in Seq(Request)
      BY <1>1
    <3>2. x.op = r.op /\ x.id = r.id
      BY <1>5, <1>6
    <3> QED BY <1>3, <1>5, <1>6, <1>7, <3>1, <3>2, ConsistentSends
  <2>5. sent.call \in {w.call, 0}
    BY DEF w
  <2>6. Consistent(sent.call, Append(w.pending, r), Append(up[u], x), q, M)
    BY <1>3, <2>4, <2>5, ConsistentDrops
  <2> QED BY <1>4, <1>7, <2>1, <2>2, <2>3, <2>6 DEF WindowSound
<1>9. CASE gui' = [gui EXCEPT ![u] = failed] /\ up' = up
  <2> HIDE DEF q, M
  <2>1. gui'[u] = failed
    BY <1>1, <1>9
  <2>2. failed.call \in {w.call, 0} /\ failed.pending = w.pending
    OBVIOUS
  <2> HIDE DEF w
  <2>3. Consistent(failed.call, w.pending, up[u], q, M)
    BY <1>3, <1>7, <2>2, ConsistentDrops
  <2> QED BY <1>4, <1>7, <1>9, <2>1, <2>2, <2>3 DEF WindowSound
<1> QED BY <1>8, <1>9 DEF Queue

LEMMA ClickSound ==
    ASSUME ClientsInv, ClientsInv', NEW u \in Users, Connected(u), WindowSound(u),
           ClickInvite(u) \/ ClickAccept(u) \/ (\E op \in EndOps : ClickEnd(u, op)) \/ SignalReady(u)
    PROVE  WindowSound(u)'
<1>1. /\ gui[u] \in Window /\ NoCall(gui[u]) \in Window /\ NoCall(gui[u]).pending = gui[u].pending
      /\ gui[u].call \in Nat /\ audio[u].ready \in Seq(RelayOps)
  BY WindowFields DEF ClientsInv, GuiTypeOK, Session
<1>2. NoCall(gui[u]).call = 0
  BY <1>1 DEF Window, NoCall
<1>3. CASE ClickInvite(u)
  <2>1. PICK to \in Users \ {u} : Queue(u, "invite", 0, to, gui[u], NoCall(gui[u]))
    BY <1>3 DEF ClickInvite
  <2>2. Local(u) /\ "invite" \in CallOps /\ 0 \in Nat
    BY <1>3 DEF ClickInvite, CallOps
  <2> QED BY <1>1, <1>2, <2>1, <2>2, WindowQueues
<1>4. CASE ClickAccept(u)
  <2>1. Local(u) /\ "accept" \in CallOps /\ Queue(u, "accept", gui[u].call, NoUser, gui[u], gui[u])
    BY <1>4 DEF ClickAccept, CallOps
  <2> QED BY <1>1, <2>1, WindowQueues
<1>5. ASSUME NEW op \in EndOps, ClickEnd(u, op) PROVE WindowSound(u)'
  <2>1. Local(u) /\ op \in CallOps /\ Queue(u, op, gui[u].call, NoUser, NoCall(gui[u]), NoCall(gui[u]))
    BY <1>5 DEF ClickEnd, CallOps
  <2> QED BY <1>1, <1>2, <2>1, WindowQueues
<1>6. CASE SignalReady(u)
  <2>1. Local(u) /\ audio[u].ready # <<>>
    BY <1>6 DEF SignalReady
  <2>2. CASE Queue(u, Head(audio[u].ready), gui[u].call, NoUser, gui[u], gui[u])
    <3>1. Head(audio[u].ready) \in CallOps
      <4>1. Head(audio[u].ready) \in RelayOps
        BY <1>1, <2>1, TailOf
      <4> QED BY <4>1 DEF CallOps
    <3> QED BY <1>1, <2>1, <2>2, <3>1, WindowQueues
  <2>3. CASE UNCHANGED <<gui, up>>
    BY <2>1, <2>3, WindowStays DEF Local
  <2> QED BY <1>6, <2>2, <2>3 DEF SignalReady
<1> QED BY <1>3, <1>4, <1>5, <1>6

\* What the first packet on its way does, and what the window makes of its call.
LEMMA ReceiveReads ==
    ASSUME ClientsInv, ClientsInv', NEW u \in Users, Receive(u), Connected(u), Worded(InFlight(u))
    PROVE  LET q == InFlight(u)
               w == gui[u]
               e == Effect(Head(q), Head(w.pending))
               now == gui'[u].call
           IN  /\ q # <<>> /\ Head(q) = Head(down[u])
               /\ InFlight(u)' = Tail(q)
               /\ gui'[u].pending = IF IsResponse(Head(q)) THEN Tail(w.pending) ELSE w.pending
               /\ \/ now = (IF e.sort = "raise" THEN e.id ELSE IF e.sort = "end" THEN 0 ELSE w.call)
                  \/ now = 0 /\ e.sort = "plain" /\ Head(q).kind = "error" /\ Head(w.pending).op = "invite"
<1> DEFINE q == InFlight(u)
           p == Head(q)
           w == gui[u]
           a == audio[u]
           v == [w EXCEPT !.pending = Tail(@)]
           r == Head(w.pending)
           after == IF IsResponse(p) THEN OnResponse(v, a, r, p) ELSE OnNotify(w, a, p)
<1>1. /\ gui \in [Users -> Window] /\ w \in Window /\ a \in Session /\ down \in [Users -> Seq(Packet)]
      /\ w.pending \in Seq(PendingCall) /\ up[u] \in Seq(Request) /\ LinksTypeOK
  BY WindowFields DEF ClientsInv, GuiTypeOK, LinksTypeOK
<1>2. UNCHANGED vars /\ IsGui(u) /\ linked[u] /\ down[u] # <<>> /\ down'[u] = Tail(down[u])
  <2>1. UNCHANGED vars /\ IsGui(u) /\ linked[u] /\ Arrived(u) /\ Take(u)
    BY DEF Receive, Using
  <2> QED BY <1>1, <2>1, TakeTyped
<1>3. q \in Seq(Packet) /\ q # <<>> /\ p = Head(down[u]) /\ InFlight(u)' = Tail(q) /\ p \in Packet
  <2>1. q \in Seq(Packet) /\ q # <<>> /\ p = Head(down[u]) /\ InFlight(u)' = Tail(q)
    BY <1>2, FlightRead
  <2> QED BY <2>1
<1>4. gui' = [gui EXCEPT ![u] = after.window]
  BY <1>3 DEF Receive
<1>5. Matched(w.pending, up[u], q)
  BY <1>2, WindowMatched
<1> HIDE DEF q, p, w, a, v, r
<1>6. IsResponse(p) => w.pending # <<>>
  <2>1. Answers(q) \in Nat /\ Answers(Tail(q)) \in Nat /\ Answers(q) = Answers(Tail(q)) + Weight(Head(q))
    BY <1>3, AnswersTail DEF Weight
  <2>2. IsResponse(p) => Weight(Head(q)) = 1
    BY DEF Weight, p
  <2>3. Len(w.pending) \in Nat /\ Len(up[u]) \in Nat /\ (w.pending = <<>> => Len(w.pending) = 0)
    BY <1>1
  <2> QED BY <1>5, <2>1, <2>2, <2>3 DEF Matched
<1>7. CASE IsResponse(p)
  <2>1. Tail(w.pending) \in Seq(PendingCall) /\ r \in PendingCall
    BY <1>1, <1>6, <1>7 DEF r
  <2>2. v \in Window /\ v.pending = Tail(w.pending) /\ v.call = w.call
    BY <1>1, <2>1 DEF Window, PendingCall, v
  <2>3. r.op \in CallOps
    BY <2>1 DEF PendingCall
  <2>4. after = OnResponse(v, a, r, p)
    BY <1>7
  <2> HIDE DEF after
  <2>5. after.window \in Window /\ after.window.pending = Tail(w.pending)
    BY <1>1, <1>3, <2>2, <2>4, EventTyped
  <2>6. LET e == Effect(p, r)
        IN  \/ after.window.call = (IF e.sort = "raise" THEN e.id ELSE IF e.sort = "end" THEN 0 ELSE w.call)
            \/ after.window.call = 0 /\ e.sort = "plain" /\ p.kind = "error" /\ r.op = "invite"
    <3>1. LET e == Effect(p, r)
              c == OnResponse(v, a, r, p).window.call
          IN  \/ c = (IF e.sort = "raise" THEN e.id ELSE IF e.sort = "end" THEN 0 ELSE v.call)
              \/ (c = 0 /\ e.sort = "plain" /\ p.kind = "error" /\ r.op = "invite")
      <4>1. v \in Window /\ p \in Packet /\ r.op \in CallOps /\ IsResponse(p)
        BY <1>3, <1>7, <2>2, <2>3
      <4> QED BY <4>1, EventEffect
    <3> QED BY <2>2, <2>4, <3>1
  <2>7. gui'[u] = after.window
    BY <1>1, <1>4, <2>5
  <2> QED BY <1>3, <1>7, <2>5, <2>6, <2>7 DEF p, q, w, r
<1>8. CASE ~IsResponse(p)
  <2>1. p.kind = "notify"
    <3>1. p.kind # "none"
      BY <1>3, TailOf DEF Worded, q, p
    <3> QED BY <1>3, <1>8, <3>1 DEF Packet, IsResponse
  <2> DEFINE x == [op |-> "invite", id |-> 0]
             e == Effect(p, r)
  <2>2. x.op \in CallOps
    BY DEF CallOps
  <2>3. Effect(p, x) = e
    BY <2>1, EffectAlone
  <2>4. after = OnNotify(w, a, p)
    BY <1>8
  <2> HIDE DEF after, x, e
  <2>5. after.window \in Window /\ after.window.pending = w.pending
    BY <1>1, <1>3, <2>4, EventTyped
  <2>6. after.window.call = IF e.sort = "raise" THEN e.id ELSE IF e.sort = "end" THEN 0 ELSE w.call
    BY <1>1, <1>3, <2>1, <2>2, <2>3, <2>4, EventEffect
  <2>7. gui'[u] = after.window
    BY <1>1, <1>4, <2>5
  <2> QED BY <1>3, <1>8, <2>5, <2>6, <2>7 DEF p, q, w, r, e
<1> QED BY <1>7, <1>8

LEMMA ReceiveSound ==
    ASSUME ClientsInv, ClientsInv', NEW u \in Users, Receive(u), Connected(u), WindowSound(u)
    PROVE  WindowSound(u)'
<1> DEFINE q == InFlight(u)
           w == gui[u]
           now == gui'[u].call
           e == Effect(Head(q), Head(w.pending))
           rest == IF IsResponse(Head(q)) THEN Tail(w.pending) ELSE w.pending
           M == Mine(u)
<1>1. /\ w.pending \in Seq(PendingCall) /\ up[u] \in Seq(Request)
  BY WindowFields DEF ClientsInv, GuiTypeOK, LinksTypeOK
<1>2. UNCHANGED <<vars, up>> /\ IsGui(u) /\ linked[u]
  BY DEF Receive, Using
<1>3. q \in Seq(Packet) /\ Matched(w.pending, up[u], q) /\ Worded(q)
  BY <1>2, FlightTyped, WindowMatched DEF WindowSound
<1>4. /\ q # <<>> /\ InFlight(u)' = Tail(q) /\ gui'[u].pending = rest
      /\ \/ now = (IF e.sort = "raise" THEN e.id ELSE IF e.sort = "end" THEN 0 ELSE w.call)
         \/ now = 0 /\ e.sort = "plain"
  <2>1. Worded(InFlight(u))
    BY DEF WindowSound
  <2> QED BY <2>1, ReceiveReads
<1>5. Mine(u)' = M /\ up'[u] = up[u]
  BY <1>2 DEF vars, Mine
<1>6. Consistent(w.call, w.pending, up[u], q, M)
  BY DEF WindowSound
<1> HIDE DEF q, w, now, M
<1>7. Consistent(now, rest, up[u], Tail(q), M)
  BY <1>1, <1>3, <1>4, <1>6, ConsistentReads
<1>8. Worded(Tail(q))
  BY <1>3, <1>4, TailOf DEF Worded
<1> HIDE DEF rest
<1> QED BY <1>4, <1>5, <1>7, <1>8 DEF WindowSound, now

\* A step of a window is about no other one.
LEMMA GuiAlone ==
    ASSUME ClientsInv, NEW u \in Users, GuiStep(u), NEW v \in Users, v # u
    PROVE  gui'[v] = gui[v]
<1>1. gui \in [Users -> Window]
  BY DEF ClientsInv, GuiTypeOK
<1>2. \A op, id, to, sent, failed : Queue(u, op, id, to, sent, failed) => \E w : gui' = [gui EXCEPT ![u] = w]
  BY DEF Queue
<1>3. gui' = gui \/ \E w : gui' = [gui EXCEPT ![u] = w]
  <2>1. CASE ClickInvite(u) \/ ClickAccept(u) \/ (\E op \in EndOps : ClickEnd(u, op)) \/ SignalReady(u)
    BY <1>2, <2>1 DEF ClickInvite, ClickAccept, ClickEnd, SignalReady
  <2>2. CASE Receive(u) \/ Disconnected(u)
    BY <2>2 DEF Receive, Disconnected
  <2> QED BY <2>1, <2>2 DEF GuiStep
<1> QED BY <1>1, <1>3

\* A step of a window, ...
LEMMA GuiKeepsCalls ==
    ASSUME ClientsInv, ClientsInv', CallsInv, NEW u \in Users, GuiStep(u), OnTheLine' => OnTheLine
    PROVE  CallsInv'
<1>1. UNCHANGED <<vars, job>> /\ IsGui(u) /\ \A v \in Users \ {u} : up'[v] = up[v] /\ down'[v] = down[v]
  BY GuiMoves DEF Moves
<1>2. \A v \in Users \ {u} : gui'[v] = gui[v]
  BY GuiAlone
<1>3. \A v \in Users : ~IsGui(v)' => gui'[v].call = 0
  BY <1>1, <1>2 DEF CallsInv, IsGui
<1>4. ASSUME OnTheLine' PROVE Peopled' /\ WindowsSound'
  <2>1. OnTheLine /\ Peopled /\ WindowsSound
    BY <1>4 DEF CallsInv
  <2>2. Peopled'
    BY <1>1, <2>1 DEF Peopled, vars
  <2>3. linked'[u] /\ linked[u] /\ Connected(u) /\ WindowSound(u)
    BY <1>1, <1>4, <2>1 DEF OnTheLine, IsGui, WindowsSound
  <2>4. WindowSound(u)'
    <3>1. ~Disconnected(u)
      <4>1. ASSUME Disconnected(u) PROVE FALSE
        <5>1. linked' = [linked EXCEPT ![u] = FALSE] /\ linked \in [Users -> BOOLEAN]
          BY <4>1 DEF Disconnected, Leave, ClientsInv, LinksTypeOK
        <5> QED BY <2>3, <5>1
      <4> QED BY <4>1
    <3> QED BY <2>3, <3>1, ClickSound, ReceiveSound DEF GuiStep
  <2>5. ASSUME NEW v \in Users, v # u, IsGui(v)' PROVE WindowSound(v)'
    <3>1. WindowSound(v)
      BY <1>1, <2>1, <2>5 DEF WindowsSound, IsGui
    <3> QED BY <1>1, <1>2, <2>5, <3>1, WindowStays
  <2> QED BY <2>2, <2>4, <2>5 DEF WindowsSound
<1> QED BY <1>3, <1>4 DEF CallsInv

\* ... of a command, ...
LEMMA CliKeepsCalls ==
    ASSUME ClientsInv, CallsInv, NEW u \in Users, CliStep(u), UNCHANGED guiVars, OnTheLine' => OnTheLine
    PROVE  CallsInv'
<1>1. /\ UNCHANGED <<vars, job, gui>> /\ ~IsGui(u)
      /\ \A v \in Users \ {u} : up'[v] = up[v] /\ down'[v] = down[v]
  BY CliMoves DEF guiVars
<1>2. \A v \in Users : IsGui(v)' = IsGui(v)
  BY <1>1 DEF IsGui
<1>3. ASSUME OnTheLine' PROVE Peopled' /\ WindowsSound'
  <2>1. Peopled /\ WindowsSound
    BY <1>3 DEF CallsInv
  <2>2. Peopled'
    BY <1>1, <2>1 DEF Peopled, vars
  <2>3. ASSUME NEW v \in Users, IsGui(v) PROVE WindowSound(v)'
    BY <1>1, <2>1, <2>3, WindowStays DEF WindowsSound
  <2> QED BY <1>2, <2>2, <2>3 DEF WindowsSound
<1> QED BY <1>1, <1>2, <1>3 DEF CallsInv

\* ... and none at all.
LEMMA StutterKeepsCalls ==
    ASSUME ClientsInv, CallsInv, UNCHANGED clientsVars, OnTheLine' => OnTheLine
    PROVE  CallsInv'
<1>1. UNCHANGED <<vars, job, gui, up, down>>
  BY DEF clientsVars, links, guiVars
<1>2. \A v \in Users : IsGui(v)' = IsGui(v)
  BY <1>1 DEF IsGui
<1>3. ASSUME OnTheLine' PROVE Peopled' /\ WindowsSound'
  <2>1. Peopled /\ WindowsSound
    BY <1>3 DEF CallsInv
  <2>2. Peopled'
    BY <1>1, <2>1 DEF Peopled, vars
  <2>3. ASSUME NEW v \in Users, IsGui(v) PROVE WindowSound(v)'
    BY <1>1, <2>1, <2>3, WindowStays DEF WindowsSound
  <2> QED BY <1>2, <2>2, <2>3 DEF WindowsSound
<1> QED BY <1>1, <1>2, <1>3 DEF CallsInv

-----------------------------------------------------------------------------
(* What a visit puts on its way suits the windows.                         *)

\* The user's call on the server after an invite, and after another operation on call c.
LEMMA MineCalling ==
    ASSUME NEW c, calls' = calls \cup {c}, \A d \in calls : Parties(d) \cap Parties(c) = {}, NEW u
    PROVE  /\ u \notin Parties(c) => Mine(u)' = Mine(u)
           /\ u \in Parties(c) => Mine(u) = {} /\ Mine(u)' = {c.id}
<1>1. Mine(u) = {d.id : d \in {e \in calls : u \in Parties(e)}}
  BY DEF Mine
<1>2. Mine(u)' = {d.id : d \in {e \in calls \cup {c} : u \in Parties(e)}}
  BY DEF Mine, Parties
<1>3. CASE u \notin Parties(c)
  <2>1. {e \in calls \cup {c} : u \in Parties(e)} = {e \in calls : u \in Parties(e)}
    BY <1>3
  <2> QED BY <1>1, <1>2, <1>3, <2>1
<1>4. CASE u \in Parties(c)
  <2>1. {e \in calls \cup {c} : u \in Parties(e)} = {c} /\ {e \in calls : u \in Parties(e)} = {}
    BY <1>4
  <2> QED BY <1>1, <1>2, <1>4, <2>1
<1> QED BY <1>3, <1>4

LEMMA MineForwards ==
    ASSUME NEW c \in calls, \A d \in calls : d # c => Parties(d) \cap Parties(c) = {}, NEW u
    PROVE  /\ u \in Parties(c) => Mine(u) = {c.id}
           /\ calls' = calls \ {c} /\ u \notin Parties(c) => Mine(u)' = Mine(u)
           /\ (\E d : d.id = c.id /\ Parties(d) = Parties(c) /\ calls' = (calls \ {c}) \cup {d}) => Mine(u)' = Mine(u)
<1>1. Mine(u) = {d.id : d \in {e \in calls : u \in Parties(e)}}
  BY DEF Mine
<1>2. \A S : calls' = S => Mine(u)' = {d.id : d \in {e \in S : u \in Parties(e)}}
  BY DEF Mine, Parties
<1>3. ASSUME u \in Parties(c) PROVE Mine(u) = {c.id}
  <2>1. {e \in calls : u \in Parties(e)} = {c}
    BY <1>3
  <2> QED BY <1>1, <2>1
<1>4. ASSUME calls' = calls \ {c}, u \notin Parties(c) PROVE Mine(u)' = Mine(u)
  <2>1. {e \in calls \ {c} : u \in Parties(e)} = {e \in calls : u \in Parties(e)}
    BY <1>4
  <2> QED BY <1>1, <1>2, <1>4, <2>1
<1>5. ASSUME NEW d, d.id = c.id, Parties(d) = Parties(c), calls' = (calls \ {c}) \cup {d} PROVE Mine(u)' = Mine(u)
  <2>1. CASE u \in Parties(c)
    <3>1. {e \in (calls \ {c}) \cup {d} : u \in Parties(e)} = {d}
      BY <1>5, <2>1
    <3>2. Mine(u)' = {d.id}
      BY <1>2, <1>5, <3>1
    <3> QED BY <1>3, <1>5, <2>1, <3>2
  <2>2. CASE u \notin Parties(c)
    <3>1. {e \in (calls \ {c}) \cup {d} : u \in Parties(e)} = {e \in calls : u \in Parties(e)}
      BY <1>5, <2>2
    <3> QED BY <1>1, <1>2, <1>5, <3>1
  <2> QED BY <2>1, <2>2
<1> QED BY <1>3, <1>4, <1>5

LEMMA OneCallApart ==
    ASSUME IInv
    PROVE  \A c, d \in calls : d # c => Parties(d) \cap Parties(c) = {}
  BY DEF IInv, SoundTables, Sound, SoundBut, OneCall, Tables

\* A user's slot is told who it is, ...
LEMMA ToldOnly ==
    ASSUME NEW s \in Slots, NEW u, NEW op, NEW id, Passed(s, u, op, id),
           NEW r \in Slots \ {s}, out'[r] = out[r], NEW v, clients[r].user = v,
           \A n \in Slots : clients[n].user = v => n = r
    PROVE  u # v
  BY DEF Passed

\* ... so whoever is not told, and did not ask, is as before.
LEMMA UntoldStays ==
    ASSUME IInv, NEW s \in Slots, NEW q, Concerns(s, q), NEW r \in Slots \ {s}, out'[r] = out[r], NEW u, clients[r].user = u,
           clients[s].user # u, \A n \in Slots : clients[n].user = u => n = r
    PROVE  Mine(u)' = Mine(u)
<1>1. CASE Unconcerned(s, q)
  BY <1>1 DEF Unconcerned, Mine
<1>2. CASE Calling(s, q)
  <2>1. PICK c \in Call : /\ calls' = calls \cup {c} /\ Parties(c) = {clients[s].user, q.to}
                          /\ \A d \in calls : Parties(d) \cap Parties(c) = {}
                          /\ Passed(s, q.to, "invite", c.id)
    BY <1>2 DEF Calling
  <2>2. u \notin Parties(c)
    BY <2>1, ToldOnly
  <2> QED BY <2>1, <2>2, MineCalling
<1>3. CASE Forwards(s, q)
  <2>1. PICK c \in calls : /\ c.id = q.id /\ clients[s].user \in Parties(c)
                           /\ Passed(s, Peer(c, clients[s].user), q.op, q.id)
                           /\ \/ q.op \in EndOps /\ calls' = calls \ {c}
                              \/ q.op \notin EndOps /\ \E d : d.id = c.id /\ Parties(d) = Parties(c) /\ calls' = (calls \ {c}) \cup {d}
    BY <1>3 DEF Forwards
  <2>2. u # Peer(c, clients[s].user)
    BY <2>1, ToldOnly
  <2>3. u \notin Parties(c)
    BY <2>1, <2>2 DEF Peer, Parties
  <2>4. \A d \in calls : d # c => Parties(d) \cap Parties(c) = {}
    BY OneCallApart
  <2> QED BY <2>1, <2>3, <2>4, MineForwards
<1> QED BY <1>1, <1>2, <1>3 DEF Concerns

LEMMA EffectIs ==
    ASSUME NEW p, NEW x
    PROVE  /\ p.kind = "notify" /\ p.op \in {"invite", "accept", "offer"} => Effect(p, x) = Raises(p.id)
           /\ p.kind = "notify" /\ p.op \in EndOps => Effect(p, x) = Falls(p.id)
           /\ p.kind = "notify" /\ p.op \notin {"invite", "accept", "offer"} \cup EndOps => Effect(p, x) = Level
           /\ p.kind = "ok" /\ x.op = "invite" => Effect(p, x) = Raises(p.id)
           /\ p.kind = "ok" /\ x.op \in EndOps => Effect(p, x) = Falls(x.id)
           /\ p.kind = "ok" /\ x.op \notin {"invite"} \cup EndOps => Effect(p, x) = Level
           /\ p.kind = "error" => Effect(p, x) = Level
  BY DEF Effect, EndOps

LEMMA SuitsIs ==
    ASSUME NEW M, NEW N, NEW id
    PROVE  /\ N = M => Suits(Level, M, N)
           /\ M \subseteq {id} => Suits(Falls(id), M, N)
           /\ M \subseteq {id} /\ N = {id} => Suits(Raises(id), M, N)
  BY DEF Suits, Level, Falls, Raises

\* The notify of a window ...
LEMMA NotifySuits ==
    ASSUME IInv, NEW s \in Slots, NEW q, Concerns(s, q), NEW r \in Slots \ {s}, out'[r] # out[r], out'[r].kind = "notify",
           NEW u, clients[r].user = u, clients[s].user # u, NEW x
    PROVE  Suits(Effect(out'[r], x), Mine(u), Mine(u)')
<1> DEFINE p == out'[r]
<1>1. CASE Unconcerned(s, q)
  <2>1. p.op \notin CallOps /\ Mine(u)' = Mine(u)
    BY <1>1 DEF Unconcerned, Mine
  <2>2. p.op \notin {"invite", "accept", "offer"} \cup EndOps
    BY <2>1 DEF CallOps, RelayOps
  <2>3. Effect(p, x) = Level
    BY <2>2, EffectIs
  <2> QED BY <2>1, <2>3, SuitsIs
<1>2. CASE Calling(s, q)
  <2>1. PICK c \in Call : /\ calls' = calls \cup {c} /\ Parties(c) = {clients[s].user, q.to}
                          /\ \A d \in calls : Parties(d) \cap Parties(c) = {}
                          /\ Passed(s, q.to, "invite", c.id)
    BY <1>2 DEF Calling
  <2>2. u = q.to /\ p.op = "invite" /\ p.id = c.id
    BY <2>1 DEF Passed, OnlyTold
  <2>3. Mine(u) = {} /\ Mine(u)' = {c.id}
    BY <2>1, <2>2, MineCalling
  <2>4. Effect(p, x) = Raises(c.id)
    BY <2>2, EffectIs
  <2> QED BY <2>3, <2>4, SuitsIs
<1>3. CASE Forwards(s, q)
  <2>1. PICK c \in calls : /\ c.id = q.id /\ clients[s].user \in Parties(c)
                           /\ Passed(s, Peer(c, clients[s].user), q.op, q.id)
                           /\ \/ q.op \in EndOps /\ calls' = calls \ {c}
                              \/ q.op \notin EndOps /\ \E d : d.id = c.id /\ Parties(d) = Parties(c) /\ calls' = (calls \ {c}) \cup {d}
    BY <1>3 DEF Forwards
  <2>2. u = Peer(c, clients[s].user) /\ p.op = q.op /\ p.id = c.id
    BY <2>1 DEF Passed, OnlyTold
  <2>3. u \in Parties(c)
    BY <2>2 DEF Peer, Parties
  <2>4. \A d \in calls : d # c => Parties(d) \cap Parties(c) = {}
    BY OneCallApart
  <2>5. Mine(u) = {c.id} /\ (q.op \notin EndOps => Mine(u)' = Mine(u))
    BY <2>1, <2>3, <2>4, MineForwards
  <2>6. CASE q.op \in EndOps
    <3>1. Effect(p, x) = Falls(c.id)
      BY <2>2, <2>6, EffectIs
    <3> QED BY <2>5, <3>1, SuitsIs
  <2>7. CASE q.op \notin EndOps
    <3>1. Effect(p, x) = Raises(c.id) \/ Effect(p, x) = Level
      BY <2>2, <2>7, EffectIs
    <3> QED BY <2>5, <2>7, <3>1, SuitsIs
  <2> QED BY <2>6, <2>7
<1> QED BY <1>1, <1>2, <1>3 DEF Concerns

\* ... and the response to its request.
LEMMA ResponseSuits ==
    ASSUME IInv, NEW s \in Slots, NEW q, Concerns(s, q), IsResponse(out'[s]), NEW u, clients[s].user = u,
           NEW x, x.op = q.op, x.id = q.id
    PROVE  Suits(Effect(out'[s], x), Mine(u), Mine(u)')
<1> DEFINE p == out'[s]
<1>1. CASE Unconcerned(s, q)
  <2>1. Mine(u)' = Mine(u)
    BY <1>1 DEF Unconcerned, Mine
  <2>2. Effect(p, x) = Level
    <3>1. p.kind = "ok" => x.op \notin {"invite"} \cup EndOps
      BY <1>1 DEF Unconcerned
    <3> QED BY <3>1, EffectIs DEF IsResponse
  <2> QED BY <2>1, <2>2, SuitsIs
<1>2. CASE Calling(s, q)
  <2>1. PICK c \in Call : /\ calls' = calls \cup {c} /\ Parties(c) = {clients[s].user, q.to}
                          /\ \A d \in calls : Parties(d) \cap Parties(c) = {}
                          /\ Passed(s, q.to, "invite", c.id)
    BY <1>2 DEF Calling
  <2>2. u \in Parties(c) /\ p.kind = "ok" /\ p.id = c.id /\ q.op = "invite"
    BY <1>2, <2>1 DEF Passed, Calling
  <2>3. Mine(u) = {} /\ Mine(u)' = {c.id}
    BY <2>1, <2>2, MineCalling
  <2>4. Effect(p, x) = Raises(c.id)
    BY <2>2, EffectIs
  <2> QED BY <2>3, <2>4, SuitsIs
<1>3. CASE Forwards(s, q)
  <2>1. PICK c \in calls : /\ c.id = q.id /\ clients[s].user \in Parties(c)
                           /\ Passed(s, Peer(c, clients[s].user), q.op, q.id)
                           /\ \/ q.op \in EndOps /\ calls' = calls \ {c}
                              \/ q.op \notin EndOps /\ \E d : d.id = c.id /\ Parties(d) = Parties(c) /\ calls' = (calls \ {c}) \cup {d}
    BY <1>3 DEF Forwards
  <2>2. u \in Parties(c) /\ p.kind = "ok" /\ x.id = c.id /\ q.op \in CallOps \ {"invite"}
    BY <1>3, <2>1 DEF Passed, Forwards
  <2>3. \A d \in calls : d # c => Parties(d) \cap Parties(c) = {}
    BY OneCallApart
  <2>4. Mine(u) = {c.id} /\ (q.op \notin EndOps => Mine(u)' = Mine(u))
    BY <2>1, <2>2, <2>3, MineForwards
  <2>5. CASE q.op \in EndOps
    <3>1. Effect(p, x) = Falls(c.id)
      BY <2>2, <2>5, EffectIs
    <3> QED BY <2>4, <3>1, SuitsIs
  <2>6. CASE q.op \notin EndOps
    <3>1. Effect(p, x) = Level
      BY <2>2, <2>6, EffectIs
    <3> QED BY <2>4, <2>6, <3>1, SuitsIs
  <2> QED BY <2>5, <2>6
<1> QED BY <1>1, <1>2, <1>3 DEF Concerns

\* A visit that leaves everybody connected.
Attends(s, t) ==
    /\ ClientsInv /\ ClientsInv' /\ OnTheLine /\ OnTheLine' /\ Peopled /\ WindowsSound
    /\ turn = s /\ ServeLink(s, t) /\ gui' = gui

LEMMA AttendedCalls ==
    ASSUME NEW s \in Slots, NEW t \in Flushed(s), Attends(s, t)
    PROVE  /\ clients[s].user = Seats[s] /\ UNCHANGED <<job, linked>>
           /\ \A r \in Slots : clients'[r] = clients[r]
           /\ \/ Passes(s, t)
              \/ /\ up[Seats[s]] # <<>> /\ up' = [up EXCEPT ![Seats[s]] = Tail(@)]
                 /\ Concerns(s, Head(up[Seats[s]]))
<1> DEFINE u == Seats[s]
<1>1. ClientsInv /\ IInv /\ LinksTypeOK /\ Asked /\ turn = s /\ ServeLink(s, t) /\ u \in Users
  BY SeatedUser DEF Attends, ClientsInv
<1>2. clients[s].open /\ clients[s].user = u
  <2>1. clients[s].open
    BY <1>1, ServeLinkVisits, VisitServes DEF Serve
  <2> QED BY <1>1, <2>1 DEF ClientsInv, Placed, FreeClient
<1>3. UNCHANGED <<job, linked>>
  BY <1>1 DEF ServeLink
<1>4. clients'[s].open
  <2>1. job[u].program # "none"
    BY <1>2 DEF Attends, Peopled
  <2>2. Connected(u)'
    BY <1>1, <1>3, <2>1 DEF Attends, OnTheLine
  <2> QED BY <2>2, InFlightIs
<1>5. clients'[s] # FreeClient
  BY <1>4 DEF FreeClient
<1>6. \A r \in Slots : clients'[r] = clients[r]
  BY <1>1, <1>5, VisitConnects
<1>7. ASSUME NEW c \in calls, NEW v \in Parties(c) PROVE Online(Tables, v)
  <2>1. v \in Users
    BY <1>1, <1>7, StateFacts DEF Parties, Call
  <2>2. job[v].program # "none"
    BY <1>7 DEF Attends, Peopled
  <2> QED BY <2>1, <2>2, OnTheLineSeat DEF Attends, Online
<1>8. \/ Passes(s, t)
      \/ /\ up[Seats[s]] # <<>> /\ up' = [up EXCEPT ![Seats[s]] = Tail(@)]
         /\ Concerns(s, Head(up[Seats[s]]))
  BY <1>1, <1>4, <1>5, <1>7, VisitConcerns
<1> QED BY <1>2, <1>3, <1>6, <1>8

\* What is new on its way to a window, and to the server from it.
LEMMA AttendedFlight ==
    ASSUME NEW s \in Slots, NEW t \in Flushed(s), Attends(s, t), NEW r \in Slots, IsGui(Seats[r])
    PROVE  LET u == Seats[r]
           IN  \/ /\ InFlight(u)' = InFlight(u) /\ up'[u] = up[u]
                  /\ r # s => out'[r] = out[r]
               \/ /\ InFlight(u)' = Append(InFlight(u), out'[r])
                  /\ r # s /\ out'[r] # out[r] /\ out'[r].kind = "notify" /\ up'[u] = up[u]
               \/ /\ InFlight(u)' = Append(InFlight(u), out'[r])
                  /\ r = s /\ IsResponse(out'[r]) /\ up[u] # <<>> /\ up'[u] = Tail(up[u])
<1> DEFINE u == Seats[r]
           me == Seats[s]
<1>1. /\ ClientsInv /\ ClientsInv' /\ IInv /\ IInv' /\ LinksTypeOK /\ LinksTypeOK' /\ Asked /\ Placed
      /\ turn = s /\ ServeLink(s, t) /\ u \in Users /\ me \in Users /\ up \in [Users -> Seq(Request)] /\ gui' = gui
  BY SeatedUser DEF Attends, ClientsInv, LinksTypeOK
<1>2. UNCHANGED <<job, linked>>
  BY AttendedCalls
<1>3. linked[u] /\ Connected(u) /\ linked'[u] /\ Connected(u)'
  BY <1>1, <1>2 DEF Attends, OnTheLine, IsGui
<1>4. \/ InFlight(u)' = InFlight(u) /\ (r # s => out'[r] = out[r])
      \/ InFlight(u)' = Append(InFlight(u), out'[r]) /\ r # s /\ out'[r] # out[r]
      \/ InFlight(u)' = Append(InFlight(u), out'[r]) /\ r = s /\ up[u] # <<>> /\ t.out[s] = NoPacket /\ IsResponse(out'[s])
  <2>1. \/ InFlight(u)' = InFlight(u) /\ (r # s /\ Connected(u)' => out'[r] = out[r])
        \/ ~Connected(u)'
        \/ /\ InFlight(u)' = Append(InFlight(u), out'[r])
           /\ r # s => out'[r] # out[r]
           /\ r = s => up[u] # <<>> /\ t.out[s] = NoPacket /\ IsResponse(out'[s])
    BY <1>1, <1>3, FlightGrows
  <2> QED BY <1>3, <2>1
<1>5. /\ OthersNotified(s)
      /\ \/ out'[s] = t.out[s] /\ up' = up
         \/ up[me] # <<>> /\ up' = [up EXCEPT ![me] = Tail(@)]
  <2>1. clients'[s] # FreeClient
    <3>1. \A n \in Slots : clients'[n] = clients[n]
      BY AttendedCalls
    <3>2. clients[s].user = me /\ FreeClient.user = NoUser
      BY AttendedCalls DEF FreeClient
    <3> QED BY <1>1, <3>1, <3>2, ServerAssumption
  <2> QED BY <1>1, <2>1, ServeLinkVisits
<1>6. r # s => u # me
  BY SeatedUser
<1>7. CASE InFlight(u)' = InFlight(u) /\ (r # s => out'[r] = out[r])
  <2>1. up'[u] = up[u] \/ (up[u] # <<>> /\ up'[u] = Tail(up[u]))
    BY <1>1, <1>5
  <2>2. Len(up'[u]) = Len(up[u])
    <3>1. Matched(gui[u].pending, up[u], InFlight(u))
      BY <1>1, <1>3, WindowMatched
    <3>2. Pending(u)' = Len(up'[u]) + Answers(InFlight(u)')
      BY <1>1, <1>3 DEF ClientsInv, Balanced
    <3>3. Pending(u)' = Len(gui[u].pending)
      BY <1>1, <1>2 DEF Pending, IsGui
    <3>4. Answers(InFlight(u)) \in Nat
      <4>1. InFlight(u) \in Seq(Packet)
        BY <1>1, <1>3, FlightTyped
      <4> QED BY <4>1, AnswersAppend, ConstantTypes DEF Responses
    <3>5. up[u] \in Seq(Request) /\ up'[u] \in Seq(Request)
      BY <1>1 DEF LinksTypeOK
    <3>6. Len(up[u]) \in Nat /\ Len(up'[u]) \in Nat
      BY <3>5
    <3> QED BY <1>7, <3>1, <3>2, <3>3, <3>4, <3>6 DEF Matched
  <2>3. up'[u] = up[u]
    <3>1. up[u] # <<>> => Len(Tail(up[u])) # Len(up[u])
      <4>1. up[u] \in Seq(Request)
        BY <1>1
      <4> QED BY <4>1
    <3> QED BY <2>1, <2>2, <3>1
  <2> QED BY <1>7, <2>3
<1>8. CASE InFlight(u)' = Append(InFlight(u), out'[r]) /\ r # s /\ out'[r] # out[r]
  <2>1. out'[r].kind = "notify"
    BY <1>5, <1>8 DEF OthersNotified
  <2>2. up'[u] = up[u]
    BY <1>1, <1>5, <1>6, <1>8
  <2> QED BY <1>8, <2>1, <2>2
<1>9. CASE InFlight(u)' = Append(InFlight(u), out'[r]) /\ r = s /\ up[u] # <<>> /\ t.out[s] = NoPacket /\ IsResponse(out'[s])
  <2>1. ~IsResponse(NoPacket)
    BY PacketFields DEF IsResponse
  <2>2. up' = [up EXCEPT ![me] = Tail(@)]
    BY <1>5, <1>9, <2>1
  <2>3. up'[u] = Tail(up[u])
    BY <1>1, <1>9, <2>2
  <2> QED BY <1>9, <2>3
<1> QED BY <1>4, <1>7, <1>8, <1>9

LEMMA AttendedSound ==
    ASSUME NEW s \in Slots, NEW t \in Flushed(s), Attends(s, t), NEW r \in Slots, IsGui(Seats[r])
    PROVE  WindowSound(Seats[r])'
<1> DEFINE u == Seats[r]
           me == Seats[s]
           q == InFlight(u)
           w == gui[u]
           M == Mine(u)
           N == Mine(u)'
           o == out'[r]
           a == Answers(q)
           k == a + Weight(o)
<1>1. /\ ClientsInv /\ ClientsInv' /\ IInv /\ IInv' /\ u \in Users /\ me \in Users /\ gui' = gui
      /\ up \in [Users -> Seq(Request)] /\ WindowSound(u)
  BY SeatedUser DEF Attends, ClientsInv, LinksTypeOK, WindowsSound
<1>2. /\ UNCHANGED <<job, linked>> /\ clients[s].user = me /\ linked[u]
  BY <1>1, AttendedCalls DEF Attends, OnTheLine, IsGui
<1>3. clients[r].user = u
  <2>1. Connected(u)
    BY <1>1 DEF Attends, OnTheLine, IsGui
  <2> QED BY <2>1, InFlightIs
<1>4. /\ \A n \in Slots : clients[n].user = u => n = r
      /\ r # s => me # u
  <2>1. \A n \in Slots : clients[n] = FreeClient \/ clients[n].user = Seats[n]
    BY <1>1 DEF ClientsInv, Placed
  <2>2. FreeClient.user # u
    BY <1>1, ServerAssumption DEF FreeClient
  <2>3. \A n \in Slots : Seats[n] = u => n = r
    BY LinksAssumption DEF LinksAssumption
  <2> QED BY <2>1, <2>2, <2>3
<1>5. q \in Seq(Packet) /\ o \in Packet /\ up[u] \in Seq(Request)
  BY <1>1, <1>2, FlightTyped, BuffersTyped
<1>6. Consistent(w.call, w.pending, up[u], q, M) /\ Worded(q)
  BY <1>1 DEF WindowSound
<1>7. \/ Passes(s, t)
      \/ up[me] # <<>> /\ up' = [up EXCEPT ![me] = Tail(@)] /\ Concerns(s, Head(up[me]))
  BY AttendedCalls
<1>8. \/ InFlight(u)' = q /\ up'[u] = up[u] /\ (r # s => out'[r] = out[r])
      \/ InFlight(u)' = Append(q, o) /\ r # s /\ out'[r] # out[r] /\ o.kind = "notify" /\ up'[u] = up[u]
      \/ InFlight(u)' = Append(q, o) /\ r = s /\ IsResponse(o) /\ up[u] # <<>> /\ up'[u] = Tail(up[u])
  BY AttendedFlight
<1>9. up[u] # <<>> => Tail(up[u]) # up[u]
  <2>1. up[u] # <<>> => Len(Tail(up[u])) # Len(up[u])
    BY <1>5
  <2> QED BY <2>1
<1>10. CASE InFlight(u)' = q /\ up'[u] = up[u] /\ (r # s => out'[r] = out[r])
  <2>1. N = M
    <3>1. CASE Passes(s, t)
      BY <3>1 DEF Passes, Mine
    <3>2. CASE up[me] # <<>> /\ up' = [up EXCEPT ![me] = Tail(@)] /\ Concerns(s, Head(up[me]))
      <4>1. r # s
        BY <1>1, <1>9, <1>10, <3>2
      <4> QED BY <1>1, <1>2, <1>3, <1>4, <1>10, <3>2, <4>1, UntoldStays
    <3> QED BY <1>7, <3>1, <3>2
  <2> HIDE DEF q, M, N
  <2> QED BY <1>1, <1>6, <1>10, <2>1 DEF WindowSound, N
<1>11. \A p \in Packet : Worded(Append(q, p)) \/ p.kind = "none"
  <2>1. \A p \in Packet : \A i \in DOMAIN Append(q, p) : Append(q, p)[i] = p \/ (i \in DOMAIN q /\ Append(q, p)[i] = q[i])
    <3> HIDE DEF q
    <3> QED BY <1>5, AppendIs
  <2> HIDE DEF q
  <2> QED BY <1>6, <2>1 DEF Worded
<1>12. CASE InFlight(u)' = Append(q, o) /\ r # s /\ out'[r] # out[r] /\ o.kind = "notify" /\ up'[u] = up[u]
  <2>1. Concerns(s, Head(up[me]))
    BY <1>7, <1>12 DEF Passes
  <2>2. Suits(Effect(o, w.pending[k]), M, N)
    BY <1>1, <1>2, <1>3, <1>4, <1>12, <2>1, NotifySuits
  <2>3. ~IsResponse(o) /\ o.kind # "none"
    BY <1>12 DEF IsResponse
  <2>4. Worded(Append(q, o))
    BY <1>5, <1>11, <2>3
  <2> HIDE DEF q, M, N, o, w
  <2>5. Consistent(w.call, w.pending, up[u], Append(q, o), N)
    BY <1>5, <1>6, <2>2, <2>3, ConsistentGrows
  <2> QED BY <1>1, <1>12, <2>4, <2>5 DEF WindowSound, N, w
<1>13. CASE InFlight(u)' = Append(q, o) /\ r = s /\ IsResponse(o) /\ up[u] # <<>> /\ up'[u] = Tail(up[u])
  <2>1. up' # up
    BY <1>9, <1>13
  <2>2. Concerns(s, Head(up[u]))
    BY <1>7, <1>13, <2>1 DEF Passes
  <2>3. k = a + 1 /\ o.kind # "none"
    BY <1>13 DEF Weight, IsResponse
  <2>4. w.pending[k].op = Head(up[u]).op /\ w.pending[k].id = Head(up[u]).id
    <3>1. 1 \in DOMAIN up[u] /\ Head(up[u]) = up[u][1]
      BY <1>5, <1>13, TailOf
    <3> HIDE DEF q, w, M
    <3> QED BY <1>6, <2>3, <3>1 DEF Consistent
  <2>5. Suits(Effect(o, w.pending[k]), M, N)
    BY <1>1, <1>2, <1>13, <2>2, <2>4, ResponseSuits
  <2>6. Worded(Append(q, o))
    BY <1>5, <1>11, <2>3
  <2> HIDE DEF q, M, N, o, w
  <2>7. Consistent(w.call, w.pending, Tail(up[u]), Append(q, o), N)
    BY <1>5, <1>6, <1>13, <2>5, ConsistentGrows
  <2> QED BY <1>1, <1>13, <2>6, <2>7 DEF WindowSound, N, w
<1> QED BY <1>8, <1>10, <1>12, <1>13

\* The server's own steps: a call whose parties are there is not swept.
LEMMA RestKeepsCalls ==
    ASSUME ClientsInv, CallsInv, (AcceptDone \/ Sweep \/ \E s \in Slots : SkipClosed(s)) /\ UNCHANGED links,
           UNCHANGED guiVars, OnTheLine' => OnTheLine
    PROVE  CallsInv'
<1>1. UNCHANGED <<clients, out, job, up, down, gui>>
  BY DEF AcceptDone, Sweep, SkipClosed, links, guiVars
<1>2. \A v \in Users : IsGui(v)' = IsGui(v)
  BY <1>1 DEF IsGui
<1>3. ASSUME OnTheLine' PROVE Peopled' /\ WindowsSound'
  <2>1. OnTheLine /\ Peopled /\ WindowsSound
    BY <1>3 DEF CallsInv
  <2>2. calls' = calls
    <3>1. ASSUME NEW c \in calls, NEW u \in Parties(c) PROVE Online(Tables, u)
      <4>1. u \in Users
        BY <3>1, StateFacts DEF Parties, Call, ClientsInv
      <4>2. job[u].program # "none"
        BY <2>1, <3>1 DEF Peopled
      <4> QED BY <2>1, <4>1, <4>2, OnTheLineSeat DEF Online
    <3>2. {c \in calls : \A u \in Parties(c) : Online(Tables, u)} = calls
      BY <3>1
    <3> QED BY <3>2 DEF AcceptDone, Sweep, SkipClosed
  <2>3. Peopled'
    BY <1>1, <2>1, <2>2 DEF Peopled
  <2>4. ASSUME NEW v \in Users, IsGui(v) PROVE WindowSound(v)'
    <3>1. InFlight(v)' = InFlight(v) /\ Mine(v)' = Mine(v)
      BY <1>1, <2>2, FlightStays DEF Mine
    <3>2. WindowSound(v)
      BY <2>1, <2>4 DEF WindowsSound
    <3> QED BY <1>1, <3>1, <3>2 DEF WindowSound
  <2> QED BY <1>2, <2>3, <2>4 DEF WindowsSound
<1> QED BY <1>1, <1>2, <1>3 DEF CallsInv

LEMMA AttendedPeopled ==
    ASSUME NEW s \in Slots, NEW t \in Flushed(s), Attends(s, t), NEW c \in calls', NEW u \in Parties(c)
    PROVE  job[u].program # "none"
<1> DEFINE q == Head(up[Seats[s]])
<1>1. ClientsInv /\ IInv /\ Peopled /\ Placed
  BY DEF Attends, ClientsInv
<1>2. CASE c \in calls
  BY <1>1, <1>2 DEF Peopled
<1>3. \A r \in Slots : clients[r].user \in Users => job[clients[r].user].program # "none"
  <2> SUFFICES ASSUME NEW r \in Slots, clients[r].user \in Users PROVE job[clients[r].user].program # "none"
    OBVIOUS
  <2>1. clients[r].open
    BY <1>1, StateFacts
  <2>2. clients[r].user = Seats[r]
    BY <1>1, <2>1 DEF Placed, FreeClient
  <2> QED BY <1>1, <2>1, <2>2 DEF Peopled
<1>4. CASE c \notin calls
  <2>1. Calling(s, q) \/ Forwards(s, q)
    <3>1. calls' # calls
      BY <1>4
    <3> QED BY <3>1, AttendedCalls DEF Passes, Concerns, Unconcerned
  <2>2. CASE Calling(s, q)
    <3>1. PICK d \in Call : /\ calls' = calls \cup {d} /\ Parties(d) = {clients[s].user, q.to}
                            /\ Passed(s, q.to, "invite", d.id)
      BY <2>2 DEF Calling
    <3>2. c = d /\ Parties(d) \subseteq Users
      BY <1>4, <3>1 DEF Call, Parties
    <3>3. PICK r \in Slots : clients[r].user = q.to
      BY <3>1 DEF Passed
    <3> QED BY <1>3, <3>1, <3>2, <3>3
  <2>3. CASE Forwards(s, q)
    <3>1. PICK d \in calls : \/ calls' = calls \ {d}
                             \/ \E e : Parties(e) = Parties(d) /\ calls' = (calls \ {d}) \cup {e}
      BY <2>3 DEF Forwards
    <3>2. Parties(c) = Parties(d)
      BY <1>4, <3>1
    <3> QED BY <1>1, <3>1, <3>2 DEF Peopled
  <2> QED BY <2>1, <2>2, <2>3
<1> QED BY <1>2, <1>4

LEMMA VisitKeepsCalls ==
    ASSUME ClientsInv, ClientsInv', CallsInv, NEW s \in Slots, NEW t \in Flushed(s), turn = s, ServeLink(s, t),
           UNCHANGED guiVars, OnTheLine' => OnTheLine
    PROVE  CallsInv'
<1>1. job' = job /\ gui' = gui /\ \A v \in Users : IsGui(v)' = IsGui(v)
  BY DEF ServeLink, guiVars, IsGui
<1>2. ASSUME OnTheLine' PROVE Peopled' /\ WindowsSound'
  <2>1. OnTheLine /\ Peopled /\ WindowsSound
    BY <1>2 DEF CallsInv
  <2>2. Attends(s, t)
    BY <1>1, <1>2, <2>1 DEF Attends
  <2>3. \A r \in Slots : clients'[r] = clients[r]
    BY <2>2, AttendedCalls
  <2>4. ASSUME NEW c \in calls', NEW u \in Parties(c) PROVE job[u].program # "none"
    BY <2>2, <2>4, AttendedPeopled
  <2>5. Peopled'
    BY <1>1, <2>1, <2>3, <2>4 DEF Peopled, Parties
  <2>6. ASSUME NEW v \in Users, IsGui(v) PROVE WindowSound(v)'
    <3>1. PICK r \in Slots : Seats[r] = v
      BY <2>1, <2>6, OnTheLineSeat DEF IsGui
    <3> QED BY <2>2, <2>6, <3>1, AttendedSound
  <2> QED BY <1>1, <2>5, <2>6 DEF WindowsSound
<1> QED BY <1>1, <1>2 DEF CallsInv

LEMMA CallsStep == ClientsInv /\ CallsInv /\ [ClientsNext]_clientsVars => CallsInv'
<1> SUFFICES ASSUME ClientsInv, CallsInv, [ClientsNext]_clientsVars PROVE CallsInv'
  OBVIOUS
<1>1. ClientsInv' /\ (OnTheLine' => OnTheLine)
  BY ClientsStep, OnTheLineBefore
<1>2. CASE ServerStep /\ UNCHANGED <<cliVars, receiveVars, guiVars>>
  BY <1>1, <1>2, RestKeepsCalls, VisitKeepsCalls DEF ServerStep
<1> QED BY <1>1, <1>2, CliKeepsCalls, GuiKeepsCalls, StutterKeepsCalls DEF ClientsNext

LEMMA CallsInitSound == ClientsInit => CallsInv
<1> SUFFICES ASSUME ClientsInit PROVE CallsInv
  OBVIOUS
<1>1. LinksInit /\ GuiInit /\ ClientsInv
  BY ClientsInitHolds DEF ClientsInit
<1>2. /\ up = [u \in Users |-> <<>>] /\ down = [u \in Users |-> <<>>] /\ calls = {}
      /\ \A s \in Slots : out[s] = NoPacket
  BY <1>1 DEF LinksInit, EmptyTables
<1>3. \A u \in Users : gui[u].call = 0 /\ gui[u].pending = <<>>
  BY <1>1 DEF GuiInit
<1>4. Peopled
  BY <1>1, <1>2 DEF LinksInit, Peopled, FreeClient
<1>5. ASSUME OnTheLine, NEW u \in Users, IsGui(u) PROVE WindowSound(u)
  <2>1. PICK s \in Slots : Seats[s] = u
    BY <1>1, <1>5, OnTheLineSeat DEF IsGui
  <2>2. InFlight(u) = <<>> \o <<>>
    BY <1>2, <2>1, InFlightIs
  <2>3. InFlight(u) = <<>>
    BY <2>2
  <2>4. Consistent(0, <<>>, <<>>, <<>>, Mine(u))
    <3> DEFINE f == Course(0, <<>>, <<>>)
    <3>1. f[0] = Level /\ Level.sort = "plain"
      BY DEF Course, Level
    <3> HIDE DEF f
    <3>2. Story(f, 0, Mine(u))
      <4>1. \A i \in 0 .. 0 : i = 0
        OBVIOUS
      <4> QED BY <3>1, <4>1 DEF Story
    <3>3. Len(<<>>) = 0
      OBVIOUS
    <3> QED BY <3>2, <3>3 DEF Consistent, f
  <2>5. up[u] = <<>>
    BY <1>2
  <2> QED BY <1>3, <2>3, <2>4, <2>5 DEF WindowSound, Worded
<1> QED BY <1>3, <1>4, <1>5 DEF CallsInv, WindowsSound

LEMMA CallsInvHolds == ClientsSpec => []CallsInv
BY ClientsInvHolds, CallsInitSound, CallsStep, PTL DEF ClientsSpec

LEMMA EndsBy ==
    ASSUME NEW p, NEW r, Effect(p, r).sort = "end"
    PROVE  /\ (p.kind = "notify" /\ p.op \in EndOps) \/ (p.kind = "ok" /\ r.op \in EndOps)
           /\ p.kind = "notify" => Effect(p, r).id = p.id
           /\ p.kind = "ok" => Effect(p, r).id = r.id
  BY DEF Effect, Raises, Falls, Level, EndOps

LEMMA DeadCallEnds ==
    ASSUME ClientsInv, CallsInv
    PROVE  DeadCallIsEnding
<1> SUFFICES ASSUME OnTheLine, NEW u \in Users, gui[u].call # 0, \A c \in calls : c.id # gui[u].call
             PROVE  \E i \in DOMAIN InFlight(u) :
                       LET p == InFlight(u)[i]
                           k == Count(SubSeq(InFlight(u), 1, i), IsResponse)
                       IN  \/ p.kind = "notify" /\ p.op \in EndOps
                           \/ p.kind = "ok" /\ gui[u].pending[k].op \in EndOps
  BY DEF DeadCallIsEnding
<1> DEFINE q == InFlight(u)
           w == gui[u]
           f == Course(w.call, w.pending, q)
<1>1. IsGui(u) /\ WindowSound(u) /\ linked[u]
  BY DEF CallsInv, WindowsSound, OnTheLine, IsGui
<1>2. q \in Seq(Packet)
  <2>1. PICK s \in Slots : Seats[s] = u
    BY <1>1 DEF ClientsInv, Playing
  <2>2. down[u] \in Seq(Packet) /\ out[s] \in Packet
    BY <2>1, BufferTyped DEF ClientsInv, LinksTypeOK
  <2>3. q = down[u] \o IF Connected(u) /\ out[s] # NoPacket THEN <<out[s]>> ELSE <<>>
    BY <2>1, InFlightIs
  <2> HIDE DEF q
  <2>4. down[u] \o <<out[s]>> = Append(down[u], out[s]) /\ down[u] \o <<>> = down[u]
    BY <2>2, AppendIsConcat, ConcatEmptySeq
  <2> QED BY <2>2, <2>3, <2>4
<1>3. Story(f, Len(q), Mine(u))
  BY <1>1 DEF WindowSound, Consistent
<1>4. w.call \notin Mine(u)
  BY DEF Mine
<1> HIDE DEF q, w
<1>5. f[0] = Raises(w.call) /\ Len(q) \in Nat
  BY <1>2, CourseIs DEF w
<1>6. PICK i \in 1 .. Len(q) : f[i].sort = "end"
  <2>1. 0 \in 0 .. Len(q) /\ f[0].sort = "raise" /\ f[0].id = w.call
    BY <1>5 DEF Raises
  <2> HIDE DEF f
  <2> QED BY <1>3, <1>4, <2>1 DEF Story
<1>7. f[i] = Effect(q[i], w.pending[Rank(q, i)])
  BY <1>2, CourseIs
<1>8. (q[i].kind = "notify" /\ q[i].op \in EndOps) \/ (q[i].kind = "ok" /\ w.pending[Rank(q, i)].op \in EndOps)
  BY <1>6, <1>7, EndsBy
<1>9. Rank(q, i) = Count(SubSeq(q, 1, i), IsResponse) /\ i \in DOMAIN q
  BY <1>2 DEF Rank, Answers
<1> QED BY <1>8, <1>9 DEF q, w

\* A window changes its call on its own, or as it reads.
LEMMA CallChanges ==
    ASSUME ClientsInv, [ClientsNext]_clientsVars, NEW u \in Users, gui'[u].call # gui[u].call
    PROVE  \/ gui'[u].call = 0 /\ (~linked'[u] \/ down'[u] = down[u])
           \/ Receive(u)
<1>1. gui \in [Users -> Window] /\ gui[u] \in Window /\ NoCall(gui[u]).call = 0
  BY DEF ClientsInv, GuiTypeOK, Window, NoCall
<1>2. GuiStep(u)
  <2>1. gui' # gui
    OBVIOUS
  <2>2. PICK v \in Users : GuiStep(v)
    BY <2>1 DEF ClientsNext, clientsVars, guiVars
  <2> QED BY <2>2, GuiAlone
<1>3. ASSUME NEW op, NEW id, NEW to, NEW sent \in {gui[u], NoCall(gui[u])}, NEW failed \in {gui[u], NoCall(gui[u])},
             Queue(u, op, id, to, sent, failed)
      PROVE  gui'[u].call = 0
  <2>1. CASE gui' = [gui EXCEPT ![u] = [sent EXCEPT !.pending = Append(@, [op |-> op, id |-> id])]]
    <3> DEFINE r == [op |-> op, id |-> id]
               after == [sent EXCEPT !.pending = Append(@, r)]
    <3>1. after.call = sent.call
      <4> HIDE DEF r
      <4>1. sent \in Window
        BY <1>1, WindowFields
      <4> QED BY <4>1 DEF Window
    <3>2. gui'[u] = after
      BY <1>1, <2>1
    <3> HIDE DEF after
    <3> QED BY <1>1, <3>1, <3>2
  <2>2. CASE gui' = [gui EXCEPT ![u] = failed]
    <3>1. gui'[u] = failed
      BY <1>1, <2>2
    <3> QED BY <1>1, <3>1
  <2> QED BY <1>3, <2>1, <2>2 DEF Queue
<1>4. CASE ClickInvite(u) \/ ClickAccept(u) \/ (\E op \in EndOps : ClickEnd(u, op)) \/ SignalReady(u)
  <2>1. down' = down
    BY <1>4 DEF ClickInvite, ClickAccept, ClickEnd, SignalReady, Local
  <2>2. gui' = gui \/ \E op, id, to : \E sent, failed \in {gui[u], NoCall(gui[u])} : Queue(u, op, id, to, sent, failed)
    BY <1>4 DEF ClickInvite, ClickAccept, ClickEnd, SignalReady
  <2> QED BY <1>3, <2>1, <2>2
<1>5. CASE Disconnected(u)
  <2>1. linked' = [linked EXCEPT ![u] = FALSE] /\ linked \in [Users -> BOOLEAN]
    BY <1>5 DEF Disconnected, Leave, ClientsInv, LinksTypeOK
  <2>2. gui'[u] = [NoCall(gui[u]) EXCEPT !.pending = <<>>]
    BY <1>1, <1>5 DEF Disconnected
  <2>3. gui'[u].call = 0
    <3>1. NoCall(gui[u]) \in Window
      BY <1>1, WindowFields
    <3> QED BY <1>1, <2>2, <3>1 DEF Window
  <2> QED BY <2>1, <2>3
<1> QED BY <1>2, <1>4, <1>5 DEF GuiStep

LEMMA CallEndsWell ==
    ASSUME ClientsInv, ClientsInv', CallsInv, [ClientsNext]_clientsVars, OnTheLine, NEW u \in Users,
           gui[u].call \notin {0, gui'[u].call}
    PROVE  /\ gui'[u].call = 0
           /\ linked'[u] /\ down'[u] # down[u] =>
                 LET p == Head(down[u])
                 IN  /\ p.kind = "notify" => p.id = gui[u].call
                     /\ p.kind = "ok" => Head(gui[u].pending).id = gui[u].call
                     /\ p.kind = "error" => Head(gui[u].pending).op = "invite"
<1> DEFINE q == InFlight(u)
           w == gui[u]
           now == gui'[u].call
           f == Course(w.call, w.pending, q)
           r == Head(w.pending)
           e == Effect(Head(q), r)
<1>1. CASE gui'[u].call = 0 /\ (~linked'[u] \/ down'[u] = down[u])
  BY <1>1
<1>2. CASE Receive(u)
  <2>1. IsGui(u) /\ linked[u] /\ Connected(u) /\ WindowSound(u)
    BY <1>2 DEF CallsInv, WindowsSound, OnTheLine, Receive, Using, IsGui
  <2>2. w.pending \in Seq(PendingCall) /\ q \in Seq(Packet) /\ Matched(w.pending, up[u], q) /\ up[u] \in Seq(Request)
    BY <2>1, FlightTyped, WindowMatched, WindowFields DEF ClientsInv, GuiTypeOK, LinksTypeOK
  <2>3. /\ q # <<>> /\ Head(q) = Head(down[u])
        /\ \/ now = (IF e.sort = "raise" THEN e.id ELSE IF e.sort = "end" THEN 0 ELSE w.call)
           \/ now = 0 /\ e.sort = "plain" /\ Head(q).kind = "error" /\ Head(w.pending).op = "invite"
    BY <1>2, <2>1, ReceiveReads DEF WindowSound
  <2>4. Story(f, Len(q), Mine(u))
    BY <2>1 DEF WindowSound, Consistent
  <2> HIDE DEF q, w
  <2>5. f[0] = Raises(w.call)
    BY <2>2, CourseIs DEF w
  <2>6. f[1] = e
    <3>1. Answers(q) <= Len(w.pending)
      <4>1. Answers(q) \in Nat /\ Len(up[u]) \in Nat
        BY <2>2, AnswersAppend, ConstantTypes DEF Responses
      <4> QED BY <2>2, <4>1 DEF Matched
    <3> QED BY <2>2, <2>3, <3>1, CourseRead, Zenon
  <2>7. e.sort # "plain" => e.id = w.call
    <3>1. 0 \in 0 .. Len(q) /\ 1 \in 0 .. Len(q) /\ 0 < 1 /\ f[0].sort = "raise" /\ f[0].id = w.call
      BY <2>2, <2>3, <2>5 DEF Raises
    <3> HIDE DEF f, e
    <3>2. \A m \in 0 + 1 .. 1 - 1 : FALSE
      OBVIOUS
    <3> QED BY <2>4, <2>6, <3>1, <3>2 DEF Story
  <2>8. e.sort \in {"raise", "end", "plain"}
    BY EffectShape
  <2>9. CASE e.sort = "end"
    <3>1. /\ Head(q).kind = "notify" => e.id = Head(q).id
          /\ Head(q).kind = "ok" => e.id = r.id
          /\ Head(q).kind # "error"
      BY <2>9, EndsBy
    <3> HIDE DEF e
    <3> QED BY <2>3, <2>7, <2>9, <3>1 DEF w
  <2>10. CASE e.sort # "end"
    <3> HIDE DEF e
    <3>1. now # w.call
      BY DEF w
    <3>2. now = 0 /\ Head(q).kind = "error" /\ r.op = "invite"
      BY <2>3, <2>7, <2>8, <2>10, <3>1 DEF r
    <3> QED BY <2>3, <3>2 DEF w
  <2> QED BY <2>9, <2>10
<1>3. gui'[u].call # gui[u].call
  OBVIOUS
<1> QED BY <1>1, <1>2, <1>3, CallChanges

\* While everybody is connected a window shows a call that is over only until what ends
\* it arrives, for any number of users and whatever they click.
THEOREM NoGhostCalls == ClientsSpec => []DeadCallIsEnding
BY ClientsInvHolds, CallsInvHolds, DeadCallEnds, PTL

\* And no window's call gives way to another: the hangup or reject that takes it off is
\* about it, and no failed request but an own invite takes one off.
THEOREM CallsEndForThemselves == ClientsSpec => CallEndsForItself
<1>1. ClientsInv /\ ClientsInv' /\ CallsInv /\ [ClientsNext]_clientsVars =>
         [OnTheLine => \A u \in Users : gui[u].call \notin {0, gui'[u].call} =>
             /\ gui'[u].call = 0
             /\ linked'[u] /\ down'[u] # down[u] =>
                   LET p == Head(down[u])
                   IN  /\ p.kind = "notify" => p.id = gui[u].call
                       /\ p.kind = "ok" => Head(gui[u].pending).id = gui[u].call
                       /\ p.kind = "error" => Head(gui[u].pending).op = "invite"]_clientsVars
  BY CallEndsWell
<1> QED BY <1>1, ClientsInvHolds, CallsInvHolds, PTL DEF ClientsSpec, CallEndsForItself
=============================================================================
