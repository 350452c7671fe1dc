------------------------------- MODULE Links -------------------------------
(***************************************************************************)
(* The server and the programs of logged-in users.  Each user's connection *)
(* is a pair of lossless FIFO queues, which is what module Channel says of *)
(* it; the modules that extend this one put a client program at the other  *)
(* end.  Where ChatServer lets a peer ask anything at any time, a visit    *)
(* here handles the request that the user's program has sent.              *)
(*                                                                         *)
(* The users are logged in when an instance starts, nobody connects later, *)
(* and the server is not restarted.                                        *)
(***************************************************************************)
EXTENDS ChatServer

CONSTANTS
    Seats,     \* slot -> the user who is logged in there
    Casts,     \* who runs what in an instance: user -> Job
    MaxDown    \* bound: packets the operating systems hold on the way to a client

\* A user's program and its command line: --to-user-id, the size of the file at
\* --path, --expect-count.  calls is a bound, MaxCall or less: the calls there are
\* when the user of a window makes no more.
Job == [program : {"send", "send-file", "listen", "gui", "none"},
        to : Users, size : Nat, expect : Nat, calls : Nat]

ASSUME LinksAssumption ==
    /\ Seats \in [Slots -> Users]
    /\ \A s, r \in Slots : Seats[s] = Seats[r] => s = r
    /\ Casts \subseteq [Users -> Job]
    /\ \A cast \in Casts, u \in Users : cast[u].program # "none" => \E s \in Slots : Seats[s] = u
    /\ \A cast \in Casts, u \in Users : cast[u].program = "send-file" => cast[u].size \in FileSizes
    /\ MaxDown \in Nat \ {0}

VARIABLES
    job,       \* user -> what the user runs, chosen from Casts at the start
    up,        \* user -> requests on their way to the server
    down,      \* user -> packets on their way to the client
    linked     \* user -> the client's end of the connection is open

links == <<job, up, down, linked>>

SeatOf(u) == CHOOSE s \in Slots : Seats[s] = u
Connected(u) == IsClient(Tables, SeatOf(u), u)

Request == [op : Ops, id : Nat, index : Nat, len : Nat, to : Users \cup {NoUser}]
NoRequest == [op |-> "none", id |-> 0, index |-> 0, len |-> 0, to |-> NoUser]

\* What the server has for the client and the client has not read.
InFlight(u) ==
    down[u] \o IF Connected(u) /\ out[SeatOf(u)] # NoPacket THEN <<out[SeatOf(u)]>> ELSE <<>>

IsResponse(p) == p.kind \in {"ok", "error"}
Count(seq, Test(_)) == Cardinality({i \in DOMAIN seq : Test(seq[i])})

LinksInit ==
    /\ job \in Casts
    /\ clients = [s \in Slots |-> IF job[Seats[s]].program = "none" THEN FreeClient
                                  ELSE [open |-> TRUE, user |-> Seats[s], session |-> s]]
    /\ out = EmptyTables.out
    /\ calls = EmptyTables.calls
    /\ transfers = EmptyTables.transfers
    /\ ids = [FirstIds EXCEPT !.session = NSlots + 1]
    /\ turn = 0
    /\ accounts = Users
    /\ messages = <<>>
    /\ groups = <<>>
    /\ fileRows = <<>>
    /\ up = [u \in Users |-> <<>>]
    /\ down = [u \in Users |-> <<>>]
    /\ linked = [u \in Users |-> job[u].program # "none"]

-----------------------------------------------------------------------------
(* The server's side.                                                      *)

\* The handler dispatch chooses for a request, when it does not refuse it.
Handle(s, t, q) ==
    \/ q.op = "chat" /\ Chat(s, t, q.to)
    \/ q.op = "invite" /\ Invite(s, t, q.to)
    \/ q.op = "file-start" /\ StartFile(s, t, q.to, q.len)
    \/ /\ q.op = "file-chunk"
       /\ \E x \in transfers :
             /\ x.id = q.id
             /\ \/ q.index = x.next /\ RelayChunk(s, t, x, q.len)
                \/ DropFile(s, t, x, q.index, q.len)
    \/ q.op = "file-complete" /\ \E x \in transfers : x.id = q.id /\ CompleteFile(s, t, x)
    \/ \E c \in calls : c.id = q.id /\ ForwardCall(s, t, c, q.op)

\* The conditions under which the handler answers with an error.  Storing a
\* message or a file may always fail.
Refused(s, t, q) ==
    LET me == t.clients[s].user
    IN  \/ q.op \in {"chat", "file-start"}
        \/ q.op = "invite" /\ (Busy(t, me) \/ Busy(t, q.to) \/ ~Online(t, q.to))
        \/ q.op = "file-chunk" /\ \A x \in t.transfers : x.id = q.id => ~(Owns(t, s, x) /\ Fits(x, q.len))
        \/ q.op = "file-complete" /\ \A x \in t.transfers : x.id = q.id => ~(Owns(t, s, x) /\ x.seen = x.size)
        \/ q.op \in CallOps \ {"invite"} /\ \A c \in t.calls : c.id = q.id => ~MaySend(c, me, q.op)

\* Mutant of Decline: hanging up a call that is over succeeds.
DeclineUnlessHangup(s, t, q) ==
    /\ Serve(s, t)
    /\ Refused(s, t, q)
    /\ Commit(Reply(t, s, IF q.op = "hangup" THEN Response("ok", "hangup", q.id)
                          ELSE Response("error", "none", 0)))
    /\ UNCHANGED <<ids, storage>>

Decline(s, t, q) == Refused(s, t, q) /\ Refuse(s, t)

\* A visit of the slot: what was flushed is on its way to the client, and at most
\* one request is read.  The server loses the connection after the client has
\* left it.
ServeLink(s, t) ==
    LET u == Seats[s]
        sent == IF out[s] # NoPacket /\ t.out[s] = NoPacket THEN <<out[s]>> ELSE <<>>
        asked == up[u]
    IN  /\ Len(down[u]) + Len(sent) <= MaxDown
        /\ \/ Idle(s, t) /\ up' = up
           \/ ~linked[u] /\ Disconnect(s, t) /\ up' = [up EXCEPT ![u] = <<>>]
           \/ /\ asked # <<>>
              /\ Handle(s, t, Head(asked)) \/ Decline(s, t, Head(asked))
              /\ up' = [up EXCEPT ![u] = IF clients'[s].open THEN Tail(asked) ELSE <<>>]
        /\ down' = IF linked[u] THEN [down EXCEPT ![u] = @ \o sent] ELSE down
        /\ UNCHANGED <<job, linked>>

ServerStep ==
    \/ (AcceptDone \/ Sweep \/ \E s \in Slots : SkipClosed(s)) /\ UNCHANGED links
    \/ \E s \in Slots : turn = s /\ \E t \in Flushed(s) : ServeLink(s, t)

-----------------------------------------------------------------------------
(* The client's side: queue_packet and flush, recv_packet, close.  They     *)
(* say what happens to the user's queues and leave the server alone.       *)

Send(u, q) == up' = [up EXCEPT ![u] = Append(@, q)]

\* The next packet that arrives.
Arrived(u) == linked[u] /\ down[u] # <<>>
Take(u) == down' = [down EXCEPT ![u] = Tail(@)]

\* The client's end is closed and what was not read is gone.
Leave(u) ==
    /\ linked' = [linked EXCEPT ![u] = FALSE]
    /\ down' = [down EXCEPT ![u] = <<>>]

LinksTypeOK ==
    /\ job \in [Users -> Job]
    /\ up \in [Users -> Seq(Request)]
    /\ down \in [Users -> Seq(Packet)]
    /\ linked \in [Users -> BOOLEAN]
=============================================================================
