----------------------------- MODULE CliClient -----------------------------
(***************************************************************************)
(* The commands of chat_cli that talk to other users: send, send-file and  *)
(* listen, after login_connected.  send and send-file wait for the         *)
(* response to each request before the next one and take anything else     *)
(* that arrives meanwhile for a failure; listen sends nothing.             *)
(*                                                                         *)
(* Content is named by where it is from: unit i of the file of transfer t  *)
(* is <<t, i>>, so content of another file or from another place shows.    *)
(***************************************************************************)
EXTENDS Links, FileReceive

Content(id, first, len) == [i \in 1 .. len |-> <<id, first + i>>]

\* One user listens at most: `receiving` is the state of that command.
ASSUME CliAssumption ==
    \A cast \in Casts : \A u, v \in Users : cast[u].program = "listen" /\ cast[v].program = "listen" => u = v

VARIABLES
    cli,    \* user -> where the command is
    awaited    \* user -> events `listen` still expects

cliVars == <<cli, awaited>>

\* `asks` is what the command sends next or waits for; `sent` counts units of the file.
Command == [asks : {"chat", "file-start", "file-chunk", "file-complete", "ok", "failed", "none"},
            waiting : BOOLEAN, id : Nat, sent : Nat]

Started(asks) == [asks |-> asks, waiting |-> FALSE, id |-> 0, sent |-> 0]

CliInit ==
    /\ cli = [u \in Users |-> Started(CASE job[u].program = "send" -> "chat"
                                        [] job[u].program = "send-file" -> "file-start"
                                        [] OTHER -> "none")]
    /\ awaited = [u \in Users |-> IF job[u].program = "listen" THEN job[u].expect ELSE 0]
    /\ ReceiveInit
    /\ listening = (\E u \in Users : job[u].program = "listen")

\* The request for what the command, in state c, does next.
RequestOf(u, c) ==
    LET q == [NoRequest EXCEPT !.op = c.asks, !.id = c.id]
        rest == job[u].size - c.sent
    IN  CASE c.asks = "chat" -> [q EXCEPT !.to = job[u].to]
          [] c.asks = "file-start" -> [q EXCEPT !.to = job[u].to, !.len = job[u].size]
          [] c.asks = "file-chunk" -> [q EXCEPT !.index = c.sent \div MaxChunk,
                                                !.len = IF rest < MaxChunk THEN rest ELSE MaxChunk]
          [] OTHER -> q

Begin(u) ==
    /\ cli[u].asks \in {"chat", "file-start"}
    /\ ~cli[u].waiting
    /\ cli' = [cli EXCEPT ![u].waiting = TRUE]
    /\ Send(u, RequestOf(u, cli[u]))
    /\ UNCHANGED <<vars, job, down, linked, awaited, receiveVars>>

\* Mutant of SentAfter: every chunk counts as a full one.
SentInFullChunks(u) == IF cli[u].asks = "file-chunk" THEN cli[u].sent + MaxChunk ELSE cli[u].sent

\* What has gone out once the request that was waited for is answered.
SentAfter(u) == cli[u].sent + (IF cli[u].asks = "file-chunk" THEN RequestOf(u, cli[u]).len ELSE 0)

\* What the command does after an OK response.
Answered(u, p) ==
    LET c == cli[u]
        sent == SentAfter(u)
        next == CASE c.asks \in {"chat", "file-complete"} -> "ok"
                  [] c.asks \in {"file-start", "file-chunk"} /\ sent < job[u].size -> "file-chunk"
                  [] OTHER -> "file-complete"
    IN  [asks |-> next, waiting |-> next # "ok", sent |-> sent,
         id |-> IF c.asks = "file-start" THEN p.id ELSE c.id]

\* The response arrives and is OK: the command sends its next request, and ends
\* after the last one.  The code fails unless header.seq is that of the request; a
\* command has one request out at a time, so no other number comes (AnsweredOnce).
Proceed(u) ==
    LET p == Head(down[u])
        c == Answered(u, p)
    IN  /\ cli[u].waiting
        /\ Arrived(u)
        /\ p.kind = "ok"
        /\ cli' = [cli EXCEPT ![u] = c]
        /\ IF c.asks = "ok" THEN Leave(u) /\ UNCHANGED up
           ELSE Take(u) /\ Send(u, RequestOf(u, c)) /\ UNCHANGED linked
        /\ UNCHANGED <<vars, job, awaited, receiveVars>>

\* An error response, a notify where the response should be ("unexpected packet
\* header"), a lost connection or five seconds without an answer.
Fail(u) ==
    /\ cli[u].waiting
    /\ cli' = [cli EXCEPT ![u] = Started("failed")]
    /\ Leave(u)
    /\ UNCHANGED <<vars, job, up, awaited, receiveVars>>

-----------------------------------------------------------------------------
(* listen                                                                  *)

Listening(u) == job[u].program = "listen" /\ linked[u]

\* What counts as an event of --expect-count.
Events == {"chat", "group-send", "file-complete"}

\* A notify.  One of a call, which a window may invite the user to, is read and
\* nothing is made of it.
Hear(u) ==
    LET p == Head(down[u])
    IN  /\ Listening(u)
        /\ awaited[u] > 0
        /\ Arrived(u)
        /\ p.kind = "notify"
        /\ \/ p.op \in {"chat", "group-send"} /\ UNCHANGED receiveVars
           \/ p.op \in CallOps /\ UNCHANGED receiveVars
           \/ /\ p.op = "file-start"
              /\ \E name \in Names : BeginFile([id |-> p.id, whole |-> Content(p.id, 0, p.len), name |-> name])
           \/ /\ p.op = "file-chunk"
              /\ WriteChunk([id |-> p.id, index |-> p.index,
                             bytes |-> Content(p.id, p.index * MaxChunk, p.len)])
           \/ p.op = "file-complete" /\ FinishFile(p.id)
        /\ awaited' = [awaited EXCEPT ![u] = IF p.op \in Events THEN @ - 1 ELSE @]
        /\ Take(u)
        /\ UNCHANGED <<vars, job, up, linked, cli>>

\* The command ends: enough has arrived, time is up, the connection is lost, the
\* disk fails, or a file notify is not the expected one.
ListenEnds(u) ==
    /\ Listening(u)
    /\ EndListen
    /\ cli' = [cli EXCEPT ![u].asks = IF awaited[u] = 0 THEN "ok" ELSE "failed"]
    /\ Leave(u)
    /\ UNCHANGED <<vars, job, up, awaited>>

ListenerKilled(u) ==
    /\ Listening(u)
    /\ KillListener
    /\ cli' = [cli EXCEPT ![u].asks = "failed"]
    /\ Leave(u)
    /\ UNCHANGED <<vars, job, up, awaited>>

CliStep(u) == Begin(u) \/ Proceed(u) \/ Fail(u) \/ Hear(u) \/ ListenEnds(u) \/ ListenerKilled(u)

CliTypeOK ==
    /\ cli \in [Users -> Command]
    /\ \A u \in Users : cli[u].sent <= job[u].size
    /\ awaited \in [Users -> Nat]
=============================================================================
