------------------------------ MODULE Clients ------------------------------
(***************************************************************************)
(* The server with the programs of its users.                              *)
(***************************************************************************)
EXTENDS CliClient, GuiClient

clientsVars == <<vars, links, cliVars, receiveVars, guiVars>>

ClientsInit == LinksInit /\ CliInit /\ GuiInit

ClientsNext ==
    \/ ServerStep /\ UNCHANGED <<cliVars, receiveVars, guiVars>>
    \/ \E u \in Users : CliStep(u) /\ UNCHANGED guiVars
    \/ \E u \in Users : GuiStep(u) /\ UNCHANGED <<cliVars, receiveVars>>

ClientsSpec == ClientsInit /\ [][ClientsNext]_clientsVars

ClientsTypeOK == LinksTypeOK /\ CliTypeOK /\ ReceiveTypeOK /\ GuiTypeOK

Pending(u) == IF IsGui(u) THEN Len(gui[u].pending) ELSE IF cli[u].waiting THEN 1 ELSE 0

\* Requests and responses stay in step: while a connection lives, every request its
\* client has no answer for is on its way to the server, or its one response is on
\* its way back.  No handler answers twice or forgets to answer, so a response carries
\* the number (header.seq, which the server copies, server.c:642) of the client's
\* oldest request.  With one too many or too few a command would stop with "seq
\* mismatch" (cli_support.cpp:325), and a window would find no request for it and
\* keep the one it has (pending_.take, gui_client.cpp:666).
AnsweredOnce ==
    \A u \in Users : linked[u] /\ Connected(u) =>
        Pending(u) = Len(up[u]) + Count(InFlight(u), IsResponse)

\* A notify of kind op about the file of transfer id.
IsOf(p, op, id) == p.kind = "notify" /\ p.op = op /\ p.id = id

\* The chunk notifies of file id in q are those from `first` on and before `end`, in order.
InOrder(q, id, first, end) ==
    LET chunks == {i \in DOMAIN q : IsOf(q[i], "file-chunk", id)}
    IN  /\ {q[i].index : i \in chunks} = first .. end - 1
        /\ \A i, j \in chunks : i < j => q[i].index < q[j].index

\* `n` chunks are what a file of `size` units is cut into.
Cuts(n, size) == (n - 1) * MaxChunk < size /\ size <= n * MaxChunk

\* The file a listener is receiving reaches it in one piece while its connection
\* lives: the chunk notifies on their way continue at next_chunk_index without a
\* gap up to where the server's relay is, a complete notify comes after the last of
\* them, and a sender is told its file is complete only if all of it was relayed.
FileInStep ==
    \A u \in Users : Listening(u) /\ Connected(u) /\ receiving.active =>
        \E end \in receiving.next .. Len(receiving.whole) :
            LET q == InFlight(u)
                id == receiving.id
            IN  /\ InOrder(q, id, receiving.next, end)
                /\ \A x \in transfers : x.id = id => x.next = end
                /\ \A i \in DOMAIN q : IsOf(q[i], "file-complete", id) =>
                      /\ Cuts(end, Len(receiving.whole))
                      /\ \A j \in DOMAIN q : IsOf(q[j], "file-chunk", id) => j < i
                /\ (\E v \in Users : cli[v].asks = "ok" /\ cli[v].id = id) => Cuts(end, Len(receiving.whole))

\* Nobody who was there at the start has left, or has been dropped.
OnTheLine == \A u \in Users : job[u].program # "none" => linked[u] /\ Connected(u)

\* While everybody is connected, a window shows a call the server no longer has
\* only until something already on its way takes the call off: the hangup or reject
\* of the peer, or the response to its own.  No window keeps a ghost call whose end
\* it was never told of.
DeadCallIsEnding ==
    OnTheLine => \A u \in Users : gui[u].call # 0 /\ (\A c \in calls : c.id # gui[u].call) =>
        \E i \in DOMAIN InFlight(u) :
            LET p == InFlight(u)[i]
                k == Count(SubSeq(InFlight(u), 1, i), IsResponse)
            IN  \/ p.kind = "notify" /\ p.op \in EndOps
                \/ p.kind = "ok" /\ gui[u].pending[k].op \in EndOps

\* What takes a call off a window.  It never gives way to another call directly, and
\* the hangup or reject of the peer, and the response to the window's own, that ends
\* it is about this call, although handleCallSignal and callOperationSucceeded reset
\* whatever call the window has without looking at the id.  The exception is the
\* failure of an own invite (main.cpp:201-207): when two windows invite each other it
\* takes off the call that has come in meanwhile.  No other failed request ends a call.
\* (Once somebody has left, a window that was not told of the end, see
\* PeerLearnsOfEnd, may go from that call straight to the next one.)
CallEndsForItself ==
    [][OnTheLine => \A u \in Users : gui[u].call \notin {0, gui'[u].call} =>
          /\ gui'[u].call = 0
          /\ linked'[u] /\ down'[u] # down[u] =>
                LET p == Head(down[u])
                IN  /\ p.kind = "notify" => p.id = gui[u].call
                    /\ p.kind = "ok" => Head(gui[u].pending).id = gui[u].call
                    /\ p.kind = "error" => Head(gui[u].pending).op = "invite"]_clientsVars

\* Hanging up returns a user interface to idle
\* (docs/architecture/LAN_CHAT_AUDIO_GUI_CALL.md:93): a window that has no call, and
\* for which nothing is on its way, has no peer connection and no open microphone.
IdleIsSilent ==
    \A u \in Users :
        gui[u].call = 0 /\ gui[u].pending = <<>> /\ InFlight(u) = <<>> /\ audio[u].ready = <<>> => ~audio[u].on
=============================================================================
