----------------------------- MODULE MCClients -----------------------------
(***************************************************************************)
(* Three users, each with a program of its own: files that go to one       *)
(* listener, a file and a message for it, two windows that call each       *)
(* other, or a window that calls the listener and the sender of its file.  *)
(***************************************************************************)
EXTENDS Clients, TLC

CONSTANTS u1, u2, u3

MCUsers == {u1, u2, u3}
MCSeats == (1 :> u1) @@ (2 :> u2) @@ (3 :> u3)

Nothing == [program |-> "none", to |-> u1, size |-> 0, expect |-> 0, calls |-> 0]
SendsFile(to, size) == [Nothing EXCEPT !.program = "send-file", !.to = to, !.size = size]
Sends(to) == [Nothing EXCEPT !.program = "send", !.to = to]
Listens(n) == [Nothing EXCEPT !.program = "listen", !.expect = n]
Gui(n) == [Nothing EXCEPT !.program = "gui", !.calls = n]

TwoFiles == (u1 :> SendsFile(u2, 3)) @@ (u2 :> Listens(2)) @@ (u3 :> SendsFile(u2, 1))
FileAndChat == (u1 :> SendsFile(u2, 1)) @@ (u2 :> Listens(1)) @@ (u3 :> Sends(u2))
TwoWindows == (u1 :> Gui(2)) @@ (u2 :> Gui(2)) @@ (u3 :> Nothing)
InvitedListener == (u1 :> Gui(1)) @@ (u2 :> Listens(1)) @@ (u3 :> SendsFile(u2, 1))
MCCasts == {TwoFiles, FileAndChat, TwoWindows, InvitedListener}
WindowCasts == {TwoWindows}

\* Both files have the name "f" and the directory has room for one copy more.
MCNames == {"f"}
MCPaths == {"f", "f_1"}
MCCandidates == "f" :> <<"f", "f_1">>
MCData == Nat \X Nat

\* What the composition can offer the receiver.
MCOffers == {[id |-> i, whole |-> Content(i, 0, n), name |-> "f"] : i \in 1 .. MaxTransfer, n \in {1, 3}}
MCChunks == {[id |-> i, index |-> k, bytes |-> Content(i, k * MaxChunk, n)] :
                i \in 1 .. MaxTransfer, k \in 0 .. 1, n \in 1 .. MaxChunk}

\* The state up to the contents of messages and the rows of files that are over: no
\* action and no property of these runs reads them, only how many messages there are.
\* Accounts and groups do not change.
MCView == <<clients, out, calls, transfers, ids, turn, Len(messages), [x \in transfers |-> fileRows[x.row]],
            links, cliVars, receiveVars, guiVars>>
=============================================================================
