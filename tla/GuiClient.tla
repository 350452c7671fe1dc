----------------------------- MODULE GuiClient -----------------------------
(***************************************************************************)
(* chat_gui after login: the window (main.cpp), GuiClient with its pending *)
(* requests, and the AudioCallSession as far as the call depends on it.    *)
(* Everything runs in the GUI thread, except that libdatachannel makes the *)
(* local offer, answer and candidates in threads of its own: they are      *)
(* posted to the GUI thread and handled some time later.                   *)
(***************************************************************************)
EXTENDS Links

CONSTANT MaxPending    \* bound: requests a client has without a response

VARIABLES
    gui,     \* user -> the window's call and the client's pending requests
    audio    \* user -> the audio session

guiVars == <<gui, audio>>

\* call is activeCallId_, incoming is incomingPending_, pending is pending_ in the
\* order of its sequence numbers.
Window == [call : Nat, incoming : BOOLEAN, pending : Seq([op : CallOps, id : Nat])]

\* on: there is a peer connection, and the devices run.  ready: what
\* libdatachannel has made, or will, for localOfferReady and its kind.
Session == [on : BOOLEAN, ready : Seq(RelayOps)]

GuiInit ==
    /\ gui = [u \in Users |-> [call |-> 0, incoming |-> FALSE, pending |-> <<>>]]
    /\ audio = [u \in Users |-> [on |-> FALSE, ready |-> <<>>]]

IsGui(u) == job[u].program = "gui"
Using(u) == IsGui(u) /\ linked[u]

\* resetCallState
NoCall(w) == [w EXCEPT !.call = 0, !.incoming = FALSE]

\* A signal that setLocalDescription makes, if the requests of the instance include it.
Made(op) == IF op \in Requests THEN <<op>> ELSE <<>>

\* ensurePeerConnection and startAudioDevices, after which signals are made.
WithAudio(a, signals) == [on |-> TRUE, ready |-> a.ready \o signals]

\* AudioCallSession::stop.  Signals already posted to the GUI thread stay.
Stopped(a) == {[on |-> FALSE, ready |-> SubSeq(a.ready, 1, n)] : n \in 0 .. Len(a.ready)}

\* queueCall: the request joins the pending ones, or the send buffer still has the
\* last one and it is taken back (callOperationFailed).
Queue(u, op, id, to, sent, failed) ==
    \/ /\ Len(gui[u].pending) < MaxPending
       /\ Send(u, [NoRequest EXCEPT !.op = op, !.id = id, !.to = to])
       /\ gui' = [gui EXCEPT ![u] = [sent EXCEPT !.pending = Append(@, [op |-> op, id |-> id])]]
    \/ /\ up[u] # <<>>
       /\ gui' = [gui EXCEPT ![u] = failed]
       /\ UNCHANGED up

\* A button or an event of the window; the server and what arrives are left alone.
Local(u) == Using(u) /\ UNCHANGED <<vars, job, down, linked>>

\* Invites on their way.
Invites == Cardinality({u \in Users : \E i \in DOMAIN gui[u].pending : gui[u].pending[i].op = "invite"})

\* Any user of the list of online users, which may be out of date.
ClickInvite(u) ==
    /\ Local(u)
    /\ gui[u].call = 0
    /\ ids.call + Invites <= job[u].calls
    /\ \E to \in Users \ {u} : Queue(u, "invite", 0, to, gui[u], NoCall(gui[u]))
    /\ UNCHANGED audio

Ringing(u) == gui[u].incoming /\ gui[u].call # 0

ClickAccept(u) ==
    /\ Local(u)
    /\ "accept" \in Requests
    /\ Ringing(u)
    /\ audio' = [audio EXCEPT ![u] = WithAudio(@, <<>>)]
    /\ Queue(u, "accept", gui[u].call, NoUser, gui[u], gui[u])

ClickEnd(u, op) ==
    /\ Local(u)
    /\ op \in Requests
    /\ IF op = "reject" THEN Ringing(u) ELSE gui[u].call # 0
    /\ \E a \in Stopped(audio[u]) : audio' = [audio EXCEPT ![u] = a]
    /\ Queue(u, op, gui[u].call, NoUser, NoCall(gui[u]), NoCall(gui[u]))

\* A local offer, answer or candidate reaches the GUI thread, and goes out under
\* whatever call the window has now.
SignalReady(u) ==
    LET ready == audio[u].ready
    IN  /\ Local(u)
        /\ ready # <<>>
        /\ audio' = [audio EXCEPT ![u].ready = Tail(@)]
        /\ IF gui[u].call # 0 THEN Queue(u, Head(ready), gui[u].call, NoUser, gui[u], gui[u])
           ELSE UNCHANGED <<gui, up>>

\* What an event makes of the window and, a choice of what stop leaves, of the audio.
Becomes(window, audios) == [window |-> window, audio |-> audios]

\* Mutant of OnResponse: the window does not react to the hangup response.
OnResponseButHangup(w, a, r, p) ==
    CASE p.kind = "ok" /\ r.op = "invite" ->
            Becomes([w EXCEPT !.call = p.id, !.incoming = FALSE], {WithAudio(a, Made("offer") \o Made("ice"))})
      [] p.kind = "ok" /\ r.op = "reject" -> Becomes(NoCall(w), {a})
      [] p.kind = "error" /\ r.op = "invite" -> Becomes(NoCall(w), {a})
      [] OTHER -> Becomes(w, {a})

\* callInviteSent, callOperationSucceeded and callOperationFailed for request r.
\* Nobody looks at which call the window has, and only an invite starts audio;
\* none stops it.
OnResponse(w, a, r, p) ==
    CASE p.kind = "ok" /\ r.op = "invite" ->
            Becomes([w EXCEPT !.call = p.id, !.incoming = FALSE], {WithAudio(a, Made("offer") \o Made("ice"))})
      [] p.kind = "ok" /\ r.op \in EndOps -> Becomes(NoCall(w), {a})
      [] p.kind = "error" /\ r.op = "invite" -> Becomes(NoCall(w), {a})
      [] OTHER -> Becomes(w, {a})

\* incomingCall and handleCallSignal.  An answer and a candidate leave the window
\* alone; chat and file notifies are not looked at.
OnNotify(w, a, p) ==
    CASE p.op = "invite" -> Becomes([w EXCEPT !.call = p.id, !.incoming = TRUE], {a})
      [] p.op = "accept" -> Becomes([w EXCEPT !.call = p.id, !.incoming = FALSE], {a})
      [] p.op \in EndOps -> Becomes(NoCall(w), Stopped(a))
      [] p.op = "offer" -> Becomes([w EXCEPT !.call = p.id], {WithAudio(a, Made("answer") \o Made("ice"))})
      [] OTHER -> Becomes(w, {a})

\* processPacket.  The code takes the pending request with the response's header.seq:
\* the oldest, as the server answers each request once and in order (AnsweredOnce).
Receive(u) ==
    LET p == Head(down[u])
        w == gui[u]
        answered == IsResponse(p)
        after == IF answered THEN OnResponse([w EXCEPT !.pending = Tail(@)], audio[u], Head(w.pending), p)
                 ELSE OnNotify(w, audio[u], p)
    IN  /\ Using(u)
        /\ Arrived(u)
        /\ gui' = [gui EXCEPT ![u] = after.window]
        /\ \E a \in after.audio : audio' = [audio EXCEPT ![u] = a]
        /\ Take(u)
        /\ UNCHANGED <<vars, job, up, linked>>

\* The disconnect button, or the connection is lost.
Disconnected(u) ==
    /\ Using(u)
    /\ Leave(u)
    /\ gui' = [gui EXCEPT ![u] = [NoCall(@) EXCEPT !.pending = <<>>]]
    /\ \E a \in Stopped(audio[u]) : audio' = [audio EXCEPT ![u] = a]
    /\ UNCHANGED <<vars, job, up>>

GuiStep(u) ==
    \/ ClickInvite(u) \/ ClickAccept(u) \/ \E op \in EndOps : ClickEnd(u, op)
    \/ SignalReady(u)
    \/ Receive(u)
    \/ Disconnected(u)

GuiTypeOK ==
    /\ gui \in [Users -> Window]
    /\ audio \in [Users -> Session]
=============================================================================
