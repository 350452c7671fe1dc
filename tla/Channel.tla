------------------------------ MODULE Channel -------------------------------
(***************************************************************************)
(* What a connection promises in one direction: packets arrive whole, in   *)
(* the order they were queued, none twice and none out of nothing.  When   *)
(* the connection ends, the packets that have not arrived are lost.        *)
(***************************************************************************)
EXTENDS Naturals, Sequences

CONSTANT Packets

VARIABLES sent, got, ended

channelVars == <<sent, got, ended>>

Init == sent = <<>> /\ got = <<>> /\ ended = FALSE

Send(p) ==
    /\ sent' = Append(sent, p)
    /\ UNCHANGED <<got, ended>>

Deliver ==
    /\ ~ended
    /\ Len(got) < Len(sent)
    /\ got' = Append(got, sent[Len(got) + 1])
    /\ UNCHANGED <<sent, ended>>

End ==
    /\ ended' = TRUE
    /\ UNCHANGED <<sent, got>>

Next == (\E p \in Packets : Send(p)) \/ Deliver \/ End

Spec == Init /\ [][Next]_channelVars
=============================================================================
