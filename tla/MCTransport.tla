---------------------------- MODULE MCTransport -----------------------------
(***************************************************************************)
(* Transport for TLC: a byte is named by its packet and its place.         *)
(***************************************************************************)
EXTENDS Transport

CONSTANT MCCapacity

MCBlank == [packet |-> 0, at |-> 0]
MCBytes == {MCBlank} \cup [packet : 1 .. MaxPackets, at : 1 .. MCCapacity]
=============================================================================
