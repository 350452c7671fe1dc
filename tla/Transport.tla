----------------------------- MODULE Transport ------------------------------
(***************************************************************************)
(* One direction of a connection between two lan_chat_tcp_connection_t,    *)
(* byte by byte: the sender's one-packet send queue, the socket, which may *)
(* take and hand over any number of bytes, and the receiver's framer over  *)
(* its ring buffer.  The client and the server use the same code, in both  *)
(* directions.                                                             *)
(*                                                                         *)
(* A byte is named by the packet it belongs to and its place in it; the    *)
(* first HeaderLen bytes of a packet tell the framer its length.           *)
(***************************************************************************)
EXTENDS RingBuffer, Integers, FiniteSets

CONSTANTS
    HeaderLen,    \* LAN_CHAT_HEADER_LEN
    RecvSize,     \* LAN_CHAT_TRANSPORT_RECV_BUFFER_SIZE
    PacketLens,   \* lengths of the packets an instance sends, header included
    MaxPackets    \* bound: packets queued

ASSUME TransportAssumption ==
    /\ HeaderLen \in Nat \ {0}
    /\ RecvSize \in Nat \ {0}
    /\ PacketLens \subseteq HeaderLen .. Capacity   \* framer and send buffers hold the largest packet
    /\ MaxPackets \in Nat
    /\ \A p \in 1 .. MaxPackets, k \in 1 .. Capacity : [packet |-> p, at |-> k] \in Bytes

VARIABLES
    sent,      \* lengths of the packets queued so far; packet p is the p-th
    queue,     \* the bytes of send_queue behind send_offset
    wire,      \* bytes the sockets hold
    ring,      \* the receiver's framer
    got,       \* packets recv_packet has returned
    up,        \* neither end has closed or lost the connection
    sending,   \* is_open at the sender
    receiving  \* is_open at the receiver

vars == <<sent, queue, wire, ring, got, up, sending, receiving>>

PacketBytes(p, len) == [k \in 1 .. len |-> [packet |-> p, at |-> k]]

NoBytes == <<>>

-----------------------------------------------------------------------------
(* lan_chat_framer_next on a ring.                                         *)

\* The header is complete; header_decode accepts only the start of a packet.
HasHeader(r) == r.size >= HeaderLen
Header(r) == Peek(r, 0, HeaderLen)
GoodHeader(r) ==
    \E p \in 1 .. Len(sent) : Header(r) = PacketBytes(p, HeaderLen)
FrontLen(r) == sent[Header(r)[1].packet]

\* Mutant of HasPacket: a packet waits for the first byte behind it.
HasPacketAndMore(r) == HasHeader(r) /\ GoodHeader(r) /\ r.size > FrontLen(r)

HasPacket(r) == HasHeader(r) /\ GoodHeader(r) /\ r.size >= FrontLen(r)
NeedsMore(r) == ~HasHeader(r) \/ (GoodHeader(r) /\ ~HasPacket(r))

\* The packet at the front is handed to the caller.
Take(r) ==
    /\ ring' = Discard(r, FrontLen(r))
    /\ got' = Append(got, Peek(r, 0, FrontLen(r)))

-----------------------------------------------------------------------------
(* The sender.                                                             *)

\* queue_packet is refused while a packet is pending.
Queue(len) ==
    /\ sending
    /\ queue = NoBytes
    /\ Len(sent) < MaxPackets
    /\ sent' = Append(sent, len)
    /\ queue' = PacketBytes(Len(sent'), len)
    /\ UNCHANGED <<wire, ring, got, up, sending, receiving>>

\* Mutant of Flush: a partial send forgets the rest of the packet.
FlushOnce(n) ==
    /\ sending /\ up
    /\ n \in 1 .. Len(queue)
    /\ wire' = wire \o SubSeq(queue, 1, n)
    /\ queue' = NoBytes
    /\ UNCHANGED <<sent, ring, got, up, sending, receiving>>

\* The socket takes n bytes before it would block.
Flush(n) ==
    /\ sending /\ up
    /\ n \in 1 .. Len(queue)
    /\ wire' = wire \o SubSeq(queue, 1, n)
    /\ queue' = SubSeq(queue, n + 1, Len(queue))
    /\ UNCHANGED <<sent, ring, got, up, sending, receiving>>

\* The sender closes, or its flush fails: what it had not flushed is lost, and of
\* the bytes on the way any suffix.
SenderCloses ==
    /\ sending
    /\ sending' = FALSE
    /\ up' = FALSE
    /\ queue' = NoBytes
    /\ \E n \in 0 .. Len(wire) : wire' = SubSeq(wire, 1, n)
    /\ UNCHANGED <<sent, ring, got, receiving>>

-----------------------------------------------------------------------------
(* The receiver: lan_chat_tcp_connection_recv_packet.                      *)

CloseReceiver ==
    /\ receiving' = FALSE
    /\ up' = FALSE
    /\ ring' = EmptyRing
    /\ wire' = NoBytes
    /\ UNCHANGED <<sent, queue, got, sending>>

\* The framer already holds a packet.
TakeBuffered ==
    /\ receiving
    /\ HasPacket(ring)
    /\ Take(ring)
    /\ UNCHANGED <<sent, queue, wire, up, sending, receiving>>

\* What recv may hand over, and what the framer holds then.
Sizes == {n \in 1 .. Len(wire) : n <= RecvSize}
Fed(n) == Write(ring, SubSeq(wire, 1, n))

\* The socket hands over n bytes, and the framer may have a packet then.
Receive(n) ==
    /\ receiving
    /\ NeedsMore(ring)
    /\ n \in Sizes
    /\ n <= Available(ring)
    /\ \/ HasPacket(Fed(n)) /\ Take(Fed(n))
       \/ NeedsMore(Fed(n)) /\ ring' = Fed(n) /\ UNCHANGED got
    /\ wire' = SubSeq(wire, n + 1, Len(wire))
    /\ UNCHANGED <<sent, queue, up, sending, receiving>>

\* The connection ends, the socket hands over more than the framer has room for or
\* what is no header, or the receiver's own side closes.
ReceiverCloses ==
    /\ receiving
    /\ CloseReceiver

-----------------------------------------------------------------------------
Init ==
    /\ sent = <<>>
    /\ queue = NoBytes
    /\ wire = NoBytes
    /\ ring = EmptyRing
    /\ got = <<>>
    /\ up = TRUE
    /\ sending = TRUE
    /\ receiving = TRUE

Sender == (\E len \in PacketLens : Queue(len)) \/ (\E n \in 1 .. Len(queue) : Flush(n)) \/ SenderCloses

Receiver ==
    \/ TakeBuffered
    \/ \E n \in Sizes : Receive(n)
    \/ ReceiverCloses

Next == Sender \/ Receiver

Spec == Init /\ [][Next]_vars

\* Both ends keep calling flush and recv_packet.
FairSpec ==
    /\ Spec
    /\ WF_vars(\E n \in 1 .. Len(queue) : Flush(n))
    /\ WF_vars(TakeBuffered)
    /\ WF_vars(\E n \in Sizes : Receive(n))

-----------------------------------------------------------------------------
TypeOK ==
    /\ sent \in Seq(PacketLens)
    /\ queue \in Seq(Bytes)
    /\ wire \in Seq(Bytes)
    /\ ring \in RingType
    /\ got \in Seq(Seq(Bytes))
    /\ {up, sending, receiving} \subseteq BOOLEAN

Packet(p) == PacketBytes(p, sent[p])

\* recv_packet returns the packets that were queued, whole and in order, whatever
\* pieces they travelled in and wherever in the ring they came to lie: this
\* connection implements the channel of module Channel.
Sent == [p \in 1 .. Len(sent) |-> Packet(p)]

C == INSTANCE Channel WITH Packets <- {PacketBytes(p, len) : p \in 1 .. MaxPackets, len \in PacketLens},
                           sent <- Sent, got <- got, ended <- ~receiving

IsChannel == C!Spec

\* Nothing is lost or made up between the ends of a live connection: what was
\* returned, what the ring holds, what is on the wire and what is still queued
\* are the bytes of the packets queued.
Flat(ps) ==
    LET f[k \in 0 .. Len(ps)] == IF k = 0 THEN <<>> ELSE f[k - 1] \o ps[k] IN f[Len(ps)]

BytesConserved == up => Flat(got) \o Contents(ring) \o wire \o queue = Flat(Sent)

\* Nothing a correct peer sends makes recv_packet close the connection: the framer
\* has room for whatever recv may hand over, and finds packets in it
\* (docs/architecture/LAN_CHAT_PROTOCOL.md:275-281: feed of any length, many
\* packets at once, none of them dropped).
FramerKeepsUp ==
    receiving =>
        \/ HasPacket(ring)
        \/ /\ NeedsMore(ring)
           /\ \A n \in Sizes : n <= Available(ring) /\ (HasPacket(Fed(n)) \/ NeedsMore(Fed(n)))

\* What the code does of that: the framer always finds its place, and recv_packet gives
\* up on a correct peer in one case only.  A packet is incomplete in the ring that, but
\* for its last byte, leaves less room than a recv has (in the code: of more than 57408
\* bytes), and another packet has been sent behind it.
LeavesNoRoom(p) == sent[p] - 1 + RecvSize > Capacity

OnlyLargePacketsOverflow ==
    receiving =>
        \/ HasPacket(ring)
        \/ /\ NeedsMore(ring)
           /\ \A n \in Sizes :
                IF n <= Available(ring)
                THEN HasPacket(Fed(n)) \/ NeedsMore(Fed(n))
                ELSE Len(got) + 1 < Len(sent) /\ LeavesNoRoom(Len(got) + 1)

\* While the connection lives, a queued packet arrives.
Arrives == \A p \in 1 .. MaxPackets : Len(sent) >= p ~> (Len(got) >= p \/ ~up)
=============================================================================
