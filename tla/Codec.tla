------------------------------- MODULE Codec --------------------------------
(***************************************************************************)
(* The bytes on the wire: endian.c, the packet header of protocol.c and    *)
(* the tagged fields of tlv.c.  All are pure conversions; a buffer is a    *)
(* sequence of bytes, an offset counts from 0 as in the code.  CodecProofs *)
(* shows that what one side writes is what the other side reads.           *)
(***************************************************************************)
EXTENDS Naturals, Sequences, FiniteSets

Byte == 0 .. 255

-----------------------------------------------------------------------------
(* endian.c: numbers of one to eight bytes, most significant byte first.   *)

\* n bytes can be accessed at an offset of a buffer of length len.
CanAccess(len, at, n) == at <= len /\ n <= len - at

\* The buffer with the bytes x at an offset, and the n bytes at an offset.
Put(buffer, at, x) ==
    [i \in 1 .. Len(buffer) |-> IF i - at \in 1 .. Len(x) THEN x[i - at] ELSE buffer[i]]
Get(buffer, at, n) == [i \in 1 .. n |-> buffer[at + i]]

\* The weights of the bytes of a number: a shift by 8, 16, ... bits.
Shift8  == 256
Shift16 == 256 * Shift8
Shift24 == 256 * Shift16
Shift32 == 256 * Shift24
Shift40 == 256 * Shift32
Shift48 == 256 * Shift40
Shift56 == 256 * Shift48
Shift64 == 256 * Shift56

Bytes16(v) == <<(v \div Shift8) % 256, v % 256>>
Bytes32(v) == <<(v \div Shift24) % 256, (v \div Shift16) % 256, (v \div Shift8) % 256, v % 256>>
Bytes64(v) == <<(v \div Shift56) % 256, (v \div Shift48) % 256, (v \div Shift40) % 256,
                (v \div Shift32) % 256, (v \div Shift24) % 256, (v \div Shift16) % 256,
                (v \div Shift8) % 256, v % 256>>

Value16(b) == b[1] * Shift8 + b[2]
Value32(b) == b[1] * Shift24 + b[2] * Shift16 + b[3] * Shift8 + b[4]
Value64(b) == b[1] * Shift56 + b[2] * Shift48 + b[3] * Shift40 + b[4] * Shift32
              + b[5] * Shift24 + b[6] * Shift16 + b[7] * Shift8 + b[8]

-----------------------------------------------------------------------------
(* protocol.c: the header in front of every packet.                        *)

Magic == 76 * 256 + 67      \* 0x4C43
Version == 1
HeaderLength == 64
MaxBody == 256 * 256 - 1

\* Where each field of lan_chat_header_t lies and how many bytes it takes.
At == [magic |-> 0, version |-> 2, header_len |-> 3, message_group |-> 4, message_type |-> 6,
       flags |-> 8, status |-> 10, body_len |-> 12, seq |-> 16, session_id |-> 20,
       sender_id |-> 28, receiver_id |-> 36, timestamp_ms |-> 44, reserved |-> 52]
Width == [magic |-> 2, version |-> 1, header_len |-> 1, message_group |-> 2, message_type |-> 2,
          flags |-> 2, status |-> 2, body_len |-> 4, seq |-> 4, session_id |-> 8,
          sender_id |-> 8, receiver_id |-> 8, timestamp_ms |-> 8, reserved |-> 12]
Fields == DOMAIN At

\* What a field of w bytes can hold; reserved is an array of bytes.
Numbers(limit) == {v \in Nat : v < limit}
Values(w) == CASE w = 1 -> Numbers(Shift8)
               [] w = 2 -> Numbers(Shift16)
               [] w = 4 -> Numbers(Shift32)
               [] w = 8 -> Numbers(Shift64)
               [] w = 12 -> [1 .. 12 -> Byte]
Header == {h \in [Fields -> UNION {Values(Width[f]) : f \in Fields}] :
               \A f \in Fields : h[f] \in Values(Width[f])}

Coded(v, w) == CASE w = 1 -> <<v>>
                 [] w = 2 -> Bytes16(v)
                 [] w = 4 -> Bytes32(v)
                 [] w = 8 -> Bytes64(v)
                 [] w = 12 -> v
Decoded(b, w) == CASE w = 1 -> b[1]
                   [] w = 2 -> Value16(b)
                   [] w = 4 -> Value32(b)
                   [] w = 8 -> Value64(b)
                   [] w = 12 -> b

\* No unknown flag, and at most one of request, response and notify.
FlagsAreValid(flags) == flags < 32 /\ (flags % 2) + ((flags \div 2) % 2) + ((flags \div 4) % 2) <= 1

Valid(h) ==
    /\ h.magic = Magic
    /\ h.version = Version
    /\ h.header_len = HeaderLength
    /\ h.body_len <= MaxBody
    /\ FlagsAreValid(h.flags)
    /\ \A i \in 1 .. 12 : h.reserved[i] = 0

\* The field that byte i of a header belongs to.
Owner(i) == CHOOSE f \in Fields : i - At[f] \in 1 .. Width[f]

\* The bytes header_encode writes for a header that is valid.
Encode(h) == [i \in 1 .. HeaderLength |-> Coded(h[Owner(i)], Width[Owner(i)])[i - At[Owner(i)]]]

Decode(b) == [f \in Fields |-> Decoded(Get(b, At[f], Width[f]), Width[f])]

\* header_decode, and with it peek_size, says OK.
Accepted(b) == Len(b) >= HeaderLength /\ Valid(Decode(b))
PacketSize(b) == Decode(b).header_len + Decode(b).body_len

\* packet_pack and packet_unpack.
CanPack(h, body) == Valid(h) /\ h.body_len = Len(body)
Pack(h, body) == Encode(h) \o body
CanUnpack(b) == Accepted(b) /\ Len(b) >= PacketSize(b)
BodyOf(b) == Get(b, HeaderLength, Decode(b).body_len)

-----------------------------------------------------------------------------
(* tlv.c: a body is a row of fields, each with its id, whether the reader  *)
(* must know it, and its length in front.                                  *)

FieldHeader == 4
MaxTracked == 128       \* LAN_CHAT_TLV_MAX_TRACKED_FIELDS
RequiredBit == 128 * 256   \* LAN_CHAT_TLV_REQUIRED_MASK
FieldIds == 1 .. RequiredBit - 1

TlvType(id, required) == (id % RequiredBit) + (IF required THEN RequiredBit ELSE 0)

\* A writer is a buffer and an offset; write_bytes says OK, and what it leaves.
CanWrite(w, id, value) ==
    /\ id \in FieldIds
    /\ Len(value) < Shift16
    /\ CanAccess(Len(w.buffer), w.offset, FieldHeader + Len(value))
FieldBytes(id, required, value) ==
    [i \in 1 .. FieldHeader + Len(value) |->
        IF i <= 2 THEN Bytes16(TlvType(id, required))[i]
        ELSE IF i <= 4 THEN Bytes16(Len(value))[i - 2]
        ELSE value[i - FieldHeader]]
WriteField(w, id, required, value) ==
    [buffer |-> Put(w.buffer, w.offset, FieldBytes(id, required, value)),
     offset |-> w.offset + FieldHeader + Len(value)]

\* A reader is a buffer, an offset and the ids it has returned.
RawType(r) == Value16(Get(r.buffer, r.offset, 2))
RawLength(r) == Value16(Get(r.buffer, r.offset + 2, 2))
CanRead(r) ==
    /\ CanAccess(Len(r.buffer), r.offset, FieldHeader)
    /\ RawType(r) % RequiredBit # 0
    /\ CanAccess(Len(r.buffer), r.offset + FieldHeader, RawLength(r))
    /\ RawType(r) % RequiredBit \notin r.seen
    /\ Cardinality(r.seen) < MaxTracked
FieldRead(r) ==
    [id |-> RawType(r) % RequiredBit,
     required |-> RawType(r) >= RequiredBit,
     value |-> Get(r.buffer, r.offset + FieldHeader, RawLength(r))]
AfterField(r) ==
    [r EXCEPT !.offset = @ + FieldHeader + RawLength(r),
              !.seen = @ \cup {RawType(r) % RequiredBit}]
=============================================================================
