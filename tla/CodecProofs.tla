---------------------------- MODULE CodecProofs -----------------------------
(***************************************************************************)
(* What one side of a connection writes is what the other side reads: for  *)
(* every header, every packet and every field, whatever stands behind it   *)
(* in the buffer.                                                          *)
(***************************************************************************)
EXTENDS Codec, Integers, SequenceTheorems, TLAPS

\* A number of two bytes comes back.
LEMMA RoundTrip16 ==
    ASSUME NEW v \in Numbers(Shift16)
    PROVE  Value16(Bytes16(v)) = v /\ Bytes16(v) \in [1 .. 2 -> Byte]
<1>1. v \in Nat /\ v < Shift16
  BY SMT DEF Numbers
<1>2. /\ v = (v \div Shift8) * 256 + (v % 256)
      /\ v \div Shift8 = (v \div Shift8) % 256
  BY <1>1, SMT DEF Shift8, Shift16
<1>3. Value16(Bytes16(v)) = v
  BY <1>1, <1>2, SMT DEF Value16, Bytes16, Shift8, Shift16
<1>4. /\ v % 256 \in Byte
      /\ (v \div Shift8) % 256 \in Byte
  BY <1>1, SMT DEF Byte, Shift8, Shift16
<1>5. Bytes16(v) \in [1 .. 2 -> Byte]
  BY <1>4, SMT DEF Bytes16
<1> QED BY <1>3, <1>5

\* A number of four bytes comes back.
LEMMA RoundTrip32 ==
    ASSUME NEW v \in Numbers(Shift32)
    PROVE  Value32(Bytes32(v)) = v /\ Bytes32(v) \in [1 .. 4 -> Byte]
<1>1. v \in Nat /\ v < Shift32
  BY SMT DEF Numbers
<1>2. /\ v = (v \div Shift8) * 256 + (v % 256)
      /\ v \div Shift8 = (v \div Shift16) * 256 + ((v \div Shift8) % 256)
      /\ v \div Shift16 = (v \div Shift24) * 256 + ((v \div Shift16) % 256)
      /\ v \div Shift24 = (v \div Shift24) % 256
  BY <1>1, SMT DEF Shift8, Shift16, Shift24, Shift32
<1>3. Value32(Bytes32(v)) = v
  BY <1>1, <1>2, SMT DEF Value32, Bytes32, Shift8, Shift16, Shift24, Shift32
<1>4. /\ v % 256 \in Byte
      /\ (v \div Shift8) % 256 \in Byte
      /\ (v \div Shift16) % 256 \in Byte
      /\ (v \div Shift24) % 256 \in Byte
  BY <1>1, SMT DEF Byte, Shift8, Shift16, Shift24, Shift32
<1>5. Bytes32(v) \in [1 .. 4 -> Byte]
  BY <1>4, SMT DEF Bytes32
<1> QED BY <1>3, <1>5

\* A number of eight bytes comes back.
LEMMA RoundTrip64 ==
    ASSUME NEW v \in Numbers(Shift64)
    PROVE  Value64(Bytes64(v)) = v /\ Bytes64(v) \in [1 .. 8 -> Byte]
<1>1. v \in Nat /\ v < Shift64
  BY SMT DEF Numbers
<1>2. /\ v = (v \div Shift8) * 256 + (v % 256)
      /\ v \div Shift8 = (v \div Shift16) * 256 + ((v \div Shift8) % 256)
      /\ v \div Shift16 = (v \div Shift24) * 256 + ((v \div Shift16) % 256)
      /\ v \div Shift24 = (v \div Shift32) * 256 + ((v \div Shift24) % 256)
      /\ v \div Shift32 = (v \div Shift40) * 256 + ((v \div Shift32) % 256)
      /\ v \div Shift40 = (v \div Shift48) * 256 + ((v \div Shift40) % 256)
      /\ v \div Shift48 = (v \div Shift56) * 256 + ((v \div Shift48) % 256)
      /\ v \div Shift56 = (v \div Shift56) % 256
  BY <1>1, SMT DEF Shift8, Shift16, Shift24, Shift32, Shift40, Shift48, Shift56, Shift64
<1>3. Value64(Bytes64(v)) = v
  BY <1>1, <1>2, SMT DEF Value64, Bytes64, Shift8, Shift16, Shift24, Shift32, Shift40, Shift48, Shift56, Shift64
<1>4. /\ v % 256 \in Byte
      /\ (v \div Shift8) % 256 \in Byte
      /\ (v \div Shift16) % 256 \in Byte
      /\ (v \div Shift24) % 256 \in Byte
      /\ (v \div Shift32) % 256 \in Byte
      /\ (v \div Shift40) % 256 \in Byte
      /\ (v \div Shift48) % 256 \in Byte
      /\ (v \div Shift56) % 256 \in Byte
  BY <1>1, SMT DEF Byte, Shift8, Shift16, Shift24, Shift32, Shift40, Shift48, Shift56, Shift64
<1>5. Bytes64(v) \in [1 .. 8 -> Byte]
  BY <1>4, SMT DEF Bytes64
<1> QED BY <1>3, <1>5

\* A field of any width comes back.
LEMMA FieldComesBack ==
    ASSUME NEW f \in Fields, NEW v \in Values(Width[f])
    PROVE  /\ Decoded(Coded(v, Width[f]), Width[f]) = v
           /\ Coded(v, Width[f]) \in [1 .. Width[f] -> Byte]
<1>1. Width[f] \in {1, 2, 4, 8, 12}
  BY DEF Width, Fields, At
<1>2. CASE Width[f] = 1
  <2>1. v \in Numbers(Shift8) /\ Coded(v, Width[f]) = <<v>>
    BY <1>2 DEF Coded, Values
  <2>2. Decoded(Coded(v, Width[f]), Width[f]) = Coded(v, Width[f])[1]
    BY <1>2 DEF Decoded
  <2> QED BY <1>2, <2>1, <2>2, SMT DEF Numbers, Shift8, Byte
<1>3. CASE Width[f] = 2
  BY <1>3, RoundTrip16 DEF Decoded, Coded, Values
<1>4. CASE Width[f] = 4
  BY <1>4, RoundTrip32 DEF Decoded, Coded, Values
<1>5. CASE Width[f] = 8
  BY <1>5, RoundTrip64 DEF Decoded, Coded, Values
<1>6. CASE Width[f] = 12
  BY <1>6 DEF Decoded, Coded, Values
<1> QED BY <1>1, <1>2, <1>3, <1>4, <1>5, <1>6

\* No two fields of the header share a byte, and all lie within it.
LEMMA FieldsAreApart ==
    ASSUME NEW f \in Fields, NEW g \in Fields, NEW i \in Int,
           i - At[f] \in 1 .. Width[f], i - At[g] \in 1 .. Width[g]
    PROVE  f = g /\ i \in 1 .. HeaderLength
BY SMTT(60) DEF Fields, At, Width, HeaderLength

\* The header's bytes at a field's place are that field's.
LEMMA EncodedField ==
    ASSUME NEW h \in Header, NEW f \in Fields
    PROVE  Get(Encode(h), At[f], Width[f]) = Coded(h[f], Width[f])
<1> DEFINE c == Coded(h[f], Width[f])
<1>1. c \in [1 .. Width[f] -> Byte]
  BY FieldComesBack DEF Header
<1>2. At[f] \in Nat /\ Width[f] \in Nat /\ At[f] + Width[f] <= HeaderLength
  BY DEF Fields, At, Width, HeaderLength
<1>3. ASSUME NEW i \in 1 .. Width[f]
      PROVE  Encode(h)[At[f] + i] = c[i]
  <2>1. At[f] + i \in 1 .. HeaderLength /\ (At[f] + i) - At[f] = i /\ At[f] + i \in Int
    BY <1>2 DEF HeaderLength
  <2>2. Owner(At[f] + i) = f
    <3>1. Owner(At[f] + i) \in Fields /\ (At[f] + i) - At[Owner(At[f] + i)] \in 1 .. Width[Owner(At[f] + i)]
      BY <2>1 DEF Owner
    <3> QED BY <2>1, <3>1, FieldsAreApart
  <2> QED BY <2>1, <2>2 DEF Encode
<1>4. Get(Encode(h), At[f], Width[f]) = [i \in 1 .. Width[f] |-> c[i]]
  BY <1>3 DEF Get
<1> HIDE DEF c
<1>5. c = [i \in 1 .. Width[f] |-> c[i]]
  BY <1>1
<1> QED BY <1>4, <1>5 DEF c

\* header_decode returns the header that header_encode was given.
THEOREM HeaderComesBack ==
    ASSUME NEW h \in Header
    PROVE  Decode(Encode(h)) = h
<1>1. ASSUME NEW f \in Fields
      PROVE  Decoded(Get(Encode(h), At[f], Width[f]), Width[f]) = h[f]
  BY EncodedField, FieldComesBack DEF Header
<1>2. h = [f \in Fields |-> h[f]]
  BY DEF Header
<1> QED BY <1>1, <1>2 DEF Decode

\* An encoded header is 64 bytes.
LEMMA HeaderBytes ==
    ASSUME NEW h \in Header
    PROVE  Encode(h) \in [1 .. HeaderLength -> Byte]
<1>1. ASSUME NEW i \in 1 .. HeaderLength
      PROVE  Coded(h[Owner(i)], Width[Owner(i)])[i - At[Owner(i)]] \in Byte
  <2>1. \E f \in Fields : i - At[f] \in 1 .. Width[f]
    <3>1. i \in Nat /\ 1 <= i /\ i <= 64
      BY DEF HeaderLength
    <3>2. \A f \in Fields : i > At[f] /\ i <= At[f] + Width[f] => i - At[f] \in 1 .. Width[f]
      BY <3>1 DEF Fields, At, Width
    <3>3. \E f \in Fields : i > At[f] /\ i <= At[f] + Width[f]
      BY <3>1, SMTT(60) DEF Fields, At, Width
    <3> QED BY <3>2, <3>3
  <2>2. Owner(i) \in Fields /\ i - At[Owner(i)] \in 1 .. Width[Owner(i)]
    BY <2>1 DEF Owner
  <2>3. Coded(h[Owner(i)], Width[Owner(i)]) \in [1 .. Width[Owner(i)] -> Byte]
    BY <2>2, FieldComesBack DEF Header
  <2> QED BY <2>2, <2>3
<1> QED BY <1>1 DEF Encode

\* header_decode looks at the first 64 bytes only.
LEMMA DecodeLooksAtHeader ==
    ASSUME NEW b, NEW c, \A i \in 1 .. HeaderLength : b[i] = c[i]
    PROVE  Decode(b) = Decode(c)
<1>1. ASSUME NEW f \in Fields
      PROVE  Get(b, At[f], Width[f]) = Get(c, At[f], Width[f])
  <2>1. \A i \in 1 .. Width[f] : At[f] + i \in 1 .. HeaderLength
    BY DEF Fields, At, Width, HeaderLength
  <2> QED BY <2>1 DEF Get
<1> QED BY <1>1 DEF Decode

\* A number read from bytes is a number: no more than two or four of them need be.
LEMMA ReadIsNumber ==
    ASSUME NEW b \in Seq(Byte), NEW at \in Nat
    PROVE  /\ at + 2 <= Len(b) => Value16(Get(b, at, 2)) \in Nat
           /\ at + 4 <= Len(b) => Value32(Get(b, at, 4)) \in Nat
<1>1. Len(b) \in Nat /\ \A i \in 1 .. Len(b) : b[i] \in Nat
  <2>1. Len(b) \in Nat /\ \A i \in 1 .. Len(b) : b[i] \in Byte
    BY ElementOfSeq, LenProperties
  <2>2. \A v \in Byte : v \in Nat
    BY SMT DEF Byte
  <2> QED BY <2>1, <2>2
<1>2. ASSUME at + 2 <= Len(b) PROVE Value16(Get(b, at, 2)) \in Nat
  <2>1. Get(b, at, 2)[1] \in Nat /\ Get(b, at, 2)[2] \in Nat
    BY <1>1, <1>2, SMT DEF Get
  <2> HIDE DEF Get
  <2> QED BY <2>1, SMT DEF Value16, Shift8
<1>3. ASSUME at + 4 <= Len(b) PROVE Value32(Get(b, at, 4)) \in Nat
  <2>1. /\ Get(b, at, 4)[1] \in Nat /\ Get(b, at, 4)[2] \in Nat
        /\ Get(b, at, 4)[3] \in Nat /\ Get(b, at, 4)[4] \in Nat
    BY <1>1, <1>3, SMT DEF Get
  <2> HIDE DEF Get
  <2>2. \A v \in Nat : v * Shift8 \in Nat /\ v * Shift16 \in Nat /\ v * Shift24 \in Nat
    BY SMT DEF Shift8, Shift16, Shift24
  <2>3. \A v, w \in Nat : v + w \in Nat
    BY SMT
  <2> QED BY <2>1, <2>2, <2>3, Zenon DEF Value32
<1> QED BY <1>2, <1>3

\* Bytes whose header is accepted announce a packet for which every send buffer,
\* receive buffer and framer of the program has room (Transport assumes no more).
THEOREM AcceptedPacketFits ==
    ASSUME NEW b \in Seq(Byte), Accepted(b)
    PROVE  /\ PacketSize(b) \in Nat
           /\ HeaderLength <= PacketSize(b)
           /\ PacketSize(b) <= HeaderLength + MaxBody
<1>1. Len(b) \in Nat /\ Len(b) >= 64 /\ Decode(b).header_len = 64 /\ Decode(b).body_len <= MaxBody
  BY LenProperties DEF Accepted, Valid, HeaderLength
<1>2. Decode(b).body_len \in Nat
  <2>1. Decode(b).body_len = Value32(Get(b, 12, 4))
    BY DEF Decode, Decoded, Fields, At, Width
  <2> QED BY <1>1, <2>1, ReadIsNumber
<1>3. HeaderLength = 64 /\ MaxBody \in Nat
  BY SMT DEF HeaderLength, MaxBody
<1> QED BY <1>1, <1>2, <1>3, SMT DEF PacketSize

\* Two rows of bytes, one behind the other.
LEMMA BytesBehind ==
    ASSUME NEW s \in Seq(Byte), NEW t \in Seq(Byte)
    PROVE  /\ s \o t \in Seq(Byte)
           /\ Len(s \o t) = Len(s) + Len(t)
           /\ \A i \in 1 .. Len(s) + Len(t) :
                 (s \o t)[i] = IF i <= Len(s) THEN s[i] ELSE t[i - Len(s)]
BY ConcatProperties, Zenon

\* packet_unpack gives back the header and the body that packet_pack was given,
\* whatever follows in the buffer, and takes exactly the packet.
THEOREM PacketComesBack ==
    ASSUME NEW h \in Header, NEW body \in Seq(Byte), NEW rest \in Seq(Byte),
           CanPack(h, body)
    PROVE  LET b == Pack(h, body) \o rest
           IN  /\ CanUnpack(b)
               /\ Decode(b) = h
               /\ BodyOf(b) = body
               /\ PacketSize(b) = Len(Pack(h, body))
<1> DEFINE e == Encode(h)
           b == (e \o body) \o rest
<1>1. e \in Seq(Byte) /\ Len(e) = 64
  <2>1. e \in [1 .. 64 -> Byte]
    BY HeaderBytes DEF HeaderLength
  <2>2. e \in Seq(Byte)
    BY <2>1, SeqDef
  <2> QED BY <2>1, <2>2, LenProperties, SMT
<1>2. Decode(e) = h
  BY HeaderComesBack
<1> HIDE DEF e
<1>3. /\ e \o body \in Seq(Byte) /\ Len(e \o body) = 64 + Len(body)
      /\ \A i \in 1 .. 64 + Len(body) : (e \o body)[i] = IF i <= 64 THEN e[i] ELSE body[i - 64]
  <2>1. /\ e \o body \in Seq(Byte) /\ Len(e \o body) = Len(e) + Len(body)
        /\ \A i \in 1 .. Len(e) + Len(body) :
              (e \o body)[i] = IF i <= Len(e) THEN e[i] ELSE body[i - Len(e)]
    BY <1>1, BytesBehind
  <2> QED BY <1>1, <2>1
<1> DEFINE d == e \o body
<1>a. /\ b \in Seq(Byte) /\ Len(b) = 64 + Len(body) + Len(rest)
      /\ \A i \in 1 .. 64 + Len(body) + Len(rest) :
            b[i] = IF i <= 64 + Len(body) THEN d[i] ELSE rest[i - (64 + Len(body))]
  <2>1. d \in Seq(Byte) /\ Len(d) = 64 + Len(body)
    BY <1>3
  <2> HIDE DEF d
  <2>2. /\ d \o rest \in Seq(Byte) /\ Len(d \o rest) = Len(d) + Len(rest)
        /\ \A i \in 1 .. Len(d) + Len(rest) :
              (d \o rest)[i] = IF i <= Len(d) THEN d[i] ELSE rest[i - Len(d)]
    BY <2>1, BytesBehind
  <2>3. b = d \o rest
    BY DEF d
  <2> QED BY <2>1, <2>2, <2>3
<1>b. Len(body) \in Nat /\ Len(rest) \in Nat
  BY LenProperties
<1> HIDE DEF b
<1>4. \A i \in 1 .. 64 : b[i] = e[i]
  BY <1>3, <1>a, <1>b, SMT
<1>5. \A i \in 1 .. Len(body) : b[64 + i] = body[i]
  BY <1>3, <1>a, <1>b, SMT
<1>6. Decode(b) = h
  BY <1>2, <1>4, DecodeLooksAtHeader DEF HeaderLength
<1>7. h.header_len = 64 /\ h.body_len = Len(body) /\ Valid(h)
  BY DEF CanPack, Valid, HeaderLength
<1>8. PacketSize(b) = 64 + Len(body)
  BY <1>6, <1>7 DEF PacketSize
<1>9. CanUnpack(b)
  BY <1>a, <1>b, <1>6, <1>7, <1>8, SMT DEF CanUnpack, Accepted, HeaderLength
<1>10. BodyOf(b) = body
  <2>1. BodyOf(b) = [i \in 1 .. Len(body) |-> body[i]]
    BY <1>5, <1>6, <1>7 DEF BodyOf, Get, HeaderLength
  <2>2. body = [i \in 1 .. Len(body) |-> body[i]]
    BY LenProperties
  <2> QED BY <2>1, <2>2
<1> QED BY <1>3, <1>6, <1>8, <1>9, <1>10 DEF b, e, Pack

-----------------------------------------------------------------------------
(* The fields of a body.                                                   *)

\* A reader never leaves its buffer, and each field takes it forward: the loops
\* over a body end.
THEOREM ReaderStaysInside ==
    ASSUME NEW r \in [buffer : Seq(Byte), offset : Nat, seen : SUBSET Nat], CanRead(r)
    PROVE  /\ AfterField(r).offset <= Len(r.buffer)
           /\ AfterField(r).offset > r.offset
           /\ RawType(r) % RequiredBit \in AfterField(r).seen
<1>0. RawLength(r) \in Nat
  <2>1. r.buffer \in Seq(Byte) /\ r.offset + 2 \in Nat /\ (r.offset + 2) + 2 <= Len(r.buffer)
    BY LenProperties, SMT DEF CanRead, CanAccess, FieldHeader
  <2> QED BY <2>1, ReadIsNumber DEF RawLength
<1>1. AfterField(r).offset = r.offset + 4 + RawLength(r)
  BY SMT DEF AfterField, FieldHeader
<1>2. r.offset + 4 + RawLength(r) <= Len(r.buffer)
  BY <1>0, LenProperties, SMT DEF CanRead, CanAccess, FieldHeader
<1>3. RawType(r) % RequiredBit \in AfterField(r).seen
  BY DEF AfterField
<1> QED BY <1>0, <1>1, <1>2, <1>3, SMT

\* A field that is written leaves the fields before it as they were.
THEOREM EarlierFieldsStay ==
    ASSUME NEW w \in [buffer : Seq(Byte), offset : Nat], NEW id, NEW required,
           NEW value \in Seq(Byte), CanWrite(w, id, value)
    PROVE  /\ Len(WriteField(w, id, required, value).buffer) = Len(w.buffer)
           /\ \A i \in 1 .. w.offset : WriteField(w, id, required, value).buffer[i] = w.buffer[i]
<1> DEFINE x == FieldBytes(id, required, value)
<1>1. WriteField(w, id, required, value).buffer =
         [i \in 1 .. Len(w.buffer) |-> IF i - w.offset \in 1 .. Len(x) THEN x[i - w.offset] ELSE w.buffer[i]]
  BY DEF WriteField, Put
<1>2. w.offset \in Nat /\ w.offset <= Len(w.buffer) /\ Len(w.buffer) \in Nat
  BY SMT DEF CanWrite, CanAccess
<1> HIDE DEF x
<1>3. \A i \in 1 .. w.offset : i \in 1 .. Len(w.buffer) /\ ~(i - w.offset \in 1 .. Len(x))
  BY <1>2, SMT
<1> QED BY <1>1, <1>2, <1>3, SMT

\* The type of a field tells its id and whether it is required.
LEMMA TypeComesBack ==
    ASSUME NEW id \in FieldIds, NEW required \in BOOLEAN
    PROVE  /\ TlvType(id, required) \in Numbers(Shift16)
           /\ TlvType(id, required) % RequiredBit = id
           /\ (TlvType(id, required) >= RequiredBit) = required
<1>1. id \in Nat /\ id < RequiredBit
  BY SMT DEF FieldIds, RequiredBit
<1>2. CASE required
  <2>1. TlvType(id, required) = id + RequiredBit
    BY <1>1, <1>2, SMT DEF TlvType, RequiredBit
  <2>2. /\ id + RequiredBit \in Numbers(Shift16) /\ (id + RequiredBit) % RequiredBit = id
        /\ id + RequiredBit >= RequiredBit
    BY <1>1, SMT DEF RequiredBit, Numbers, Shift8, Shift16
  <2> QED BY <1>2, <2>1, <2>2
<1>3. CASE ~required
  <2>1. TlvType(id, required) = id
    BY <1>1, <1>3, SMT DEF TlvType, RequiredBit
  <2>2. id \in Numbers(Shift16) /\ id % RequiredBit = id /\ ~(id >= RequiredBit)
    BY <1>1, SMT DEF RequiredBit, Numbers, Shift8, Shift16
  <2> QED BY <1>3, <2>1, <2>2
<1> QED BY <1>2, <1>3

\* The reader gets the field that the writer wrote, id, required bit and value, and
\* goes on behind it, from any buffer that holds what the writer's buffer held up
\* to there; it refuses a field it has returned before.
THEOREM WrittenFieldIsRead ==
    ASSUME NEW w \in [buffer : Seq(Byte), offset : Nat], NEW id, NEW required \in BOOLEAN,
           NEW value \in Seq(Byte), CanWrite(w, id, value),
           NEW r \in [buffer : Seq(Byte), offset : Nat, seen : SUBSET Nat],
           r.offset = w.offset,
           Len(r.buffer) >= WriteField(w, id, required, value).offset,
           \A i \in 1 .. WriteField(w, id, required, value).offset :
               r.buffer[i] = WriteField(w, id, required, value).buffer[i],
           Cardinality(r.seen) < MaxTracked
    PROVE  /\ CanRead(r) <=> id \notin r.seen
           /\ FieldRead(r) = [id |-> id, required |-> required, value |-> value]
           /\ AfterField(r).offset = WriteField(w, id, required, value).offset
<1> DEFINE x == FieldBytes(id, required, value)
           n == Len(value)
           o == w.offset
<1>1. /\ n \in Nat /\ n < Shift16 /\ o \in Nat /\ id \in FieldIds
      /\ o + 4 + n <= Len(w.buffer) /\ Len(w.buffer) \in Nat /\ Len(r.buffer) \in Nat
      /\ WriteField(w, id, required, value).offset = o + 4 + n
  BY LenProperties, SMT DEF CanWrite, CanAccess, FieldHeader, WriteField
<1>2. x = [i \in 1 .. 4 + n |-> IF i <= 2 THEN Bytes16(TlvType(id, required))[i]
                                ELSE IF i <= 4 THEN Bytes16(n)[i - 2] ELSE value[i - 4]]
  BY DEF FieldBytes, FieldHeader
<1>3. Len(x) = 4 + n
  BY <1>1, <1>2, SMT
<1> HIDE DEF x, n, o
<1>4. ASSUME NEW i \in 1 .. 4 + n
      PROVE  r.buffer[o + i] = x[i]
  <2>1. /\ o + i \in 1 .. o + 4 + n /\ o + i \in 1 .. Len(w.buffer)
        /\ (o + i) - o = i /\ i \in 1 .. Len(x)
    BY <1>1, <1>3, SMT
  <2>2. r.buffer[o + i] = WriteField(w, id, required, value).buffer[o + i]
    BY <1>1, <2>1
  <2>3. WriteField(w, id, required, value).buffer = Put(w.buffer, o, x)
    BY DEF WriteField, o, x
  <2> QED BY <2>1, <2>2, <2>3 DEF Put
<1>5. Get(r.buffer, o, 2) = Bytes16(TlvType(id, required))
  <2>1. \A i \in 1 .. 2 : i \in 1 .. 4 + n /\ r.buffer[o + i] = Bytes16(TlvType(id, required))[i]
    BY <1>1, <1>2, <1>4, SMT
  <2>2. Bytes16(TlvType(id, required)) \in [1 .. 2 -> Byte]
    BY <1>1, TypeComesBack, RoundTrip16
  <2>3. Bytes16(TlvType(id, required)) = [i \in 1 .. 2 |-> Bytes16(TlvType(id, required))[i]]
    BY <2>2
  <2> QED BY <2>1, <2>3 DEF Get
<1>6. Get(r.buffer, o + 2, 2) = Bytes16(n)
  <2>1. \A i \in 1 .. 2 : r.buffer[(o + 2) + i] = Bytes16(n)[i]
    <3>1. ASSUME NEW i \in 1 .. 2
          PROVE  /\ i + 2 \in 1 .. 4 + n /\ ~(i + 2 <= 2) /\ i + 2 <= 4 /\ (i + 2) - 2 = i
                 /\ (o + 2) + i = o + (i + 2)
      BY <1>1, SMTT(30)
    <3> QED BY <1>2, <1>4, <3>1
  <2>2. Bytes16(n) \in [1 .. 2 -> Byte]
    BY <1>1, RoundTrip16 DEF Numbers
  <2>3. Bytes16(n) = [i \in 1 .. 2 |-> Bytes16(n)[i]]
    BY <2>2
  <2> QED BY <2>1, <2>3 DEF Get
<1>7. RawType(r) = TlvType(id, required) /\ RawLength(r) = n
  <2>1. Value16(Bytes16(TlvType(id, required))) = TlvType(id, required)
    BY <1>1, TypeComesBack, RoundTrip16
  <2>2. Value16(Bytes16(n)) = n
    BY <1>1, RoundTrip16 DEF Numbers
  <2> QED BY <1>5, <1>6, <2>1, <2>2 DEF RawType, RawLength, o
<1>8. RawType(r) % RequiredBit = id /\ (RawType(r) >= RequiredBit) = required
  BY <1>1, <1>7, TypeComesBack
<1>9. Get(r.buffer, o + 4, n) = value
  <2>1. \A i \in 1 .. n : r.buffer[(o + 4) + i] = value[i]
    <3>1. ASSUME NEW i \in 1 .. n
          PROVE  /\ i + 4 \in 1 .. 4 + n /\ ~(i + 4 <= 2) /\ ~(i + 4 <= 4) /\ (i + 4) - 4 = i
                 /\ (o + 4) + i = o + (i + 4)
      <4>1. i \in Nat /\ 1 <= i /\ i <= n /\ n \in Nat /\ o \in Nat
        BY <1>1, SMT
      <4> QED BY ONLY <4>1, SMT
    <3> QED BY <1>2, <1>4, <3>1
  <2>2. value = [i \in 1 .. n |-> value[i]]
    BY LenProperties DEF n
  <2> QED BY <2>1, <2>2 DEF Get
<1>10. CanRead(r) <=> id \notin r.seen
  <2>1. CanAccess(Len(r.buffer), o, 4) /\ CanAccess(Len(r.buffer), o + 4, n)
    BY <1>1, SMT DEF CanAccess
  <2>2. id # 0
    BY <1>1, SMT DEF FieldIds
  <2> QED BY <1>7, <1>8, <2>1, <2>2 DEF CanRead, FieldHeader, o
<1>11. FieldRead(r) = [id |-> id, required |-> required, value |-> value]
  BY <1>7, <1>8, <1>9 DEF FieldRead, FieldHeader, o
<1>12. AfterField(r).offset = o + 4 + n
  BY <1>7, SMT DEF AfterField, FieldHeader, o
<1> QED BY <1>1, <1>10, <1>11, <1>12
=============================================================================
