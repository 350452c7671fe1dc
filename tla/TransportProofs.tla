-------------------------- MODULE TransportProofs --------------------------
(***************************************************************************)
(* A connection delivers the packets that were queued, whole and in order, *)
(* for every capacity, size of recv's buffer, packet length and number of  *)
(* packets.                                                                *)
(*                                                                         *)
(* First the ring, for every read position and content: a write appends    *)
(* and a discard drops from the front, however the bytes wrap.  The        *)
(* arithmetic of the wrapping is about plain numbers and has lemmas of its *)
(* own, away from records and functions.                                   *)
(*                                                                         *)
(* Then what is between the ends - in the ring, on the wire, still queued  *)
(* - which is one stream of bytes.  Laid(s, g, n, lens, ends) says where   *)
(* the packets behind the g-th up to the n-th lie in it without adding up  *)
(* lengths: ends[p] is where packet p ends.  A lost connection cuts the    *)
(* stream off anywhere.                                                    *)
(*                                                                         *)
(* Last the bytes as a whole, which Flat joins by recursion: what it joins *)
(* is found by looking at the first number for which it would be wrong     *)
(* (JoinsExist, JoinsAgree), and one more packet joins on at the end.      *)
(***************************************************************************)
EXTENDS Transport, SequenceTheorems, WellFoundedInduction, TLAPS

\* Where offset k from read position r falls in a buffer of cap cells, and the first
\* part of a copy of n bytes from p.
At(cap, r, k) == IF r + k < cap THEN r + k ELSE r + k - cap
First(cap, p, n) == IF cap - p > n THEN n ELSE cap - p

\* When n bytes are written behind z: the k-th old byte's cell is in neither part.
OldIsApart(cap, r, z, n, k) ==
    LET p == At(cap, r, z)
        f == First(cap, p, n)
        i == At(cap, r, k - 1)
    IN  0 <= i /\ i < cap /\ ~(p <= i /\ i < p + f) /\ ~(i < n - f)

\* The k-th new byte's cell is in the part Write takes it from.
NewLands(cap, r, z, n, k) ==
    LET p == At(cap, r, z)
        f == First(cap, p, n)
        i == At(cap, r, z + k - 1)
    IN  /\ 0 <= i /\ i < cap
        /\ k <= f => p <= i /\ i < p + f /\ i - p + 1 = k
        /\ k > f => ~(p <= i /\ i < p + f) /\ i < n - f /\ f + i + 1 = k

\* A write that fits overwrites nothing, however it wraps.
LEMMA OldStays ==
    ASSUME NEW cap \in Nat, NEW r \in Nat, NEW z \in Nat, NEW n \in Nat, NEW k \in Nat,
           r < cap, z + n <= cap, 1 <= k, k <= z
    PROVE  OldIsApart(cap, r, z, n, k)
BY DEF OldIsApart, At, First

\* A write puts each byte where a read will look for it, however it wraps.
LEMMA NewGoesBehind ==
    ASSUME NEW cap \in Nat, NEW r \in Nat, NEW z \in Nat, NEW n \in Nat, NEW k \in Nat,
           r < cap, z + n <= cap, 1 <= k, k <= n
    PROVE  NewLands(cap, r, z, n, k)
BY DEF NewLands, At, First

\* A position that runs past the end of the buffer comes back by one capacity.
LEMMA Wrap ==
    ASSUME NEW r \in Cells, NEW k \in 0 .. Capacity
    PROVE  (r + k) % Capacity = At(Capacity, r, k)
BY RingAssumption DEF Cells, At

\* Where an offset up to the capacity falls (write_pos and the positions of peek).
LEMMA CellOf ==
    ASSUME NEW rb \in RingType, NEW k \in 0 .. Capacity
    PROVE  CellAt(rb, k) = At(Capacity, rb.read, k)
BY Wrap DEF CellAt, RingType

\* A peek at the front returns the bytes in order, one cell after another.
LEMMA PeekIs ==
    ASSUME NEW rb \in RingType, NEW n \in 0 .. rb.size
    PROVE  /\ Peek(rb, 0, n) \in Seq(Bytes)
           /\ Len(Peek(rb, 0, n)) = n
           /\ \A k \in 1 .. n : Peek(rb, 0, n)[k] = rb.data[CellAt(rb, k - 1)]
<1> DEFINE pos == CellAt(rb, 0)
           first == FirstPart(pos, n)
           c == [k \in 1 .. n |-> IF k <= first THEN rb.data[pos + k - 1] ELSE rb.data[k - first - 1]]
<1>1. /\ rb.size \in Nat /\ rb.size <= Capacity /\ rb.read \in Nat /\ rb.read < Capacity
      /\ n \in Nat /\ n <= rb.size
      /\ rb.data \in [Cells -> Bytes] /\ Capacity \in Nat \ {0}
  BY RingAssumption DEF RingType, Cells
<1>2. pos = rb.read /\ pos \in Cells
  BY <1>1, CellOf DEF RingType, Cells, At
<1>3. first = IF Capacity - pos > n THEN n ELSE Capacity - pos
  BY DEF FirstPart
<1>4. ASSUME NEW k \in 1 .. n
      PROVE  c[k] = rb.data[CellAt(rb, k - 1)] /\ CellAt(rb, k - 1) \in Cells
  <2>1. CellAt(rb, k - 1) = IF rb.read + (k - 1) < Capacity THEN rb.read + (k - 1) ELSE rb.read + (k - 1) - Capacity
    BY <1>1, CellOf DEF At
  <2>2. CellAt(rb, k - 1) \in Cells
    BY <1>1, <2>1 DEF Cells
  <2>3. CellAt(rb, k - 1) = IF k <= first THEN pos + k - 1 ELSE k - first - 1
    BY <1>1, <1>2, <1>3, <2>1
  <2> HIDE DEF pos, first
  <2> QED BY <2>2, <2>3
<1>5. Peek(rb, 0, n) = c
  BY DEF Peek
<1> HIDE DEF c
<1>6. \A k \in 1 .. n : c[k] \in Bytes
  BY <1>1, <1>4
<1>7. c = [k \in 1 .. n |-> c[k]]
  BY DEF c
<1>8. c \in [1 .. n -> Bytes]
  BY <1>6, <1>7
<1>9. c \in Seq(Bytes) /\ Len(c) = n
  BY <1>1, <1>8
<1> QED BY <1>4, <1>5, <1>9

LEMMA ContentsAre ==
    ASSUME NEW rb \in RingType
    PROVE  /\ Contents(rb) \in Seq(Bytes)
           /\ Len(Contents(rb)) = rb.size
           /\ \A k \in 1 .. rb.size : Contents(rb)[k] = rb.data[CellAt(rb, k - 1)]
<1>1. rb.size \in 0 .. rb.size
  BY DEF RingType
<1> QED BY <1>1, PeekIs DEF Contents

\* What lan_chat_ring_buffer_write leaves: the old bytes stay in their cells, the
\* new ones lie in the cells behind them.
LEMMA WriteType ==
    ASSUME NEW rb \in RingType, NEW d \in Seq(Bytes), Len(d) <= Available(rb)
    PROVE  /\ Write(rb, d) \in RingType
           /\ Write(rb, d).read = rb.read
           /\ Write(rb, d).size = rb.size + Len(d)
           /\ \A k \in 1 .. rb.size : Write(rb, d).data[CellAt(rb, k - 1)] = rb.data[CellAt(rb, k - 1)]
           /\ \A k \in 1 .. Len(d) : Write(rb, d).data[CellAt(rb, rb.size + k - 1)] = d[k]
<1> DEFINE n == Len(d)
           pos == CellAt(rb, rb.size)
           first == FirstPart(pos, n)
           Copied(i) == IF i \in pos .. pos + first - 1 THEN d[i - pos + 1]
                        ELSE IF i < n - first THEN d[first + i + 1]
                        ELSE rb.data[i]
           data == [i \in Cells |-> Copied(i)]
           w == [rb EXCEPT !.data = data, !.size = @ + n]
<1>1. /\ rb.size \in Nat /\ rb.size <= Capacity /\ rb.read \in Nat /\ rb.read < Capacity
      /\ rb.data \in [Cells -> Bytes] /\ Capacity \in Nat \ {0}
      /\ n \in Nat /\ rb.size + n <= Capacity
  BY RingAssumption DEF RingType, Cells, Available
<1>2. pos = At(Capacity, rb.read, rb.size)
  BY <1>1, CellOf
<1>3. first = First(Capacity, pos, n)
  BY DEF FirstPart, First
<1>4. pos \in Cells /\ first \in 0 .. n /\ pos + first <= Capacity
  <2>1. pos \in Int /\ 0 <= pos /\ pos < Capacity
    BY <1>1, <1>2 DEF At
  <2> HIDE DEF pos, n
  <2>2. first \in Int /\ 0 <= first /\ first <= n /\ pos + first <= Capacity
    BY <1>1, <1>3, <2>1 DEF First
  <2> QED BY <1>1, <2>1, <2>2 DEF Cells
<1>5. \A i \in 1 .. n : d[i] \in Bytes
  BY <1>1
<1>6. pos \in Int /\ first \in Int /\ Capacity \in Nat
  BY <1>1, <1>4 DEF Cells
<1> HIDE DEF pos, first, n
<1>7. \A i \in Cells : Copied(i) \in Bytes
  <2> SUFFICES ASSUME NEW i \in Cells PROVE Copied(i) \in Bytes
    OBVIOUS
  <2>1. CASE i \in pos .. pos + first - 1
    <3>1. i - pos + 1 \in 1 .. n
      BY <1>1, <1>4, <2>1, SMTT(30) DEF Cells
    <3> QED BY <1>5, <2>1, <3>1
  <2>2. CASE i \notin pos .. pos + first - 1 /\ i < n - first
    <3>1. first + i + 1 \in 1 .. n
      BY <1>1, <1>4, <2>2, SMTT(30) DEF Cells
    <3> QED BY <1>5, <2>2, <3>1
  <2>3. CASE i \notin pos .. pos + first - 1 /\ ~(i < n - first)
    BY <1>1, <2>3
  <2> QED BY <2>1, <2>2, <2>3
<1>8. \A i \in Cells : data[i] = Copied(i)
  OBVIOUS
<1>9. data \in [Cells -> Bytes]
  BY <1>7
<1>10. ASSUME NEW k \in 1 .. rb.size
      PROVE  data[CellAt(rb, k - 1)] = rb.data[CellAt(rb, k - 1)]
  <2> DEFINE i == CellAt(rb, k - 1)
  <2>1. i = At(Capacity, rb.read, k - 1)
    BY <1>1, CellOf
  <2>2. OldIsApart(Capacity, rb.read, rb.size, n, k)
    BY <1>1, <1>6, OldStays
  <2> HIDE DEF i
  <2>3. 0 <= i /\ i < Capacity /\ ~(pos <= i /\ i < pos + first) /\ ~(i < n - first)
    BY <1>2, <1>3, <2>1, <2>2 DEF OldIsApart
  <2>4. i \in Int
    BY <1>1, <2>1 DEF At
  <2>5. i \in Cells /\ i \notin pos .. pos + first - 1 /\ ~(i < n - first)
    BY <1>6, <2>3, <2>4 DEF Cells
  <2> HIDE DEF data
  <2>6. data[i] = rb.data[i]
    BY <1>8, <2>5
  <2> QED BY <2>6 DEF i
<1>11. ASSUME NEW k \in 1 .. n
       PROVE  data[CellAt(rb, rb.size + k - 1)] = d[k]
  <2> DEFINE i == CellAt(rb, rb.size + k - 1)
  <2>1. rb.size + k - 1 \in 0 .. Capacity
    BY <1>1
  <2>2. i = At(Capacity, rb.read, rb.size + k - 1)
    BY <2>1, CellOf
  <2>3. NewLands(Capacity, rb.read, rb.size, n, k)
    BY <1>1, <1>6, NewGoesBehind
  <2> HIDE DEF i, data
  <2>4. i \in Int /\ k \in Int
    BY <1>1, <2>1, <2>2 DEF At
  <2>5. /\ 0 <= i /\ i < Capacity
        /\ k <= first => pos <= i /\ i < pos + first /\ i - pos + 1 = k
        /\ k > first => ~(pos <= i /\ i < pos + first) /\ i < n - first /\ first + i + 1 = k
    BY <1>2, <1>3, <2>2, <2>3 DEF NewLands
  <2>6. CASE k <= first
    <3>1. i \in Cells /\ i \in pos .. pos + first - 1 /\ i - pos + 1 = k
      BY <1>6, <2>4, <2>5, <2>6 DEF Cells
    <3>2. data[i] = d[i - pos + 1]
      BY <1>8, <3>1
    <3> QED BY <3>1, <3>2 DEF i
  <2>7. CASE k > first
    <3>1. i \in Cells /\ i \notin pos .. pos + first - 1 /\ i < n - first /\ first + i + 1 = k
      BY <1>6, <2>4, <2>5, <2>7 DEF Cells
    <3>2. data[i] = d[first + i + 1]
      BY <1>8, <3>1
    <3> QED BY <3>1, <3>2 DEF i
  <2>8. k <= first \/ k > first
    BY <1>6, <2>4
  <2> QED BY <2>6, <2>7, <2>8
<1>12. Write(rb, d) = w
  BY DEF Write, pos, first, n
<1> HIDE DEF data
<1>13. rb.size + n \in 0 .. Capacity
  BY <1>1
<1>14. w \in RingType /\ w.read = rb.read /\ w.size = rb.size + n /\ w.data = data
  <2>1. PICK cells \in [Cells -> Bytes], t \in 0 .. Capacity : cells = data /\ t = rb.size + n
    BY <1>9, <1>13
  <2>2. w = [rb EXCEPT !.data = cells, !.size = t]
    BY <2>1
  <2> QED BY <2>1, <2>2 DEF RingType
<1> QED BY <1>10, <1>11, <1>12, <1>14 DEF n

\* Writing bytes that fit appends them to what the ring holds, wherever the
\* buffer wraps: lan_chat_ring_buffer_write for every capacity and read position.
THEOREM WriteAppends ==
    ASSUME NEW rb \in RingType, NEW d \in Seq(Bytes), Len(d) <= Available(rb)
    PROVE  Contents(Write(rb, d)) = Contents(rb) \o d
<1> DEFINE w == Write(rb, d)
           cw == Contents(w)
           cd == Contents(rb) \o d
<1>1. /\ rb.size \in Nat /\ rb.size <= Capacity /\ rb.read \in Nat /\ rb.read < Capacity
      /\ Capacity \in Nat \ {0}
      /\ Len(d) \in Nat /\ rb.size + Len(d) <= Capacity
  BY RingAssumption DEF RingType, Cells, Available
<1>2. w \in RingType /\ w.read = rb.read /\ w.size = rb.size + Len(d)
  BY WriteType
<1>3. \A k \in 0 .. Capacity : CellAt(w, k) = CellAt(rb, k)
  BY <1>2 DEF CellAt
<1>4. cw \in Seq(Bytes) /\ Len(cw) = rb.size + Len(d)
  BY <1>2, ContentsAre
<1>5. Contents(rb) \in Seq(Bytes) /\ Len(Contents(rb)) = rb.size
  BY ContentsAre
<1>6. cd \in Seq(Bytes) /\ Len(cd) = rb.size + Len(d)
  BY <1>5
<1>7. ASSUME NEW k \in 1 .. rb.size + Len(d) PROVE cw[k] = cd[k]
  <2>1. cw[k] = w.data[CellAt(rb, k - 1)]
    <3>1. k \in 1 .. w.size /\ k - 1 \in 0 .. Capacity
      BY <1>1, <1>2
    <3>2. cw[k] = w.data[CellAt(w, k - 1)]
      BY <1>2, <3>1, ContentsAre
    <3> QED BY <1>3, <3>1, <3>2
  <2>2. CASE k <= rb.size
    <3>1. k \in 1 .. rb.size
      BY <1>1, <2>2
    <3>2. w.data[CellAt(rb, k - 1)] = rb.data[CellAt(rb, k - 1)]
      BY <3>1, WriteType
    <3>3. cd[k] = rb.data[CellAt(rb, k - 1)]
      BY <1>5, <3>1, ContentsAre
    <3> QED BY <2>1, <3>2, <3>3
  <2>3. CASE k > rb.size
    <3> DEFINE j == k - rb.size
    <3>1. j \in 1 .. Len(d) /\ rb.size + j - 1 = k - 1
      BY <1>1, <2>3
    <3>2. w.data[CellAt(rb, rb.size + j - 1)] = d[j]
      BY <3>1, WriteType
    <3>3. cd[k] = d[j]
      BY <1>1, <1>5, <2>3
    <3> QED BY <2>1, <3>1, <3>2, <3>3
  <2>4. k <= rb.size \/ k > rb.size
    BY <1>1
  <2> HIDE DEF cw, cd
  <2> QED BY <2>2, <2>3, <2>4
<1> HIDE DEF cw, cd
<1>8. cw = cd
  BY <1>4, <1>6, <1>7, SeqEqual
<1> QED BY <1>8 DEF cw, cd, w

\* Discarding n bytes drops the first n the ring holds, also when it empties the
\* ring and the read position jumps back to 0.
THEOREM DiscardDrops ==
    ASSUME NEW rb \in RingType, NEW n \in 0 .. rb.size
    PROVE  /\ Discard(rb, n) \in RingType
           /\ Contents(Discard(rb, n)) = SubSeq(Contents(rb), n + 1, rb.size)
<1> DEFINE e == Discard(rb, n)
           ce == Contents(e)
           cs == SubSeq(Contents(rb), n + 1, rb.size)
<1>1. /\ rb.size \in Nat /\ rb.size <= Capacity /\ rb.read \in Nat /\ rb.read < Capacity
      /\ Capacity \in Nat \ {0} /\ n \in Nat /\ n <= rb.size /\ n \in 0 .. Capacity
  BY RingAssumption DEF RingType, Cells
<1>2. CellAt(rb, n) = IF rb.read + n < Capacity THEN rb.read + n ELSE rb.read + n - Capacity
  BY <1>1, CellOf DEF At
<1>3. CellAt(rb, n) \in Cells /\ 0 \in Cells
  BY <1>1, <1>2 DEF Cells
<1>4. /\ e \in RingType /\ e.data = rb.data /\ e.size = rb.size - n
      /\ e.read = IF rb.size = n THEN 0 ELSE CellAt(rb, n)
  <2>1. rb.size - n \in 0 .. Capacity
    BY <1>1
  <2>2. (IF rb.size = n THEN 0 ELSE CellAt(rb, n)) \in Cells
    BY <1>3
  <2>3. PICK r \in Cells, t \in 0 .. Capacity :
          r = (IF rb.size = n THEN 0 ELSE CellAt(rb, n)) /\ t = rb.size - n
    BY <2>1, <2>2
  <2>4. e = [rb EXCEPT !.read = r, !.size = t]
    BY <2>3 DEF Discard
  <2> HIDE DEF e
  <2>5. e \in RingType /\ e.data = rb.data /\ e.size = t /\ e.read = r
    BY <2>4 DEF RingType
  <2> QED BY <2>3, <2>5
<1>5. ce \in Seq(Bytes) /\ Len(ce) = rb.size - n
  BY <1>4, ContentsAre
<1>6. Contents(rb) \in Seq(Bytes) /\ Len(Contents(rb)) = rb.size
  BY ContentsAre
<1>7. cs \in Seq(Bytes) /\ Len(cs) = rb.size - n /\ \A k \in 1 .. rb.size - n : cs[k] = Contents(rb)[n + k]
  BY <1>1, <1>6
<1>8. ASSUME NEW k \in 1 .. rb.size - n PROVE ce[k] = cs[k]
  <2>1. k \in 1 .. e.size /\ n + k \in 1 .. rb.size /\ k - 1 \in 0 .. Capacity /\ n + k - 1 \in 0 .. Capacity
    BY <1>1, <1>4
  <2>2. ce[k] = rb.data[CellAt(e, k - 1)]
    BY <1>4, <2>1, ContentsAre
  <2>3. Contents(rb)[n + k] = rb.data[CellAt(rb, n + k - 1)]
    BY <2>1, ContentsAre
  <2>4. e.read = CellAt(rb, n)
    BY <1>1, <1>4, <2>1
  <2>5. CellAt(e, k - 1) = IF e.read + (k - 1) < Capacity THEN e.read + (k - 1) ELSE e.read + (k - 1) - Capacity
    BY <1>4, <2>1, CellOf DEF At
  <2>6. CellAt(rb, n + k - 1) = IF rb.read + (n + k - 1) < Capacity THEN rb.read + (n + k - 1)
                                  ELSE rb.read + (n + k - 1) - Capacity
    BY <2>1, CellOf DEF At
  <2>7. CellAt(e, k - 1) = CellAt(rb, n + k - 1)
    BY <1>1, <1>2, <2>1, <2>4, <2>5, <2>6
  <2> QED BY <1>7, <2>2, <2>3, <2>7
<1> HIDE DEF ce, cs
<1>9. ce = cs
  BY <1>5, <1>7, <1>8, SeqEqual
<1> QED BY <1>4, <1>9 DEF ce, cs, e

-----------------------------------------------------------------------------
Byte(p, k) == [packet |-> p, at |-> k]

Ends(g, n, lens, ends) ==
    /\ \A p \in g .. n : ends[p] \in Nat
    /\ ends[g] = 0
    /\ \A p \in g + 1 .. n : lens[p] \in Nat /\ ends[p] = ends[p - 1] + lens[p]
    /\ \A p, q \in g .. n : p <= q => ends[p] <= ends[q]

Placed(s, g, n, lens, ends) ==
    \A p \in g + 1 .. n, k \in Nat \ {0} :
        k <= lens[p] /\ ends[p - 1] + k <= Len(s) => s[ends[p - 1] + k] = Byte(p, k)

Laid(s, g, n, lens, ends) ==
    /\ Ends(g, n, lens, ends)
    /\ Len(s) <= ends[n]
    /\ Placed(s, g, n, lens, ends)

\* A connection that was cut off has lost bytes from the end on.
LEMMA LaidCutOff ==
    ASSUME NEW s \in Seq(Bytes), NEW t \in Seq(Bytes), NEW g \in Nat, NEW n \in Nat, NEW lens, NEW ends,
           g <= n, Laid(s, g, n, lens, ends),
           Len(t) <= Len(s), \A i \in 1 .. Len(t) : t[i] = s[i]
    PROVE  Laid(t, g, n, lens, ends)
<1>1. Len(s) \in Nat /\ Len(t) \in Nat
  OBVIOUS
<1>2. (\A p \in g .. n : ends[p] \in Nat) /\ Len(s) <= ends[n] /\ Placed(s, g, n, lens, ends)
  BY DEF Laid, Ends
<1>3. ASSUME NEW p \in g + 1 .. n, NEW k \in Nat \ {0}, k <= lens[p], ends[p - 1] + k <= Len(t)
      PROVE  t[ends[p - 1] + k] = Byte(p, k)
  <2>1. p - 1 \in g .. n /\ ends[p - 1] \in Nat
    BY <1>2
  <2>2. ends[p - 1] + k \in 1 .. Len(t) /\ ends[p - 1] + k <= Len(s)
    BY <1>1, <1>3, <2>1
  <2>3. s[ends[p - 1] + k] = Byte(p, k)
    BY <1>2, <1>3, <2>2 DEF Placed
  <2> QED BY <2>2, <2>3
<1>4. n \in g .. n
  OBVIOUS
<1>5. Len(t) <= ends[n]
  BY <1>1, <1>2, <1>4
<1>6. Placed(t, g, n, lens, ends)
  BY <1>3 DEF Placed
<1> QED BY <1>5, <1>6 DEF Laid

\* The stream t is s and packet p of length len behind it; more is lens with len as
\* its n-th.
GrownBy(t, s, p, len) ==
    /\ Len(t) = Len(s) + len
    /\ \A i \in 1 .. Len(s) : t[i] = s[i]
    /\ \A k \in 1 .. len : t[Len(s) + k] = Byte(p, k)
OneMore(more, lens, n, len) == more[n] = len /\ \A p \in 1 .. n - 1 : more[p] = lens[p]

\* A packet queued behind a stream that is complete.
LEMMA LaidGrown ==
    ASSUME NEW s \in Seq(Bytes), NEW g \in Nat, NEW n \in Nat, NEW lens, NEW ends,
           g <= n, Laid(s, g, n, lens, ends), Len(s) = ends[n],
           NEW more, NEW len \in Nat, OneMore(more, lens, n + 1, len),
           NEW t \in Seq(Bytes), GrownBy(t, s, n + 1, len)
    PROVE  \E e : Laid(t, g, n + 1, more, e) /\ e[n + 1] = Len(t)
<1> DEFINE m == Len(s)
           e == [p \in Nat |-> IF p = n + 1 THEN m + len ELSE ends[p]]
<1>1. m \in Nat /\ Len(t) = m + len /\ ends[n] = m /\ more[n + 1] = len /\ \A p \in g + 1 .. n : more[p] = lens[p]
  <2>1. Len(t) = m + len /\ ends[n] = m /\ m \in Nat
    BY DEF GrownBy
  <2>2. more[n + 1] = len /\ \A p \in 1 .. (n + 1) - 1 : more[p] = lens[p]
    BY DEF OneMore
  <2>3. \A p \in g + 1 .. n : p \in 1 .. (n + 1) - 1
    OBVIOUS
  <2> QED BY <2>1, <2>2, <2>3
<1>2. /\ \A p \in g .. n : ends[p] \in Nat
      /\ ends[g] = 0
      /\ \A p \in g + 1 .. n : lens[p] \in Nat /\ ends[p] = ends[p - 1] + lens[p]
      /\ \A p, q \in g .. n : p <= q => ends[p] <= ends[q]
      /\ Placed(s, g, n, lens, ends)
  BY DEF Laid, Ends
<1>3. /\ \A p \in g .. n : e[p] = ends[p]
      /\ e[n + 1] = m + len
  OBVIOUS
<1> HIDE DEF m, e
<1>4. g \in g .. n /\ n \in g .. n
  OBVIOUS
<1>5. \A p \in g .. n : ends[p] <= m
  BY <1>1, <1>2, <1>4
<1>6. ASSUME NEW p \in g .. n + 1 PROVE e[p] \in Nat /\ e[p] <= m + len /\ (p = n + 1 \/ p \in g .. n)
  <2>1. CASE p = n + 1
    BY <1>1, <1>3, <2>1
  <2>2. CASE p # n + 1
    <3>1. p \in g .. n
      BY <2>2
    <3>2. e[p] = ends[p] /\ ends[p] \in Nat /\ ends[p] <= m
      BY <1>2, <1>3, <1>5, <3>1
    <3> QED BY <1>1, <3>1, <3>2
  <2> QED BY <2>1, <2>2
<1>7. ASSUME NEW p \in g + 1 .. n + 1 PROVE more[p] \in Nat /\ e[p] = e[p - 1] + more[p]
  <2>1. CASE p = n + 1
    <3>1. p - 1 = n
      BY <2>1
    <3> QED BY <1>1, <1>3, <1>4, <2>1, <3>1
  <2>2. CASE p # n + 1
    <3>1. p \in g + 1 .. n /\ p \in g .. n /\ p - 1 \in g .. n
      BY <2>2
    <3> QED BY <1>1, <1>2, <1>3, <3>1
  <2> QED BY <2>1, <2>2
<1>8. ASSUME NEW p \in g .. n + 1, NEW q \in g .. n + 1, p <= q PROVE e[p] <= e[q]
  <2>1. CASE q = n + 1
    BY <1>3, <1>6, <2>1
  <2>2. CASE q # n + 1
    <3>1. p \in g .. n /\ q \in g .. n
      BY <1>8, <2>2
    <3> QED BY <1>2, <1>3, <1>8, <3>1
  <2> QED BY <2>1, <2>2
<1>9. Ends(g, n + 1, more, e)
  BY <1>2, <1>3, <1>4, <1>6, <1>7, <1>8 DEF Ends
<1>10. ASSUME NEW p \in g + 1 .. n + 1, NEW k \in Nat \ {0}, k <= more[p], e[p - 1] + k <= Len(t)
       PROVE  t[e[p - 1] + k] = Byte(p, k)
  <2>1. CASE p = n + 1
    <3>1. p - 1 = n
      BY <2>1
    <3>2. e[p - 1] = m /\ k \in 1 .. len
      BY <1>1, <1>3, <1>4, <1>10, <2>1, <3>1
    <3>3. t[m + k] = Byte(n + 1, k)
      BY <3>2 DEF m, GrownBy
    <3> QED BY <2>1, <3>2, <3>3
  <2>2. CASE p # n + 1
    <3>1. p \in g + 1 .. n /\ p \in g .. n /\ p - 1 \in g .. n
      BY <2>2
    <3>2. /\ k <= lens[p] /\ e[p - 1] = ends[p - 1] /\ ends[p - 1] \in Nat /\ lens[p] \in Nat
          /\ ends[p] = ends[p - 1] + lens[p] /\ ends[p] <= m
      BY <1>1, <1>2, <1>3, <1>5, <1>10, <3>1
    <3>3. ends[p - 1] + k <= m /\ ends[p - 1] + k \in 1 .. m
      BY <1>1, <3>2, SMTT(30)
    <3>4. s[ends[p - 1] + k] = Byte(p, k)
      BY <1>2, <3>1, <3>2, <3>3 DEF Placed, m
    <3>5. t[ends[p - 1] + k] = s[ends[p - 1] + k]
      BY <3>3 DEF m, GrownBy
    <3> QED BY <3>2, <3>4, <3>5
  <2> QED BY <2>1, <2>2
<1>11. Placed(t, g, n + 1, more, e)
  BY <1>10 DEF Placed
<1>12. Len(t) <= e[n + 1] /\ e[n + 1] = Len(t)
  BY <1>1, <1>3
<1> QED BY <1>9, <1>11, <1>12 DEF Laid

\* What is left of s behind its first d bytes.
Behind(t, s, d) == Len(t) = Len(s) - d /\ \A i \in 1 .. Len(t) : t[i] = s[d + i]

Fits(d, len, size) == d = len /\ d <= size

\* A stream that starts with a whole packet, and what is left behind that packet.
LEMMA LaidDropped ==
    ASSUME NEW s \in Seq(Bytes), NEW g \in Nat, NEW n \in Nat, NEW lens, NEW ends,
           g < n, Laid(s, g, n, lens, ends),
           NEW d, Fits(d, lens[g + 1], Len(s)), NEW t \in Seq(Bytes), Behind(t, s, d)
    PROVE  \E e : Laid(t, g + 1, n, lens, e) /\ (Len(s) = ends[n] => Len(t) = e[n])
<1> DEFINE m == Len(s)
           e == [p \in Nat |-> ends[p] - d]
<1>1. m \in Nat /\ Len(t) \in Nat /\ Len(t) = m - d /\ d <= m /\ m <= ends[n] /\ d = lens[g + 1]
  BY DEF Laid, Behind, Fits
<1>2. /\ \A p \in g .. n : ends[p] \in Nat
      /\ ends[g] = 0
      /\ \A p \in g + 1 .. n : lens[p] \in Nat /\ ends[p] = ends[p - 1] + lens[p]
      /\ \A p, q \in g .. n : p <= q => ends[p] <= ends[q]
      /\ Placed(s, g, n, lens, ends)
  BY DEF Laid, Ends
<1>3. \A p \in g + 1 .. n : e[p] = ends[p] - d
  OBVIOUS
<1>4. g + 1 \in g + 1 .. n /\ g + 1 \in g .. n /\ n \in g + 1 .. n /\ (g + 1) - 1 = g
  OBVIOUS
<1>5. d \in Nat /\ ends[g + 1] = d
  <2>1. lens[g + 1] \in Nat /\ ends[g + 1] = ends[(g + 1) - 1] + lens[g + 1]
    BY <1>2, <1>4
  <2> QED BY <1>1, <1>2, <1>4, <2>1
<1> HIDE DEF m, e
<1>6. ASSUME NEW p \in g + 1 .. n PROVE ends[p] \in Nat /\ d <= ends[p] /\ e[p] \in Nat
  <2>1. p \in g .. n /\ g + 1 <= p
    OBVIOUS
  <2>2. ends[p] \in Nat /\ ends[g + 1] <= ends[p]
    BY <1>2, <1>4, <2>1
  <2> QED BY <1>3, <1>5, <2>2
<1>7. e[g + 1] = 0
  BY <1>3, <1>4, <1>5
<1>8. ASSUME NEW p \in (g + 1) + 1 .. n PROVE lens[p] \in Nat /\ e[p] = e[p - 1] + lens[p]
  <2>1. p \in g + 1 .. n /\ p - 1 \in g + 1 .. n
    OBVIOUS
  <2>2. lens[p] \in Nat /\ ends[p] = ends[p - 1] + lens[p] /\ ends[p - 1] \in Nat
    BY <1>2, <1>6, <2>1
  <2>3. e[p] = ends[p] - d /\ e[p - 1] = ends[p - 1] - d
    BY <1>3, <2>1
  <2> QED BY <1>5, <2>2, <2>3
<1>9. ASSUME NEW p \in g + 1 .. n, NEW q \in g + 1 .. n, p <= q PROVE e[p] <= e[q]
  <2>1. p \in g .. n /\ q \in g .. n
    OBVIOUS
  <2>2. ends[p] <= ends[q] /\ ends[p] \in Nat /\ ends[q] \in Nat
    BY <1>2, <1>9, <2>1
  <2> QED BY <1>3, <1>5, <2>2
<1>10. Ends(g + 1, n, lens, e)
  BY <1>6, <1>7, <1>8, <1>9 DEF Ends
<1>11. ASSUME NEW p \in (g + 1) + 1 .. n, NEW k \in Nat \ {0}, k <= lens[p], e[p - 1] + k <= Len(t)
       PROVE  t[e[p - 1] + k] = Byte(p, k)
  <2>1. p \in g + 1 .. n /\ p - 1 \in g + 1 .. n
    OBVIOUS
  <2>2. e[p - 1] = ends[p - 1] - d /\ ends[p - 1] \in Nat /\ e[p - 1] \in Nat
    BY <1>3, <1>6, <2>1
  <2>3. e[p - 1] + k \in 1 .. Len(t) /\ d + (e[p - 1] + k) = ends[p - 1] + k /\ ends[p - 1] + k <= m
    <3>1. PICK x \in Nat, y \in Nat : x = e[p - 1] /\ y = ends[p - 1] /\ x = y - d
      BY <2>2
    <3>2. x + k <= Len(t)
      BY <1>11, <2>2, <3>1
    <3>3. PICK l \in Nat : l = Len(t) /\ l = m - d /\ m \in Nat /\ d \in Nat
      BY <1>1, <1>5
    <3>4. x = y - d /\ x + k <= l
      BY <3>1, <3>2, <3>3
    <3>5. y + k <= m
      BY <3>3, <3>4
    <3>6. d + (x + k) = y + k
      BY <3>3, <3>4
    <3>7. x + k \in 1 .. l
      BY <3>4
    <3> QED BY <3>1, <3>3, <3>5, <3>6, <3>7
  <2>4. t[e[p - 1] + k] = s[d + (e[p - 1] + k)]
    BY <2>3 DEF Behind
  <2>5. s[ends[p - 1] + k] = Byte(p, k)
    BY <1>2, <1>11, <2>1, <2>3 DEF Placed, m
  <2> QED BY <2>3, <2>4, <2>5
<1>12. Placed(t, g + 1, n, lens, e)
  BY <1>11 DEF Placed
<1>13. e[n] = ends[n] - d /\ ends[n] \in Nat
  BY <1>3, <1>4, <1>6
<1>14. Len(t) <= e[n] /\ (m = ends[n] => Len(t) = e[n])
  BY <1>1, <1>5, <1>13, SMTT(30)
<1> QED BY <1>10, <1>12, <1>14 DEF Laid, m

-----------------------------------------------------------------------------
(* The framer.                                                             *)

LEMMA LensAre ==
    ASSUME NEW len \in PacketLens
    PROVE  len \in Nat /\ HeaderLen <= len /\ len <= Capacity
<1>1. len \in HeaderLen .. Capacity /\ HeaderLen \in Nat
  BY TransportAssumption
<1>2. Capacity \in Nat
  BY RingAssumption
<1> QED BY <1>1, <1>2

LEMMA PacketBytesAre ==
    ASSUME NEW p \in 1 .. MaxPackets, NEW len \in PacketLens
    PROVE  /\ PacketBytes(p, len) \in Seq(Bytes) /\ Len(PacketBytes(p, len)) = len
           /\ \A k \in 1 .. len : PacketBytes(p, len)[k] = Byte(p, k)
<1> DEFINE b == PacketBytes(p, len)
<1>1. len \in Nat /\ Capacity \in Nat /\ len <= Capacity
  BY LensAre, RingAssumption
<1>2. b = [k \in 1 .. len |-> Byte(p, k)]
  BY DEF PacketBytes, Byte
<1>3. ASSUME NEW k \in 1 .. len PROVE Byte(p, k) \in Bytes
  <2>1. k \in 1 .. Capacity
    BY <1>1
  <2> QED BY <2>1, TransportAssumption DEF Byte
<1> HIDE DEF b
<1>4. b \in [1 .. len -> Bytes]
  BY <1>2, <1>3
<1>5. b \in Seq(Bytes) /\ Len(b) = len
  BY <1>1, <1>4
<1>6. \A k \in 1 .. len : b[k] = Byte(p, k)
  BY <1>2
<1> QED BY <1>5, <1>6 DEF b

\* What framer_next finds in a ring that holds the beginning of the stream: the
\* next packet if it is complete, and never anything else.
Finds(r, g) ==
    /\ HasPacket(r) \/ NeedsMore(r)
    /\ HasPacket(r) => /\ g < Len(sent)
                       /\ FrontLen(r) = sent[g + 1] /\ sent[g + 1] \in 0 .. r.size
                       /\ Peek(r, 0, FrontLen(r)) = Packet(g + 1)
    /\ ~HasPacket(r) => g = Len(sent) \/ (g + 1 \in 1 .. Len(sent) /\ r.size < sent[g + 1])

LEMMA Front ==
    ASSUME sent \in Seq(PacketLens), NEW r \in RingType, NEW g \in Nat, g <= Len(sent),
           NEW s \in Seq(Bytes), NEW ends, Laid(s, g, Len(sent), sent, ends),
           r.size <= Len(s), \A i \in 1 .. r.size : Contents(r)[i] = s[i]
    PROVE  Finds(r, g)
<1> DEFINE n == Len(sent)
           c == Contents(r)
           size == r.size
<1>1. n \in Nat /\ size \in Nat /\ HeaderLen \in Nat \ {0} /\ Len(s) \in Nat
  BY RingAssumption, TransportAssumption DEF RingType
<1>2. \A p \in 1 .. n : sent[p] \in Nat /\ HeaderLen <= sent[p]
  <2>1. \A p \in 1 .. n : sent[p] \in PacketLens
    OBVIOUS
  <2> QED BY <2>1, LensAre
<1>3. /\ ends[g] = 0 /\ Len(s) <= ends[n]
      /\ Placed(s, g, n, sent, ends)
  BY DEF Laid, Ends
<1> HIDE DEF n, c, size
<1>4. ASSUME size # 0 PROVE g < n /\ g + 1 \in 1 .. n
  <2>1. g # n
    BY <1>1, <1>3, <1>4 DEF size
  <2> QED BY <1>1, <2>1 DEF n
<1>5. ASSUME NEW k \in 1 .. size, k <= sent[g + 1] PROVE c[k] = Byte(g + 1, k)
  <2>1. g + 1 \in g + 1 .. n /\ k \in Nat \ {0} /\ (g + 1) - 1 = g
    BY <1>1, <1>4
  <2>2. ends[(g + 1) - 1] + k = k /\ k <= Len(s)
    BY <1>1, <1>3, <2>1 DEF size
  <2>3. s[k] = Byte(g + 1, k)
    BY <1>3, <1>5, <2>1, <2>2 DEF Placed
  <2> QED BY <2>3 DEF c, size
<1>6. ASSUME NEW m \in 0 .. size, m <= sent[g + 1] PROVE Peek(r, 0, m) = PacketBytes(g + 1, m)
  <2> DEFINE p == Peek(r, 0, m)
  <2>1. p = [k \in 1 .. m |-> p[k]]
    BY DEF Peek
  <2>2. ASSUME NEW k \in 1 .. m PROVE p[k] = Byte(g + 1, k)
    <3>1. k \in 1 .. size /\ size \in 0 .. size /\ m \in 0 .. r.size
      BY <1>1 DEF size
    <3>2. p[k] = r.data[CellAt(r, k - 1)]
      BY <3>1, PeekIs
    <3>3. c[k] = r.data[CellAt(r, k - 1)]
      BY <3>1, ContentsAre DEF c, size
    <3>4. k <= sent[g + 1]
      <4>1. size # 0
        BY <1>1, <3>1
      <4>2. sent[g + 1] \in Nat
        BY <1>2, <1>4, <4>1
      <4> QED BY <1>1, <1>6, <4>2
    <3> QED BY <1>5, <3>1, <3>2, <3>3, <3>4
  <2> HIDE DEF p
  <2>3. p = [k \in 1 .. m |-> Byte(g + 1, k)]
    BY <2>1, <2>2
  <2> QED BY <2>3 DEF p, PacketBytes, Byte
<1>7. ASSUME HasHeader(r)
      PROVE  /\ g < n /\ g + 1 \in 1 .. n
             /\ GoodHeader(r) /\ FrontLen(r) = sent[g + 1]
  <2>1. HeaderLen <= size /\ size # 0 /\ HeaderLen \in 0 .. size
    BY <1>1, <1>7 DEF HasHeader, size
  <2>2. g < n /\ g + 1 \in 1 .. n
    BY <1>4, <2>1
  <2>3. Header(r) = PacketBytes(g + 1, HeaderLen)
    BY <1>2, <1>6, <2>1, <2>2 DEF Header
  <2>4. GoodHeader(r)
    BY <2>2, <2>3 DEF GoodHeader, n
  <2>5. 1 \in 1 .. HeaderLen
    BY <1>1
  <2>6. Header(r)[1].packet = g + 1
    BY <2>3, <2>5 DEF PacketBytes
  <2> QED BY <2>2, <2>4, <2>6 DEF FrontLen
<1>8. CASE HasPacket(r)
  <2>1. HasHeader(r) /\ size >= FrontLen(r)
    BY <1>8 DEF HasPacket, size
  <2>2. g < n /\ g + 1 \in 1 .. n /\ FrontLen(r) = sent[g + 1] /\ sent[g + 1] \in Nat
    BY <1>2, <1>7, <2>1
  <2>3. sent[g + 1] \in 0 .. size
    BY <1>1, <2>1, <2>2
  <2>4. Peek(r, 0, FrontLen(r)) = Packet(g + 1)
    BY <1>6, <2>2, <2>3 DEF Packet
  <2> QED BY <1>8, <2>2, <2>3, <2>4 DEF Finds, n, size
<1>9. CASE ~HasPacket(r)
  <2>1. CASE HasHeader(r)
    <3>1. g + 1 \in 1 .. n /\ GoodHeader(r) /\ FrontLen(r) = sent[g + 1]
      BY <1>7, <2>1
    <3>2. ~(size >= sent[g + 1])
      BY <1>9, <2>1, <3>1 DEF HasPacket, size
    <3>3. size < sent[g + 1]
      BY <1>1, <1>2, <3>1, <3>2
    <3> QED BY <1>9, <3>1, <3>3 DEF Finds, NeedsMore, n, size
  <2>2. CASE ~HasHeader(r)
    <3>1. size < HeaderLen
      BY <1>1, <2>2 DEF HasHeader, size
    <3>2. g = n \/ g + 1 \in 1 .. n
      BY <1>1 DEF n
    <3>3. g = n \/ (g + 1 \in 1 .. n /\ size < sent[g + 1])
      BY <1>1, <1>2, <3>1, <3>2
    <3> QED BY <1>9, <2>2, <3>3 DEF Finds, NeedsMore, n, size
  <2> QED BY <2>1, <2>2
<1> QED BY <1>8, <1>9

-----------------------------------------------------------------------------
(* The connection.                                                         *)

Stream == Contents(ring) \o (wire \o queue)

\* What the ends agree on: the receiver has taken the first packets, whole, and
\* what is on the way is the rest of them, complete as long as the sender has not
\* closed.
Inv ==
    /\ TypeOK
    /\ Len(sent) <= MaxPackets
    /\ Len(got) <= Len(sent)
    /\ \A p \in 1 .. Len(got) : got[p] = Packet(p)
    /\ receiving => \E ends : /\ Laid(Stream, Len(got), Len(sent), sent, ends)
                              /\ sending => Len(Stream) = ends[Len(sent)]

LEMMA StreamIs ==
    ASSUME TypeOK
    PROVE  /\ Contents(ring) \in Seq(Bytes) /\ Len(Contents(ring)) = ring.size
           /\ Stream \in Seq(Bytes)
           /\ ring.size <= Len(Stream)
           /\ \A i \in 1 .. ring.size : Contents(ring)[i] = Stream[i]
<1>1. Contents(ring) \in Seq(Bytes) /\ Len(Contents(ring)) = ring.size
  BY ContentsAre DEF TypeOK
<1>2. wire \o queue \in Seq(Bytes)
  BY DEF TypeOK
<1> QED BY <1>1, <1>2 DEF Stream

LEMMA InitInv == Init => Inv
<1> SUFFICES ASSUME Init PROVE Inv
  OBVIOUS
<1>1. EmptyRing \in RingType /\ EmptyRing.size = 0
  BY RingAssumption DEF EmptyRing, RingType, Cells
<1>2. TypeOK
  BY <1>1 DEF Init, TypeOK, NoBytes
<1>3. Len(sent) = 0 /\ Len(got) = 0 /\ Len(sent) <= MaxPackets
  BY TransportAssumption DEF Init
<1>4. Len(Stream) = 0
  BY <1>1, <1>2, StreamIs DEF Init, Stream, NoBytes
<1> DEFINE ends == [p \in Nat |-> 0]
<1>5. Laid(Stream, 0, 0, sent, ends) /\ Len(Stream) = ends[0]
  <2>1. 0 \in 0 .. 0 /\ (\A p \in 0 .. 0 : ends[p] = 0) /\ 0 + 1 .. 0 = {}
    OBVIOUS
  <2> HIDE DEF ends
  <2> QED BY <1>4, <2>1 DEF Laid, Ends, Placed
<1> QED BY <1>2, <1>3, <1>5 DEF Inv

LEMMA Concat ==
    ASSUME NEW S, NEW s \in Seq(S), NEW t \in Seq(S)
    PROVE  /\ s \o t \in Seq(S) /\ Len(s \o t) = Len(s) + Len(t)
           /\ \A i \in 1 .. Len(s) : (s \o t)[i] = s[i]
           /\ \A k \in 1 .. Len(t) : (s \o t)[Len(s) + k] = t[k]
OBVIOUS

LEMMA Split ==
    ASSUME NEW S, NEW s \in Seq(S), NEW k \in 0 .. Len(s)
    PROVE  /\ SubSeq(s, 1, k) \in Seq(S) /\ SubSeq(s, k + 1, Len(s)) \in Seq(S)
           /\ SubSeq(s, 1, k) \o SubSeq(s, k + 1, Len(s)) = s
<1>1. Len(s) \in Nat /\ 1 \in 1 .. Len(s) + 1 /\ k \in 1 - 1 .. Len(s) /\ Len(s) \in k .. Len(s) /\ k \in Nat
  OBVIOUS
<1>2. SubSeq(s, 1, k) \o SubSeq(s, k + 1, Len(s)) = SubSeq(s, 1, Len(s))
  BY <1>1, ConcatAdjacentSubSeq
<1>3. SubSeq(s, 1, k) \in Seq(S) /\ SubSeq(s, k + 1, Len(s)) \in Seq(S)
  OBVIOUS
<1> QED BY <1>2, <1>3, SubSeqFull

LEMMA Moved ==
    ASSUME NEW S, NEW w \in Seq(S), NEW q \in Seq(S), NEW k \in 0 .. Len(q)
    PROVE  (w \o SubSeq(q, 1, k)) \o SubSeq(q, k + 1, Len(q)) = w \o q
<1> DEFINE a == SubSeq(q, 1, k)
           b == SubSeq(q, k + 1, Len(q))
<1>1. a \in Seq(S) /\ b \in Seq(S) /\ a \o b = q
  BY Split
<1> HIDE DEF a, b
<1>2. (w \o a) \o b = w \o (a \o b)
  <2>1. a \in Seq(S) /\ b \in Seq(S)
    BY <1>1
  <2> QED BY <2>1, ConcatAssociative, SMTT(30)
<1> QED BY <1>1, <1>2 DEF a, b

\* ConcatAssociative in a form that the provers instantiate only where it is asked for.
Assoc(S, a, b, c) == (a \o b) \o c = a \o (b \o c)

LEMMA Associates ==
    ASSUME NEW S, NEW a \in Seq(S), NEW b \in Seq(S), NEW c \in Seq(S)
    PROVE  Assoc(S, a, b, c)
BY ConcatAssociative DEF Assoc

\* A ring that takes in the beginning of the wire leaves the stream as it is.
Regrouped(S, c, w, q, k) == (c \o SubSeq(w, 1, k)) \o (SubSeq(w, k + 1, Len(w)) \o q) = c \o (w \o q)

LEMMA Regroup ==
    ASSUME NEW S, NEW c \in Seq(S), NEW w \in Seq(S), NEW q \in Seq(S), NEW k \in 0 .. Len(w)
    PROVE  Regrouped(S, c, w, q, k)
<1> DEFINE a == SubSeq(w, 1, k)
           b == SubSeq(w, k + 1, Len(w))
<1>1. a \in Seq(S) /\ b \in Seq(S)
  BY Split
<1>2. a \o b = w
  BY Split
<1> HIDE DEF a, b
<1>3. b \o q \in Seq(S)
  BY <1>1
<1>4. Assoc(S, a, b, q)
  BY <1>1, Associates
<1>5. Assoc(S, c, a, b \o q)
  BY <1>1, <1>3, Associates
<1> QED BY <1>2, <1>4, <1>5 DEF a, b, Assoc, Regrouped

LEMMA Beginning ==
    ASSUME NEW S, NEW s \in Seq(S), NEW k \in 0 .. Len(s)
    PROVE  /\ SubSeq(s, 1, k) \in Seq(S) /\ Len(SubSeq(s, 1, k)) = k
           /\ \A i \in 1 .. k : SubSeq(s, 1, k)[i] = s[i]
OBVIOUS

LEMMA Cut ==
    ASSUME NEW S, NEW a \in Seq(S), NEW b \in Seq(S), NEW c \in Seq(S), NEW d \in Seq(S),
           Len(d) <= Len(b), \A i \in 1 .. Len(d) : d[i] = b[i]
    PROVE  /\ a \o d \in Seq(S) /\ Len(a \o d) <= Len(a \o (b \o c))
           /\ \A i \in 1 .. Len(a \o d) : (a \o d)[i] = (a \o (b \o c))[i]
OBVIOUS

LEMMA Chopped ==
    ASSUME NEW S, NEW a \in Seq(S), NEW b \in Seq(S), NEW d \in 0 .. Len(a)
    PROVE  /\ SubSeq(a, d + 1, Len(a)) \o b \in Seq(S)
           /\ Behind(SubSeq(a, d + 1, Len(a)) \o b, a \o b, d)
<1> DEFINE t == SubSeq(a, d + 1, Len(a))
<1>1. t \in Seq(S) /\ Len(t) = Len(a) - d /\ \A i \in 1 .. Len(t) : t[i] = a[d + i]
  OBVIOUS
<1> HIDE DEF t
<1>2. t \o b \in Seq(S) /\ Len(t \o b) = Len(a) - d + Len(b) /\ Len(a \o b) = Len(a) + Len(b)
  BY <1>1, Concat
<1>3. ASSUME NEW i \in 1 .. Len(t \o b) PROVE (t \o b)[i] = (a \o b)[d + i]
  <2>1. CASE i <= Len(t)
    <3>1. i \in 1 .. Len(t) /\ d + i \in 1 .. Len(a)
      BY <1>1, <2>1
    <3> QED BY <1>1, <3>1
  <2>2. CASE ~(i <= Len(t))
    <3>1. PICK k \in 1 .. Len(b) : i = Len(t) + k
      <4>1. i - Len(t) \in 1 .. Len(b)
        BY <1>1, <1>2, <2>2
      <4> QED BY <1>1, <4>1
    <3>2. d + i = Len(a) + k
      BY <1>1, <3>1
    <3>3. (t \o b)[Len(t) + k] = b[k] /\ (a \o b)[Len(a) + k] = b[k]
      BY <1>1, Concat
    <3> QED BY <3>1, <3>2, <3>3
  <2> QED BY <2>1, <2>2
<1>4. Len(t \o b) = Len(a \o b) - d
  BY <1>1, <1>2
<1> QED BY <1>2, <1>3, <1>4 DEF Behind, t

\* A packet queued, which is only done when the last one is flushed, lies behind the stream.
LEMMA StreamGrows ==
    ASSUME Inv, NEW len \in PacketLens, Queue(len), NEW b \in Seq(Bytes), queue' = b
    PROVE  Stream \in Seq(Bytes) /\ Stream' = Stream \o b
<1>1. Contents(ring) \in Seq(Bytes) /\ wire \in Seq(Bytes) /\ Stream \in Seq(Bytes)
  BY StreamIs DEF Inv, TypeOK
<1>2. Stream = Contents(ring) \o wire
  <2>1. wire \o queue = wire
    BY <1>1 DEF Queue, NoBytes
  <2> QED BY <2>1 DEF Stream
<1>3. Stream' = Contents(ring) \o (wire \o b)
  BY DEF Stream, Queue
<1>4. (Contents(ring) \o wire) \o b = Contents(ring) \o (wire \o b)
  BY <1>1, ConcatAssociative, SMTT(30)
<1> QED BY <1>1, <1>2, <1>3, <1>4

LEMMA QueueInv ==
    ASSUME Inv, NEW len \in PacketLens, Queue(len)
    PROVE  Inv'
<1> DEFINE n == Len(sent)
           g == Len(got)
           b == PacketBytes(n + 1, len)
<1>1. /\ sent \in Seq(PacketLens) /\ n \in Nat /\ g \in Nat /\ g <= n /\ MaxPackets \in Nat
      /\ sending /\ queue = NoBytes /\ n < MaxPackets
      /\ sent' = Append(sent, len) /\ UNCHANGED <<wire, ring, got, up, sending, receiving>>
  BY TransportAssumption DEF Inv, TypeOK, Queue
<1>2. sent' \in Seq(PacketLens) /\ Len(sent') = n + 1 /\ sent'[n + 1] = len
      /\ \A p \in 1 .. n : sent'[p] = sent[p]
  BY <1>1
<1>3. n + 1 \in 1 .. MaxPackets
  BY <1>1
<1>4. queue' = b /\ b \in Seq(Bytes) /\ Len(b) = len /\ len \in Nat /\ \A k \in 1 .. len : b[k] = Byte(n + 1, k)
  BY <1>2, <1>3, PacketBytesAre, LensAre DEF Queue
<1>5. TypeOK'
  BY <1>1, <1>2, <1>4 DEF Inv, TypeOK
<1> HIDE DEF n, g, b
<1>6. Len(sent') <= MaxPackets /\ Len(got') <= Len(sent')
  BY <1>1, <1>2, <1>3 DEF g
<1>7. ASSUME NEW p \in 1 .. Len(got') PROVE got'[p] = Packet(p)'
  <2>1. p \in 1 .. g /\ p \in 1 .. n
    BY <1>1, <1>7 DEF g
  <2>2. got[p] = Packet(p)
    BY <2>1 DEF Inv, g
  <2> QED BY <1>1, <1>2, <2>1, <2>2 DEF Packet
<1>8. ASSUME receiving'
      PROVE  \E ends : Laid(Stream', g, n + 1, sent', ends) /\ (sending' => Len(Stream') = ends[n + 1])
  <2>1. PICK ends : Laid(Stream, g, n, sent, ends) /\ Len(Stream) = ends[n]
    BY <1>1, <1>8 DEF Inv, g, n
  <2>2. Stream \in Seq(Bytes)
    BY StreamIs DEF Inv
  <2>3. Stream' = Stream \o b
    BY <1>4, StreamGrows
  <2>4. Stream' \in Seq(Bytes) /\ GrownBy(Stream', Stream, n + 1, len)
    <3>1. /\ Stream \o b \in Seq(Bytes) /\ Len(Stream \o b) = Len(Stream) + Len(b)
          /\ \A i \in 1 .. Len(Stream) : (Stream \o b)[i] = Stream[i]
          /\ \A k \in 1 .. Len(b) : (Stream \o b)[Len(Stream) + k] = b[k]
      <4>1. Stream \in Seq(Bytes) /\ b \in Seq(Bytes)
        BY <1>4, <2>2
      <4> QED BY <4>1, Concat
    <3>2. \A k \in 1 .. len : b[k] = Byte(n + 1, k) /\ Len(b) = len
      BY <1>4
    <3> QED BY <1>4, <2>3, <3>1, <3>2 DEF GrownBy
  <2>5. OneMore(sent', sent, n + 1, len)
    BY <1>1, <1>2 DEF OneMore
  <2>6. \E e : Laid(Stream', g, n + 1, sent', e) /\ e[n + 1] = Len(Stream')
    <3>1. n \in Nat /\ g \in Nat /\ g <= n /\ len \in Nat /\ Stream \in Seq(Bytes)
      BY <1>1, <1>4, <2>2
    <3>2. \E e : Laid(Stream', g, n + 1, sent', e) /\ e[n + 1] = Len(Stream')
      BY <2>1, <2>4, <2>5, <3>1, LaidGrown
    <3> QED BY <3>2
  <2> QED BY <2>6
<1> QED BY <1>1, <1>2, <1>5, <1>6, <1>7, <1>8 DEF Inv, g, n

LEMMA FlushInv ==
    ASSUME Inv, NEW k \in 1 .. Len(queue), Flush(k)
    PROVE  Inv' /\ UNCHANGED <<sent, got, receiving>>
<1>1. /\ wire' = wire \o SubSeq(queue, 1, k) /\ queue' = SubSeq(queue, k + 1, Len(queue))
      /\ UNCHANGED <<sent, ring, got, up, sending, receiving>>
      /\ wire \in Seq(Bytes) /\ queue \in Seq(Bytes)
  BY DEF Flush, Inv, TypeOK
<1>2. SubSeq(queue, 1, k) \in Seq(Bytes) /\ SubSeq(queue, k + 1, Len(queue)) \in Seq(Bytes)
      /\ SubSeq(queue, 1, k) \o SubSeq(queue, k + 1, Len(queue)) = queue
  BY <1>1, Split
<1>3. TypeOK'
  BY <1>1, <1>2 DEF Inv, TypeOK
<1>4. wire' \o queue' = wire \o queue
  <2>1. k \in 0 .. Len(queue)
    OBVIOUS
  <2>2. (wire \o SubSeq(queue, 1, k)) \o SubSeq(queue, k + 1, Len(queue)) = wire \o queue
    BY <1>1, <2>1, Moved
  <2> QED BY <1>1, <2>2
<1>5. Stream' = Stream
  BY <1>1, <1>4 DEF Stream
<1>6. \A p \in 1 .. Len(got') : got'[p] = Packet(p)'
  BY <1>1 DEF Inv, Packet
<1> QED BY <1>1, <1>3, <1>5, <1>6 DEF Inv

LEMMA SenderClosesInv ==
    ASSUME Inv, SenderCloses
    PROVE  Inv' /\ UNCHANGED <<sent, got, receiving>>
<1>1. PICK k \in 0 .. Len(wire) : wire' = SubSeq(wire, 1, k)
  BY DEF SenderCloses
<1>2. /\ sending' = FALSE /\ up' = FALSE /\ queue' = NoBytes /\ UNCHANGED <<sent, ring, got, receiving>>
      /\ wire \in Seq(Bytes) /\ queue \in Seq(Bytes)
      /\ sent \in Seq(PacketLens) /\ got \in Seq(Seq(Bytes))
  BY DEF SenderCloses, Inv, TypeOK
<1>3. wire' \in Seq(Bytes) /\ Len(wire') = k /\ k <= Len(wire) /\ \A i \in 1 .. k : wire'[i] = wire[i]
  <2>1. k <= Len(wire)
    BY <1>2
  <2> QED BY <1>1, <1>2, <2>1, Beginning
<1>4. TypeOK'
  <2>1. TypeOK
    BY DEF Inv
  <2>2. queue' \in Seq(Bytes) /\ wire' \in Seq(Bytes)
    BY <1>2, <1>3 DEF NoBytes
  <2>3. {up', sending', receiving'} \subseteq BOOLEAN
    BY <1>2, <2>1 DEF TypeOK
  <2> QED BY <1>2, <2>1, <2>2, <2>3 DEF TypeOK
<1>5. \A p \in 1 .. Len(got') : got'[p] = Packet(p)'
  BY <1>2 DEF Inv, Packet
<1>6. Stream' = Contents(ring) \o wire'
  <2>1. wire' \o queue' = wire'
    BY <1>2, <1>3 DEF NoBytes
  <2> QED BY <1>2, <2>1 DEF Stream
<1>7. Stream \in Seq(Bytes) /\ Contents(ring) \in Seq(Bytes)
  BY StreamIs DEF Inv
<1>8. Stream' \in Seq(Bytes) /\ Len(Stream') <= Len(Stream) /\ \A i \in 1 .. Len(Stream') : Stream'[i] = Stream[i]
  BY <1>2, <1>3, <1>6, <1>7, Cut, SMTT(30) DEF Stream
<1>9. ASSUME receiving' PROVE \E ends : Laid(Stream', Len(got), Len(sent), sent, ends)
  <2>1. PICK ends : Laid(Stream, Len(got), Len(sent), sent, ends)
    BY <1>2, <1>9 DEF Inv
  <2>2. Len(got) \in Nat /\ Len(sent) \in Nat /\ Len(got) <= Len(sent)
    BY <1>2 DEF Inv
  <2> QED BY <1>7, <1>8, <2>1, <2>2, LaidCutOff
<1> QED BY <1>2, <1>4, <1>5, <1>9 DEF Inv

\* A packet is taken from r, the ring as it is or with what was just received, when
\* the w behind it is still on the wire.
LEMMA TakeInv ==
    ASSUME Inv, receiving, NEW r \in RingType, NEW w \in Seq(Bytes),
           Contents(r) \o (w \o queue) = Stream,
           HasPacket(r), Take(r), wire' = w, UNCHANGED <<sent, queue, up, sending, receiving>>
    PROVE  /\ Inv' /\ Len(got) < Len(sent) /\ got' = Append(got, Packet(Len(got) + 1))
           /\ FrontLen(r) \in 0 .. r.size
<1> DEFINE n == Len(sent)
           g == Len(got)
           d == sent[g + 1]
           c == Contents(r)
<1>1. /\ sent \in Seq(PacketLens) /\ n \in Nat /\ g \in Nat /\ g <= n /\ n <= MaxPackets /\ MaxPackets \in Nat
      /\ got \in Seq(Seq(Bytes)) /\ queue \in Seq(Bytes) /\ TypeOK
  BY TransportAssumption DEF Inv, TypeOK
<1>2. PICK ends : Laid(Stream, g, n, sent, ends) /\ (sending => Len(Stream) = ends[n])
  BY DEF Inv
<1>3. c \in Seq(Bytes) /\ Len(c) = r.size /\ w \o queue \in Seq(Bytes) /\ Stream \in Seq(Bytes)
  BY <1>1, ContentsAre, StreamIs
<1>4. r.size <= Len(Stream) /\ \A i \in 1 .. r.size : c[i] = Stream[i]
  BY <1>3, Concat
<1>5. Finds(r, g)
  BY <1>1, <1>2, <1>3, <1>4, Front
<1>6. /\ g < n /\ g + 1 \in 1 .. n /\ FrontLen(r) = d /\ d \in 0 .. r.size
      /\ Peek(r, 0, FrontLen(r)) = Packet(g + 1)
  BY <1>1, <1>5 DEF Finds
<1>7. ring' \in RingType /\ Contents(ring') = SubSeq(c, d + 1, Len(c))
  BY <1>3, <1>6, DiscardDrops DEF Take
<1>8. got' = Append(got, Packet(g + 1)) /\ Packet(g + 1) \in Seq(Bytes)
  <2>1. g + 1 \in 1 .. MaxPackets /\ sent[g + 1] \in PacketLens
    BY <1>1, <1>6
  <2> QED BY <1>6, <2>1, PacketBytesAre DEF Take, Packet
<1>9. /\ got' \in Seq(Seq(Bytes)) /\ Len(got') = g + 1 /\ got'[g + 1] = Packet(g + 1)
      /\ \A p \in 1 .. g : got'[p] = got[p]
  BY <1>1, <1>8
<1>10. TypeOK'
  BY <1>1, <1>7, <1>9 DEF TypeOK
<1>11. ASSUME NEW p \in 1 .. Len(got') PROVE got'[p] = Packet(p)'
  <2>1. Packet(p)' = Packet(p)
    BY DEF Packet
  <2>2. CASE p = g + 1
    BY <1>9, <2>1, <2>2
  <2>3. CASE p # g + 1
    <3>1. p \in 1 .. g
      BY <1>1, <1>9, <2>3
    <3>2. got[p] = Packet(p)
      BY <3>1 DEF Inv
    <3> QED BY <1>9, <2>1, <3>1, <3>2
  <2> QED BY <2>2, <2>3
<1>12. Stream' \in Seq(Bytes) /\ Behind(Stream', Stream, d)
  <2>1. Stream' = SubSeq(c, d + 1, Len(c)) \o (w \o queue)
    BY <1>7 DEF Stream
  <2>2. d \in 0 .. Len(c)
    BY <1>3, <1>6
  <2> QED BY <1>3, <2>1, <2>2, Chopped
<1> HIDE DEF n, g, d, c
<1>13. \E e : Laid(Stream', g + 1, n, sent, e) /\ (Len(Stream) = ends[n] => Len(Stream') = e[n])
  <2>1. Fits(d, sent[g + 1], Len(Stream))
    BY <1>3, <1>4, <1>6 DEF d, Fits
  <2>2. g \in Nat /\ n \in Nat /\ g < n /\ Laid(Stream, g, n, sent, ends) /\ Stream \in Seq(Bytes)
    BY <1>1, <1>2, <1>3, <1>6
  <2>3. Stream' \in Seq(Bytes) /\ Behind(Stream', Stream, d)
    BY <1>12
  <2> QED BY <2>1, <2>2, <2>3, LaidDropped
<1>14. receiving' => \E e : /\ Laid(Stream', Len(got'), Len(sent'), sent', e)
                            /\ sending' => Len(Stream') = e[Len(sent')]
  BY <1>2, <1>9, <1>13 DEF n
<1>15. Len(sent') <= MaxPackets /\ Len(got') <= Len(sent')
  BY <1>1, <1>6, <1>9 DEF n
<1> QED BY <1>6, <1>8, <1>10, <1>11, <1>14, <1>15 DEF Inv, n, g

LEMMA TakeBufferedInv ==
    ASSUME Inv, TakeBuffered
    PROVE  /\ Inv' /\ Len(got) < Len(sent) /\ got' = Append(got, Packet(Len(got) + 1))
           /\ UNCHANGED <<sent, receiving>>
<1>1. ring \in RingType /\ wire \in Seq(Bytes) /\ Contents(ring) \o (wire \o queue) = Stream
  BY DEF Inv, TypeOK, Stream
<1>2. receiving /\ HasPacket(ring) /\ Take(ring) /\ wire' = wire /\ UNCHANGED <<sent, queue, up, sending, receiving>>
  BY DEF TakeBuffered
<1> QED BY <1>1, <1>2, TakeInv

\* The ring after a receive, and what is then still on the wire.
LEMMA FedIs ==
    ASSUME Inv, NEW k \in Sizes, k <= Available(ring)
    PROVE  /\ Fed(k) \in RingType
           /\ SubSeq(wire, k + 1, Len(wire)) \in Seq(Bytes)
           /\ Contents(Fed(k)) \o (SubSeq(wire, k + 1, Len(wire)) \o queue) = Stream
<1> DEFINE a == SubSeq(wire, 1, k)
           c == Contents(ring)
<1>1. /\ wire \in Seq(Bytes) /\ queue \in Seq(Bytes) /\ ring \in RingType /\ k \in 0 .. Len(wire)
      /\ c \in Seq(Bytes)
  BY StreamIs DEF Inv, TypeOK, Sizes
<1>2. a \in Seq(Bytes) /\ Len(a) = k
  BY <1>1, Beginning
<1>3. Fed(k) \in RingType /\ Contents(Fed(k)) = c \o a
  BY <1>1, <1>2, WriteType, WriteAppends DEF Fed
<1>4. SubSeq(wire, k + 1, Len(wire)) \in Seq(Bytes)
  BY <1>1, Split
<1>5. Regrouped(Bytes, c, wire, queue, k)
  BY <1>1, Regroup
<1> QED BY <1>3, <1>4, <1>5 DEF Stream, Regrouped

\* A receive takes the packet it completes, or leaves what it brought in the ring.
LEMMA ReceiveInv ==
    ASSUME Inv, NEW k \in Sizes, Receive(k)
    PROVE  /\ Inv' /\ UNCHANGED <<sent, receiving>>
           /\ \/ Len(got) < Len(sent) /\ got' = Append(got, Packet(Len(got) + 1))
              \/ UNCHANGED got
<1> DEFINE r == Fed(k)
           w == SubSeq(wire, k + 1, Len(wire))
<1>1. /\ receiving /\ k <= Available(ring) /\ wire' = w /\ UNCHANGED <<sent, queue, up, sending, receiving>>
      /\ \/ HasPacket(r) /\ Take(r)
         \/ ring' = r /\ UNCHANGED got
  BY DEF Receive
<1>2. r \in RingType /\ w \in Seq(Bytes) /\ Contents(r) \o (w \o queue) = Stream
  BY <1>1, FedIs
<1> HIDE DEF r, w
<1>3. CASE HasPacket(r) /\ Take(r)
  BY <1>1, <1>2, <1>3, TakeInv
<1>4. CASE ring' = r /\ UNCHANGED got
  <2>1. TypeOK'
    <3>1. TypeOK
      BY DEF Inv
    <3> QED BY <1>1, <1>2, <1>4, <3>1 DEF TypeOK
  <2>2. Stream' = Stream
    BY <1>1, <1>2, <1>4 DEF Stream
  <2>3. \A p \in 1 .. Len(got') : got'[p] = Packet(p)'
    BY <1>1, <1>4 DEF Inv, Packet
  <2> QED BY <1>1, <1>4, <2>1, <2>2, <2>3 DEF Inv
<1> QED BY <1>1, <1>3, <1>4

LEMMA ReceiverClosesInv ==
    ASSUME Inv, ReceiverCloses
    PROVE  Inv' /\ UNCHANGED <<sent, got>> /\ receiving' = FALSE
<1>1. /\ receiving' = FALSE /\ up' = FALSE /\ ring' = EmptyRing /\ wire' = NoBytes
      /\ UNCHANGED <<sent, queue, got, sending>>
  BY DEF ReceiverCloses, CloseReceiver
<1>2. TypeOK'
  <2>1. TypeOK
    BY DEF Inv
  <2>2. EmptyRing \in RingType
    BY RingAssumption DEF EmptyRing, RingType, Cells
  <2>3. wire' \in Seq(Bytes)
    BY <1>1 DEF NoBytes
  <2>4. {up', sending', receiving'} \subseteq BOOLEAN
    BY <1>1, <2>1 DEF TypeOK
  <2> QED BY <1>1, <2>1, <2>2, <2>3, <2>4 DEF TypeOK
<1>3. \A p \in 1 .. Len(got') : got'[p] = Packet(p)'
  BY <1>1 DEF Inv, Packet
<1> QED BY <1>1, <1>2, <1>3 DEF Inv

LEMMA StutterInv ==
    ASSUME Inv, UNCHANGED vars
    PROVE  Inv' /\ UNCHANGED <<sent, got, receiving>>
BY DEF Inv, vars, TypeOK, Packet, Stream

LEMMA NextInv ==
    ASSUME Inv, [Next]_vars
    PROVE  Inv'
<1>1. CASE \E len \in PacketLens : Queue(len)
  BY <1>1, QueueInv
<1>2. CASE \E k \in 1 .. Len(queue) : Flush(k)
  BY <1>2, FlushInv
<1>3. CASE SenderCloses
  BY <1>3, SenderClosesInv
<1>4. CASE TakeBuffered
  BY <1>4, TakeBufferedInv
<1>5. CASE \E k \in Sizes : Receive(k)
  BY <1>5, ReceiveInv
<1>6. CASE ReceiverCloses
  BY <1>6, ReceiverClosesInv
<1>7. CASE UNCHANGED vars
  BY <1>7, StutterInv
<1> QED BY <1>1, <1>2, <1>3, <1>4, <1>5, <1>6, <1>7 DEF Next, Sender, Receiver

LEMMA ConnectionInv == Spec => []Inv
BY InitInv, NextInv, PTL DEF Spec

\* The ring, the wire, the queue and the packets keep their types: nothing is ever
\* written past the capacity of the framer's buffer.
THEOREM ConnectionTypeOK == Spec => []TypeOK
<1>1. Inv => TypeOK
  BY DEF Inv
<1> QED BY <1>1, ConnectionInv, PTL

\* What the ring, the wire and the sender's queue hold is, byte by byte, the packets
\* that were queued and not yet returned, in order: all of them while the sender has
\* not closed, and up to some byte afterwards.
THEOREM StreamIsThePackets ==
    Spec => [](receiving => \E ends : /\ Laid(Stream, Len(got), Len(sent), sent, ends)
                                     /\ sending => Len(Stream) = ends[Len(sent)])
<1>1. Inv => (receiving => \E ends : /\ Laid(Stream, Len(got), Len(sent), sent, ends)
                                    /\ sending => Len(Stream) = ends[Len(sent)])
  BY DEF Inv
<1> QED BY <1>1, ConnectionInv, PTL

-----------------------------------------------------------------------------
(* The framer keeps up.                                                    *)

\* What does not fit is more than one packet, and the first of them is a large one.
LEMMA OverflowIsLarge ==
    ASSUME Inv
    PROVE  OnlyLargePacketsOverflow
<1> SUFFICES ASSUME receiving, ~HasPacket(ring)
             PROVE  /\ NeedsMore(ring)
                    /\ \A k \in Sizes :
                         /\ k <= Available(ring) => HasPacket(Fed(k)) \/ NeedsMore(Fed(k))
                         /\ ~(k <= Available(ring)) => Len(got) + 1 < Len(sent) /\ LeavesNoRoom(Len(got) + 1)
  BY DEF OnlyLargePacketsOverflow
<1> DEFINE n == Len(sent)
           g == Len(got)
<1>1. /\ sent \in Seq(PacketLens) /\ n \in Nat /\ g \in Nat /\ g <= n /\ ring \in RingType
      /\ wire \in Seq(Bytes) /\ queue \in Seq(Bytes) /\ TypeOK
  BY DEF Inv, TypeOK
<1>2. PICK ends : Laid(Stream, g, n, sent, ends)
  BY DEF Inv
<1>3. /\ Stream \in Seq(Bytes) /\ ring.size <= Len(Stream)
      /\ \A i \in 1 .. ring.size : Contents(ring)[i] = Stream[i]
  BY <1>1, StreamIs
<1>4. Finds(ring, g)
  BY <1>1, <1>2, <1>3, Front
<1>5. ASSUME NEW k \in Sizes, ~(k <= Available(ring))
      PROVE  g + 1 < n /\ LeavesNoRoom(g + 1)
  <2>1. /\ k \in Nat /\ 1 <= k /\ k <= Len(wire) /\ k <= RecvSize
        /\ RecvSize \in Nat /\ Capacity \in Nat /\ ring.size \in Nat /\ ring.size + k > Capacity
    BY <1>1, <1>5, RingAssumption, TransportAssumption DEF Sizes, RingType, Available
  <2>2. Len(Stream) >= ring.size + k
    <3>1. /\ Contents(ring) \in Seq(Bytes) /\ Len(Contents(ring)) = ring.size
          /\ wire \o queue \in Seq(Bytes) /\ Len(wire \o queue) = Len(wire) + Len(queue)
      BY <1>1, StreamIs
    <3> DEFINE c == Contents(ring)
               b == wire \o queue
    <3>2. Len(c \o b) = Len(c) + Len(b)
      <4>1. c \in Seq(Bytes) /\ b \in Seq(Bytes)
        BY <3>1
      <4> HIDE DEF c, b
      <4> QED BY <4>1, Concat
    <3>3. Len(Stream) = ring.size + (Len(wire) + Len(queue))
      BY <3>1, <3>2 DEF Stream
    <3> QED BY <1>1, <2>1, <3>3
  <2>3. Len(Stream) <= ends[n] /\ Len(Stream) \in Nat
    BY <1>2, <1>3 DEF Laid
  <2>4. g # n
    <3>1. g = n => ends[n] = 0
      BY <1>1, <1>2 DEF Laid, Ends
    <3> QED BY <2>1, <2>2, <2>3, <3>1
  <2>5. g + 1 \in 1 .. n /\ ring.size < sent[g + 1]
    BY <1>4, <2>4 DEF Finds
  <2>6. sent[g + 1] \in Nat /\ sent[g + 1] <= Capacity
    BY <1>1, <2>5, LensAre
  <2>7. g + 1 # n
    <3>1. g + 1 = n => ends[n] = sent[g + 1]
      <4>1. ends[g] = 0 /\ \A p \in g + 1 .. n : ends[p] = ends[p - 1] + sent[p]
        BY <1>2 DEF Laid, Ends
      <4>2. g + 1 \in g + 1 .. n /\ (g + 1) - 1 = g
        BY <1>1, <2>5
      <4>3. ends[g + 1] = 0 + sent[g + 1]
        BY <4>1, <4>2
      <4> QED BY <2>6, <4>3
    <3> QED BY <2>1, <2>2, <2>3, <2>6, <3>1
  <2> QED BY <1>1, <2>1, <2>5, <2>6, <2>7 DEF LeavesNoRoom
<1>6. ASSUME NEW k \in Sizes, k <= Available(ring) PROVE HasPacket(Fed(k)) \/ NeedsMore(Fed(k))
  <2> DEFINE r == Fed(k)
             w == SubSeq(wire, k + 1, Len(wire))
  <2>1. r \in RingType /\ w \in Seq(Bytes) /\ Contents(r) \o (w \o queue) = Stream
    BY <1>6, FedIs
  <2> HIDE DEF r, w
  <2>2. Contents(r) \in Seq(Bytes) /\ Len(Contents(r)) = r.size /\ w \o queue \in Seq(Bytes)
    BY <1>1, <2>1, ContentsAre
  <2>3. r.size <= Len(Stream) /\ \A i \in 1 .. r.size : Contents(r)[i] = Stream[i]
    BY <2>1, <2>2, Concat
  <2>4. Finds(r, g)
    BY <1>1, <1>2, <1>3, <2>1, <2>3, Front
  <2> QED BY <2>4 DEF Finds, r
<1>7. NeedsMore(ring)
  BY <1>4 DEF Finds
<1> QED BY <1>5, <1>6, <1>7

\* The framer never loses its place in the stream, and the only reason for which
\* recv_packet closes the connection of a correct peer is bytes of a further packet
\* behind an incomplete one that leaves them no room: a peer that pipelines nothing
\* behind its large packets is never turned away.
THEOREM OverflowNeedsLargePacket == Spec => []OnlyLargePacketsOverflow
<1>1. Inv => OnlyLargePacketsOverflow
  BY OverflowIsLarge
<1> QED BY <1>1, ConnectionInv, PTL

-----------------------------------------------------------------------------
(* The channel.                                                            *)

LEMMA InitIsChannel == Init => C!Init
BY DEF Init, C!Init, Sent

\* A packet queued is one more of those queued.
LEMMA SentGrows ==
    ASSUME Inv, NEW len \in PacketLens, Queue(len)
    PROVE  /\ Sent' = Append(Sent, PacketBytes(Len(sent) + 1, len))
           /\ Len(sent) + 1 \in 1 .. MaxPackets
<1> DEFINE n == Len(sent)
           b == PacketBytes(n + 1, len)
<1>1. /\ sent \in Seq(PacketLens) /\ n \in Nat /\ MaxPackets \in Nat /\ n < MaxPackets
      /\ sent' = Append(sent, len) /\ UNCHANGED <<got, receiving>>
  BY TransportAssumption DEF Inv, TypeOK, Queue
<1>2. Len(sent') = n + 1 /\ sent'[n + 1] = len /\ \A p \in 1 .. n : sent'[p] = sent[p]
  BY <1>1
<1>3. n + 1 \in 1 .. MaxPackets
  BY <1>1
<1> HIDE DEF n
<1>4. Sent' = [p \in 1 .. n + 1 |-> IF p <= n THEN Packet(p) ELSE b]
  <2>1. Sent' = [p \in 1 .. n + 1 |-> Packet(p)']
    BY <1>2 DEF Sent
  <2>2. ASSUME NEW p \in 1 .. n + 1 PROVE Packet(p)' = IF p <= n THEN Packet(p) ELSE b
    <3>1. CASE p <= n
      <4>1. p \in 1 .. n
        BY <1>1, <3>1
      <4> QED BY <1>2, <3>1, <4>1 DEF Packet
    <3>2. CASE ~(p <= n)
      <4>1. p = n + 1
        BY <1>1, <3>2
      <4> QED BY <1>2, <3>2, <4>1 DEF Packet
    <3> QED BY <3>1, <3>2
  <2> HIDE DEF b
  <2> QED BY <2>1, <2>2
<1>5. Append(Sent, b) = [p \in 1 .. n + 1 |-> IF p <= n THEN Packet(p) ELSE b]
  <2>1. Sent = [p \in 1 .. n |-> Packet(p)]
    BY DEF Sent, n
  <2> HIDE DEF b
  <2> DEFINE S == {Packet(p) : p \in 1 .. n} \cup {b}
             t == [p \in 1 .. n + 1 |-> IF p <= n THEN Packet(p) ELSE b]
  <2>2. Sent \in [1 .. n -> S] /\ b \in S
    BY <2>1
  <2>3. t \in [1 .. n + 1 -> S]
    <3>1. \A p \in 1 .. n + 1 : p <= n => p \in 1 .. n
      BY <1>1
    <3> QED BY <3>1
  <2>4. /\ \A p \in 1 .. n : t[p] = Sent[p]
        /\ t[n + 1] = b
    BY <1>1, <2>1
  <2> HIDE DEF S, t
  <2>5. Sent \in Seq(S) /\ Len(Sent) = n /\ t \in Seq(S) /\ Len(t) = n + 1
    BY <1>1, <2>2, <2>3
  <2>6. /\ Append(Sent, b) \in Seq(S) /\ Len(Append(Sent, b)) = n + 1
        /\ Append(Sent, b)[n + 1] = b /\ \A p \in 1 .. n : Append(Sent, b)[p] = Sent[p]
    BY <2>2, <2>5
  <2>7. ASSUME NEW p \in 1 .. n + 1 PROVE t[p] = Append(Sent, b)[p]
    <3>1. CASE p = n + 1
      BY <2>4, <2>6, <3>1
    <3>2. CASE p # n + 1
      <4>1. p \in 1 .. n
        BY <1>1, <3>2
      <4> QED BY <2>4, <2>6, <4>1
    <3> QED BY <3>1, <3>2
  <2>8. t = Append(Sent, b)
    BY <2>5, <2>6, <2>7, SeqEqual
  <2> QED BY <2>8 DEF t
<1> QED BY <1>3, <1>4, <1>5 DEF b, n

LEMMA QueueIsSend ==
    ASSUME Inv, NEW len \in PacketLens, Queue(len)
    PROVE  C!Next
<1> DEFINE b == PacketBytes(Len(sent) + 1, len)
<1>1. Sent' = Append(Sent, b) /\ Len(sent) + 1 \in 1 .. MaxPackets
  BY SentGrows
<1>2. b \in {PacketBytes(p, l) : p \in 1 .. MaxPackets, l \in PacketLens}
  BY <1>1
<1> HIDE DEF b
<1> QED BY <1>1, <1>2 DEF Queue, C!Next, C!Send

LEMMA TakeIsDeliver ==
    ASSUME Inv, receiving, Len(got) < Len(sent), got' = Append(got, Packet(Len(got) + 1)),
           UNCHANGED <<sent, receiving>>
    PROVE  C!Next
<1>1. Len(sent) \in Nat /\ Len(got) \in Nat
  BY DEF Inv, TypeOK
<1>2. Sent = [p \in 1 .. Len(sent) |-> Packet(p)] /\ Len(Sent) = Len(sent)
  BY <1>1 DEF Sent
<1>3. Len(got) + 1 \in 1 .. Len(sent)
  BY <1>1
<1>4. Sent[Len(got) + 1] = Packet(Len(got) + 1)
  BY <1>2, <1>3
<1>5. Sent' = Sent
  BY DEF Sent, Packet
<1> QED BY <1>2, <1>4, <1>5 DEF C!Next, C!Deliver

LEMMA NextIsChannel ==
    ASSUME Inv, [Next]_vars
    PROVE  [C!Next]_(C!channelVars)
<1>1. ASSUME UNCHANGED <<sent, got, receiving>> PROVE UNCHANGED C!channelVars
  BY <1>1 DEF C!channelVars, Sent, Packet
<1>2. CASE \E len \in PacketLens : Queue(len)
  BY <1>2, QueueIsSend
<1>3. CASE \E k \in 1 .. Len(queue) : Flush(k)
  BY <1>1, <1>3, FlushInv
<1>4. CASE SenderCloses
  BY <1>1, <1>4, SenderClosesInv
<1>5. CASE TakeBuffered
  BY <1>5, TakeBufferedInv, TakeIsDeliver DEF TakeBuffered
<1>6. CASE \E k \in Sizes : Receive(k)
  <2>1. PICK k \in Sizes : Receive(k)
    BY <1>6
  <2>2. CASE UNCHANGED got
    BY <1>1, <2>1, <2>2, ReceiveInv
  <2>3. CASE ~UNCHANGED got
    BY <2>1, <2>3, ReceiveInv, TakeIsDeliver DEF Receive
  <2> QED BY <2>2, <2>3
<1>7. CASE ReceiverCloses
  <2>1. UNCHANGED <<sent, got>> /\ receiving' = FALSE
    BY <1>7, ReceiverClosesInv
  <2>2. UNCHANGED Sent
    BY <2>1 DEF Sent, Packet
  <2> QED BY <2>1, <2>2 DEF C!Next, C!End
<1>8. CASE UNCHANGED vars
  BY <1>1, <1>8, StutterInv
<1> QED BY <1>2, <1>3, <1>4, <1>5, <1>6, <1>7, <1>8 DEF Next, Sender, Receiver

\* recv_packet returns the packets that were queued, whole, in order, none twice and
\* none out of nothing, and none after the connection ended, whatever pieces they
\* travel in and wherever in the ring they lie.
THEOREM ConnectionIsChannel == Spec => IsChannel
BY ConnectionInv, InitIsChannel, NextIsChannel, PTL DEF Spec, IsChannel, C!Spec

-----------------------------------------------------------------------------
(* The bytes.                                                              *)

\* Induction on a number, in the form the provers can use: a set of numbers has a least.
Below == {ss \in Nat \X Nat : ss[1] < ss[2]}

LEMMA BelowWellFounded == IsWellFoundedOn(Below, Nat)
BY NatLessThanWellFounded, Zenon DEF OpToRel, Below

LEMMA LeastNumber ==
    ASSUME NEW T, T \subseteq Nat, T # {}
    PROVE  \E n \in T : \A m \in T : n <= m
<1>1. \A m, n \in Nat : m < n => <<m, n>> \in Below
  BY DEF Below
<1>2. PICK n \in T : \A m \in T : ~ (<<m, n>> \in Below)
  BY BelowWellFounded, WFMin, Zenon
<1>3. \A m \in T : ~ (m < n) /\ m \in Nat /\ n \in Nat
  BY <1>1, <1>2
<1> QED BY <1>3

\* f[k] is the first k members of ps, one behind the other.
Joins(ps, m, f) == f[0] = <<>> /\ \A k \in 1 .. m : f[k] = f[k - 1] \o ps[k]

LEMMA JoinsExist ==
    ASSUME NEW S, NEW ps \in Seq(Seq(S)), NEW m \in 0 .. Len(ps)
    PROVE  \E f \in [Nat -> Seq(S)] : Joins(ps, m, f)
<1> DEFINE T == {k \in 0 .. Len(ps) : \A f \in [Nat -> Seq(S)] : ~ Joins(ps, k, f)}
<1>1. SUFFICES ASSUME T # {} PROVE FALSE
  OBVIOUS
<1>2. T \subseteq Nat
  OBVIOUS
<1>3. PICK n \in T : \A k \in T : n <= k
  <2> HIDE DEF T
  <2> QED BY <1>1, <1>2, LeastNumber
<1>4. n # 0
  <2> DEFINE e == [k \in Nat |-> <<>>]
  <2>1. e \in [Nat -> Seq(S)] /\ e[0] = <<>>
    OBVIOUS
  <2> HIDE DEF e
  <2>2. Joins(ps, 0, e)
    BY <2>1 DEF Joins
  <2> QED BY <2>1, <2>2
<1>5. n \in Nat /\ n - 1 \in 0 .. Len(ps) /\ n \in 1 .. Len(ps) /\ n - 1 \in Nat /\ ~(n <= n - 1)
  BY <1>4
<1>6. PICK f \in [Nat -> Seq(S)] : Joins(ps, n - 1, f)
  BY <1>3, <1>5
<1> DEFINE g == [f EXCEPT ![n] = f[n - 1] \o ps[n]]
<1>7. g \in [Nat -> Seq(S)]
  <2> HIDE DEF T
  <2>1. f[n - 1] \in Seq(S) /\ ps[n] \in Seq(S)
    BY <1>5, ElementOfSeq
  <2>2. f[n - 1] \o ps[n] \in Seq(S)
    BY <2>1
  <2> QED BY <2>2
<1>8. Joins(ps, n, g)
  <2>1. g[0] = <<>>
    BY <1>5, <1>6 DEF Joins
  <2>2. ASSUME NEW k \in 1 .. n PROVE g[k] = g[k - 1] \o ps[k]
    <3>1. g[k - 1] = f[k - 1]
      BY <1>5
    <3>2. CASE k = n
      BY <1>5, <3>1, <3>2
    <3>3. CASE k # n
      <4>1. k \in 1 .. n - 1 /\ k \in Nat
        BY <1>5, <3>3
      <4>2. g[k] = f[k]
        BY <3>3, <4>1
      <4> QED BY <1>6, <3>1, <4>1, <4>2 DEF Joins
    <3> QED BY <3>2, <3>3
  <2> QED BY <2>1, <2>2 DEF Joins
<1> QED BY <1>7, <1>8

LEMMA JoinsAgree ==
    ASSUME NEW ps, NEW qs, NEW m \in Nat, NEW f, NEW g, Joins(ps, m, f), Joins(qs, m, g),
           \A k \in 1 .. m : ps[k] = qs[k], NEW i \in 0 .. m
    PROVE  f[i] = g[i]
<1> DEFINE T == {k \in 0 .. m : f[k] # g[k]}
<1>1. SUFFICES ASSUME T # {} PROVE FALSE
  OBVIOUS
<1>2. T \subseteq Nat
  OBVIOUS
<1>3. PICK n \in T : \A k \in T : n <= k
  <2> HIDE DEF T
  <2> QED BY <1>1, <1>2, LeastNumber
<1>4. n # 0
  BY DEF Joins
<1>5. n \in 1 .. m /\ n - 1 \in 0 .. m /\ ~(n <= n - 1)
  BY <1>4
<1>6. f[n - 1] = g[n - 1]
  BY <1>3, <1>5
<1>7. f[n] = g[n]
  BY <1>5, <1>6 DEF Joins
<1> QED BY <1>7

\* Flat is what the members of ps join to.
LEMMA FlatIs ==
    ASSUME NEW S, NEW ps \in Seq(Seq(S)), NEW f, Joins(ps, Len(ps), f)
    PROVE  Flat(ps) = f[Len(ps)]
<1> DEFINE n == Len(ps)
           IsFlat(h) == h = [k \in 0 .. n |-> IF k = 0 THEN <<>> ELSE h[k - 1] \o ps[k]]
           h == CHOOSE x : IsFlat(x)
           r == [k \in 0 .. n |-> f[k]]
<1>1. n \in Nat
  OBVIOUS
<1>2. IsFlat(r)
  <2>1. \A k \in 0 .. n : f[k] = IF k = 0 THEN <<>> ELSE r[k - 1] \o ps[k]
    <3> SUFFICES ASSUME NEW k \in 0 .. n PROVE f[k] = IF k = 0 THEN <<>> ELSE r[k - 1] \o ps[k]
      OBVIOUS
    <3>1. k # 0 => k \in 1 .. n /\ r[k - 1] = f[k - 1]
      BY <1>1
    <3> QED BY <3>1 DEF Joins
  <2> QED BY <2>1
<1>3. IsFlat(h)
  BY <1>2
<1>4. Joins(ps, n, h)
  <2> HIDE DEF h, n
  <2> SUFFICES ASSUME NEW k \in 0 .. n PROVE h[k] = IF k = 0 THEN <<>> ELSE h[k - 1] \o ps[k]
    <3>1. \A k \in 1 .. n : k \in 0 .. n /\ k # 0
      OBVIOUS
    <3>2. 0 \in 0 .. n
      BY <1>1
    <3> QED BY <3>1, <3>2 DEF Joins
  <2> QED BY <1>3
<1>5. h[n] = f[n]
  <2> HIDE DEF h
  <2> QED BY <1>1, <1>4, JoinsAgree
<1>6. Flat(ps) = h[n]
  BY DEF Flat
<1> QED BY <1>5, <1>6

LEMMA FlatEmpty == Flat(<<>>) = <<>>
<1>1. <<>> \in Seq(Seq(Bytes)) /\ Len(<<>>) = 0 /\ 0 \in 0 .. 0
  OBVIOUS
<1>2. PICK f \in [Nat -> Seq(Bytes)] : Joins(<<>>, 0, f)
  BY <1>1, JoinsExist
<1> QED BY <1>1, <1>2, FlatIs DEF Joins

LEMMA FlatAppend ==
    ASSUME NEW S, NEW ps \in Seq(Seq(S)), NEW p \in Seq(S)
    PROVE  Flat(ps) \in Seq(S) /\ Flat(Append(ps, p)) = Flat(ps) \o p
<1> DEFINE n == Len(ps)
           qs == Append(ps, p)
<1>1. /\ n \in Nat /\ qs \in Seq(Seq(S)) /\ Len(qs) = n + 1 /\ qs[n + 1] = p
      /\ \A k \in 1 .. n : qs[k] = ps[k]
  OBVIOUS
<1> HIDE DEF qs
<1>2. PICK f \in [Nat -> Seq(S)] : Joins(qs, n + 1, f)
  <2>1. n + 1 \in 0 .. Len(qs)
    BY <1>1
  <2> QED BY <1>1, <2>1, JoinsExist
<1>3. Joins(ps, n, f)
  <2> SUFFICES ASSUME NEW k \in 1 .. n PROVE f[k] = f[k - 1] \o ps[k]
    BY <1>2 DEF Joins
  <2>1. k \in 1 .. n + 1 /\ ps[k] = qs[k]
    BY <1>1
  <2> QED BY <1>2, <2>1 DEF Joins
<1>4. Flat(ps) = f[n] /\ Flat(qs) = f[n + 1]
  BY <1>1, <1>2, <1>3, FlatIs
<1>5. f[n + 1] = f[n] \o p
  <2>1. PICK m \in 1 .. n + 1 : m = n + 1 /\ m - 1 = n
    BY <1>1
  <2>2. f[m] = f[m - 1] \o qs[m]
    BY <1>2, <2>1, Zenon DEF Joins
  <2> QED BY <1>1, <2>1, <2>2
<1> QED BY <1>1, <1>4, <1>5 DEF qs

\* While neither end has closed, the bytes of the packets returned and the stream are
\* those of the packets queued.
Whole == up => sending /\ receiving /\ Flat(got) \o Stream = Flat(Sent)

\* The packets queued and those returned are sequences of bytes, and so the sequences
\* that Flat joins.
LEMMA SentAre ==
    ASSUME Inv
    PROVE  /\ Sent \in Seq(Seq(Bytes)) /\ got \in Seq(Seq(Bytes))
           /\ \A p \in 1 .. Len(sent) : Packet(p) \in Seq(Bytes)
<1>1. /\ sent \in Seq(PacketLens) /\ Len(sent) \in Nat /\ Len(sent) <= MaxPackets
      /\ got \in Seq(Seq(Bytes)) /\ MaxPackets \in Nat
  BY TransportAssumption DEF Inv, TypeOK
<1>2. ASSUME NEW p \in 1 .. Len(sent) PROVE Packet(p) \in Seq(Bytes)
  <2>1. p \in 1 .. MaxPackets /\ sent[p] \in PacketLens
    BY <1>1
  <2> QED BY <2>1, PacketBytesAre DEF Packet
<1>3. Sent \in [1 .. Len(sent) -> Seq(Bytes)]
  BY <1>2 DEF Sent
<1> QED BY <1>1, <1>2, <1>3

LEMMA InitWhole == Init => Whole
<1> SUFFICES ASSUME Init PROVE Whole
  OBVIOUS
<1>1. Inv
  BY InitInv
<1>2. Stream = <<>>
  <2>1. Stream \in Seq(Bytes) /\ EmptyRing.size = 0
    BY <1>1, StreamIs DEF Inv, EmptyRing
  <2>2. Len(Contents(ring)) = 0 /\ Contents(ring) \in Seq(Bytes)
    BY <1>1, <2>1, StreamIs DEF Init, Inv
  <2> QED BY <2>2 DEF Init, Stream, NoBytes
<1>3. Sent = <<>>
  <2>1. Sent \in Seq(Seq(Bytes)) /\ Len(Sent) = 0
    BY <1>1, SentAre DEF Init, Sent
  <2> QED BY <2>1
<1> QED BY <1>2, <1>3, FlatEmpty DEF Init, Whole

\* A queued packet is the last of those queued, and lies at the end of the stream.
LEMMA QueueWhole ==
    ASSUME Inv, Whole, NEW len \in PacketLens, Queue(len)
    PROVE  Whole'
<1> SUFFICES ASSUME up' PROVE (sending /\ receiving)' /\ Flat(got') \o Stream' = Flat(Sent')
  BY DEF Whole
<1> DEFINE n == Len(sent)
           b == PacketBytes(n + 1, len)
<1>1. /\ sent \in Seq(PacketLens) /\ n \in Nat /\ MaxPackets \in Nat /\ n < MaxPackets
      /\ sending /\ queue = NoBytes /\ sent' = Append(sent, len) /\ queue' = b
      /\ UNCHANGED <<wire, ring, got, up, sending, receiving>>
  BY TransportAssumption DEF Inv, TypeOK, Queue
<1>2. n + 1 \in 1 .. MaxPackets /\ Len(sent') = n + 1 /\ sent'[n + 1] = len /\ \A p \in 1 .. n : sent'[p] = sent[p]
  BY <1>1
<1>3. b \in Seq(Bytes)
  BY <1>2, PacketBytesAre
<1>4. Sent' = Append(Sent, b)
  BY <1>1, SentGrows
<1>5. Stream' = Stream \o b /\ Stream \in Seq(Bytes)
  BY <1>1, <1>3, StreamGrows
<1> HIDE DEF b
<1>6. Flat(Sent') = Flat(Sent) \o b
  BY <1>3, <1>4, SentAre, FlatAppend
<1>7. Flat(got) \in Seq(Bytes)
  <2>1. got \in Seq(Seq(Bytes)) /\ <<>> \in Seq(Bytes)
    BY DEF Inv, TypeOK
  <2> QED BY <2>1, FlatAppend
<1>8. Assoc(Bytes, Flat(got), Stream, b)
  BY <1>3, <1>5, <1>7, Associates
<1> QED BY <1>1, <1>5, <1>6, <1>8 DEF Whole, Assoc

\* A peek at the front is the beginning of the contents.
LEMMA PeekBegins ==
    ASSUME NEW rb \in RingType, NEW n \in 0 .. rb.size
    PROVE  Peek(rb, 0, n) = SubSeq(Contents(rb), 1, n)
<1> DEFINE c == Contents(rb)
           p == Peek(rb, 0, n)
<1>1. /\ p \in Seq(Bytes) /\ Len(p) = n /\ \A k \in 1 .. n : p[k] = rb.data[CellAt(rb, k - 1)]
      /\ c \in Seq(Bytes) /\ Len(c) = rb.size /\ \A k \in 1 .. rb.size : c[k] = rb.data[CellAt(rb, k - 1)]
  BY PeekIs, ContentsAre
<1>2. rb.size \in Nat
  BY DEF RingType
<1> HIDE DEF c, p
<1>3. SubSeq(c, 1, n) \in Seq(Bytes) /\ Len(SubSeq(c, 1, n)) = n /\ \A k \in 1 .. n : SubSeq(c, 1, n)[k] = c[k]
  BY <1>1, Beginning
<1>4. \A k \in 1 .. n : k \in 1 .. rb.size
  BY <1>2
<1>5. \A k \in 1 .. n : p[k] = SubSeq(c, 1, n)[k]
  BY <1>1, <1>3, <1>4
<1>6. p = SubSeq(c, 1, n)
  BY <1>1, <1>3, <1>5, SeqEqual
<1> QED BY <1>6 DEF c, p

\* A packet taken moves from the head of the stream to the end of those returned.
LEMMA TakeWhole ==
    ASSUME Inv, Whole, up, NEW r \in RingType, NEW w \in Seq(Bytes),
           Contents(r) \o (w \o queue) = Stream,
           HasPacket(r), Take(r), wire' = w, UNCHANGED <<sent, queue, up, sending, receiving>>
    PROVE  Whole'
<1> DEFINE d == FrontLen(r)
           c == Contents(r)
           p == Peek(r, 0, d)
           e == SubSeq(c, d + 1, Len(c))
           v == w \o queue
<1>1. receiving /\ sending /\ Flat(got) \o Stream = Flat(Sent)
  BY DEF Whole
<1>2. got' = Append(got, p) /\ d \in 0 .. r.size /\ got \in Seq(Seq(Bytes))
  BY <1>1, TakeInv DEF Take, Inv, TypeOK
<1>3. c \in Seq(Bytes) /\ Len(c) = r.size /\ p = SubSeq(c, 1, d)
  BY <1>2, ContentsAre, PeekBegins
<1>4. p \in Seq(Bytes) /\ e \in Seq(Bytes) /\ p \o e = c
  <2>1. d \in 0 .. Len(c)
    BY <1>2, <1>3
  <2> HIDE DEF c, d, p
  <2> QED BY <1>3, <2>1, Split
<1>5. Contents(ring') = e
  BY <1>2, <1>3, DiscardDrops DEF Take
<1>6. v \in Seq(Bytes)
  BY DEF Inv, TypeOK
<1>7. Stream' = e \o v /\ Stream = c \o v
  BY <1>5 DEF Stream
<1>8. Sent' = Sent
  BY DEF Sent, Packet
<1> HIDE DEF c, p, e, v, d
<1>9. Flat(got') = Flat(got) \o p /\ Flat(got) \in Seq(Bytes)
  BY <1>2, <1>4, FlatAppend
<1>10. e \o v \in Seq(Bytes)
  BY <1>4, <1>6
<1>11. Assoc(Bytes, p, e, v) /\ Assoc(Bytes, Flat(got), p, e \o v)
  BY <1>4, <1>6, <1>9, <1>10, Associates
<1> QED BY <1>1, <1>4, <1>7, <1>8, <1>9, <1>11 DEF Whole, Assoc

LEMMA NextWhole ==
    ASSUME Inv, Whole, [Next]_vars
    PROVE  Whole'
<1>1. CASE \E len \in PacketLens : Queue(len)
  BY <1>1, QueueWhole
<1>2. CASE \E k \in 1 .. Len(queue) : Flush(k)
  <2>1. PICK k \in 1 .. Len(queue) : Flush(k)
    BY <1>2
  <2>2. /\ wire' \o queue' = wire \o queue
        /\ UNCHANGED <<sent, ring, got, up, sending, receiving>>
    <3>1. wire \in Seq(Bytes) /\ queue \in Seq(Bytes) /\ k \in 0 .. Len(queue)
      BY DEF Inv, TypeOK
    <3> QED BY <2>1, <3>1, Moved DEF Flush
  <2>3. Stream' = Stream /\ Sent' = Sent
    BY <2>2 DEF Stream, Sent, Packet
  <2> QED BY <2>2, <2>3 DEF Whole
<1>3. CASE SenderCloses
  BY <1>3 DEF SenderCloses, Whole
<1>4. CASE TakeBuffered
  <2>1. ring \in RingType /\ wire \in Seq(Bytes) /\ Contents(ring) \o (wire \o queue) = Stream
    BY DEF Inv, TypeOK, Stream
  <2>2. HasPacket(ring) /\ Take(ring) /\ wire' = wire /\ UNCHANGED <<sent, queue, up, sending, receiving>>
    BY <1>4 DEF TakeBuffered
  <2>3. CASE up
    BY <2>1, <2>2, <2>3, TakeWhole
  <2>4. CASE ~up
    BY <2>2, <2>4 DEF Whole
  <2> QED BY <2>3, <2>4
<1>5. CASE \E k \in Sizes : Receive(k)
  <2>1. PICK k \in Sizes : Receive(k)
    BY <1>5
  <2> DEFINE r == Fed(k)
             w == SubSeq(wire, k + 1, Len(wire))
  <2>2. /\ k <= Available(ring) /\ wire' = w /\ UNCHANGED <<sent, queue, up, sending, receiving>>
        /\ \/ HasPacket(r) /\ Take(r)
           \/ ring' = r /\ UNCHANGED got
    BY <2>1 DEF Receive
  <2>3. r \in RingType /\ w \in Seq(Bytes) /\ Contents(r) \o (w \o queue) = Stream
    BY <2>2, FedIs
  <2> HIDE DEF r, w
  <2>4. CASE ~up
    BY <2>2, <2>4 DEF Whole
  <2>5. CASE up /\ HasPacket(r) /\ Take(r)
    BY <2>2, <2>3, <2>5, TakeWhole
  <2>6. CASE ring' = r /\ UNCHANGED got
    <3>1. Stream' = Stream /\ Sent' = Sent
      BY <2>2, <2>3, <2>6 DEF Stream, Sent, Packet
    <3> QED BY <2>2, <2>6, <3>1 DEF Whole
  <2> QED BY <2>2, <2>4, <2>5, <2>6
<1>6. CASE ReceiverCloses
  BY <1>6 DEF ReceiverCloses, CloseReceiver, Whole
<1>7. CASE UNCHANGED vars
  BY <1>7 DEF vars, Whole, Stream, Sent, Packet
<1> QED BY <1>1, <1>2, <1>3, <1>4, <1>5, <1>6, <1>7 DEF Next, Sender, Receiver

\* Between the ends of a live connection no byte is lost, made up, doubled or moved,
\* whatever the sockets take and hand over, and wherever the ring wraps.
THEOREM BytesAreConserved == Spec => []BytesConserved
<1>1. Inv /\ Whole => BytesConserved
  <2> SUFFICES ASSUME Inv, Whole, up
               PROVE  Flat(got) \o Contents(ring) \o wire \o queue = Flat(Sent)
    BY DEF BytesConserved
  <2>1. wire \in Seq(Bytes) /\ queue \in Seq(Bytes) /\ Contents(ring) \in Seq(Bytes) /\ got \in Seq(Seq(Bytes))
    BY StreamIs DEF Inv, TypeOK
  <2>2. Flat(got) \in Seq(Bytes)
    BY <2>1, FlatAppend
  <2> DEFINE a == Flat(got)
             c == Contents(ring)
             d == wire \o queue
  <2>3. a \o (c \o d) = Flat(Sent)
    BY DEF Whole, Stream
  <2> HIDE DEF a, c
  <2>4. a \o c \in Seq(Bytes) /\ d \in Seq(Bytes) /\ c \in Seq(Bytes) /\ a \in Seq(Bytes)
    BY <2>1, <2>2 DEF a, c
  <2>5. Assoc(Bytes, a \o c, wire, queue)
    BY <2>1, <2>4, Associates
  <2> HIDE DEF d
  <2>6. Assoc(Bytes, a, c, d)
    BY <2>4, Associates
  <2> QED BY <2>3, <2>5, <2>6 DEF Assoc, a, c, d
<1>2. Spec => []Whole
  BY ConnectionInv, InitWhole, NextWhole, PTL DEF Spec
<1> QED BY <1>1, <1>2, ConnectionInv, PTL
=============================================================================
