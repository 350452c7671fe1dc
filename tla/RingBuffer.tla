----------------------------- MODULE RingBuffer -----------------------------
(***************************************************************************)
(* The byte ring of lan_chat_core_c: a fixed buffer, a read position and a *)
(* size.  write and peek copy in two parts when they reach the end of the  *)
(* buffer; discard goes back to position 0 when it empties the ring.       *)
(***************************************************************************)
EXTENDS Naturals, Sequences

CONSTANTS Capacity,   \* length of the buffer
          Bytes,      \* what a cell can hold
          Blank       \* content of a cell that was never written

ASSUME RingAssumption == Capacity \in Nat \ {0} /\ Blank \in Bytes

Cells == 0 .. Capacity - 1
RingType == [data : [Cells -> Bytes], read : Cells, size : 0 .. Capacity]

EmptyRing == [data |-> [i \in Cells |-> Blank], read |-> 0, size |-> 0]

Available(ring) == Capacity - ring.size

\* The cell an offset from the read position falls in.
CellAt(ring, offset) == (ring.read + offset) % Capacity

\* The first of the two parts a copy of n bytes from cell pos is made in.
FirstPart(pos, n) == IF Capacity - pos > n THEN n ELSE Capacity - pos

\* The bytes d, which fit, written behind what the ring holds.
Write(ring, d) ==
    LET pos   == CellAt(ring, ring.size)
        first == FirstPart(pos, Len(d))
        Copied(i) == IF i \in pos .. pos + first - 1 THEN d[i - pos + 1]
                     ELSE IF i < Len(d) - first THEN d[first + i + 1]
                     ELSE ring.data[i]
    IN  [ring EXCEPT !.data = [i \in Cells |-> Copied(i)], !.size = @ + Len(d)]

\* The n bytes behind the offset, which the ring holds.
Peek(ring, offset, n) ==
    LET pos   == CellAt(ring, offset)
        first == FirstPart(pos, n)
    IN  [k \in 1 .. n |-> IF k <= first THEN ring.data[pos + k - 1] ELSE ring.data[k - first - 1]]

\* Mutant of Discard: what is left does not stay where it lies.
DiscardAndRewind(ring, n) == [ring EXCEPT !.read = 0, !.size = @ - n]

\* Mutant of Discard: the read position runs off the buffer.
DiscardUnwrapped(ring, n) == [ring EXCEPT !.read = @ + n, !.size = @ - n]

Discard(ring, n) ==
    [ring EXCEPT !.read = IF ring.size = n THEN 0 ELSE CellAt(ring, n), !.size = @ - n]

Contents(ring) == Peek(ring, 0, ring.size)
=============================================================================
