------------------------------- MODULE Tables -------------------------------
(***************************************************************************)
(* The tables both storage backends keep, as one value: accounts, the      *)
(* conversations with their active members, messages, deliveries and file  *)
(* transfers.  A table is a function from row id to row; a row's content   *)
(* (text, names, times, passwords) is left out.                            *)
(***************************************************************************)
EXTENDS Integers, FiniteSets, SequencesExt

CONSTANTS Users,    \* user ids an account can have
          NoUser    \* receiver of a group message

ASSUME TablesAssumption == NoUser \notin Users

NoRows == <<>>
EmptyTables == [accounts |-> {}, convs |-> NoRows, messages |-> NoRows,
                deliveries |-> NoRows, files |-> NoRows]

\* lan_chat_delivery_state_t, and what delivery_transition_is_valid allows.
DeliveryStates == {"pending", "delivered", "acked"}
MayFollow(old, new) ==
    \/ new = old
    \/ old = "pending" /\ new \in {"delivered", "acked"}
    \/ old = "delivered" /\ new = "acked"

Conv(group, members) == [group |-> group, members |-> members]
Message(conv, from, to) == [conv |-> conv, from |-> from, to |-> to]
Delivery(message, to) == [message |-> message, to |-> to, state |-> "pending"]
File(message, from, to) == [message |-> message, from |-> from, to |-> to, state |-> "started"]

With(table, id, row) == [i \in DOMAIN table \cup {id} |-> IF i = id THEN row ELSE table[i]]

\* u is t and one more row, whose id is above all ids of t and not 0 (no row).
GrownBy(t, u, id, row) == id \in Nat \ {0} /\ (\A i \in DOMAIN t : i < id) /\ u = With(t, id, row)

\* The private conversations of two users, and the groups of one.
Private(d, a, b) == {c \in DOMAIN d.convs : ~d.convs[c].group /\ d.convs[c].members = {a, b}}
GroupsOf(d, u) == {c \in DOMAIN d.convs : d.convs[c].group /\ u \in d.convs[c].members}

-----------------------------------------------------------------------------
(* The queries, as the SQL of the MySQL backend states them.               *)

Least(S) == CHOOSE x \in S : \A y \in S : x <= y

\* ORDER BY an id, ascending.
Sorted(S) == CHOOSE s \in [1 .. Cardinality(S) -> S] : \A i, j \in 1 .. Cardinality(S) : i < j => s[i] < s[j]

Limited(s, limit) == SubSeq(s, 1, IF Len(s) < limit THEN Len(s) ELSE limit)

\* Mutant of HistoryQuery: the comparison is the wrong way round.
HistoryQueryAfter(d, a, b, before, limit) ==
    LET found == {m \in DOMAIN d.messages :
                     /\ {d.messages[m].from, d.messages[m].to} = {a, b}
                     /\ before = 0 \/ m >= before}
    IN  Limited(Reverse(Sorted(found)), limit)

\* WHERE conversation_id = ? AND message_id < ? ORDER BY message_id DESC LIMIT ?
\* The answer is the page, and how many rows it has.
HistoryQuery(d, a, b, before, limit) ==
    LET found == {m \in DOMAIN d.messages :
                     /\ Private(d, a, b) # {}
                     /\ d.messages[m].conv = Least(Private(d, a, b))
                     /\ before = 0 \/ m < before}
    IN  Limited(Reverse(Sorted(found)), limit)

\* WHERE d.receiver_id = ? AND d.delivery_state = 'pending' ORDER BY d.delivery_id
\* ASC LIMIT ?
PendingQuery(d, u, limit) ==
    Limited(Sorted({k \in DOMAIN d.deliveries :
                       d.deliveries[k].to = u /\ d.deliveries[k].state = "pending"}), limit)

-----------------------------------------------------------------------------
(* What holds between the tables.                                          *)

\* Two users share one private conversation; a message with a receiver lies in the
\* one of its two ends and has one delivery, to that receiver; a group message lies
\* in a group of its sender and has none; a file row belongs to a message between
\* the same two users.
Consistent(d) ==
    /\ \A a, b \in Users : Cardinality(Private(d, a, b)) <= 1
    /\ \A m \in DOMAIN d.messages :
          LET msg == d.messages[m]
              deliveries == {k \in DOMAIN d.deliveries : d.deliveries[k].message = m}
          IN  IF msg.to = NoUser
              THEN msg.conv \in GroupsOf(d, msg.from) /\ deliveries = {}
              ELSE /\ msg.conv \in Private(d, msg.from, msg.to)
                   /\ \E k \in deliveries : deliveries = {k} /\ d.deliveries[k].to = msg.to
    /\ \A k \in DOMAIN d.deliveries : d.deliveries[k].message \in DOMAIN d.messages
    /\ \A f \in DOMAIN d.files :
          LET file == d.files[f]
          IN  /\ file.message \in DOMAIN d.messages
              /\ file.from = d.messages[file.message].from /\ file.to = d.messages[file.message].to
    /\ \A c \in DOMAIN d.convs : d.convs[c].members \subseteq d.accounts /\ Cardinality(d.convs[c].members) >= 2
=============================================================================
