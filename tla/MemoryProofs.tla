---------------------------- MODULE MemoryProofs ----------------------------
(***************************************************************************)
(* The memory backend keeps the promises of lan_chat_storage_c, and its    *)
(* arrays never run over.                                                  *)
(*                                                                         *)
(* A row's id is its place in its array, so a new row's id is new: every   *)
(* call is a step of the interface, or a refusal.  The tables are then     *)
(* consistent because the interface keeps them so (StorageProofs), and the *)
(* references between arrays are in range because the tables are           *)
(* consistent.                                                             *)
(*                                                                         *)
(* What the listings answer is the result of a loop, here a recursive      *)
(* function.  What holds of it is shown by way of the least index at which *)
(* it would not (LeastNumber): a scan finds the ids of a set, once each, in*)
(* the order in which it goes (ScanEmbeds), and there is only one way to   *)
(* list a set of numbers in ascending order (EnumUnique), so that a scan   *)
(* and an ORDER BY agree.                                                  *)
(***************************************************************************)
EXTENDS MemoryStorage, SequenceTheorems, FiniteSetTheorems, TLAPS

Promises == INSTANCE StorageProofs WITH Doubtful <- FALSE

ConvRow == [group : BOOLEAN, members : SUBSET Users]
MessageRow == [conv : Nat, from : Users, to : Users \cup {NoUser}]
DeliveryRow == [message : Nat, to : Users, state : DeliveryStates]
FileRow == [message : Nat, from : Users, to : Users, state : {"started", "completed"}]

Arrays == [accounts : SUBSET Users, convs : Seq(ConvRow), messages : Seq(MessageRow),
           deliveries : Seq(DeliveryRow), files : Seq(FileRow)]

Fits(d) ==
    /\ IsFiniteSet(d.accounts) /\ Cardinality(d.accounts) <= MaxAccounts
    /\ Len(d.convs) <= MaxConversations /\ Len(d.messages) <= MaxMessages
    /\ Len(d.deliveries) <= MaxDeliveries /\ Len(d.files) <= MaxFiles
    /\ Cardinality(MemberRows(d)) <= MaxMembers

Inv == db \in Arrays /\ Fits(db) /\ Promises!Sound(db)

-----------------------------------------------------------------------------
(* The notions of the two instances of the interface are those of Tables.  *)

LEMMA SameQueries ==
    /\ \A d, a, b : Interface!Private(d, a, b) = Private(d, a, b) /\ Promises!Private(d, a, b) = Private(d, a, b)
    /\ \A d, u : Interface!GroupsOf(d, u) = GroupsOf(d, u) /\ Promises!GroupsOf(d, u) = GroupsOf(d, u)
BY DEF Interface!Private, Promises!Private, Private, Interface!GroupsOf, Promises!GroupsOf, GroupsOf

LEMMA SameCardinality ==
    \A S : Interface!Cardinality(S) = Cardinality(S) /\ Promises!Cardinality(S) = Cardinality(S)
BY DEF Interface!Cardinality, Promises!Cardinality, Cardinality

LEMMA SameWrites ==
    /\ \A t, u, id, row : /\ Interface!GrownBy(t, u, id, row) <=> GrownBy(t, u, id, row)
                          /\ Promises!GrownBy(t, u, id, row) <=> GrownBy(t, u, id, row)
    /\ \A T : Interface!Keeps(T) <=> Promises!Keeps(T)
    /\ \A id : Interface!Answers(id) <=> Promises!Answers(id)
<1>1. ASSUME NEW t, NEW u, NEW id, NEW row
      PROVE  /\ Interface!GrownBy(t, u, id, row) <=> GrownBy(t, u, id, row)
             /\ Promises!GrownBy(t, u, id, row) <=> GrownBy(t, u, id, row)
  BY DEF Interface!GrownBy, Promises!GrownBy, GrownBy, Interface!With, Promises!With, With
<1>2. ASSUME NEW T
      PROVE  Interface!Keeps(T) <=> Promises!Keeps(T)
  BY DEF Interface!Keeps, Promises!Keeps
<1>3. ASSUME NEW id
      PROVE  Interface!Answers(id) <=> Promises!Answers(id)
  BY DEF Interface!Answers, Promises!Answers, Interface!Ok, Promises!Ok, Interface!Failed, Promises!Failed
<1> QED BY <1>1, <1>2, <1>3

\* What makes a row is a record of the same fields.
LEMMA SameRows ==
    /\ \A g, m : Interface!Conv(g, m) = Conv(g, m) /\ Promises!Conv(g, m) = Conv(g, m)
    /\ \A c, a, b : Interface!Message(c, a, b) = Message(c, a, b) /\ Promises!Message(c, a, b) = Message(c, a, b)
    /\ \A m, b : Interface!Delivery(m, b) = Delivery(m, b) /\ Promises!Delivery(m, b) = Delivery(m, b)
    /\ \A m, a, b : Interface!File(m, a, b) = File(m, a, b) /\ Promises!File(m, a, b) = File(m, a, b)
    /\ \A o, n : /\ Interface!MayFollow(o, n) <=> MayFollow(o, n)
                 /\ Promises!MayFollow(o, n) <=> MayFollow(o, n)
    /\ Interface!DeliveryStates = DeliveryStates /\ Promises!DeliveryStates = DeliveryStates
BY DEF Interface!Conv, Promises!Conv, Conv, Interface!Message, Promises!Message, Message,
       Interface!Delivery, Promises!Delivery, Delivery, Interface!File, Promises!File, File,
       Interface!MayFollow, Promises!MayFollow, MayFollow,
       Interface!DeliveryStates, Promises!DeliveryStates, DeliveryStates

LEMMA SameConsistent == \A d : Promises!Consistent(d) <=> Consistent(d)
<1> SUFFICES ASSUME NEW d PROVE Promises!Consistent(d) <=> Consistent(d)
  OBVIOUS
<1> QED BY SameQueries, SameCardinality DEF Promises!Consistent, Consistent

LEMMA SameSteps ==
    /\ Interface!Init <=> Promises!Init
    /\ Interface!Next <=> Promises!Next
<1>1. Interface!Init <=> Promises!Init
  BY DEF Interface!Init, Promises!Init, Interface!EmptyTables, Promises!EmptyTables, Interface!NoAnswer,
         Promises!NoAnswer, Interface!NoRows, Promises!NoRows
<1>2. Interface!Refuse <=> Promises!Refuse
  BY DEF Interface!Refuse, Promises!Refuse, Interface!Failed, Promises!Failed
<1>3. Interface!CreateAccount <=> Promises!CreateAccount
  BY SameQueries, SameWrites DEF Interface!CreateAccount, Promises!CreateAccount
<1>4. ASSUME NEW from, NEW to, NEW c, NEW m
      PROVE  Interface!PrivateStored(from, to, c, m) <=> Promises!PrivateStored(from, to, c, m)
  BY SameQueries, SameWrites, SameRows DEF Interface!PrivateStored, Promises!PrivateStored
<1>5. Interface!StorePrivateMessage <=> Promises!StorePrivateMessage
  BY <1>4, SameQueries, SameWrites DEF Interface!StorePrivateMessage, Promises!StorePrivateMessage
<1>6. Interface!StoreFileTransfer <=> Promises!StoreFileTransfer
  BY <1>4, SameQueries, SameWrites, SameRows DEF Interface!StoreFileTransfer, Promises!StoreFileTransfer
<1>7. Interface!CreateGroup <=> Promises!CreateGroup
  BY SameCardinality, SameWrites, SameRows DEF Interface!CreateGroup, Promises!CreateGroup
<1>8. Interface!StoreGroupMessage <=> Promises!StoreGroupMessage
  BY SameQueries, SameWrites, SameRows DEF Interface!StoreGroupMessage, Promises!StoreGroupMessage
<1>9. Interface!CompleteFileTransfer <=> Promises!CompleteFileTransfer
  BY SameQueries, SameWrites DEF Interface!CompleteFileTransfer, Promises!CompleteFileTransfer
<1>10. Interface!MarkDeliveryState <=> Promises!MarkDeliveryState
  BY SameQueries, SameWrites, SameRows DEF Interface!MarkDeliveryState, Promises!MarkDeliveryState
<1> QED BY <1>1, <1>2, <1>3, <1>5, <1>6, <1>7, <1>8, <1>9, <1>10 DEF Interface!Next, Promises!Next
-----------------------------------------------------------------------------
(* Arrays.                                                                 *)

Appended(s, row, R) ==
    /\ Append(s, row) \in Seq(R) /\ Len(Append(s, row)) = Len(s) + 1
    /\ Len(s) + 1 \in DOMAIN Append(s, row) /\ GrownBy(s, Append(s, row), Len(s) + 1, row)

LEMMA AppendGrows ==
    ASSUME NEW R, NEW s \in Seq(R), NEW row \in R
    PROVE  Appended(s, row, R)
<1>1. Len(s) \in Nat /\ DOMAIN s = 1 .. Len(s)
  OBVIOUS
<1>2. Append(s, row) \in Seq(R) /\ Len(Append(s, row)) = Len(s) + 1
  OBVIOUS
<1>3. DOMAIN Append(s, row) = 1 .. Len(s) + 1
  BY <1>1, <1>2
<1>4. DOMAIN s \cup {Len(s) + 1} = 1 .. Len(s) + 1
  BY <1>1
<1>5. \A i \in 1 .. Len(s) + 1 : Append(s, row)[i] = IF i = Len(s) + 1 THEN row ELSE s[i]
  BY <1>1
<1>6. Append(s, row) = [i \in 1 .. Len(s) + 1 |-> Append(s, row)[i]]
  <2>1. Append(s, row) \in [1 .. Len(s) + 1 -> R]
    BY <1>2, LenProperties
  <2> DEFINE q == Append(s, row)
  <2> HIDE DEF q
  <2>2. q \in [1 .. Len(s) + 1 -> R] => q = [i \in 1 .. Len(s) + 1 |-> q[i]]
    OBVIOUS
  <2> QED BY <2>1, <2>2 DEF q
<1>7. Append(s, row) = With(s, Len(s) + 1, row)
  <2>1. With(s, Len(s) + 1, row) = [i \in 1 .. Len(s) + 1 |-> IF i = Len(s) + 1 THEN row ELSE s[i]]
    BY <1>4 DEF With
  <2>2. [i \in 1 .. Len(s) + 1 |-> Append(s, row)[i]] = [i \in 1 .. Len(s) + 1 |-> IF i = Len(s) + 1 THEN row ELSE s[i]]
    BY <1>5
  <2> QED BY <1>6, <2>1, <2>2
<1> QED BY <1>1, <1>2, <1>3, <1>7 DEF GrownBy, Appended

LEMMA AppendRows ==
    ASSUME NEW R, NEW s \in Seq(R), NEW row \in R
    PROVE  /\ DOMAIN Append(s, row) = DOMAIN s \cup {Len(s) + 1} /\ Len(s) + 1 \notin DOMAIN s
           /\ Append(s, row)[Len(s) + 1] = row /\ \A i \in DOMAIN s : Append(s, row)[i] = s[i]
<1>1. Len(s) \in Nat /\ DOMAIN s = 1 .. Len(s)
  OBVIOUS
<1> QED BY <1>1

LEMMA LeastOfOne ==
    ASSUME NEW c \in Nat
    PROVE  Least({c}) = c
BY DEF Least

LEMMA Retyped ==
    ASSUME NEW R, NEW S, NEW s \in Seq(R), \A i \in DOMAIN s : s[i] \in S
    PROVE  s \in Seq(S)
OBVIOUS

LEMMA Outcome ==
    ASSUME NEW passes \in BOOLEAN, NEW id, NEW tables, Returns(passes, id, tables)
    PROVE  (passes /\ db' = tables /\ answer' = Interface!Ok(id)) \/ (Interface!Refuse /\ UNCHANGED db)
BY DEF Returns, Interface!Refuse, Failed, Ok

LEMMA AnswersOk ==
    ASSUME NEW id, answer' = Interface!Ok(id)
    PROVE  Interface!Answers(id)
BY DEF Interface!Answers

\* The member rows depend on the conversations only; one that is no group adds none.
LEMMA NoNewMembers ==
    ASSUME NEW d \in Arrays, NEW e, NEW members,
           e.convs = d.convs \/ e.convs = Append(d.convs, Conv(FALSE, members))
    PROVE  MemberRows(e) = MemberRows(d)
<1>1. d.convs \in Seq(ConvRow)
  BY DEF Arrays
<1>2. CASE e.convs = d.convs
  BY <1>2 DEF MemberRows
<1>3. CASE e.convs = Append(d.convs, Conv(FALSE, members))
  <2>1. /\ DOMAIN e.convs = DOMAIN d.convs \cup {Len(d.convs) + 1} /\ Len(d.convs) + 1 \notin DOMAIN d.convs
        /\ \A c \in DOMAIN d.convs : e.convs[c] = d.convs[c]
        /\ e.convs[Len(d.convs) + 1].group = FALSE
    BY <1>1, <1>3 DEF Conv
  <2> QED BY <2>1 DEF MemberRows
<1> QED BY <1>2, <1>3
-----------------------------------------------------------------------------
(* Each call is a step of the interface, and its rows fit.                 *)

Refines(step) == (step \/ Interface!Refuse) /\ db' \in Arrays /\ Fits(db')

LEMMA CapacityTypes ==
    /\ MaxAccounts \in Nat /\ MaxConversations \in Nat /\ MaxMessages \in Nat /\ MaxDeliveries \in Nat
    /\ MaxMembers \in Nat /\ MaxFiles \in Nat /\ MaxGroupMembers \in Nat
BY MemoryAssumption

LEMMA AccountStep ==
    ASSUME Inv, CreateAccount
    PROVE  Refines(Interface!CreateAccount)
<1>1. PICK u \in Users :
         Returns(u \notin db.accounts /\ Cardinality(db.accounts) < MaxAccounts,
                 u, [db EXCEPT !.accounts = @ \cup {u}])
  BY DEF CreateAccount
<1>2. CASE Interface!Refuse /\ UNCHANGED db
  BY <1>2 DEF Inv, Refines
<1>3. CASE /\ u \notin db.accounts /\ Cardinality(db.accounts) < MaxAccounts
           /\ db' = [db EXCEPT !.accounts = @ \cup {u}] /\ answer' = Interface!Ok(u)
  <2>1. /\ db'.accounts = db.accounts \cup {u} /\ db'.convs = db.convs /\ db'.messages = db.messages
        /\ db'.deliveries = db.deliveries /\ db'.files = db.files /\ db' \in Arrays
    BY <1>3 DEF Inv, Arrays
  <2>2. Interface!CreateAccount
    BY <1>3, <2>1, AnswersOk DEF Interface!CreateAccount, Interface!Keeps
  <2>3. IsFiniteSet(db'.accounts) /\ Cardinality(db'.accounts) <= MaxAccounts
    <3>1. IsFiniteSet(db.accounts)
      BY DEF Inv, Fits
    <3>2. Cardinality(db.accounts) \in Nat
      BY <3>1, FS_CardinalityType
    <3>3. IsFiniteSet(db.accounts \cup {u}) /\ Cardinality(db.accounts \cup {u}) = Cardinality(db.accounts) + 1
      BY <1>3, <3>1, FS_AddElement
    <3> QED BY <1>3, <2>1, <3>2, <3>3, CapacityTypes
  <2>4. MemberRows(db') = MemberRows(db)
    BY <2>1, NoNewMembers DEF Inv
  <2> QED BY <2>1, <2>2, <2>3, <2>4 DEF Inv, Fits, Refines
<1> QED BY <1>1, <1>2, <1>3, Outcome

\* The conversation a message is stored in: one that is there, or a new last one.
ConvUsed(from, to, c) ==
    \/ c \in Private(db, from, to) /\ WithConversation(from, to) = db.convs
    \/ /\ Private(db, from, to) = {} /\ c = Len(db.convs) + 1 /\ Len(db.convs) < MaxConversations
       /\ WithConversation(from, to) = Append(db.convs, Conv(FALSE, {from, to}))

LEMMA ConvFound ==
    ASSUME Inv, NEW from \in Users, NEW to \in Users, NEW named \in NamedConversations,
           MayStore(from, to, named)
    PROVE  \E c \in Nat :
              /\ ConvUsed(from, to, c)
              /\ WithMessage(from, to, named) =
                    [db EXCEPT !.convs = WithConversation(from, to),
                               !.messages = Append(@, Message(c, from, to)),
                               !.deliveries = Append(@, Delivery(NextId(db.messages), to))]
<1> DEFINE convs == WithConversation(from, to)
           found == {c \in DOMAIN convs : convs[c] = Conv(FALSE, {from, to})}
           used == IF named = 0 THEN Least(found) ELSE named
<1>1. db.convs \in Seq(ConvRow) /\ DOMAIN db.convs = 1 .. Len(db.convs) /\ Len(db.convs) \in Nat
  BY DEF Inv, Arrays
<1>2. \A x, y \in Private(db, from, to) : x = y
  BY SameQueries DEF Inv, Promises!Sound, Promises!OnePrivate
<1>3. \A c \in DOMAIN db.convs : db.convs[c] = Conv(FALSE, {from, to}) <=> c \in Private(db, from, to)
  <2> SUFFICES ASSUME NEW c \in DOMAIN db.convs
               PROVE  db.convs[c] = Conv(FALSE, {from, to}) <=> c \in Private(db, from, to)
    OBVIOUS
  <2>1. db.convs[c] \in ConvRow
    BY <1>1
  <2>2. db.convs[c] = [group |-> db.convs[c].group, members |-> db.convs[c].members]
        /\ db.convs[c].group \in BOOLEAN
    BY <2>1 DEF ConvRow
  <2>3. db.convs[c] = Conv(FALSE, {from, to}) => c \in Private(db, from, to)
    BY DEF Conv, Private
  <2>4. c \in Private(db, from, to) => db.convs[c] = Conv(FALSE, {from, to})
    BY <2>2 DEF Conv, Private
  <2> QED BY <2>3, <2>4
<1>4. used \in Nat /\ ConvUsed(from, to, used)
  <2>1. CASE named # 0
    <3>1. named \in Private(db, from, to) /\ used = named
      BY <2>1 DEF MayStore, ConversationFound
    <3>2. WithConversation(from, to) = db.convs
      BY <3>1 DEF WithConversation
    <3>3. named \in DOMAIN db.convs
      BY <3>1 DEF Private
    <3>4. named \in Nat
      BY <1>1, <3>3
    <3> HIDE DEF used
    <3> QED BY <3>1, <3>2, <3>4 DEF ConvUsed
  <2>2. CASE named = 0
    <3>1. used = Least(found)
      BY <2>2
    <3> HIDE DEF used
    <3>2. CASE Private(db, from, to) # {}
      <4>1. convs = db.convs
        BY <3>2 DEF WithConversation
      <4>2. PICK c : Private(db, from, to) = {c}
        BY <1>2, <3>2
      <4>3. found = {c}
        BY <1>3, <4>1, <4>2 DEF Private
      <4>4. c \in Nat
        BY <1>1, <4>2 DEF Private
      <4>5. used = c
        BY <3>1, <4>3, <4>4, LeastOfOne
      <4> QED BY <4>1, <4>2, <4>4, <4>5 DEF ConvUsed
    <3>3. CASE Private(db, from, to) = {}
      <4>1. convs = Append(db.convs, Conv(FALSE, {from, to})) /\ Len(db.convs) < MaxConversations
        BY <2>2, <3>3 DEF WithConversation, MayStore, ConversationFound
      <4>2. Conv(FALSE, {from, to}) \in ConvRow
        BY DEF Conv, ConvRow
      <4> HIDE DEF convs
      <4>3. /\ DOMAIN convs = DOMAIN db.convs \cup {Len(db.convs) + 1}
            /\ convs[Len(db.convs) + 1] = Conv(FALSE, {from, to})
            /\ \A c \in DOMAIN db.convs : convs[c] = db.convs[c]
        <5> DEFINE row == Conv(FALSE, {from, to})
        <5> HIDE DEF row
        <5>1. row \in ConvRow /\ convs = Append(db.convs, row)
          BY <4>1, <4>2 DEF row
        <5>2. /\ DOMAIN Append(db.convs, row) = DOMAIN db.convs \cup {Len(db.convs) + 1}
              /\ Append(db.convs, row)[Len(db.convs) + 1] = row
              /\ \A c \in DOMAIN db.convs : Append(db.convs, row)[c] = db.convs[c]
          BY <1>1, <5>1, AppendRows
        <5> QED BY <5>1, <5>2 DEF row
      <4>4. found = {Len(db.convs) + 1}
        BY <1>1, <1>3, <3>3, <4>3
      <4>5. used = Len(db.convs) + 1
        <5>1. Len(db.convs) + 1 \in Nat
          BY <1>1
        <5>2. Least({Len(db.convs) + 1}) = Len(db.convs) + 1
          BY <5>1, LeastOfOne
        <5> QED BY <3>1, <4>4, <5>2
      <4> QED BY <1>1, <3>3, <4>1, <4>5 DEF ConvUsed, convs
    <3> QED BY <3>2, <3>3
  <2> QED BY <2>1, <2>2
<1> QED BY <1>4 DEF WithMessage
\* The first three tables of a stored message, and the interface's word for them.
LEMMA MessageStored ==
    ASSUME Inv, NEW from \in Users, NEW to \in Users, NEW named \in NamedConversations,
           MayStore(from, to, named),
           NEW w, w = WithMessage(from, to, named),
           db'.accounts = w.accounts, db'.convs = w.convs, db'.messages = w.messages,
           db'.deliveries = w.deliveries
    PROVE  /\ w \in Arrays /\ w.accounts = db.accounts /\ w.files = db.files
           /\ Len(w.convs) <= MaxConversations /\ Len(w.messages) <= MaxMessages
           /\ Len(w.deliveries) <= MaxDeliveries /\ MemberRows(w) = MemberRows(db)
           /\ NextId(db.messages) \in DOMAIN db'.messages /\ NextId(db.messages) \in Nat
           /\ \E c \in DOMAIN db'.convs : Interface!PrivateStored(from, to, c, NextId(db.messages))
<1> DEFINE stored(c) == [db EXCEPT !.convs = WithConversation(from, to),
                                   !.messages = Append(@, Message(c, from, to)),
                                   !.deliveries = Append(@, Delivery(NextId(db.messages), to))]
<1>0. \E c \in Nat : ConvUsed(from, to, c) /\ WithMessage(from, to, named) = stored(c)
  BY ConvFound
<1>1. PICK c \in Nat : ConvUsed(from, to, c) /\ w = stored(c)
  <2> HIDE DEF stored
  <2> QED BY <1>0
<1>2. /\ db \in Arrays /\ db.convs \in Seq(ConvRow) /\ db.messages \in Seq(MessageRow)
      /\ db.deliveries \in Seq(DeliveryRow) /\ Len(db.convs) \in Nat /\ Len(db.messages) \in Nat
      /\ Len(db.deliveries) \in Nat
  BY DEF Inv, Arrays
<1>3. /\ w.accounts = db.accounts /\ w.files = db.files /\ w.convs = WithConversation(from, to)
      /\ w.messages = Append(db.messages, Message(c, from, to))
      /\ w.deliveries = Append(db.deliveries, Delivery(NextId(db.messages), to))
  BY <1>1, <1>2 DEF Arrays
<1>4. /\ Message(c, from, to) \in MessageRow /\ Delivery(NextId(db.messages), to) \in DeliveryRow
      /\ NextId(db.messages) = Len(db.messages) + 1 /\ NextId(db.messages) \in Nat
  BY <1>2 DEF Message, MessageRow, Delivery, DeliveryRow, DeliveryStates, NextId
<1>5. /\ Appended(db.messages, Message(c, from, to), MessageRow)
      /\ Appended(db.deliveries, Delivery(NextId(db.messages), to), DeliveryRow)
  BY <1>2, <1>4, AppendGrows
<1>6. Conv(FALSE, {from, to}) \in ConvRow
  BY DEF Conv, ConvRow
<1>7. /\ w.convs \in Seq(ConvRow) /\ Len(w.convs) <= MaxConversations /\ c \in DOMAIN w.convs
      /\ \/ c \in Private(db, from, to) /\ w.convs = db.convs
         \/ Private(db, from, to) = {} /\ GrownBy(db.convs, w.convs, c, Conv(FALSE, {from, to}))
  <2>1. CASE c \in Private(db, from, to) /\ w.convs = db.convs
    BY <1>2, <2>1 DEF Inv, Fits, Private
  <2>2. CASE /\ Private(db, from, to) = {} /\ c = Len(db.convs) + 1 /\ Len(db.convs) < MaxConversations
             /\ w.convs = Append(db.convs, Conv(FALSE, {from, to}))
    <3>1. Appended(db.convs, Conv(FALSE, {from, to}), ConvRow)
      BY <1>2, <1>6, AppendGrows
    <3>2. /\ w.convs \in Seq(ConvRow) /\ Len(w.convs) = Len(db.convs) + 1 /\ c \in DOMAIN w.convs
          /\ GrownBy(db.convs, w.convs, c, Conv(FALSE, {from, to}))
      BY <2>2, <3>1 DEF Appended
    <3>3. Len(db.convs) + 1 <= MaxConversations
      BY <1>2, <2>2, CapacityTypes
    <3> QED BY <2>2, <3>2, <3>3
  <2> QED BY <1>1, <1>3, <2>1, <2>2 DEF ConvUsed
<1>8. w \in Arrays
  <2>1. w.messages \in Seq(MessageRow) /\ w.deliveries \in Seq(DeliveryRow)
    BY <1>3, <1>5 DEF Appended
  <2> QED BY <1>1, <1>2, <1>3, <1>7, <2>1 DEF Arrays
<1>9. MemberRows(w) = MemberRows(db)
  BY <1>1, <1>2, <1>3, NoNewMembers DEF ConvUsed
<1>10. Len(w.messages) <= MaxMessages /\ Len(w.deliveries) <= MaxDeliveries
  <2>1. Len(db.messages) < MaxMessages /\ Len(db.deliveries) < MaxDeliveries
    BY DEF MayStore
  <2>2. Len(w.messages) = Len(db.messages) + 1 /\ Len(w.deliveries) = Len(db.deliveries) + 1
    BY <1>3, <1>5 DEF Appended
  <2> QED BY <1>2, <2>1, <2>2, CapacityTypes
<1>11. NextId(db.messages) \in DOMAIN db'.messages
  BY <1>3, <1>4, <1>5 DEF Appended
<1>12. Interface!PrivateStored(from, to, c, NextId(db.messages))
  <2>1. {from, to} \subseteq db.accounts /\ from # to
    BY DEF MayStore
  <2>2. Interface!Keeps({"accounts"})
    BY <1>3 DEF Interface!Keeps
  <2>3. \/ c \in Interface!Private(db, from, to) /\ Interface!Keeps({"convs"})
        \/ /\ Interface!Private(db, from, to) = {}
           /\ Interface!GrownBy(db.convs, db'.convs, c, Interface!Conv(FALSE, {from, to}))
    BY <1>7, SameQueries, SameWrites, SameRows DEF Interface!Keeps
  <2>4. Interface!GrownBy(db.messages, db'.messages, NextId(db.messages),
                          Interface!Message(c, from, to))
    BY <1>3, <1>4, <1>5, SameWrites, SameRows DEF Appended
  <2>5. \E k \in DOMAIN db'.deliveries :
           Interface!GrownBy(db.deliveries, db'.deliveries, k, Interface!Delivery(NextId(db.messages), to))
    BY <1>3, <1>5, SameWrites, SameRows DEF Appended
  <2> QED BY <2>1, <2>2, <2>3, <2>4, <2>5 DEF Interface!PrivateStored
<1> QED BY <1>3, <1>4, <1>7, <1>8, <1>9, <1>10, <1>11, <1>12

LEMMA PrivateStep ==
    ASSUME Inv, StorePrivateMessage
    PROVE  Refines(Interface!StorePrivateMessage)
<1>1. PICK from \in Users, to \in Users, named \in NamedConversations :
         Returns(MayStore(from, to, named), NextId(db.messages), WithMessage(from, to, named))
  BY DEF StorePrivateMessage
<1>2. CASE Interface!Refuse /\ UNCHANGED db
  BY <1>2 DEF Inv, Refines
<1>3. CASE /\ MayStore(from, to, named) /\ db' = WithMessage(from, to, named)
           /\ answer' = Interface!Ok(NextId(db.messages))
  <2>1. /\ db' \in Arrays /\ db'.accounts = db.accounts /\ db'.files = db.files
        /\ Len(db'.convs) <= MaxConversations /\ Len(db'.messages) <= MaxMessages
        /\ Len(db'.deliveries) <= MaxDeliveries /\ MemberRows(db') = MemberRows(db)
        /\ NextId(db.messages) \in DOMAIN db'.messages
        /\ \E c \in DOMAIN db'.convs : Interface!PrivateStored(from, to, c, NextId(db.messages))
    BY <1>3, MessageStored
  <2>2. Interface!StorePrivateMessage
    BY <1>3, <2>1, AnswersOk DEF Interface!StorePrivateMessage, Interface!Keeps
  <2> QED BY <2>1, <2>2 DEF Inv, Fits, Refines
<1>4. MayStore(from, to, named) \in BOOLEAN
  BY DEF MayStore
<1> QED BY <1>1, <1>2, <1>3, <1>4, Outcome

LEMMA FileStep ==
    ASSUME Inv, StoreFileTransfer
    PROVE  Refines(Interface!StoreFileTransfer)
<1>1. PICK from \in Users, to \in Users, named \in NamedConversations :
         Returns(Len(db.files) < MaxFiles /\ MayStore(from, to, named), NextId(db.files),
                 [WithMessage(from, to, named) EXCEPT
                     !.files = Append(@, File(NextId(db.messages), from, to))])
  BY DEF StoreFileTransfer
<1>2. CASE Interface!Refuse /\ UNCHANGED db
  BY <1>2 DEF Inv, Refines
<1>3. CASE /\ Len(db.files) < MaxFiles /\ MayStore(from, to, named)
           /\ db' = [WithMessage(from, to, named) EXCEPT
                        !.files = Append(@, File(NextId(db.messages), from, to))]
           /\ answer' = Interface!Ok(NextId(db.files))
  <2> DEFINE w == WithMessage(from, to, named)
             row == File(NextId(db.messages), from, to)
  <2>1. MayStore(from, to, named) /\ db' = [w EXCEPT !.files = Append(@, row)]
    BY <1>3
  <2>2. w = WithMessage(from, to, named)
    OBVIOUS
  <2> HIDE DEF w
  <2>4. /\ db'.accounts = w.accounts /\ db'.convs = w.convs /\ db'.messages = w.messages
        /\ db'.deliveries = w.deliveries
    BY <2>1
  <2>5. /\ w \in Arrays /\ w.accounts = db.accounts /\ w.files = db.files
        /\ Len(w.convs) <= MaxConversations /\ Len(w.messages) <= MaxMessages
        /\ Len(w.deliveries) <= MaxDeliveries /\ MemberRows(w) = MemberRows(db)
        /\ NextId(db.messages) \in DOMAIN db'.messages /\ NextId(db.messages) \in Nat
        /\ \E c \in DOMAIN db'.convs : Interface!PrivateStored(from, to, c, NextId(db.messages))
    BY <2>1, <2>2, <2>4, MessageStored
  <2>6. row \in FileRow
    BY <2>5 DEF File, FileRow
  <2>7. db.files \in Seq(FileRow) /\ Len(db.files) \in Nat
    BY DEF Inv, Arrays
  <2>8. Appended(db.files, row, FileRow)
    BY <2>6, <2>7, AppendGrows
  <2> HIDE DEF row
  <2>9. db'.files = Append(db.files, row) /\ db' \in Arrays
    BY <2>1, <2>5, <2>8 DEF Arrays, Appended
  <2>10. Len(db'.files) <= MaxFiles
    BY <1>3, <2>7, <2>8, <2>9, CapacityTypes, SMTT(30) DEF Appended
  <2>11. MemberRows(db') = MemberRows(db)
    BY <2>4, <2>5 DEF MemberRows
  <2>12. Interface!StoreFileTransfer
    <3>1. /\ NextId(db.files) \in DOMAIN db'.files
          /\ Interface!GrownBy(db.files, db'.files, NextId(db.files),
                               Interface!File(NextId(db.messages), from, to))
      BY <2>8, <2>9, SameWrites, SameRows DEF Appended, NextId, row
    <3>2. Interface!Answers(NextId(db.files))
      BY <1>3, AnswersOk
    <3> QED BY <2>5, <3>1, <3>2 DEF Interface!StoreFileTransfer
  <2> QED BY <2>4, <2>5, <2>9, <2>10, <2>11, <2>12 DEF Inv, Fits, Refines
<1>4. (Len(db.files) < MaxFiles /\ MayStore(from, to, named)) \in BOOLEAN
  OBVIOUS
<1> QED BY <1>1, <1>2, <1>3, <1>4, Outcome
\* A new group adds a member row for each of its members.
LEMMA NewMembers ==
    ASSUME Inv, NEW members \in SUBSET db.accounts, NEW e,
           e.convs = Append(db.convs, Conv(TRUE, members))
    PROVE  Cardinality(MemberRows(e)) = Cardinality(MemberRows(db)) + Cardinality(members)
<1> DEFINE id == Len(db.convs) + 1
<1>1. db \in Arrays /\ db.convs \in Seq(ConvRow) /\ Len(db.convs) \in Nat /\ DOMAIN db.convs = 1 .. Len(db.convs)
      /\ db.accounts \subseteq Users
  BY DEF Inv, Arrays
<1>2. Conv(TRUE, members) \in ConvRow /\ Conv(TRUE, members).group = TRUE /\ Conv(TRUE, members).members = members
  BY <1>1 DEF Conv, ConvRow
<1>3. /\ DOMAIN e.convs = DOMAIN db.convs \cup {id} /\ id \notin DOMAIN db.convs
      /\ e.convs[id] = Conv(TRUE, members) /\ \A i \in DOMAIN db.convs : e.convs[i] = db.convs[i]
  <2> DEFINE row == Conv(TRUE, members)
  <2>1. row \in ConvRow /\ e.convs = Append(db.convs, row)
    BY <1>2
  <2> HIDE DEF row
  <2>2. /\ DOMAIN Append(db.convs, row) = DOMAIN db.convs \cup {id} /\ id \notin DOMAIN db.convs
        /\ Append(db.convs, row)[id] = row /\ \A i \in DOMAIN db.convs : Append(db.convs, row)[i] = db.convs[i]
    BY <1>1, <2>1, AppendRows
  <2> QED BY <2>1, <2>2 DEF row
<1> HIDE DEF id
<1>4. MemberRows(e) = MemberRows(db) \cup ({id} \X members)
  <2>1. ASSUME NEW row \in MemberRows(e)
        PROVE  row \in MemberRows(db) \cup ({id} \X members)
    <3>1. /\ row \in (DOMAIN e.convs) \X Users /\ e.convs[row[1]].group /\ row[2] \in e.convs[row[1]].members
          /\ row = <<row[1], row[2]>>
      <4>1. /\ row \in (DOMAIN e.convs) \X Users /\ e.convs[row[1]].group
            /\ row[2] \in e.convs[row[1]].members
        BY DEF MemberRows
      <4>2. \A D, U : row \in D \X U => row = <<row[1], row[2]>>
        OBVIOUS
      <4>3. row = <<row[1], row[2]>>
        BY <4>1, <4>2
      <4> QED BY <4>1, <4>3
    <3>2. CASE row[1] = id
      BY <1>2, <1>3, <3>1, <3>2
    <3>3. CASE row[1] # id
      BY <1>3, <3>1, <3>3 DEF MemberRows
    <3> QED BY <3>2, <3>3
  <2>2. ASSUME NEW row \in MemberRows(db)
        PROVE  row \in MemberRows(e)
    <3>1. row \in (DOMAIN db.convs) \X Users /\ db.convs[row[1]].group /\ row[2] \in db.convs[row[1]].members
      BY DEF MemberRows
    <3> QED BY <1>3, <3>1 DEF MemberRows
  <2>3. ASSUME NEW row \in {id} \X members
        PROVE  row \in MemberRows(e)
    <3>1. row[1] = id /\ row[2] \in members /\ row[2] \in Users /\ row = <<row[1], row[2]>>
      BY <1>1
    <3>2. row \in (DOMAIN e.convs) \X Users /\ e.convs[row[1]] = Conv(TRUE, members)
      BY <1>3, <3>1
    <3> QED BY <1>2, <3>1, <3>2 DEF MemberRows
  <2> QED BY <2>1, <2>2, <2>3
<1>5. MemberRows(db) \cap ({id} \X members) = {}
  BY <1>3 DEF MemberRows
<1>6. IsFiniteSet(members) /\ IsFiniteSet(db.accounts)
  BY FS_Subset DEF Inv, Fits
<1>7. IsFiniteSet(MemberRows(db))
  <2>1. IsFiniteSet(1 .. Len(db.convs))
    BY <1>1, FS_Interval
  <2>2. IsFiniteSet((1 .. Len(db.convs)) \X db.accounts)
    BY <1>6, <2>1, FS_Product
  <2>3. MemberRows(db) \in SUBSET ((1 .. Len(db.convs)) \X db.accounts)
    <3>1. \A c \in DOMAIN db.convs : db.convs[c].members \subseteq db.accounts
      BY DEF Inv, Promises!Sound, Promises!ConvsKnown, Promises!ConvKnown
    <3> QED BY <1>1, <3>1 DEF MemberRows
  <2> QED BY <2>2, <2>3, FS_Subset
<1>8. IsFiniteSet({id} \X members) /\ Cardinality({id} \X members) = Cardinality(members)
  <2>1. IsFiniteSet({id}) /\ Cardinality({id}) = 1
    BY FS_Singleton
  <2>2. IsFiniteSet({id} \X members) /\ Cardinality({id} \X members) = 1 * Cardinality(members)
    BY <1>6, <2>1, FS_Product
  <2>3. Cardinality(members) \in Nat
    BY <1>6, FS_CardinalityType
  <2> QED BY <2>2, <2>3
<1>9. Cardinality(MemberRows(e)) = Cardinality(MemberRows(db)) + Cardinality({id} \X members) - Cardinality({})
  BY <1>4, <1>5, <1>7, <1>8, FS_Union
<1>10. Cardinality({}) = 0 /\ Cardinality(MemberRows(db)) \in Nat /\ Cardinality(members) \in Nat
  BY <1>6, <1>7, FS_EmptySet, FS_CardinalityType
<1> QED BY <1>8, <1>9, <1>10

LEMMA GroupStep ==
    ASSUME Inv, CreateGroup
    PROVE  Refines(Interface!CreateGroup)
<1>1. PICK creator \in Users, named \in SUBSET Users \ {{}} :
         LET members == named \cup {creator}
         IN  Returns(/\ members \subseteq db.accounts
                     /\ Cardinality(members) \in 2 .. MaxGroupMembers
                     /\ Len(db.convs) < MaxConversations
                     /\ MembersStored + Cardinality(members) <= MaxMembers,
                     NextId(db.convs),
                     [db EXCEPT !.convs = Append(@, Conv(TRUE, members))])
  BY DEF CreateGroup
<1> DEFINE members == named \cup {creator}
           passes == /\ members \subseteq db.accounts
                     /\ Cardinality(members) \in 2 .. MaxGroupMembers
                     /\ Len(db.convs) < MaxConversations
                     /\ MembersStored + Cardinality(members) <= MaxMembers
<1>2. Returns(passes, NextId(db.convs), [db EXCEPT !.convs = Append(@, Conv(TRUE, members))])
  BY <1>1
<1> HIDE DEF members
<1>3. CASE Interface!Refuse /\ UNCHANGED db
  BY <1>3 DEF Inv, Refines
<1>4. CASE /\ passes /\ db' = [db EXCEPT !.convs = Append(@, Conv(TRUE, members))]
           /\ answer' = Interface!Ok(NextId(db.convs))
  <2>1. db \in Arrays /\ db.convs \in Seq(ConvRow) /\ Len(db.convs) \in Nat
    BY DEF Inv, Arrays
  <2>2. /\ db'.convs = Append(db.convs, Conv(TRUE, members)) /\ db'.accounts = db.accounts
        /\ db'.messages = db.messages /\ db'.deliveries = db.deliveries /\ db'.files = db.files
    BY <1>4, <2>1 DEF Arrays
  <2>3. members \in SUBSET db.accounts /\ Cardinality(members) >= 2 /\ Conv(TRUE, members) \in ConvRow
    BY <1>4, <2>1, CapacityTypes DEF Arrays, Conv, ConvRow
  <2>4. Appended(db.convs, Conv(TRUE, members), ConvRow)
    BY <2>1, <2>3, AppendGrows
  <2>5. db' \in Arrays
    BY <1>4, <2>1, <2>2, <2>4 DEF Arrays, Appended
  <2>6. Len(db'.convs) <= MaxConversations
    BY <1>4, <2>1, <2>2, <2>4, CapacityTypes DEF Appended
  <2>7. Cardinality(MemberRows(db')) <= MaxMembers
    <3>1. Cardinality(MemberRows(db')) = MembersStored + Cardinality(members)
      BY <2>2, <2>3, NewMembers DEF MembersStored
    <3> QED BY <1>4, <3>1
  <2>8. Interface!CreateGroup
    <3>1. NextId(db.convs) \in DOMAIN db'.convs
      BY <2>2, <2>4 DEF Appended, NextId
    <3>2. Interface!Cardinality(members) >= 2
      BY <2>3, SameCardinality
    <3>3. Interface!GrownBy(db.convs, db'.convs, NextId(db.convs), Interface!Conv(TRUE, members))
      BY <2>2, <2>4, SameWrites, SameRows DEF Appended, NextId
    <3>4. Interface!Keeps({"accounts", "messages", "deliveries", "files"})
      BY <2>2 DEF Interface!Keeps
    <3> QED BY <1>4, <2>3, <3>1, <3>2, <3>3, <3>4, AnswersOk DEF Interface!CreateGroup
  <2> QED BY <2>2, <2>5, <2>6, <2>7, <2>8 DEF Inv, Fits, Refines
<1>5. passes \in BOOLEAN
  OBVIOUS
<1> QED BY <1>2, <1>3, <1>4, <1>5, Outcome

LEMMA GroupMessageStep ==
    ASSUME Inv, StoreGroupMessage
    PROVE  Refines(Interface!StoreGroupMessage)
<1>1. PICK from \in Users, c \in DOMAIN db.convs :
         Returns(c \in GroupsOf(db, from) /\ Len(db.messages) < MaxMessages,
                 NextId(db.messages),
                 [db EXCEPT !.messages = Append(@, Message(c, from, NoUser))])
  BY DEF StoreGroupMessage
<1>2. CASE Interface!Refuse /\ UNCHANGED db
  BY <1>2 DEF Inv, Refines
<1>3. CASE /\ c \in GroupsOf(db, from) /\ Len(db.messages) < MaxMessages
           /\ db' = [db EXCEPT !.messages = Append(@, Message(c, from, NoUser))]
           /\ answer' = Interface!Ok(NextId(db.messages))
  <2>1. /\ db \in Arrays /\ db.messages \in Seq(MessageRow) /\ Len(db.messages) \in Nat
        /\ DOMAIN db.convs = 1 .. Len(db.convs)
    BY DEF Inv, Arrays
  <2>2. /\ db'.messages = Append(db.messages, Message(c, from, NoUser)) /\ db'.accounts = db.accounts
        /\ db'.convs = db.convs /\ db'.deliveries = db.deliveries /\ db'.files = db.files
    BY <1>3, <2>1 DEF Arrays
  <2>3. Message(c, from, NoUser) \in MessageRow
    BY <2>1 DEF Message, MessageRow
  <2>4. Appended(db.messages, Message(c, from, NoUser), MessageRow)
    BY <2>1, <2>3, AppendGrows
  <2>5. db' \in Arrays
    BY <1>3, <2>1, <2>2, <2>4 DEF Arrays, Appended
  <2>6. Len(db'.messages) <= MaxMessages
    BY <1>3, <2>1, <2>2, <2>4, CapacityTypes DEF Appended
  <2>7. MemberRows(db') = MemberRows(db)
    BY <2>1, <2>2, NoNewMembers
  <2>8. Interface!StoreGroupMessage
    <3>1. NextId(db.messages) \in DOMAIN db'.messages
      BY <2>2, <2>4 DEF Appended, NextId
    <3>2. Interface!GrownBy(db.messages, db'.messages, NextId(db.messages), Interface!Message(c, from, NoUser))
      BY <2>2, <2>4, SameWrites, SameRows DEF Appended, NextId
    <3>3. Interface!Keeps({"accounts", "convs", "deliveries", "files"})
      BY <2>2 DEF Interface!Keeps
    <3>4. c \in Interface!GroupsOf(db, from)
      BY <1>3, SameQueries
    <3> QED BY <1>3, <3>1, <3>2, <3>3, <3>4, AnswersOk DEF Interface!StoreGroupMessage
  <2> QED BY <2>2, <2>5, <2>6, <2>7, <2>8 DEF Inv, Fits, Refines
<1>4. (c \in GroupsOf(db, from) /\ Len(db.messages) < MaxMessages) \in BOOLEAN
  OBVIOUS
<1> QED BY <1>1, <1>2, <1>3, <1>4, Outcome

LEMMA CompleteStep ==
    ASSUME Inv, CompleteFileTransfer
    PROVE  Refines(Interface!CompleteFileTransfer)
<1>1. PICK f \in 1 .. MaxFiles :
         Returns(f \in DOMAIN db.files, f, [db EXCEPT !.files[f].state = "completed"])
  BY DEF CompleteFileTransfer
<1>2. CASE Interface!Refuse /\ UNCHANGED db
  BY <1>2 DEF Inv, Refines
<1>3. CASE /\ f \in DOMAIN db.files /\ db' = [db EXCEPT !.files[f].state = "completed"]
           /\ answer' = Interface!Ok(f)
  <2>1. db \in Arrays /\ db.files \in Seq(FileRow) /\ DOMAIN db.files = 1 .. Len(db.files)
    BY DEF Inv, Arrays
  <2>2. /\ db'.files = [db.files EXCEPT ![f].state = "completed"] /\ db'.accounts = db.accounts
        /\ db'.convs = db.convs /\ db'.messages = db.messages /\ db'.deliveries = db.deliveries
    BY <1>3, <2>1 DEF Arrays
  <2>3. [db.files[f] EXCEPT !.state = "completed"] \in FileRow
    <3>1. db.files[f] \in FileRow
      BY <1>3, <2>1
    <3> QED BY <3>1 DEF FileRow
  <2>4. db'.files \in Seq(FileRow) /\ Len(db'.files) = Len(db.files)
    BY <1>3, <2>1, <2>2, <2>3, ExceptSeq
  <2>5. db' \in Arrays
    BY <1>3, <2>1, <2>2, <2>4 DEF Arrays
  <2>6. MemberRows(db') = MemberRows(db)
    BY <2>1, <2>2, NoNewMembers
  <2>7. Interface!CompleteFileTransfer
    BY <1>3, <2>2, AnswersOk DEF Interface!CompleteFileTransfer, Interface!Keeps
  <2> QED BY <2>2, <2>4, <2>5, <2>6, <2>7 DEF Inv, Fits, Refines
<1>4. (f \in DOMAIN db.files) \in BOOLEAN
  OBVIOUS
<1> QED BY <1>1, <1>2, <1>3, <1>4, Outcome

LEMMA MarkStep ==
    ASSUME Inv, MarkDeliveryState
    PROVE  Refines(Interface!MarkDeliveryState)
<1>1. PICK k \in 1 .. MaxDeliveries, new \in DeliveryStates :
         Returns(k \in DOMAIN db.deliveries /\ MayFollow(db.deliveries[k].state, new), k,
                 [db EXCEPT !.deliveries[k].state = new])
  BY DEF MarkDeliveryState
<1>2. CASE Interface!Refuse /\ UNCHANGED db
  BY <1>2 DEF Inv, Refines
<1>3. CASE /\ k \in DOMAIN db.deliveries /\ MayFollow(db.deliveries[k].state, new)
           /\ db' = [db EXCEPT !.deliveries[k].state = new] /\ answer' = Interface!Ok(k)
  <2>1. db \in Arrays /\ db.deliveries \in Seq(DeliveryRow) /\ DOMAIN db.deliveries = 1 .. Len(db.deliveries)
    BY DEF Inv, Arrays
  <2>2. /\ db'.deliveries = [db.deliveries EXCEPT ![k].state = new] /\ db'.accounts = db.accounts
        /\ db'.convs = db.convs /\ db'.messages = db.messages /\ db'.files = db.files
    BY <1>3, <2>1 DEF Arrays
  <2>3. [db.deliveries[k] EXCEPT !.state = new] \in DeliveryRow
    <3>1. db.deliveries[k] \in DeliveryRow
      BY <1>3, <2>1
    <3> QED BY <3>1 DEF DeliveryRow
  <2>4. db'.deliveries \in Seq(DeliveryRow) /\ Len(db'.deliveries) = Len(db.deliveries)
    BY <1>3, <2>1, <2>2, <2>3, ExceptSeq
  <2>5. db' \in Arrays
    BY <1>3, <2>1, <2>2, <2>4 DEF Arrays
  <2>6. MemberRows(db') = MemberRows(db)
    BY <2>1, <2>2, NoNewMembers
  <2>7. Interface!MarkDeliveryState
    BY <1>3, <2>2, AnswersOk, SameRows DEF Interface!MarkDeliveryState, Interface!Keeps
  <2> QED BY <2>2, <2>4, <2>5, <2>6, <2>7 DEF Inv, Fits, Refines
<1>4. (k \in DOMAIN db.deliveries /\ MayFollow(db.deliveries[k].state, new)) \in BOOLEAN
  BY DEF MayFollow
<1> QED BY <1>1, <1>2, <1>3, <1>4, Outcome
-----------------------------------------------------------------------------
(* The invariant, and what follows.                                        *)

LEMMA InitHolds == Init => Inv /\ Interface!Init
<1> SUFFICES ASSUME Init PROVE Inv /\ Interface!Init
  OBVIOUS
<1>1. Interface!Init
  BY DEF Init, Interface!Init, EmptyTables, Interface!EmptyTables, NoRows, Interface!NoRows
<1>2. Promises!Sound(db)
  BY <1>1, SameSteps, TablesAssumption, Promises!InitSound DEF Promises!Tabular
<1>3. /\ db.accounts = {} /\ db.convs = <<>> /\ db.messages = <<>> /\ db.deliveries = <<>> /\ db.files = <<>>
      /\ db = [accounts |-> {}, convs |-> <<>>, messages |-> <<>>, deliveries |-> <<>>, files |-> <<>>]
  BY DEF Init, EmptyTables, NoRows
<1>4. db \in Arrays
  BY <1>3 DEF Arrays
<1>5. MemberRows(db) = {}
  BY <1>3 DEF MemberRows
<1>6. Fits(db)
  BY <1>3, <1>5, FS_EmptySet, CapacityTypes DEF Fits
<1> QED BY <1>1, <1>2, <1>4, <1>6 DEF Inv

LEMMA StepHolds == Inv /\ [Next]_vars => Inv' /\ [Interface!Next]_vars
<1> SUFFICES ASSUME Inv, [Next]_vars PROVE Inv' /\ [Interface!Next]_vars
  OBVIOUS
<1>1. CASE UNCHANGED vars
  BY <1>1 DEF vars, Inv
<1>2. CASE Next
  <2>1. Interface!Next /\ db' \in Arrays /\ Fits(db')
    BY <1>2, AccountStep, PrivateStep, FileStep, GroupStep, GroupMessageStep, CompleteStep, MarkStep
       DEF Next, Refines, Interface!Next
  <2>2. Promises!Sound(db')
    BY <2>1, SameSteps, TablesAssumption, Promises!StepSound DEF Inv, Promises!Tabular, Promises!vars
  <2> QED BY <2>1, <2>2 DEF Inv
<1> QED BY <1>1, <1>2

LEMMA InvGivesTypes == Inv => TypeOK
<1> SUFFICES ASSUME Inv PROVE TypeOK
  OBVIOUS
<1>1. /\ db \in Arrays /\ db.accounts \subseteq Users /\ db.convs \in Seq(ConvRow)
      /\ db.messages \in Seq(MessageRow) /\ db.deliveries \in Seq(DeliveryRow) /\ db.files \in Seq(FileRow)
  BY DEF Inv, Arrays
<1>2. \A m \in DOMAIN db.messages : db.messages[m].conv \in DOMAIN db.convs
  <2> SUFFICES ASSUME NEW m \in DOMAIN db.messages PROVE db.messages[m].conv \in DOMAIN db.convs
    OBVIOUS
  <2>1. \/ db.messages[m].conv \in Promises!GroupsOf(db, db.messages[m].from)
        \/ db.messages[m].conv \in Promises!Private(db, db.messages[m].from, db.messages[m].to)
    BY DEF Inv, Promises!Sound, Promises!MessagesFiled, Promises!MessageFiled
  <2> QED BY <2>1 DEF Promises!GroupsOf, Promises!Private
<1>3. \A k \in DOMAIN db.deliveries : db.deliveries[k].message \in DOMAIN db.messages
  BY DEF Inv, Promises!Sound, Promises!DeliveriesKnown
<1>4. \A f \in DOMAIN db.files : db.files[f].message \in DOMAIN db.messages
  BY DEF Inv, Promises!Sound, Promises!FilesKnown
<1>5. db.messages \in Seq([conv : DOMAIN db.convs, from : Users, to : Users \cup {NoUser}])
  <2>1. ASSUME NEW m \in DOMAIN db.messages
        PROVE  db.messages[m] \in [conv : DOMAIN db.convs, from : Users, to : Users \cup {NoUser}]
    <3>1. db.messages[m] \in MessageRow
      BY <1>1
    <3> QED BY <1>2, <3>1 DEF MessageRow
  <2> QED BY <1>1, <2>1, Retyped
<1>6. db.deliveries \in Seq([message : DOMAIN db.messages, to : Users, state : DeliveryStates])
  <2>1. ASSUME NEW k \in DOMAIN db.deliveries
        PROVE  db.deliveries[k] \in [message : DOMAIN db.messages, to : Users, state : DeliveryStates]
    <3>1. db.deliveries[k] \in DeliveryRow
      BY <1>1
    <3> QED BY <1>3, <3>1 DEF DeliveryRow
  <2> QED BY <1>1, <2>1, Retyped
<1>7. db.files \in Seq([message : DOMAIN db.messages, from : Users, to : Users, state : {"started", "completed"}])
  <2>1. ASSUME NEW f \in DOMAIN db.files
        PROVE  db.files[f] \in [message : DOMAIN db.messages, from : Users, to : Users,
                                state : {"started", "completed"}]
    <3>1. db.files[f] \in FileRow
      BY <1>1
    <3> QED BY <1>4, <3>1 DEF FileRow
  <2> QED BY <1>1, <2>1, Retyped
<1> QED BY <1>1, <1>5, <1>6, <1>7 DEF Inv, Fits, TypeOK, ConvRow, MembersStored

LEMMA InvariantHolds == Spec => []Inv
BY InitHolds, StepHolds, PTL DEF Spec

\* No sequence of calls writes an array of the memory backend past its capacity, and
\* what a row names in another array is there, for all capacities and all users.
THEOREM ArraysNeverOverflow == Spec => []TypeOK
BY InvariantHolds, InvGivesTypes, PTL

\* Every call of the memory backend takes effect as a whole or is refused without a
\* trace: it implements the interface, and its failures hide nothing.
THEOREM MemoryIsStorage == Spec => IsStorage
<1>1. Inv /\ [Next]_vars => [Interface!Next]_(Interface!vars)
  BY StepHolds DEF vars, Interface!vars
<1> QED BY <1>1, InitHolds, InvariantHolds, PTL DEF Spec, IsStorage, Interface!Spec

\* The tables of the memory backend refer to each other as the server takes for granted.
THEOREM MemoryIsConsistent == Spec => []TablesConsistent
<1>1. Inv => TablesConsistent
  BY TablesAssumption, Promises!SoundIsConsistent, SameConsistent DEF Inv, TablesConsistent
<1> QED BY <1>1, InvariantHolds, PTL

-----------------------------------------------------------------------------
(* What a loop over ids finds.                                             *)

\* Induction on a number, in the form the provers can use: a set of numbers has a least.
Below == {ss \in Nat \X Nat : ss[1] < ss[2]}

LEMMA BelowWellFounded == IsWellFoundedOn(Below, Nat)
BY NatLessThanWellFounded, Zenon DEF OpToRel, Below

LEMMA LeastNumber ==
    ASSUME NEW T, T \subseteq Nat, T # {}
    PROVE  \E n \in T : \A m \in T : n <= m
<1>1. \A m, n \in Nat : m < n => <<m, n>> \in Below
  BY DEF Below
<1>2. PICK n \in T : \A m \in T : ~ (<<m, n>> \in Below)
  BY BelowWellFounded, WFMin, Zenon
<1>3. \A m \in T : ~ (m < n) /\ m \in Nat /\ n \in Nat
  BY <1>1, <1>2
<1> QED BY <1>3

\* f[k] is what the loop has found among the first k ids.
Scans(ids, M, m, f) ==
    f[0] = <<>> /\ \A k \in 1 .. m : f[k] = IF ids[k] \in M THEN Append(f[k - 1], ids[k]) ELSE f[k - 1]

LEMMA ScansExist ==
    ASSUME NEW ids \in Seq(Nat), NEW M, NEW m \in 0 .. Len(ids)
    PROVE  \E f \in [Nat -> Seq(Nat)] : Scans(ids, M, m, f)
<1> DEFINE T == {k \in 0 .. Len(ids) : \A f \in [Nat -> Seq(Nat)] : ~ Scans(ids, M, k, f)}
<1>1. SUFFICES ASSUME T # {} PROVE FALSE
  OBVIOUS
<1>2. T \subseteq Nat
  OBVIOUS
<1>3. PICK n \in T : \A k \in T : n <= k
  <2> HIDE DEF T
  <2> QED BY <1>1, <1>2, LeastNumber
<1>4. n # 0
  <2> DEFINE e == [k \in Nat |-> <<>>]
  <2>1. e \in [Nat -> Seq(Nat)] /\ e[0] = <<>>
    OBVIOUS
  <2> HIDE DEF e
  <2>2. Scans(ids, M, 0, e)
    BY <2>1 DEF Scans
  <2> QED BY <2>1, <2>2
<1>5. n \in Nat /\ n - 1 \in 0 .. Len(ids) /\ n \in 1 .. Len(ids) /\ n - 1 \in Nat /\ ~(n <= n - 1)
  BY <1>4
<1>6. PICK f \in [Nat -> Seq(Nat)] : Scans(ids, M, n - 1, f)
  BY <1>3, <1>5
<1> DEFINE x == IF ids[n] \in M THEN Append(f[n - 1], ids[n]) ELSE f[n - 1]
           g == [f EXCEPT ![n] = x]
<1>7. g \in [Nat -> Seq(Nat)]
  <2> HIDE DEF T
  <2>1. f[n - 1] \in Seq(Nat)
    BY <1>5
  <2>3. ids[n] \in Nat
    BY <1>5, ElementOfSeq
  <2>2. x \in Seq(Nat)
    BY <2>1, <2>3
  <2> QED BY <2>2
<1>8. Scans(ids, M, n, g)
  <2>1. g[0] = <<>>
    BY <1>5, <1>6 DEF Scans
  <2>2. ASSUME NEW k \in 1 .. n PROVE g[k] = IF ids[k] \in M THEN Append(g[k - 1], ids[k]) ELSE g[k - 1]
    <3>1. g[k - 1] = f[k - 1]
      BY <1>5
    <3>2. CASE k = n
      BY <1>5, <3>1, <3>2
    <3>3. CASE k # n
      <4>1. k \in 1 .. n - 1 /\ k \in Nat
        BY <1>5, <3>3
      <4>2. g[k] = f[k]
        BY <3>3, <4>1
      <4> QED BY <1>6, <3>1, <4>1, <4>2 DEF Scans
    <3> QED BY <3>2, <3>3
  <2> QED BY <2>1, <2>2 DEF Scans
<1> QED BY <1>7, <1>8

LEMMA ScanIs ==
    ASSUME NEW ids \in Seq(Nat), NEW M
    PROVE  \E h : Scans(ids, M, Len(ids), h) /\ Scan(ids, M) = h[Len(ids)]
<1> DEFINE n == Len(ids)
           Next1(h, k) == IF ids[k] \in M THEN Append(h[k - 1], ids[k]) ELSE h[k - 1]
           IsFound(h) == h = [i \in 0 .. n |->
                                IF i = 0 THEN <<>>
                                ELSE IF ids[i] \in M THEN Append(h[i - 1], ids[i]) ELSE h[i - 1]]
           h == CHOOSE x : IsFound(x)
<1>1. n \in Nat /\ n \in 0 .. Len(ids)
  OBVIOUS
<1>2. PICK f \in [Nat -> Seq(Nat)] : Scans(ids, M, n, f)
  BY <1>1, ScansExist
<1> DEFINE r == [i \in 0 .. n |-> f[i]]
<1>3. IsFound(r)
  <2> SUFFICES ASSUME NEW i \in 0 .. n
               PROVE f[i] = IF i = 0 THEN <<>> ELSE IF ids[i] \in M THEN Append(r[i - 1], ids[i]) ELSE r[i - 1]
    OBVIOUS
  <2>1. i # 0 => i \in 1 .. n /\ r[i - 1] = f[i - 1]
    BY <1>1
  <2> QED BY <1>2, <2>1 DEF Scans
<1>4. IsFound(h)
  BY <1>3
<1>5. Scans(ids, M, n, h)
  <2> HIDE DEF h, n
  <2> SUFFICES ASSUME NEW i \in 0 .. n
               PROVE h[i] = IF i = 0 THEN <<>> ELSE IF ids[i] \in M THEN Append(h[i - 1], ids[i]) ELSE h[i - 1]
    <3>1. \A k \in 1 .. n : k \in 0 .. n /\ k # 0
      OBVIOUS
    <3>2. 0 \in 0 .. n
      BY <1>1
    <3> QED BY <3>1, <3>2 DEF Scans
  <2> QED BY <1>4
<1>6. Scan(ids, M) = h[n]
  BY DEF Scan
<1> QED BY <1>5, <1>6

\* s is those of the first k ids that are in M, in their order; e says where each lies.
Embeds(ids, M, k, s, e) ==
    /\ s \in Seq(Nat) /\ Len(s) <= k
    /\ \A i \in 1 .. Len(s) : e[i] \in 1 .. k /\ s[i] = ids[e[i]] /\ s[i] \in M
    /\ \A i, j \in 1 .. Len(s) : i < j => e[i] < e[j]
    /\ \A j \in 1 .. k : ids[j] \in M => \E i \in 1 .. Len(s) : e[i] = j

LEMMA EmbedsOne ==
    ASSUME NEW ids \in Seq(Nat), NEW M, NEW k \in 1 .. Len(ids), NEW s, NEW e, Embeds(ids, M, k - 1, s, e)
    PROVE  \E d : Embeds(ids, M, k, IF ids[k] \in M THEN Append(s, ids[k]) ELSE s, d)
<1>1. s \in Seq(Nat) /\ Len(s) \in Nat /\ Len(s) <= k - 1 /\ k \in Nat /\ k - 1 \in Nat /\ ids[k] \in Nat
  BY DEF Embeds
<1>2. CASE ids[k] \notin M
  <2>1. \A j \in 1 .. k : j \in 1 .. k - 1 \/ j = k
    BY <1>1
  <2>2. \A j \in 1 .. k - 1 : j \in 1 .. k
    BY <1>1
  <2>3. Embeds(ids, M, k, s, e)
    BY <1>1, <1>2, <2>1, <2>2, SMTT(30) DEF Embeds
  <2> QED BY <1>2, <2>3
<1>3. CASE ids[k] \in M
  <2> DEFINE n == Len(s)
             t == Append(s, ids[k])
             d == [i \in 1 .. n + 1 |-> IF i = n + 1 THEN k ELSE e[i]]
  <2>1. t \in Seq(Nat) /\ Len(t) = n + 1 /\ t[n + 1] = ids[k] /\ \A i \in 1 .. n : t[i] = s[i]
    BY <1>1
  <2>2. \A i \in 1 .. n + 1 : i = n + 1 \/ i \in 1 .. n
    BY <1>1
  <2>3. d[n + 1] = k /\ \A i \in 1 .. n : d[i] = e[i]
    BY <1>1
  <2> HIDE DEF t, d
  <2>4. \A i \in 1 .. n + 1 : d[i] \in 1 .. k /\ t[i] = ids[d[i]] /\ t[i] \in M
    <3>1. \A i \in 1 .. n : e[i] \in 1 .. k - 1 /\ s[i] = ids[e[i]] /\ s[i] \in M
      BY DEF Embeds
    <3>2. \A j \in 1 .. k - 1 : j \in 1 .. k
      BY <1>1
    <3>3. \A i \in 1 .. n : d[i] \in 1 .. k /\ t[i] = ids[d[i]] /\ t[i] \in M
      BY <2>1, <2>3, <3>1, <3>2
    <3>4. d[n + 1] \in 1 .. k /\ t[n + 1] = ids[d[n + 1]] /\ t[n + 1] \in M
      BY <1>1, <1>3, <2>1, <2>3
    <3> QED BY <2>2, <3>3, <3>4
  <2>5. \A i, j \in 1 .. n + 1 : i < j => d[i] < d[j]
    <3> SUFFICES ASSUME NEW i \in 1 .. n + 1, NEW j \in 1 .. n + 1, i < j PROVE d[i] < d[j]
      OBVIOUS
    <3>1. i \in 1 .. n /\ e[i] \in 1 .. k - 1
      BY <1>1, SMTT(30) DEF Embeds
    <3>2. CASE j = n + 1
      BY <1>1, <2>3, <3>1, <3>2, SMTT(30)
    <3>3. CASE j # n + 1
      BY <2>2, <2>3, <3>1, <3>3 DEF Embeds
    <3> QED BY <3>2, <3>3
  <2>6. ASSUME NEW j \in 1 .. k, ids[j] \in M PROVE \E i \in 1 .. n + 1 : d[i] = j
    <3>1. CASE j = k
      <4>1. n + 1 \in 1 .. n + 1
        BY <1>1
      <4> QED BY <2>3, <3>1, <4>1
    <3>2. CASE j # k
      <4>1. j \in 1 .. k - 1
        BY <1>1, <3>2
      <4>2. PICK i \in 1 .. n : e[i] = j
        BY <2>6, <4>1 DEF Embeds
      <4>3. i \in 1 .. n + 1
        BY <1>1
      <4> QED BY <2>3, <4>2, <4>3
    <3> QED BY <3>1, <3>2
  <2>7. Embeds(ids, M, k, t, d)
    BY <1>1, <2>1, <2>4, <2>5, <2>6 DEF Embeds
  <2> QED BY <1>3, <2>7 DEF t
<1> QED BY <1>2, <1>3

\* What the loop finds are the ids that match, once each, in the order of the scan.
LEMMA ScanEmbeds ==
    ASSUME NEW ids \in Seq(Nat), NEW M
    PROVE  \E e : Embeds(ids, M, Len(ids), Scan(ids, M), e)
<1> DEFINE n == Len(ids)
<1>1. PICK h : Scans(ids, M, n, h) /\ Scan(ids, M) = h[n]
  BY ScanIs
<1> DEFINE T == {k \in 0 .. n : \A e : ~ Embeds(ids, M, k, h[k], e)}
<1>2. SUFFICES ASSUME T # {} PROVE FALSE
  <2>1. n \in 0 .. n /\ n \notin T
    <3>1. n \in 0 .. n
      OBVIOUS
    <3> QED BY <1>2, <3>1, Zenon
  <2> QED BY <1>1, <2>1
<1>3. T \subseteq Nat
  OBVIOUS
<1>4. PICK k \in T : \A i \in T : k <= i
  <2> HIDE DEF T
  <2> QED BY <1>2, <1>3, LeastNumber
<1>5. k # 0
  <2>1. h[0] = <<>> /\ <<>> \in Seq(Nat) /\ Len(<<>>) = 0
    BY <1>1 DEF Scans
  <2>2. Embeds(ids, M, 0, h[0], <<>>)
    BY <2>1 DEF Embeds
  <2> QED BY <2>2
<1>6. k \in 1 .. n /\ k - 1 \in 0 .. n /\ ~(k <= k - 1)
  BY <1>5
<1>7. PICK e : Embeds(ids, M, k - 1, h[k - 1], e)
  BY <1>4, <1>6
<1>8. h[k] = IF ids[k] \in M THEN Append(h[k - 1], ids[k]) ELSE h[k - 1]
  BY <1>1, <1>6 DEF Scans
<1>9. \E d : Embeds(ids, M, k, h[k], d)
  BY <1>6, <1>7, <1>8, EmbedsOne
<1> QED BY <1>9

\* s is the numbers of S, once each, in ascending order.
Enum(s, S) ==
    /\ s \in Seq(Nat)
    /\ \A i \in 1 .. Len(s) : s[i] \in S
    /\ \A i, j \in 1 .. Len(s) : i < j => s[i] < s[j]
    /\ \A x \in S : \E i \in 1 .. Len(s) : s[i] = x

\* If all numbers of A come before the others of B, the first are listed first.
LEMMA EnumBegins ==
    ASSUME NEW A, NEW B, NEW s, NEW t, Enum(s, A), Enum(t, B), A \subseteq B,
           \A x \in B \ A : \A a \in A : a < x
    PROVE  Len(s) <= Len(t) /\ \A i \in 1 .. Len(s) : s[i] = t[i]
<1> DEFINE T == {i \in 1 .. Len(s) : ~(i <= Len(t) /\ s[i] = t[i])}
<1>1. s \in Seq(Nat) /\ t \in Seq(Nat) /\ Len(s) \in Nat /\ Len(t) \in Nat
  BY DEF Enum
<1>2. SUFFICES ASSUME T # {} PROVE FALSE
  <2>1. \A i \in 1 .. Len(s) : i <= Len(t) /\ s[i] = t[i]
    BY <1>2
  <2>2. Len(s) # 0 => Len(s) \in 1 .. Len(s)
    BY <1>1
  <2>3. Len(s) <= Len(t)
    BY <1>1, <2>1, <2>2
  <2> QED BY <2>1, <2>3
<1>3. T \subseteq Nat
  OBVIOUS
<1>4. PICK i \in T : \A k \in T : i <= k
  <2> HIDE DEF T
  <2> QED BY <1>2, <1>3, LeastNumber
<1>5. i \in 1 .. Len(s) /\ ~(i <= Len(t) /\ s[i] = t[i]) /\ i \in Nat /\ s[i] \in Nat
  BY <1>1
<1>6. ASSUME NEW k \in 1 .. Len(s), k < i PROVE k \in 1 .. Len(t) /\ s[k] = t[k] /\ s[k] < s[i]
  <2>1. k \notin T
    BY <1>4, <1>5, <1>6
  <2>2. s[k] < s[i]
    BY <1>5, <1>6 DEF Enum
  <2> QED BY <1>1, <1>6, <2>1, <2>2
<1> HIDE DEF T
<1>7. s[i] \in A /\ s[i] \in B
  BY <1>5 DEF Enum
<1>8. PICK j \in 1 .. Len(t) : t[j] = s[i]
  BY <1>7 DEF Enum
<1>9. i <= j
  <2> SUFFICES ASSUME j < i PROVE FALSE
    BY <1>5
  <2>1. j \in 1 .. Len(s)
    BY <1>1, <1>5
  <2> QED BY <1>5, <1>6, <1>8, <2>1
<1>10. i \in 1 .. Len(t) /\ t[i] \in B /\ t[i] \in Nat /\ j # i
  <2>1. i \in 1 .. Len(t)
    BY <1>1, <1>5, <1>9
  <2>2. t[i] \in B
    BY <2>1 DEF Enum
  <2>3. t[i] \in Nat
    BY <1>1, <2>1, ElementOfSeq
  <2> QED BY <1>5, <1>8, <2>1, <2>2, <2>3
<1>11. t[i] < s[i]
  BY <1>5, <1>8, <1>9, <1>10 DEF Enum
<1>12. t[i] \in A
  BY <1>5, <1>7, <1>10, <1>11
<1>13. PICK k \in 1 .. Len(s) : s[k] = t[i]
  BY <1>12 DEF Enum
<1>14. k < i
  <2>1. ~(i < k)
    <3>1. i < k => s[i] < s[k]
      BY <1>5 DEF Enum
    <3>2. ~(s[i] < t[i])
      BY <1>5, <1>10, <1>11
    <3> QED BY <1>13, <3>1, <3>2
  <2>2. i # k
    BY <1>5, <1>10, <1>11, <1>13
  <2> QED BY <1>1, <1>5, <2>1, <2>2
<1>15. t[k] = t[i] /\ k \in 1 .. Len(t)
  BY <1>6, <1>13, <1>14
<1>16. t[k] < t[i]
  BY <1>10, <1>14, <1>15 DEF Enum
<1> QED BY <1>10, <1>15, <1>16

LEMMA EnumUnique ==
    ASSUME NEW S, NEW s, NEW t, Enum(s, S), Enum(t, S)
    PROVE  s = t
<1>1. s \in Seq(Nat) /\ t \in Seq(Nat)
  BY DEF Enum
<1>2. Len(s) <= Len(t) /\ Len(t) <= Len(s) /\ \A i \in 1 .. Len(s) : s[i] = t[i]
  BY EnumBegins
<1>3. Len(s) = Len(t)
  BY <1>1, <1>2
<1> QED BY <1>1, <1>2, <1>3, SeqEqual

LEMMA EnumCounts ==
    ASSUME NEW S, NEW s, Enum(s, S)
    PROVE  /\ IsFiniteSet(S) /\ Cardinality(S) = Len(s) /\ s \in [1 .. Len(s) -> S]
<1>1. s \in Seq(Nat) /\ Len(s) \in Nat /\ DOMAIN s = 1 .. Len(s)
  BY DEF Enum
<1>2. s \in [1 .. Len(s) -> S]
  BY <1>1 DEF Enum
<1>3. ASSUME NEW i \in 1 .. Len(s), NEW j \in 1 .. Len(s), s[i] = s[j] PROVE i = j
  <2>1. s[i] \in Nat /\ (i < j \/ j < i \/ i = j)
    BY <1>1, ElementOfSeq
  <2> QED BY <1>1, <1>3, <2>1 DEF Enum
<1>4. \A x \in S : \E i \in 1 .. Len(s) : s[i] = x
  BY DEF Enum
<1>5. s \in Bijection(1 .. Len(s), S)
  BY <1>2, <1>3, <1>4 DEF Bijection, Injection, Surjection, IsInjective
<1>6. ExistsBijection(1 .. Len(s), S)
  BY <1>5 DEF ExistsBijection
<1>7. IsFiniteSet(1 .. Len(s)) /\ Cardinality(1 .. Len(s)) = Len(s)
  <2>1. 1 \in Int /\ Len(s) \in Int /\ (IF 1 > Len(s) THEN 0 ELSE Len(s) - 1 + 1) = Len(s)
    BY <1>1
  <2> QED BY <2>1, FS_Interval
<1> QED BY <1>2, <1>6, <1>7, FS_Bijection

\* ORDER BY gives the numbers of S in ascending order, if that can be done at all.
LEMMA SortedIs ==
    ASSUME NEW S, NEW s, Enum(s, S)
    PROVE  Sorted(S) = s
<1> DEFINE n == Cardinality(S)
           Ranks(t) == \A i, j \in 1 .. n : i < j => t[i] < t[j]
           t == CHOOSE x \in [1 .. n -> S] : Ranks(x)
<1>1. IsFiniteSet(S) /\ n = Len(s) /\ n \in Nat /\ s \in [1 .. n -> S] /\ Ranks(s)
  <2>1. IsFiniteSet(S) /\ n = Len(s) /\ s \in [1 .. Len(s) -> S]
    BY EnumCounts
  <2>2. s \in Seq(Nat) /\ \A i, j \in 1 .. Len(s) : i < j => s[i] < s[j]
    BY DEF Enum
  <2>3. Len(s) \in Nat
    BY <2>2
  <2> HIDE DEF n
  <2> QED BY <2>1, <2>2, <2>3
<1>2. t \in [1 .. n -> S] /\ Ranks(t)
  <2> HIDE DEF n
  <2> QED BY <1>1
<1>3. Sorted(S) = t
  BY DEF Sorted
<1> HIDE DEF t
<1>4. \A x \in S : x \in Nat
  <2> SUFFICES ASSUME NEW x \in S PROVE x \in Nat
    OBVIOUS
  <2>1. PICK i \in 1 .. Len(s) : s[i] = x
    BY DEF Enum
  <2>2. s[i] \in Nat
    BY <2>1, ElementOfSeq DEF Enum
  <2> QED BY <2>1, <2>2
<1>5. t \in Seq(Nat) /\ Len(t) = n
  <2>1. t \in [1 .. n -> Nat]
    BY <1>2, <1>4
  <2> HIDE DEF n
  <2> QED BY <1>1, <2>1
<1>6. ASSUME NEW x \in S PROVE \E i \in 1 .. n : t[i] = x
  <2> SUFFICES ASSUME \A i \in 1 .. n : t[i] # x PROVE FALSE
    OBVIOUS
  <2>1. t \in [1 .. n -> S \ {x}]
    BY <1>2
  <2>2. IsFiniteSet(S \ {x}) /\ Cardinality(S \ {x}) = n - 1
    BY <1>1, FS_RemoveElement
  <2>3. IsFiniteSet(1 .. n) /\ Cardinality(1 .. n) = n
    <3>1. 1 \in Int /\ n \in Int /\ (IF 1 > n THEN 0 ELSE n - 1 + 1) = n
      BY <1>1
    <3> QED BY <3>1, FS_Interval
  <2>4. Cardinality(S \ {x}) < Cardinality(1 .. n)
    BY <1>1, <2>2, <2>3
  <2>5. PICK i, j \in 1 .. n : i # j /\ t[i] = t[j]
    <3> HIDE DEF n
    <3> DEFINE D == 1 .. n
               C == S \ {x}
    <3>1. IsFiniteSet(D) /\ IsFiniteSet(C) /\ Cardinality(C) < Cardinality(D) /\ t \in [D -> C]
      BY <2>1, <2>2, <2>3, <2>4
    <3> HIDE DEF D, C
    <3>2. \E i, j \in D : i # j /\ t[i] = t[j]
      BY <3>1, FS_PigeonHole
    <3> QED BY <3>2 DEF D
  <2>6. i < j \/ j < i
    BY <1>1, <2>5
  <2>7. t[i] \in Nat /\ t[j] \in Nat
    BY <1>5, ElementOfSeq
  <2> QED BY <1>2, <2>5, <2>6, <2>7
<1>7. Enum(t, S)
  BY <1>2, <1>5, <1>6 DEF Enum
<1> QED BY <1>3, <1>7, EnumUnique

\* A scan of ids that ascend finds those of M in ascending order.
LEMMA ScanForward ==
    ASSUME NEW ids, NEW R, NEW M, Enum(ids, R)
    PROVE  Enum(Scan(ids, M), R \cap M) /\ Len(Scan(ids, M)) <= Len(ids)
<1> DEFINE s == Scan(ids, M)
<1>1. ids \in Seq(Nat)
  BY DEF Enum
<1>2. PICK e : Embeds(ids, M, Len(ids), s, e)
  BY <1>1, ScanEmbeds
<1> HIDE DEF s
<1>3. s \in Seq(Nat) /\ Len(s) <= Len(ids)
  BY <1>2 DEF Embeds
<1>4. \A i \in 1 .. Len(s) : s[i] \in R \cap M
  BY <1>2 DEF Embeds, Enum
<1>5. ASSUME NEW i \in 1 .. Len(s), NEW j \in 1 .. Len(s), i < j PROVE s[i] < s[j]
  <2>1. e[i] < e[j] /\ e[i] \in 1 .. Len(ids) /\ e[j] \in 1 .. Len(ids) /\ s[i] = ids[e[i]] /\ s[j] = ids[e[j]]
    BY <1>2, <1>5 DEF Embeds
  <2> QED BY <2>1 DEF Enum
<1>6. ASSUME NEW x \in R \cap M PROVE \E i \in 1 .. Len(s) : s[i] = x
  <2>1. PICK j \in 1 .. Len(ids) : ids[j] = x
    BY DEF Enum
  <2>2. PICK i \in 1 .. Len(s) : e[i] = j
    BY <1>2, <2>1 DEF Embeds
  <2> QED BY <1>2, <2>1, <2>2 DEF Embeds
<1> QED BY <1>3, <1>4, <1>5, <1>6 DEF Enum, s

LEMMA Reversed ==
    ASSUME NEW s \in Seq(Nat)
    PROVE  /\ Reverse(s) \in Seq(Nat) /\ Len(Reverse(s)) = Len(s)
           /\ \A i \in 1 .. Len(s) : Len(s) - i + 1 \in 1 .. Len(s) /\ Reverse(s)[i] = s[Len(s) - i + 1]
           /\ Reverse(Reverse(s)) = s
<1> DEFINE n == Len(s)
           r == Reverse(s)
<1>1. n \in Nat /\ r = [i \in 1 .. n |-> s[(n - i) + 1]]
  BY DEF Reverse
<1>2. \A i \in 1 .. n : n - i + 1 \in 1 .. n /\ n - (n - i + 1) + 1 = i
  BY <1>1
<1>3. \A i \in 1 .. n : s[n - i + 1] \in Nat
  BY <1>2, ElementOfSeq
<1> HIDE DEF r
<1>4. r \in Seq(Nat) /\ Len(r) = n /\ \A i \in 1 .. n : r[i] = s[n - i + 1]
  BY <1>1, <1>3
<1>5. Reverse(r) = [i \in 1 .. n |-> r[(n - i) + 1]]
  BY <1>4 DEF Reverse
<1>6. Reverse(r) \in Seq(Nat) /\ Len(Reverse(r)) = n /\ \A i \in 1 .. n : Reverse(r)[i] = s[i]
  <2>1. \A i \in 1 .. n : r[n - i + 1] = s[i]
    BY <1>2, <1>4
  <2>2. \A i \in 1 .. n : s[i] \in Nat
    BY ElementOfSeq
  <2> DEFINE q == Reverse(r)
  <2>3. q = [i \in 1 .. n |-> r[(n - i) + 1]]
    BY <1>5
  <2> HIDE DEF q, n
  <2>4. q = [i \in 1 .. n |-> s[i]]
    BY <2>1, <2>3
  <2>5. q \in Seq(Nat) /\ Len(q) = n /\ \A i \in 1 .. n : q[i] = s[i]
    BY <1>1, <2>2, <2>4
  <2> QED BY <2>5 DEF q
<1>7. Reverse(r) = s
  BY <1>6, SeqEqual
<1> QED BY <1>2, <1>4, <1>7 DEF r

\* A scan from the last of them to the first finds those of M in descending order.
LEMMA ScanBackward ==
    ASSUME NEW ids, NEW R, NEW M, Enum(ids, R)
    PROVE  /\ Scan(Reverse(ids), M) \in Seq(Nat)
           /\ Enum(Reverse(Scan(Reverse(ids), M)), R \cap M)
<1> DEFINE b == Reverse(ids)
           s == Scan(b, M)
           t == Reverse(s)
           n == Len(ids)
           k == Len(s)
<1>1. /\ ids \in Seq(Nat) /\ n \in Nat /\ b \in Seq(Nat) /\ Len(b) = n
      /\ \A i \in 1 .. n : n - i + 1 \in 1 .. n /\ b[i] = ids[n - i + 1]
  BY Reversed DEF Enum
<1> HIDE DEF b
<1>2. PICK e : Embeds(b, M, n, s, e)
  BY <1>1, ScanEmbeds
<1> HIDE DEF s
<1>3. /\ s \in Seq(Nat) /\ k \in Nat /\ t \in Seq(Nat) /\ Len(t) = k
      /\ \A i \in 1 .. k : k - i + 1 \in 1 .. k /\ t[i] = s[k - i + 1]
  BY <1>2, Reversed DEF Embeds
<1> HIDE DEF t
<1>4. \A i \in 1 .. k : e[i] \in 1 .. n /\ s[i] = b[e[i]] /\ s[i] \in M
  BY <1>2 DEF Embeds
<1>5. \A i, j \in 1 .. k : i < j => s[j] < s[i]
  <2> SUFFICES ASSUME NEW i \in 1 .. k, NEW j \in 1 .. k, i < j PROVE s[j] < s[i]
    OBVIOUS
  <2>1. e[i] < e[j] /\ e[i] \in 1 .. n /\ e[j] \in 1 .. n
    BY <1>2, <1>4 DEF Embeds
  <2>2. /\ n - e[i] + 1 \in 1 .. n /\ b[e[i]] = ids[n - e[i] + 1]
        /\ n - e[j] + 1 \in 1 .. n /\ b[e[j]] = ids[n - e[j] + 1]
    <3> HIDE DEF n
    <3> QED BY <1>1, <2>1
  <2>3. n - e[j] + 1 < n - e[i] + 1
    <3>1. e[i] \in Nat /\ e[j] \in Nat
      BY <2>1
    <3>2. n \in Nat
      BY <1>1
    <3> HIDE DEF n
    <3> QED BY <2>1, <3>1, <3>2
  <2>4. ids[n - e[j] + 1] < ids[n - e[i] + 1]
    BY <2>2, <2>3 DEF Enum
  <2> QED BY <1>4, <2>2, <2>4
<1>6. \A i \in 1 .. k : t[i] \in R \cap M
  <2>1. ASSUME NEW i \in 1 .. k PROVE s[i] \in R
    <3>1. n - e[i] + 1 \in 1 .. n /\ s[i] = ids[n - e[i] + 1]
      BY <1>1, <1>4
    <3> QED BY <3>1 DEF Enum
  <2> QED BY <1>3, <1>4, <2>1
<1>7. \A i, j \in 1 .. k : i < j => t[i] < t[j]
  <2> SUFFICES ASSUME NEW i \in 1 .. k, NEW j \in 1 .. k, i < j PROVE t[i] < t[j]
    OBVIOUS
  <2>1. k - j + 1 < k - i + 1
    BY <1>3
  <2>2. k - i + 1 \in 1 .. k /\ t[i] = s[k - i + 1] /\ k - j + 1 \in 1 .. k /\ t[j] = s[k - j + 1]
    BY <1>3
  <2> QED BY <1>5, <2>1, <2>2
<1>8. ASSUME NEW x \in R \cap M PROVE \E i \in 1 .. k : t[i] = x
  <2>1. PICK j \in 1 .. n : ids[j] = x
    BY DEF Enum
  <2>2. n - j + 1 \in 1 .. n /\ n - (n - j + 1) + 1 = j
    BY <1>1
  <2>3. b[n - j + 1] = x
    BY <1>1, <2>1, <2>2
  <2>4. PICK i \in 1 .. k : e[i] = n - j + 1
    BY <1>2, <2>2, <2>3 DEF Embeds
  <2>5. k - i + 1 \in 1 .. k /\ k - (k - i + 1) + 1 = i
    BY <1>3
  <2>6. t[k - i + 1] = s[i]
    BY <1>3, <2>5
  <2>7. s[i] = x
    BY <1>4, <2>3, <2>4
  <2> QED BY <2>5, <2>6, <2>7
<1> QED BY <1>3, <1>6, <1>7, <1>8 DEF Enum, s, t, b

LEMMA AscendingEnum ==
    ASSUME NEW n \in Nat
    PROVE  Enum(Ascending(n), 1 .. n) /\ Len(Ascending(n)) = n
<1> DEFINE s == Ascending(n)
<1>1. s = [i \in 1 .. n |-> i]
  BY DEF Ascending
<1> HIDE DEF s
<1>2. s \in Seq(Nat) /\ Len(s) = n /\ \A i \in 1 .. n : s[i] = i
  BY <1>1
<1> QED BY <1>2 DEF Enum, s

-----------------------------------------------------------------------------
(* The listings.                                                           *)

\* The loop lists what the query asks for.
LEMMA PendingAgrees ==
    ASSUME NEW d \in Arrays, NEW u, NEW n
    PROVE  ListPending(d, u, n) = PendingQuery(d, u, n)
<1> DEFINE k == Len(d.deliveries)
           W == Waiting(d, u)
           s == Scan(Ascending(k), W)
<1>1. k \in Nat /\ DOMAIN d.deliveries = 1 .. k
  BY DEF Arrays
<1>2. (1 .. k) \cap W = W
  BY <1>1 DEF Waiting
<1> HIDE DEF k, W
<1>3. Enum(s, W)
  BY <1>1, <1>2, AscendingEnum, ScanForward
<1>4. Sorted(W) = s
  BY <1>3, SortedIs
<1> QED BY <1>4 DEF ListPending, PendingQuery, Waiting, k, W

LEMMA PrivateRows ==
    ASSUME NEW d \in Arrays, NEW a, NEW b
    PROVE  {c \in DOMAIN d.convs : d.convs[c] = Conv(FALSE, {a, b})} = Private(d, a, b)
<1> SUFFICES ASSUME NEW c \in DOMAIN d.convs
             PROVE  d.convs[c] = Conv(FALSE, {a, b}) <=> ~d.convs[c].group /\ d.convs[c].members = {a, b}
  BY DEF Private
<1> DEFINE r == d.convs[c]
<1>1. r \in ConvRow
  BY DEF Arrays
<1> HIDE DEF r
<1>2. r = [group |-> r.group, members |-> r.members] /\ r.group \in BOOLEAN
  BY <1>1 DEF ConvRow
<1>3. ASSUME r = Conv(FALSE, {a, b}) PROVE ~r.group /\ r.members = {a, b}
  BY <1>3 DEF Conv
<1>4. ASSUME ~r.group, r.members = {a, b} PROVE r = Conv(FALSE, {a, b})
  <2>1. r.group = FALSE
    BY <1>2, <1>4, Zenon
  <2> QED BY <1>2, <1>4, <2>1 DEF Conv
<1> QED BY <1>3, <1>4 DEF r

LEMMA HistoryAgrees ==
    ASSUME NEW d \in Arrays, NEW a, NEW b, NEW before, NEW n
    PROVE  ListHistory(d, a, b, before, n) = HistoryQuery(d, a, b, before, n)
<1> DEFINE k == Len(d.messages)
           M == {m \in InPrivate(d, a, b) : before = 0 \/ m < before}
           found == {m \in DOMAIN d.messages :
                        /\ Private(d, a, b) # {}
                        /\ d.messages[m].conv = Least(Private(d, a, b))
                        /\ before = 0 \/ m < before}
           s == Scan(Reverse(Ascending(k)), M)
<1>1. k \in Nat /\ DOMAIN d.messages = 1 .. k
  BY DEF Arrays
<1>2. M = found
  BY PrivateRows DEF InPrivate
<1>3. (1 .. k) \cap M = M
  BY <1>1, <1>2
<1> HIDE DEF k, M, found
<1>4. s \in Seq(Nat) /\ Enum(Reverse(s), M)
  BY <1>1, <1>3, AscendingEnum, ScanBackward
<1>5. Sorted(M) = Reverse(s)
  BY <1>4, SortedIs
<1>6. Reverse(Sorted(found)) = s
  BY <1>2, <1>4, <1>5, Reversed
<1> QED BY <1>6 DEF ListHistory, HistoryQuery, k, M, found

\* The loops of the memory backend list what the SQL of the other one asks for, for
\* every page and any capacities.
THEOREM MemoryListingsAgree == Spec => []ListingsAgree
<1>1. Inv => ListingsAgree
  BY PendingAgrees, HistoryAgrees DEF Inv, ListingsAgree
<1> QED BY <1>1, InvariantHolds, PTL

LEMMA SameOlder ==
    \A d, a, b, before : Promises!Older(d, a, b, before) =
        {m \in DOMAIN d.messages :
            /\ Private(d, a, b) # {}
            /\ d.messages[m].conv = Least(Private(d, a, b))
            /\ before = 0 \/ m < before}
<1>1. \A S : Promises!Least(S) = Least(S)
  BY DEF Promises!Least, Least
<1> QED BY <1>1, SameQueries DEF Promises!Older

LEMMA StepIsPromised ==
    ASSUME Inv, [Next]_vars, db' # db
    PROVE  Promises!Next /\ Promises!Sound(db) /\ db \in Arrays /\ db' \in Arrays
<1>1. Interface!Next
  BY StepHolds DEF vars
<1> QED BY <1>1, StepHolds, SameSteps DEF Inv

SamePages ==
    db' # db =>
       \A a \in Users : \A b \in Users \ {a}, m \in DOMAIN db.messages, n \in 1 .. MaxPage :
          ListHistory(db', a, b, m, n) = ListHistory(db, a, b, m, n)

LEMMA StepKeepsPages == Inv /\ [Next]_vars => [SamePages]_db
<1> SUFFICES ASSUME Inv, [Next]_vars, db' # db, NEW a \in Users, NEW b \in Users \ {a},
                    NEW m \in DOMAIN db.messages, NEW n
             PROVE  ListHistory(db', a, b, m, n) = ListHistory(db, a, b, m, n)
  BY DEF SamePages
<1>1. Promises!Next /\ Promises!Sound(db) /\ db \in Arrays /\ db' \in Arrays
  BY StepIsPromised
<1>2. Promises!Older(db', a, b, m) = Promises!Older(db, a, b, m)
  BY <1>1, TablesAssumption, Promises!OlderStay
<1>3. HistoryQuery(db', a, b, m, n) = HistoryQuery(db, a, b, m, n)
  BY <1>2, SameOlder DEF HistoryQuery
<1> QED BY <1>1, <1>3, HistoryAgrees

\* A page of history that ends before a known message is listed the same for ever:
\* its conversation is the same one, and no call changes or inserts a message before it.
THEOREM MemoryPagesStay == Spec => OldPagesStay
<1>1. Spec => [][SamePages]_db
  BY StepKeepsPages, InvariantHolds, PTL DEF Spec
<1> QED BY <1>1 DEF OldPagesStay, SamePages

\* The first n of the ids that wait, less those marked since, head those that wait now.
LEMMA HeadStays ==
    ASSUME NEW d \in Arrays, NEW e \in Arrays, NEW u, NEW n \in Nat,
           \A k \in Waiting(e, u) : k \in Waiting(d, u) \/ \A i \in DOMAIN d.deliveries : i < k
    PROVE  IsPrefix(Scan(ListPending(d, u, n), Waiting(e, u)), ListPending(e, u, n))
<1> DEFINE A == Waiting(d, u)
           B == Waiting(e, u)
           s == Scan(Ascending(Len(d.deliveries)), A)
           t == Scan(Ascending(Len(e.deliveries)), B)
           p == ListPending(d, u, n)
           l == IF Len(s) < n THEN Len(s) ELSE n
           P == {s[i] : i \in 1 .. l}
           q == Scan(p, B)
           r == ListPending(e, u, n)
<1>1. /\ Len(d.deliveries) \in Nat /\ DOMAIN d.deliveries = 1 .. Len(d.deliveries)
      /\ Len(e.deliveries) \in Nat /\ DOMAIN e.deliveries = 1 .. Len(e.deliveries)
  BY DEF Arrays
<1>2. /\ (1 .. Len(d.deliveries)) \cap A = A /\ A \subseteq DOMAIN d.deliveries
      /\ (1 .. Len(e.deliveries)) \cap B = B
  BY <1>1 DEF Waiting
<1>3. \A k \in B : k \in A \/ \A i \in A : i < k
  BY <1>2
<1> HIDE DEF A, B
<1>4. Enum(s, A) /\ Enum(t, B)
  BY <1>1, <1>2, AscendingEnum, ScanForward
<1>5. p = SubSeq(s, 1, l) /\ r = SubSeq(t, 1, IF Len(t) < n THEN Len(t) ELSE n)
  BY DEF ListPending, Limited, A, B
<1> HIDE DEF s, t, p, r
<1>6. s \in Seq(Nat) /\ t \in Seq(Nat) /\ Len(s) \in Nat /\ Len(t) \in Nat /\ l \in 0 .. Len(s) /\ l <= n
  BY <1>4 DEF Enum
<1> HIDE DEF l
<1>7. p \in Seq(Nat) /\ Len(p) = l /\ \A i \in 1 .. l : p[i] = s[i] /\ i \in 1 .. Len(s)
  BY <1>5, <1>6
<1>8. Enum(p, P)
  <2>1. \A i, j \in 1 .. l : i < j => p[i] < p[j]
    BY <1>4, <1>7 DEF Enum
  <2> QED BY <1>7, <2>1 DEF Enum
<1>9. P \subseteq A /\ \A x \in A \ P : \A y \in P : y < x
  <2>1. P \subseteq A
    BY <1>4, <1>7 DEF Enum
  <2>2. ASSUME NEW x \in A \ P, NEW y \in P PROVE y < x
    <3>1. PICK i \in 1 .. l : y = s[i]
      OBVIOUS
    <3>2. PICK j \in 1 .. Len(s) : x = s[j]
      BY <1>4 DEF Enum
    <3>3. i < j
      BY <1>6, <3>2
    <3> QED BY <1>4, <1>7, <3>1, <3>2, <3>3 DEF Enum
  <2> QED BY <2>1, <2>2
<1> HIDE DEF P
<1>10. Enum(q, P \cap B) /\ Len(q) <= l
  BY <1>7, <1>8, ScanForward
<1> HIDE DEF q
<1>11. Len(q) <= Len(t) /\ \A i \in 1 .. Len(q) : q[i] = t[i]
  <2>1. \A x \in B \ (P \cap B) : \A y \in P \cap B : y < x
    BY <1>3, <1>9
  <2> QED BY <1>4, <1>10, <2>1, EnumBegins
<1>12. q \in Seq(Nat) /\ Len(q) \in Nat /\ Len(q) <= n
  <2>1. q \in Seq(Nat) /\ Len(q) \in Nat
    BY <1>10 DEF Enum
  <2> QED BY <1>6, <1>10, <2>1
<1>13. r \in Seq(Nat) /\ Len(q) <= Len(r) /\ \A i \in 1 .. Len(q) : r[i] = q[i]
  <2> DEFINE h == IF Len(t) < n THEN Len(t) ELSE n
  <2>1. h \in 0 .. Len(t) /\ Len(q) <= h
    BY <1>6, <1>11, <1>12
  <2> HIDE DEF h
  <2>2. r \in Seq(Nat) /\ Len(r) = h /\ \A i \in 1 .. h : r[i] = t[i]
    BY <1>5, <1>6, <2>1 DEF h
  <2>3. \A i \in 1 .. Len(q) : i \in 1 .. h
    BY <1>12, <2>1
  <2> QED BY <1>11, <2>1, <2>2, <2>3
<1>14. SubSeq(q, 1, Len(q)) = SubSeq(r, 1, Len(q))
  <2> DEFINE x == SubSeq(q, 1, Len(q))
             y == SubSeq(r, 1, Len(q))
  <2>1. x \in Seq(Nat) /\ Len(x) = Len(q) /\ \A i \in 1 .. Len(q) : x[i] = q[i]
    BY <1>12
  <2>2. y \in Seq(Nat) /\ Len(y) = Len(q) /\ \A i \in 1 .. Len(q) : y[i] = r[i]
    BY <1>12, <1>13
  <2> HIDE DEF x, y
  <2>3. x = y
    BY <1>13, <2>1, <2>2, SeqEqual
  <2> QED BY <2>3 DEF x, y
<1> QED BY <1>13, <1>14 DEF IsPrefix, q, p, r, B

KeepsOrder ==
    db' # db =>
       \A u \in Users, n \in 1 .. MaxPage :
          IsPrefix(Scan(ListPending(db, u, n), Waiting(db', u)), ListPending(db', u, n))

LEMMA StepKeepsOrder == Inv /\ [Next]_vars => [KeepsOrder]_db
<1> SUFFICES ASSUME Inv, [Next]_vars, db' # db, NEW u \in Users, NEW n \in 1 .. MaxPage
             PROVE  IsPrefix(Scan(ListPending(db, u, n), Waiting(db', u)), ListPending(db', u, n))
  BY DEF KeepsOrder
<1>1. Promises!Next /\ Promises!Sound(db) /\ db \in Arrays /\ db' \in Arrays
  BY StepIsPromised
<1>2. Promises!InboxGoesOn
  BY <1>1, TablesAssumption, Promises!StepDelivers
<1>3. \A d : Promises!Inbox(d, u) = Waiting(d, u)
  BY DEF Promises!Inbox, Waiting
<1>4. \A k \in Waiting(db', u) : k \in Waiting(db, u) \/ \A i \in DOMAIN db.deliveries : i < k
  BY <1>2, <1>3 DEF Promises!InboxGoesOn
<1>5. n \in Nat
  BY CapacityTypes
<1> QED BY <1>1, <1>4, <1>5, HeadStays

\* What heads a user's pending deliveries stays there, in its order, until it is marked,
\* on a page of any length.
THEOREM MemoryInboxKeepsOrder == Spec => InboxKeepsOrder
<1>1. Spec => [][KeepsOrder]_db
  BY StepKeepsOrder, InvariantHolds, PTL DEF Spec
<1> QED BY <1>1 DEF InboxKeepsOrder, KeepsOrder
=============================================================================
