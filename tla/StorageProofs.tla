--------------------------- MODULE StorageProofs ---------------------------
(***************************************************************************)
(* What the promises of lan_chat_storage_c are worth to the server: a      *)
(* backend that keeps them keeps its tables consistent, whatever is called *)
(* and whichever failures the caller sees.                                 *)
(*                                                                         *)
(* Consistent is inductive once the tables are known to be tables (Typed): *)
(* ids are numbers, so the id of a new row is new.  The parts of it are    *)
(* stated without sets of rows, each call disturbs few of them, and a      *)
(* table that only grows keeps what was said of its old rows.              *)
(***************************************************************************)
EXTENDS Storage, FiniteSetTheorems, TLAPS

Rows(t, R) == DOMAIN t \subseteq Nat \ {0} /\ t = [i \in DOMAIN t |-> t[i]] /\ \A i \in DOMAIN t : t[i] \in R

ConvRow == [group : BOOLEAN, members : SUBSET Users]
MessageRow == [conv : Nat, from : Users, to : Users \cup {NoUser}]
DeliveryRow == [message : Nat, to : Users, state : DeliveryStates]
FileRow == [message : Nat, from : Users, to : Users, state : {"started", "completed"}]

Typed(d) ==
    /\ d.accounts \subseteq Users
    /\ Rows(d.convs, ConvRow) /\ Rows(d.messages, MessageRow)
    /\ Rows(d.deliveries, DeliveryRow) /\ Rows(d.files, FileRow)

OnePrivate(d) == \A a, b \in Users : \A x, y \in Private(d, a, b) : x = y

MessageFiled(d, m) ==
    LET msg == d.messages[m]
    IN  IF msg.to = NoUser
        THEN msg.conv \in GroupsOf(d, msg.from) /\ \A k \in DOMAIN d.deliveries : d.deliveries[k].message # m
        ELSE /\ msg.conv \in Private(d, msg.from, msg.to)
             /\ \E k \in DOMAIN d.deliveries :
                   /\ d.deliveries[k].message = m /\ d.deliveries[k].to = msg.to
                   /\ \A j \in DOMAIN d.deliveries : d.deliveries[j].message = m => j = k

MessagesFiled(d) == \A m \in DOMAIN d.messages : MessageFiled(d, m)

DeliveriesKnown(d) == \A k \in DOMAIN d.deliveries : d.deliveries[k].message \in DOMAIN d.messages

FilesKnown(d) ==
    \A f \in DOMAIN d.files :
        /\ d.files[f].message \in DOMAIN d.messages
        /\ d.files[f].from = d.messages[d.files[f].message].from
        /\ d.files[f].to = d.messages[d.files[f].message].to

\* A conversation is of accounts, two at least, and one that is no group of two.
ConvKnown(d, c) ==
    /\ d.convs[c].members \subseteq d.accounts /\ Cardinality(d.convs[c].members) >= 2
    /\ d.convs[c].group \/ \E a, b \in Users : a # b /\ d.convs[c].members = {a, b}

ConvsKnown(d) == \A c \in DOMAIN d.convs : ConvKnown(d, c)

Sound(d) ==
    /\ Typed(d)
    /\ OnePrivate(d) /\ MessagesFiled(d) /\ DeliveriesKnown(d) /\ FilesKnown(d) /\ ConvsKnown(d)

LEMMA SoundIsConsistent ==
    ASSUME NEW d, Sound(d)
    PROVE  Consistent(d)
<1>1. ASSUME NEW a \in Users, NEW b \in Users
      PROVE  Cardinality(Private(d, a, b)) <= 1
  <2>1. CASE Private(d, a, b) = {}
    BY <2>1, FS_EmptySet
  <2>2. CASE Private(d, a, b) # {}
    <3>1. PICK x \in Private(d, a, b) : TRUE
      BY <2>2
    <3>2. Private(d, a, b) = {x}
      BY <3>1 DEF Sound, OnePrivate
    <3>3. Cardinality({x}) = 1
      BY FS_Singleton
    <3> QED BY <3>2, <3>3
  <2> QED BY <2>1, <2>2
<1>2. ASSUME NEW m \in DOMAIN d.messages
      PROVE  LET msg == d.messages[m]
                 deliveries == {k \in DOMAIN d.deliveries : d.deliveries[k].message = m}
             IN  IF msg.to = NoUser
                 THEN msg.conv \in GroupsOf(d, msg.from) /\ deliveries = {}
                 ELSE /\ msg.conv \in Private(d, msg.from, msg.to)
                      /\ \E k \in deliveries : deliveries = {k} /\ d.deliveries[k].to = msg.to
  <2> DEFINE deliveries == {k \in DOMAIN d.deliveries : d.deliveries[k].message = m}
  <2>1. MessageFiled(d, m)
    BY DEF Sound, MessagesFiled
  <2>2. CASE d.messages[m].to = NoUser
    BY <2>1, <2>2 DEF MessageFiled
  <2>3. CASE d.messages[m].to # NoUser
    <3>1. PICK k \in deliveries :
             /\ d.deliveries[k].to = d.messages[m].to
             /\ \A j \in DOMAIN d.deliveries : d.deliveries[j].message = m => j = k
      BY <2>1, <2>3 DEF MessageFiled
    <3>2. deliveries = {k}
      BY <3>1
    <3> QED BY <2>1, <2>3, <3>1, <3>2 DEF MessageFiled
  <2> QED BY <2>2, <2>3
<1> QED BY <1>1, <1>2 DEF Sound, DeliveriesKnown, FilesKnown, ConvsKnown, ConvKnown, Consistent

\* A table with a new row: the row is new, the others are as before.
OneMore(t, u, id, row, R) ==
    /\ Rows(u, R) /\ DOMAIN u = DOMAIN t \cup {id} /\ id \notin DOMAIN t /\ id \in Nat
    /\ u[id] = row /\ \A i \in DOMAIN t : u[i] = t[i]

LEMMA GrownRows ==
    ASSUME NEW t, NEW u, NEW id, NEW row, NEW R, Rows(t, R), row \in R, GrownBy(t, u, id, row)
    PROVE  OneMore(t, u, id, row, R)
<1>1. DOMAIN u = DOMAIN t \cup {id} /\ u = [i \in DOMAIN u |-> u[i]]
  BY DEF GrownBy, With
<1>2. id \in Nat \ {0} /\ id \notin DOMAIN t
  BY DEF GrownBy, Rows
<1>3. u[id] = row /\ \A i \in DOMAIN t : u[i] = t[i]
  BY <1>2 DEF GrownBy, With
<1> QED BY <1>1, <1>2, <1>3 DEF Rows, OneMore

LEMMA TwoMembers ==
    ASSUME NEW a, NEW b, a # b
    PROVE  Cardinality({a, b}) = 2
<1>1. IsFiniteSet({a}) /\ Cardinality({a}) = 1
  BY FS_Singleton
<1>2. Cardinality({a} \cup {b}) = 2
  BY <1>1, FS_AddElement
<1>3. {a} \cup {b} = {a, b}
  OBVIOUS
<1> QED BY <1>2, <1>3
\* What was so of the old rows is so of them in tables that have only grown.
Extends(t, u) == \A i \in DOMAIN t : i \in DOMAIN u /\ u[i] = t[i]

Grown(d, e) ==
    /\ d.accounts \subseteq e.accounts /\ Extends(d.convs, e.convs) /\ Extends(d.messages, e.messages)
    /\ \A k \in DOMAIN d.deliveries :
          /\ k \in DOMAIN e.deliveries
          /\ e.deliveries[k].message = d.deliveries[k].message /\ e.deliveries[k].to = d.deliveries[k].to
    /\ \A f \in DOMAIN d.files :
          /\ f \in DOMAIN e.files /\ e.files[f].message = d.files[f].message
          /\ e.files[f].from = d.files[f].from /\ e.files[f].to = d.files[f].to

\* The new rows of e are as Sound asks.
NewRows(d, e) ==
    /\ \A c \in DOMAIN e.convs \ DOMAIN d.convs : ConvKnown(e, c)
    /\ \A m \in DOMAIN e.messages \ DOMAIN d.messages : MessageFiled(e, m)
    /\ \A k \in DOMAIN e.deliveries \ DOMAIN d.deliveries :
          e.deliveries[k].message \in DOMAIN e.messages \ DOMAIN d.messages
    /\ \A f \in DOMAIN e.files \ DOMAIN d.files :
          /\ e.files[f].message \in DOMAIN e.messages
          /\ e.files[f].from = e.messages[e.files[f].message].from
          /\ e.files[f].to = e.messages[e.files[f].message].to

LEMMA ConvsStay ==
    ASSUME NEW d, NEW e, Extends(d.convs, e.convs)
    PROVE  /\ \A a, b : Private(d, a, b) \subseteq Private(e, a, b)
           /\ \A u : GroupsOf(d, u) \subseteq GroupsOf(e, u)
BY DEF Extends, Private, GroupsOf

LEMMA SoundGrows ==
    ASSUME NEW d, NEW e, Sound(d), Typed(e), Grown(d, e), NewRows(d, e), OnePrivate(e)
    PROVE  Sound(e)
<1>1. MessagesFiled(e)
  <2> SUFFICES ASSUME NEW m \in DOMAIN e.messages PROVE MessageFiled(e, m)
    BY DEF MessagesFiled
  <2>1. CASE m \notin DOMAIN d.messages
    BY <2>1 DEF NewRows
  <2>2. CASE m \in DOMAIN d.messages
    <3>1. MessageFiled(d, m)
      BY <2>2 DEF Sound, MessagesFiled
    <3>2. e.messages[m] = d.messages[m]
      BY <2>2 DEF Grown, Extends
    <3>3. \A k \in DOMAIN e.deliveries : e.deliveries[k].message = m => k \in DOMAIN d.deliveries
      BY <2>2 DEF NewRows
    <3>4. CASE d.messages[m].to = NoUser
      <4>1. d.messages[m].conv \in GroupsOf(e, d.messages[m].from)
        BY <3>1, <3>4, ConvsStay DEF MessageFiled, Grown
      <4>2. \A k \in DOMAIN e.deliveries : e.deliveries[k].message # m
        BY <3>1, <3>3, <3>4 DEF MessageFiled, Grown
      <4> QED BY <3>2, <3>4, <4>1, <4>2 DEF MessageFiled
    <3>5. CASE d.messages[m].to # NoUser
      <4>1. d.messages[m].conv \in Private(e, d.messages[m].from, d.messages[m].to)
        BY <3>1, <3>5, ConvsStay DEF MessageFiled, Grown
      <4>2. PICK k \in DOMAIN d.deliveries :
               /\ d.deliveries[k].message = m /\ d.deliveries[k].to = d.messages[m].to
               /\ \A j \in DOMAIN d.deliveries : d.deliveries[j].message = m => j = k
        BY <3>1, <3>5 DEF MessageFiled
      <4>3. /\ k \in DOMAIN e.deliveries
            /\ e.deliveries[k].message = m /\ e.deliveries[k].to = d.messages[m].to
        BY <4>2 DEF Grown
      <4>4. \A j \in DOMAIN e.deliveries : e.deliveries[j].message = m => j = k
        BY <3>3, <4>2 DEF Grown
      <4> QED BY <3>2, <3>5, <4>1, <4>3, <4>4 DEF MessageFiled
    <3> QED BY <3>4, <3>5
  <2> QED BY <2>1, <2>2
<1>2. DeliveriesKnown(e)
  <2> SUFFICES ASSUME NEW k \in DOMAIN e.deliveries PROVE e.deliveries[k].message \in DOMAIN e.messages
    BY DEF DeliveriesKnown
  <2>1. CASE k \in DOMAIN d.deliveries
    BY <2>1 DEF Sound, DeliveriesKnown, Grown, Extends
  <2>2. CASE k \notin DOMAIN d.deliveries
    BY <2>2 DEF NewRows
  <2> QED BY <2>1, <2>2
<1>3. FilesKnown(e)
  <2> SUFFICES ASSUME NEW f \in DOMAIN e.files
               PROVE  /\ e.files[f].message \in DOMAIN e.messages
                      /\ e.files[f].from = e.messages[e.files[f].message].from
                      /\ e.files[f].to = e.messages[e.files[f].message].to
    BY DEF FilesKnown
  <2>1. CASE f \in DOMAIN d.files
    BY <2>1 DEF Sound, FilesKnown, Grown, Extends
  <2>2. CASE f \notin DOMAIN d.files
    BY <2>2 DEF NewRows
  <2> QED BY <2>1, <2>2
<1>4. ConvsKnown(e)
  <2> SUFFICES ASSUME NEW c \in DOMAIN e.convs PROVE ConvKnown(e, c)
    BY DEF ConvsKnown
  <2>1. CASE c \in DOMAIN d.convs
    BY <2>1 DEF Sound, ConvsKnown, ConvKnown, Grown, Extends
  <2>2. CASE c \notin DOMAIN d.convs
    BY <2>2 DEF NewRows
  <2> QED BY <2>1, <2>2
<1> QED BY <1>1, <1>2, <1>3, <1>4 DEF Sound
LEMMA SameTables ==
    ASSUME NEW d, NEW e, Sound(d), e.convs = d.convs
    PROVE  OnePrivate(e)
BY DEF Sound, OnePrivate, Private

\* A new conversation: of a group, or of two who had none.
LEMMA NewConv ==
    ASSUME NEW d, NEW e, NEW c, NEW group \in BOOLEAN, NEW members \in SUBSET d.accounts, Sound(d),
           GrownBy(d.convs, e.convs, c, Conv(group, members)),
           group \/ \E a, b \in Users : members = {a, b} /\ Private(d, a, b) = {}
    PROVE  OnePrivate(e) /\ Rows(e.convs, ConvRow) /\ Extends(d.convs, e.convs)
<1>1. Conv(group, members) \in ConvRow /\ Rows(d.convs, ConvRow)
  BY DEF Sound, Typed, Conv, ConvRow
<1>2. /\ Rows(e.convs, ConvRow) /\ DOMAIN e.convs = DOMAIN d.convs \cup {c}
      /\ e.convs[c] = Conv(group, members) /\ \A i \in DOMAIN d.convs : e.convs[i] = d.convs[i]
  <2>1. OneMore(d.convs, e.convs, c, Conv(group, members), ConvRow)
    BY <1>1, GrownRows
  <2> QED BY <2>1 DEF OneMore
<1>3. ASSUME NEW a \in Users, NEW b \in Users, NEW x \in Private(e, a, b), NEW y \in Private(e, a, b)
      PROVE  x = y
  <2>1. \A z \in Private(e, a, b) : z # c => z \in Private(d, a, b)
    BY <1>2 DEF Private
  <2>2. c \in Private(e, a, b) => Private(d, a, b) = {}
    <3> SUFFICES ASSUME c \in Private(e, a, b) PROVE Private(d, a, b) = {}
      OBVIOUS
    <3>1. ~group /\ members = {a, b}
      BY <1>2 DEF Private, Conv
    <3>2. PICK i \in Users, j \in Users : members = {i, j} /\ Private(d, i, j) = {}
      BY <3>1
    <3> QED BY <3>1, <3>2 DEF Private
  <2>3. \A u, v \in Private(d, a, b) : u = v
    BY DEF Sound, OnePrivate
  <2> QED BY <2>1, <2>2, <2>3
<1> QED BY <1>2, <1>3 DEF OnePrivate, Extends

\* The three rows of a private message: new ones say of each other what Sound asks.
LEMMA PrivateRows ==
    ASSUME Sound(db), NEW from, NEW to, NEW c, NEW m, PrivateStored(from, to, c, m)
    PROVE  /\ from \in Users /\ to \in Users /\ m \in Nat /\ m \notin DOMAIN db.messages
           /\ db'.accounts = db.accounts /\ OnePrivate(db')
           /\ Rows(db'.convs, ConvRow) /\ Rows(db'.messages, MessageRow) /\ Rows(db'.deliveries, DeliveryRow)
           /\ Extends(db.convs, db'.convs) /\ Extends(db.messages, db'.messages)
           /\ Extends(db.deliveries, db'.deliveries)
           /\ DOMAIN db'.messages = DOMAIN db.messages \cup {m}
           /\ db'.messages[m] = Message(c, from, to) /\ MessageFiled(db', m)
           /\ \A k \in DOMAIN db'.deliveries \ DOMAIN db.deliveries : db'.deliveries[k].message = m
           /\ \A x \in DOMAIN db'.convs \ DOMAIN db.convs : ConvKnown(db', x)
<1>1. /\ from \in db.accounts /\ to \in db.accounts /\ from # to
      /\ from \in Users /\ to \in Users /\ db'.accounts = db.accounts
  BY DEF PrivateStored, Keeps, Sound, Typed
<1>2. /\ OnePrivate(db') /\ Rows(db'.convs, ConvRow) /\ Extends(db.convs, db'.convs)
      /\ c \in Private(db', from, to) /\ c \in Nat
      /\ \A x \in DOMAIN db'.convs \ DOMAIN db.convs : db'.convs[x].members = {from, to}
  <2>1. CASE c \in Private(db, from, to) /\ Keeps({"convs"})
    <3>1. db'.convs = db.convs
      BY <2>1 DEF Keeps
    <3> QED BY <2>1, <3>1, SameTables DEF Sound, Typed, Rows, Extends, Private
  <2>2. CASE Private(db, from, to) = {} /\ GrownBy(db.convs, db'.convs, c, Conv(FALSE, {from, to}))
    <3>1. {from, to} \in SUBSET db.accounts
      BY <1>1
    <3>2. OnePrivate(db') /\ Rows(db'.convs, ConvRow) /\ Extends(db.convs, db'.convs)
      BY <1>1, <2>2, <3>1, NewConv
    <3>3. Conv(FALSE, {from, to}) \in ConvRow /\ Rows(db.convs, ConvRow)
      BY <1>1, <3>1 DEF Sound, Typed, Conv, ConvRow
    <3>4. /\ DOMAIN db'.convs = DOMAIN db.convs \cup {c} /\ c \in Nat
          /\ db'.convs[c] = Conv(FALSE, {from, to})
      <4>1. OneMore(db.convs, db'.convs, c, Conv(FALSE, {from, to}), ConvRow)
        BY <2>2, <3>3, GrownRows
      <4> QED BY <4>1 DEF OneMore
    <3> QED BY <3>2, <3>4 DEF Private, Conv
  <2> QED BY <2>1, <2>2 DEF PrivateStored
<1>3. \A x \in DOMAIN db'.convs \ DOMAIN db.convs : ConvKnown(db', x)
  <2>1. Cardinality({from, to}) = 2
    BY <1>1, TwoMembers
  <2> SUFFICES ASSUME NEW x \in DOMAIN db'.convs \ DOMAIN db.convs PROVE ConvKnown(db', x)
    OBVIOUS
  <2>2. db'.convs[x].members = {from, to}
    BY <1>2
  <2> QED BY <1>1, <2>1, <2>2 DEF ConvKnown
<1>4. Message(c, from, to) \in MessageRow /\ Rows(db.messages, MessageRow)
  BY <1>1, <1>2 DEF Sound, Typed, Message, MessageRow
<1>5. /\ Rows(db'.messages, MessageRow) /\ DOMAIN db'.messages = DOMAIN db.messages \cup {m}
      /\ m \notin DOMAIN db.messages /\ m \in Nat /\ db'.messages[m] = Message(c, from, to)
      /\ \A i \in DOMAIN db.messages : db'.messages[i] = db.messages[i]
  <2>1. OneMore(db.messages, db'.messages, m, Message(c, from, to), MessageRow)
    <3>1. GrownBy(db.messages, db'.messages, m, Message(c, from, to))
      BY DEF PrivateStored
    <3> QED BY <1>4, <3>1, GrownRows
  <2> QED BY <2>1 DEF OneMore
<1>6. PICK k \in DOMAIN db'.deliveries : GrownBy(db.deliveries, db'.deliveries, k, Delivery(m, to))
  BY DEF PrivateStored
<1>7. Delivery(m, to) \in DeliveryRow /\ Rows(db.deliveries, DeliveryRow)
  BY <1>1, <1>5 DEF Sound, Typed, Delivery, DeliveryRow, DeliveryStates
<1>8. /\ Rows(db'.deliveries, DeliveryRow) /\ DOMAIN db'.deliveries = DOMAIN db.deliveries \cup {k}
      /\ k \notin DOMAIN db.deliveries /\ db'.deliveries[k] = Delivery(m, to)
      /\ \A i \in DOMAIN db.deliveries : db'.deliveries[i] = db.deliveries[i]
  <2>1. OneMore(db.deliveries, db'.deliveries, k, Delivery(m, to), DeliveryRow)
    BY <1>6, <1>7, GrownRows
  <2> QED BY <2>1 DEF OneMore
<1>9. MessageFiled(db', m)
  <2>1. db'.messages[m].to = to /\ db'.messages[m].from = from /\ db'.messages[m].conv = c /\ to # NoUser
    BY <1>1, <1>5, TablesAssumption DEF Message
  <2>2. db'.deliveries[k].message = m /\ db'.deliveries[k].to = to
    BY <1>8 DEF Delivery
  <2>3. \A j \in DOMAIN db'.deliveries : db'.deliveries[j].message = m => j = k
    BY <1>5, <1>8 DEF Sound, DeliveriesKnown
  <2> QED BY <1>2, <2>1, <2>2, <2>3 DEF MessageFiled
<1>10. \A j \in DOMAIN db'.deliveries \ DOMAIN db.deliveries : db'.deliveries[j].message = m
  BY <1>8 DEF Delivery
<1>11. Extends(db.messages, db'.messages) /\ Extends(db.deliveries, db'.deliveries)
  BY <1>5, <1>8 DEF Extends
<1> QED BY <1>1, <1>2, <1>3, <1>5, <1>8, <1>9, <1>10, <1>11

-----------------------------------------------------------------------------
(* Each call keeps the tables sound.                                       *)

LEMMA AccountSound ==
    ASSUME Sound(db), CreateAccount
    PROVE  Sound(db')
<1>1. PICK u \in Users : db'.accounts = db.accounts \cup {u} /\ Keeps({"convs", "messages", "deliveries", "files"})
  BY DEF CreateAccount
<1>2. db'.convs = db.convs /\ db'.messages = db.messages /\ db'.deliveries = db.deliveries /\ db'.files = db.files
  BY <1>1 DEF Keeps
<1>3. Typed(db')
  BY <1>1, <1>2 DEF Sound, Typed
<1>4. Grown(db, db') /\ NewRows(db, db')
  BY <1>1, <1>2 DEF Grown, Extends, NewRows
<1> QED BY <1>2, <1>3, <1>4, SameTables, SoundGrows

LEMMA PrivateSound ==
    ASSUME Sound(db), StorePrivateMessage
    PROVE  Sound(db')
<1>1. PICK from \in Users, to \in Users, c \in DOMAIN db'.convs, m \in DOMAIN db'.messages :
         PrivateStored(from, to, c, m) /\ Keeps({"files"})
  BY DEF StorePrivateMessage
<1>2. db'.files = db.files
  BY <1>1 DEF Keeps
<1>3. Typed(db')
  BY <1>1, <1>2, PrivateRows DEF Sound, Typed
<1>4. Grown(db, db')
  BY <1>1, <1>2, PrivateRows DEF Grown, Extends
<1>5. NewRows(db, db')
  BY <1>1, <1>2, PrivateRows DEF NewRows
<1> QED BY <1>1, <1>3, <1>4, <1>5, PrivateRows, SoundGrows

LEMMA FileSound ==
    ASSUME Sound(db), StoreFileTransfer
    PROVE  Sound(db')
<1>1. PICK from \in Users, to \in Users, c \in DOMAIN db'.convs, m \in DOMAIN db'.messages, f \in DOMAIN db'.files :
         PrivateStored(from, to, c, m) /\ GrownBy(db.files, db'.files, f, File(m, from, to))
  BY DEF StoreFileTransfer
<1>2. m \in Nat /\ File(m, from, to) \in FileRow /\ Rows(db.files, FileRow)
  BY <1>1, PrivateRows DEF Sound, Typed, File, FileRow
<1>3. /\ Rows(db'.files, FileRow) /\ DOMAIN db'.files = DOMAIN db.files \cup {f}
      /\ db'.files[f] = File(m, from, to) /\ \A i \in DOMAIN db.files : db'.files[i] = db.files[i]
  <2>1. OneMore(db.files, db'.files, f, File(m, from, to), FileRow)
    BY <1>1, <1>2, GrownRows
  <2> QED BY <2>1 DEF OneMore
<1>4. Typed(db')
  BY <1>1, <1>3, PrivateRows DEF Sound, Typed
<1>5. Grown(db, db')
  BY <1>1, <1>3, PrivateRows DEF Grown, Extends
<1>6. NewRows(db, db')
  <2>1. db'.messages[m].from = from /\ db'.messages[m].to = to
    <3>1. db'.messages[m] = Message(c, from, to)
      BY <1>1, PrivateRows
    <3> QED BY <3>1 DEF Message
  <2>2. db'.files[f].message = m /\ db'.files[f].from = from /\ db'.files[f].to = to
    BY <1>3 DEF File
  <2> QED BY <1>1, <1>3, <2>1, <2>2, PrivateRows DEF NewRows
<1> QED BY <1>1, <1>4, <1>5, <1>6, PrivateRows, SoundGrows

LEMMA GroupSound ==
    ASSUME Sound(db), CreateGroup
    PROVE  Sound(db')
<1>1. PICK members \in SUBSET db.accounts, c \in DOMAIN db'.convs :
         /\ Cardinality(members) >= 2 /\ GrownBy(db.convs, db'.convs, c, Conv(TRUE, members))
         /\ Keeps({"accounts", "messages", "deliveries", "files"})
  BY DEF CreateGroup
<1>2. db'.accounts = db.accounts /\ db'.messages = db.messages /\ db'.deliveries = db.deliveries /\ db'.files = db.files
  BY <1>1 DEF Keeps
<1>3. OnePrivate(db') /\ Rows(db'.convs, ConvRow) /\ Extends(db.convs, db'.convs)
  BY <1>1, NewConv
<1>4. Conv(TRUE, members) \in ConvRow /\ Rows(db.convs, ConvRow)
  BY <1>1 DEF Sound, Typed, Conv, ConvRow
<1>5. DOMAIN db'.convs = DOMAIN db.convs \cup {c} /\ db'.convs[c] = Conv(TRUE, members)
  <2>1. OneMore(db.convs, db'.convs, c, Conv(TRUE, members), ConvRow)
    BY <1>1, <1>4, GrownRows
  <2> QED BY <2>1 DEF OneMore
<1>6. Typed(db')
  BY <1>2, <1>3 DEF Sound, Typed
<1>7. Grown(db, db')
  BY <1>2, <1>3 DEF Grown, Extends
<1>8. NewRows(db, db')
  BY <1>1, <1>2, <1>5 DEF NewRows, ConvKnown, Conv
<1> QED BY <1>3, <1>6, <1>7, <1>8, SoundGrows

LEMMA GroupMessageSound ==
    ASSUME Sound(db), StoreGroupMessage
    PROVE  Sound(db')
<1>0. PICK from \in Users, m \in DOMAIN db'.messages : \E c \in GroupsOf(db, from) :
         /\ GrownBy(db.messages, db'.messages, m, Message(c, from, NoUser))
         /\ Keeps({"accounts", "convs", "deliveries", "files"})
  BY DEF StoreGroupMessage
<1>1. PICK c \in GroupsOf(db, from) :
         /\ GrownBy(db.messages, db'.messages, m, Message(c, from, NoUser))
         /\ Keeps({"accounts", "convs", "deliveries", "files"})
  BY <1>0
<1>2. db'.accounts = db.accounts /\ db'.convs = db.convs /\ db'.deliveries = db.deliveries /\ db'.files = db.files
  BY <1>1 DEF Keeps
<1>3. Message(c, from, NoUser) \in MessageRow /\ Rows(db.messages, MessageRow)
  BY <1>1 DEF Sound, Typed, Rows, GroupsOf, Message, MessageRow
<1>4. /\ Rows(db'.messages, MessageRow) /\ DOMAIN db'.messages = DOMAIN db.messages \cup {m}
      /\ m \notin DOMAIN db.messages /\ db'.messages[m] = Message(c, from, NoUser)
      /\ \A i \in DOMAIN db.messages : db'.messages[i] = db.messages[i]
  <2>1. OneMore(db.messages, db'.messages, m, Message(c, from, NoUser), MessageRow)
    BY <1>1, <1>3, GrownRows
  <2> QED BY <2>1 DEF OneMore
<1>5. Typed(db')
  BY <1>2, <1>4 DEF Sound, Typed
<1>6. Grown(db, db')
  BY <1>2, <1>4 DEF Grown, Extends
<1>7. MessageFiled(db', m)
  <2>1. db'.messages[m].to = NoUser /\ db'.messages[m].from = from /\ db'.messages[m].conv = c
    BY <1>4 DEF Message
  <2>2. c \in GroupsOf(db', from)
    BY <1>1, <1>2 DEF GroupsOf
  <2>3. \A k \in DOMAIN db'.deliveries : db'.deliveries[k].message # m
    BY <1>2, <1>4 DEF Sound, DeliveriesKnown
  <2> QED BY <2>1, <2>2, <2>3 DEF MessageFiled
<1>8. NewRows(db, db')
  BY <1>2, <1>4, <1>7 DEF NewRows
<1> QED BY <1>2, <1>5, <1>6, <1>8, SameTables, SoundGrows

LEMMA CompleteSound ==
    ASSUME Sound(db), CompleteFileTransfer
    PROVE  Sound(db')
<1>1. PICK f \in DOMAIN db.files :
         /\ db'.files = [db.files EXCEPT ![f].state = "completed"]
         /\ Keeps({"accounts", "convs", "messages", "deliveries"})
  BY DEF CompleteFileTransfer
<1>2. /\ db'.accounts = db.accounts /\ db'.convs = db.convs
      /\ db'.messages = db.messages /\ db'.deliveries = db.deliveries
  BY <1>1 DEF Keeps
<1>3. Rows(db.files, FileRow)
  BY DEF Sound, Typed
<1>4. /\ Rows(db'.files, FileRow) /\ DOMAIN db'.files = DOMAIN db.files
      /\ \A i \in DOMAIN db.files : /\ db'.files[i].message = db.files[i].message
                                     /\ db'.files[i].from = db.files[i].from
                                     /\ db'.files[i].to = db.files[i].to
  BY <1>1, <1>3 DEF Rows, FileRow
<1>5. Typed(db')
  BY <1>2, <1>4 DEF Sound, Typed
<1>6. Grown(db, db') /\ NewRows(db, db')
  BY <1>2, <1>4 DEF Grown, Extends, NewRows
<1> QED BY <1>2, <1>5, <1>6, SameTables, SoundGrows

LEMMA MarkSound ==
    ASSUME Sound(db), MarkDeliveryState
    PROVE  Sound(db')
<1>1. PICK k \in DOMAIN db.deliveries, new \in DeliveryStates :
         /\ db'.deliveries = [db.deliveries EXCEPT ![k].state = new]
         /\ Keeps({"accounts", "convs", "messages", "files"})
  BY DEF MarkDeliveryState
<1>2. db'.accounts = db.accounts /\ db'.convs = db.convs /\ db'.messages = db.messages /\ db'.files = db.files
  BY <1>1 DEF Keeps
<1>3. Rows(db.deliveries, DeliveryRow)
  BY DEF Sound, Typed
<1>4. /\ Rows(db'.deliveries, DeliveryRow) /\ DOMAIN db'.deliveries = DOMAIN db.deliveries
      /\ \A i \in DOMAIN db.deliveries : /\ db'.deliveries[i].message = db.deliveries[i].message
                                          /\ db'.deliveries[i].to = db.deliveries[i].to
  BY <1>1, <1>3 DEF Rows, DeliveryRow
<1>5. Typed(db')
  BY <1>2, <1>4 DEF Sound, Typed
<1>6. Grown(db, db') /\ NewRows(db, db')
  BY <1>2, <1>4 DEF Grown, Extends, NewRows
<1> QED BY <1>2, <1>5, <1>6, SameTables, SoundGrows

Tabular == Sound(db)

LEMMA StepSound == Tabular /\ [Next]_vars => Tabular'
<1> SUFFICES ASSUME Sound(db), [Next]_vars PROVE Sound(db')
  BY DEF Tabular
<1>1. CASE db' = db
  BY <1>1
<1>2. CASE Next
  <2>1. CASE Refuse
    BY <1>1, <2>1 DEF Refuse
  <2> QED BY <1>2, <2>1, AccountSound, PrivateSound, FileSound, GroupSound, GroupMessageSound,
             CompleteSound, MarkSound DEF Next
<1> QED BY <1>1, <1>2 DEF vars

LEMMA InitSound == Init => Tabular
<1> SUFFICES ASSUME Init PROVE Sound(db)
  BY DEF Tabular
<1>1. /\ db.accounts = {} /\ DOMAIN db.convs = {} /\ DOMAIN db.messages = {}
      /\ DOMAIN db.deliveries = {} /\ DOMAIN db.files = {}
      /\ \A t \in {db.convs, db.messages, db.deliveries, db.files} : t = <<>>
  BY DEF Init, EmptyTables, NoRows
<1>2. \A R : Rows(<<>>, R)
  BY DEF Rows
<1>3. Typed(db)
  BY <1>1, <1>2 DEF Typed
<1> QED BY <1>1, <1>3 DEF Sound, OnePrivate, Private, MessagesFiled, DeliveriesKnown, FilesKnown, ConvsKnown

\* A backend that keeps the promises of the storage interface, those that allow a
\* lost answer included, never commits tables the server could not work with.
THEOREM PromisesKeepTables == Spec => []Consistent(db)
<1>1. Tabular => Consistent(db)
  BY SoundIsConsistent DEF Tabular
<1> QED BY <1>1, InitSound, StepSound, PTL DEF Spec

-----------------------------------------------------------------------------
(* Pages of history.                                                       *)

\* No call changes a message or a conversation, and new messages come after old ones.
Appended(t, u) == Extends(t, u) /\ \A i \in DOMAIN u \ DOMAIN t : \A j \in DOMAIN t : j < i

LEMMA GrownIsAppended ==
    ASSUME NEW t, NEW u, NEW id, NEW row, GrownBy(t, u, id, row)
    PROVE  Appended(t, u)
<1>1. DOMAIN u = DOMAIN t \cup {id} /\ \A i \in DOMAIN t : i < id
  BY DEF GrownBy, With
<1>2. \A i \in DOMAIN t : i # id => u[i] = t[i]
  BY DEF GrownBy, With
<1>3. id \in Nat
  BY DEF GrownBy
<1>4. id \notin DOMAIN t
  BY <1>1, <1>3
<1> QED BY <1>1, <1>2, <1>4 DEF Appended, Extends

LEMMA StepAppends ==
    ASSUME Next
    PROVE  Appended(db.messages, db'.messages) /\ Extends(db.convs, db'.convs)
<1>1. /\ \A t : Appended(t, t) /\ Extends(t, t)
      /\ \A t, u : Appended(t, u) => Extends(t, u)
  BY DEF Appended, Extends
<1>2. ASSUME NEW from, NEW to, NEW c, NEW m, PrivateStored(from, to, c, m)
      PROVE  Appended(db.messages, db'.messages) /\ Extends(db.convs, db'.convs)
  <2>1. Appended(db.messages, db'.messages)
    BY <1>2, GrownIsAppended DEF PrivateStored
  <2>2. Extends(db.convs, db'.convs)
    BY <1>1, <1>2, GrownIsAppended DEF PrivateStored, Keeps
  <2> QED BY <2>1, <2>2
<1>3. ASSUME Refuse \/ CreateAccount \/ CompleteFileTransfer \/ MarkDeliveryState
      PROVE  Appended(db.messages, db'.messages) /\ Extends(db.convs, db'.convs)
  <2>1. db'.messages = db.messages /\ db'.convs = db.convs
    BY <1>3 DEF Refuse, CreateAccount, CompleteFileTransfer, MarkDeliveryState, Keeps
  <2> QED BY <1>1, <2>1
<1>4. ASSUME CreateGroup
      PROVE  Appended(db.messages, db'.messages) /\ Extends(db.convs, db'.convs)
  <2>1. db'.messages = db.messages /\ \E c, row : GrownBy(db.convs, db'.convs, c, row)
    BY <1>4 DEF CreateGroup, Keeps
  <2> QED BY <1>1, <2>1, GrownIsAppended
<1>5. ASSUME StoreGroupMessage
      PROVE  Appended(db.messages, db'.messages) /\ Extends(db.convs, db'.convs)
  <2>1. db'.convs = db.convs /\ \E m, row : GrownBy(db.messages, db'.messages, m, row)
    BY <1>5 DEF StoreGroupMessage, Keeps
  <2> QED BY <1>1, <2>1, GrownIsAppended
<1> QED BY <1>2, <1>3, <1>4, <1>5 DEF Next, StorePrivateMessage, StoreFileTransfer

\* What a page of history before a message is cut from.
Older(d, a, b, before) ==
    {m \in DOMAIN d.messages :
        /\ Private(d, a, b) # {}
        /\ d.messages[m].conv = Least(Private(d, a, b))
        /\ before = 0 \/ m < before}

LEMMA LeastOfOne ==
    ASSUME NEW S, NEW c \in S, c \in Nat, \A x \in S : x = c
    PROVE  Least(S) = c
<1>1. \A y \in S : c <= y
  OBVIOUS
<1>2. \E x \in S : \A y \in S : x <= y
  BY <1>1
<1>3. Least(S) \in S
  BY <1>2 DEF Least
<1> QED BY <1>3

LEMMA OlderStay ==
    ASSUME Sound(db), Next, NEW a \in Users, NEW b \in Users, NEW before \in DOMAIN db.messages
    PROVE  Older(db', a, b, before) = Older(db, a, b, before)
<1> DEFINE old == Private(db, a, b)
           new == Private(db', a, b)
<1>1. Appended(db.messages, db'.messages) /\ Extends(db.convs, db'.convs)
  BY StepAppends
<1>2. Sound(db')
  BY StepSound DEF Tabular
<1>3. /\ \A i \in DOMAIN db.messages : i \in Nat \ {0}
      /\ \A i \in DOMAIN db'.messages : i \in Nat \ {0}
      /\ \A c \in old \cup new : c \in Nat
  BY <1>2 DEF Sound, Typed, Rows, Private
<1>4. /\ \A i \in DOMAIN db.messages : i \in DOMAIN db'.messages /\ db'.messages[i] = db.messages[i]
      /\ \A i \in DOMAIN db'.messages : i < before => i \in DOMAIN db.messages
  <2>1. ASSUME NEW i \in DOMAIN db'.messages, i < before PROVE i \in DOMAIN db.messages
    <3>1. ASSUME i \notin DOMAIN db.messages PROVE FALSE
      BY <1>1, <1>3, <2>1, <3>1 DEF Appended
    <3> QED BY <3>1
  <2> QED BY <1>1, <2>1 DEF Appended, Extends
<1>5. /\ \A x, y \in old : x = y
      /\ \A x, y \in new : x = y
      /\ old \subseteq new
  BY <1>1, <1>2, ConvsStay DEF Sound, OnePrivate
<1>6. CASE old # {}
  <2>1. PICK c : c \in old
    BY <1>6
  <2>2. Least(old) = c /\ Least(new) = c /\ new # {}
    BY <1>3, <1>5, <2>1, LeastOfOne
  <2> QED BY <1>3, <1>4, <1>6, <2>2 DEF Older
<1>7. CASE old = {}
  <2>1. Older(db, a, b, before) = {}
    BY <1>7 DEF Older
  <2>2. ASSUME NEW i \in Older(db', a, b, before) PROVE FALSE
    <3>1. i \in DOMAIN db.messages /\ db'.messages[i] = db.messages[i] /\ new # {}
          /\ db.messages[i].conv = Least(new)
      BY <1>3, <1>4, <2>2 DEF Older
    <3>2. db.messages[i].conv \in new
      <4>1. PICK c : c \in new
        BY <3>1
      <4> QED BY <1>3, <1>5, <3>1, <4>1, LeastOfOne
    <3>3. db.messages[i].conv \in DOMAIN db.convs
      <4>1. MessageFiled(db, i)
        BY <3>1 DEF Sound, MessagesFiled
      <4> QED BY <4>1 DEF MessageFiled, GroupsOf, Private
    <3>4. db.messages[i].conv \in old
      BY <1>1, <3>2, <3>3 DEF Private, Extends
    <3> QED BY <1>7, <3>4
  <2> QED BY <2>1, <2>2
<1> QED BY <1>6, <1>7

SamePages ==
    \A a, b \in Users : \A before \in DOMAIN db.messages :
        \A limit : HistoryQuery(db', a, b, before, limit) = HistoryQuery(db, a, b, before, limit)

\* A page of history that ends before a known message never changes, whatever is
\* called: a client that pages backwards while messages arrive sees each message once.
THEOREM PagesStay == Spec => [][SamePages]_vars
<1>1. Tabular /\ [Next]_vars => [SamePages]_vars
  <2> SUFFICES ASSUME Tabular, Next PROVE SamePages
    OBVIOUS
  <2> SUFFICES ASSUME NEW a \in Users, NEW b \in Users, NEW before \in DOMAIN db.messages, NEW limit
               PROVE  HistoryQuery(db', a, b, before, limit) = HistoryQuery(db, a, b, before, limit)
    BY DEF SamePages
  <2>1. Older(db', a, b, before) = Older(db, a, b, before)
    BY OlderStay DEF Tabular
  <2> QED BY <2>1 DEF HistoryQuery, Older
<1> QED BY <1>1, InitSound, StepSound, PTL DEF Spec

-----------------------------------------------------------------------------
(* Inboxes.                                                                *)

Inbox(d, u) == {k \in DOMAIN d.deliveries : d.deliveries[k].to = u /\ d.deliveries[k].state = "pending"}

\* What waits for a user has waited before, or comes after every delivery there was.
InboxGoesOn ==
    \A u : \A k \in Inbox(db', u) : k \in Inbox(db, u) \/ \A i \in DOMAIN db.deliveries : i < k

LEMMA InboxAppends ==
    ASSUME Appended(db.deliveries, db'.deliveries)
    PROVE  InboxGoesOn
<1> SUFFICES ASSUME NEW u, NEW k \in Inbox(db', u), k \in DOMAIN db.deliveries PROVE k \in Inbox(db, u)
  BY DEF InboxGoesOn, Inbox, Appended
<1> QED BY DEF Inbox, Appended, Extends

LEMMA StepDelivers ==
    ASSUME Sound(db), Next
    PROVE  InboxGoesOn
<1>1. ASSUME db'.deliveries = db.deliveries PROVE InboxGoesOn
  BY <1>1, InboxAppends DEF Appended, Extends
<1>2. ASSUME NEW from, NEW to, NEW c, NEW m, PrivateStored(from, to, c, m) PROVE InboxGoesOn
  BY <1>2, GrownIsAppended, InboxAppends DEF PrivateStored
<1>3. ASSUME Refuse \/ CreateAccount \/ CreateGroup \/ StoreGroupMessage \/ CompleteFileTransfer
      PROVE  InboxGoesOn
  BY <1>1, <1>3 DEF Refuse, CreateAccount, CreateGroup, StoreGroupMessage, CompleteFileTransfer, Keeps
<1>4. ASSUME MarkDeliveryState PROVE InboxGoesOn
  <2>1. PICK k \in DOMAIN db.deliveries, new \in DeliveryStates :
           /\ MayFollow(db.deliveries[k].state, new)
           /\ db'.deliveries = [db.deliveries EXCEPT ![k].state = new]
    BY <1>4 DEF MarkDeliveryState
  <2>2. Rows(db.deliveries, DeliveryRow)
    BY DEF Sound, Typed
  <2>3. /\ DOMAIN db'.deliveries = DOMAIN db.deliveries
        /\ \A i \in DOMAIN db.deliveries :
              /\ db'.deliveries[i].to = db.deliveries[i].to
              /\ db'.deliveries[i].state = IF i = k THEN new ELSE db.deliveries[i].state
    BY <2>1, <2>2 DEF Rows, DeliveryRow
  <2>4. new = "pending" => db.deliveries[k].state = "pending"
    BY <2>1 DEF MayFollow
  <2> QED BY <2>3, <2>4 DEF InboxGoesOn, Inbox
<1> QED BY <1>2, <1>3, <1>4 DEF Next, StorePrivateMessage, StoreFileTransfer

\* No call puts back what a receiver has marked, or a new message in front of one that
\* waits: a receiver that works through its pending deliveries leaves none behind.
THEOREM InboxesGoOn == Spec => [][InboxGoesOn]_vars
<1>1. Tabular /\ [Next]_vars => [InboxGoesOn]_vars
  BY StepDelivers DEF Tabular
<1> QED BY <1>1, InitSound, StepSound, PTL DEF Spec
=============================================================================
