------------------------------ MODULE Storage -------------------------------
(***************************************************************************)
(* What lan_chat_storage_c promises its caller, whichever backend stands   *)
(* behind it: a call either takes effect as a whole and says so, with the  *)
(* new row's id, or fails and leaves the tables alone.  With Doubtful, a   *)
(* failure, or a caller that died waiting, may hide an effect: what a      *)
(* backend can promise whose commit may be done and its answer lost.       *)
(***************************************************************************)
EXTENDS Tables

CONSTANT Doubtful

VARIABLES db,       \* the tables
          answer    \* what the last call returned

vars == <<db, answer>>

NoAnswer == [status |-> "none", id |-> 0]
Failed == [status |-> "failed", id |-> 0]
Ok(id) == [status |-> "ok", id |-> id]

\* The answer to a call that took effect.
Answers(id) == answer' = Ok(id) \/ (Doubtful /\ answer' \in {Failed, answer})

Keeps(tables) == \A t \in tables : db'[t] = db[t]

Refuse == answer' = Failed /\ UNCHANGED db

CreateAccount ==
    \E u \in Users \ db.accounts :
        /\ db'.accounts = db.accounts \cup {u}
        /\ Keeps({"convs", "messages", "deliveries", "files"})
        /\ Answers(u)

\* A message between two users: conversation (found or new), message and delivery.
PrivateStored(from, to, c, m) ==
    /\ {from, to} \subseteq db.accounts /\ from # to
    /\ \/ c \in Private(db, from, to) /\ Keeps({"convs"})
       \/ Private(db, from, to) = {} /\ GrownBy(db.convs, db'.convs, c, Conv(FALSE, {from, to}))
    /\ GrownBy(db.messages, db'.messages, m, Message(c, from, to))
    /\ \E k \in DOMAIN db'.deliveries : GrownBy(db.deliveries, db'.deliveries, k, Delivery(m, to))
    /\ Keeps({"accounts"})

StorePrivateMessage ==
    \E from, to \in Users, c \in DOMAIN db'.convs, m \in DOMAIN db'.messages :
        Answers(m) /\ PrivateStored(from, to, c, m) /\ Keeps({"files"})

\* The same with the file row.
StoreFileTransfer ==
    \E from, to \in Users, c \in DOMAIN db'.convs, m \in DOMAIN db'.messages, f \in DOMAIN db'.files :
        /\ Answers(f)
        /\ PrivateStored(from, to, c, m)
        /\ GrownBy(db.files, db'.files, f, File(m, from, to))

CreateGroup ==
    \E members \in SUBSET db.accounts, c \in DOMAIN db'.convs :
        /\ Cardinality(members) >= 2
        /\ GrownBy(db.convs, db'.convs, c, Conv(TRUE, members))
        /\ Keeps({"accounts", "messages", "deliveries", "files"})
        /\ Answers(c)

StoreGroupMessage ==
    \E from \in Users, m \in DOMAIN db'.messages : \E c \in GroupsOf(db, from) :
        /\ GrownBy(db.messages, db'.messages, m, Message(c, from, NoUser))
        /\ Keeps({"accounts", "convs", "deliveries", "files"})
        /\ Answers(m)

CompleteFileTransfer ==
    \E f \in DOMAIN db.files :
        /\ db'.files = [db.files EXCEPT ![f].state = "completed"]
        /\ Keeps({"accounts", "convs", "messages", "deliveries"})
        /\ Answers(f)

\* The state of a delivery only goes forward.
MarkDeliveryState ==
    \E k \in DOMAIN db.deliveries, new \in DeliveryStates :
        /\ MayFollow(db.deliveries[k].state, new)
        /\ db'.deliveries = [db.deliveries EXCEPT ![k].state = new]
        /\ Keeps({"accounts", "convs", "messages", "files"})
        /\ Answers(k)

Init == db = EmptyTables /\ answer = NoAnswer

Next ==
    \/ Refuse
    \/ CreateAccount
    \/ StorePrivateMessage
    \/ StoreFileTransfer
    \/ CreateGroup
    \/ StoreGroupMessage
    \/ CompleteFileTransfer
    \/ MarkDeliveryState

Spec == Init /\ [][Next]_vars
=============================================================================
