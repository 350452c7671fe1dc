--------------------------- MODULE MemoryStorage ---------------------------
(***************************************************************************)
(* The memory backend (storage_memory.c): every table is an array with a   *)
(* fixed capacity and a count, rows are only appended, and a row's id is   *)
(* its place in the array counted from 1.  One action per call of the      *)
(* vtable that writes; the two listings are operators.                     *)
(***************************************************************************)
EXTENDS Tables

CONSTANTS MaxAccounts, MaxConversations, MaxMessages, MaxDeliveries,
          MaxMembers, MaxFiles,     \* capacities of the arrays
          MaxGroupMembers,          \* LAN_CHAT_MAX_GROUP_MEMBERS
          MaxPage                   \* bound: rows a caller asks of a listing

ASSUME MemoryAssumption ==
    {MaxAccounts, MaxConversations, MaxMessages, MaxDeliveries,
     MaxMembers, MaxFiles, MaxGroupMembers, MaxPage} \subseteq Nat

VARIABLES db,       \* the tables
          answer    \* what the last call returned

vars == <<db, answer>>

\* What a caller of lan_chat_storage_c may rely on.
Interface == INSTANCE Storage WITH Doubtful <- FALSE

Ok(id) == Interface!Ok(id)
Failed == Interface!Failed

\* A call whose checks all pass stores `tables` and answers `id`; any other
\* returns before it has written anything.
Returns(passes, id, tables) ==
    \/ passes /\ db' = tables /\ answer' = Ok(id)
    \/ ~passes /\ answer' = Failed /\ UNCHANGED db

NextId(table) == Len(table) + 1

-----------------------------------------------------------------------------
(* Calls that write.                                                       *)

CreateAccount ==
    \E u \in Users :
        Returns(u \notin db.accounts /\ Cardinality(db.accounts) < MaxAccounts,
                u, [db EXCEPT !.accounts = @ \cup {u}])

\* The conversation a message names, or, named 0, the one of its two ends, for
\* which there must be a row left if it is new.
ConversationFound(from, to, named) ==
    IF named = 0
    THEN Private(db, from, to) # {} \/ Len(db.convs) < MaxConversations
    ELSE named \in Private(db, from, to)

\* Mutant of MayStore: the check for a free conversation row is forgotten.
MayStoreUnchecked(from, to, named) ==
    /\ from # to /\ {from, to} \subseteq db.accounts
    /\ Len(db.messages) < MaxMessages /\ Len(db.deliveries) < MaxDeliveries
    /\ named = 0 \/ named \in Private(db, from, to)

MayStore(from, to, named) ==
    /\ from # to /\ {from, to} \subseteq db.accounts
    /\ Len(db.messages) < MaxMessages /\ Len(db.deliveries) < MaxDeliveries
    /\ ConversationFound(from, to, named)

\* Mutant of WithConversation: the pair is looked up in the order given, not sorted.
WithConversationAsGiven(from, to) ==
    IF \E c \in Private(db, from, to) :
          \E m \in DOMAIN db.messages : db.messages[m].conv = c /\ db.messages[m].from = from
    THEN db.convs
    ELSE Append(db.convs, Conv(FALSE, {from, to}))

WithConversation(from, to) ==
    IF Private(db, from, to) # {} THEN db.convs
    ELSE Append(db.convs, Conv(FALSE, {from, to}))

\* Both rows of a private message, in the tables that have its conversation.
WithMessage(from, to, named) ==
    LET found == {c \in DOMAIN WithConversation(from, to) :
                     WithConversation(from, to)[c] = Conv(FALSE, {from, to})}
    IN  [db EXCEPT
           !.convs = WithConversation(from, to),
           !.messages = Append(@, Message(IF named = 0 THEN Least(found) ELSE named, from, to)),
           !.deliveries = Append(@, Delivery(NextId(db.messages), to))]

NamedConversations == {0} \cup DOMAIN db.convs

StorePrivateMessage ==
    \E from, to \in Users, named \in NamedConversations :
        Returns(MayStore(from, to, named), NextId(db.messages), WithMessage(from, to, named))

\* Mutant of StoreFileTransfer: the room for the file row is looked for once the message is stored.
StoreFileTransferLate ==
    \E from, to \in Users, named \in NamedConversations :
        IF Len(db.files) < MaxFiles \/ ~MayStore(from, to, named)
        THEN Returns(MayStore(from, to, named), NextId(db.files),
                     [WithMessage(from, to, named) EXCEPT
                         !.files = Append(@, File(NextId(db.messages), from, to))])
        ELSE db' = WithMessage(from, to, named) /\ answer' = Failed

\* The room for the file row is checked before the message is stored: what is
\* stored is never taken back.
StoreFileTransfer ==
    \E from, to \in Users, named \in NamedConversations :
        Returns(Len(db.files) < MaxFiles /\ MayStore(from, to, named),
                NextId(db.files),
                [WithMessage(from, to, named) EXCEPT
                    !.files = Append(@, File(NextId(db.messages), from, to))])

\* The array of members: a row for each member of each group.
MemberRows(d) ==
    {row \in (DOMAIN d.convs) \X Users : d.convs[row[1]].group /\ row[2] \in d.convs[row[1]].members}

MembersStored == Cardinality(MemberRows(db))

\* The creator is a member whether or not the list names it; repeated names count once.
CreateGroup ==
    \E creator \in Users, named \in SUBSET Users \ {{}} :
        LET members == named \cup {creator}
        IN  Returns(/\ members \subseteq db.accounts
                    /\ Cardinality(members) \in 2 .. MaxGroupMembers
                    /\ Len(db.convs) < MaxConversations
                    /\ MembersStored + Cardinality(members) <= MaxMembers,
                    NextId(db.convs),
                    [db EXCEPT !.convs = Append(@, Conv(TRUE, members))])

StoreGroupMessage ==
    \E from \in Users, c \in DOMAIN db.convs :
        Returns(c \in GroupsOf(db, from) /\ Len(db.messages) < MaxMessages,
                NextId(db.messages),
                [db EXCEPT !.messages = Append(@, Message(c, from, NoUser))])

CompleteFileTransfer ==
    \E f \in 1 .. MaxFiles :
        Returns(f \in DOMAIN db.files, f,
                [db EXCEPT !.files[f].state = "completed"])

MarkDeliveryState ==
    \E k \in 1 .. MaxDeliveries, new \in DeliveryStates :
        Returns(k \in DOMAIN db.deliveries /\ MayFollow(db.deliveries[k].state, new), k,
                [db EXCEPT !.deliveries[k].state = new])

-----------------------------------------------------------------------------
(* The listings: one loop counts the rows that match, up to the limit, and *)
(* a second one copies that many, in the same order.                       *)

\* The ids, in the order of the scan, whose rows match: those among M.
Scan(ids, M) ==
    LET found[i \in 0 .. Len(ids)] ==
            IF i = 0 THEN <<>>
            ELSE IF ids[i] \in M THEN Append(found[i - 1], ids[i]) ELSE found[i - 1]
    IN  found[Len(ids)]

Ascending(n) == [i \in 1 .. n |-> i]

\* The messages of a private conversation.
InPrivate(d, a, b) ==
    LET convs == {c \in DOMAIN d.convs : d.convs[c] = Conv(FALSE, {a, b})}
    IN  {m \in DOMAIN d.messages : convs # {} /\ d.messages[m].conv = Least(convs)}

Waiting(d, u) == {k \in DOMAIN d.deliveries : d.deliveries[k].to = u /\ d.deliveries[k].state = "pending"}

\* Mutant of ListHistory: the loop that copies has lost the test of the one that counts.
ListHistoryUnbounded(d, a, b, before, limit) ==
    LET count == Cardinality({m \in InPrivate(d, a, b) : before = 0 \/ m < before})
    IN  Limited(Limited(Scan(Reverse(Ascending(Len(d.messages))), InPrivate(d, a, b)), limit), count)

\* From the last message to the first.
ListHistory(d, a, b, before, limit) ==
    LET older == {m \in InPrivate(d, a, b) : before = 0 \/ m < before}
    IN  Limited(Scan(Reverse(Ascending(Len(d.messages))), older), limit)

\* Mutant of ListPending: it scans like the history does.
ListPendingBackward(d, u, limit) == Limited(Scan(Reverse(Ascending(Len(d.deliveries))), Waiting(d, u)), limit)

\* From the first delivery to the last.
ListPending(d, u, limit) == Limited(Scan(Ascending(Len(d.deliveries)), Waiting(d, u)), limit)

-----------------------------------------------------------------------------

Init == db = EmptyTables /\ answer = Interface!NoAnswer

Next ==
    \/ CreateAccount
    \/ StorePrivateMessage
    \/ StoreFileTransfer
    \/ CreateGroup
    \/ StoreGroupMessage
    \/ CompleteFileTransfer
    \/ MarkDeliveryState

Spec == Init /\ [][Next]_vars

-----------------------------------------------------------------------------
(* Properties.                                                             *)

\* No array is written past its end, whatever calls are made in which order; a
\* group's rows all fit or none is written.
TypeOK ==
    /\ db.accounts \subseteq Users /\ Cardinality(db.accounts) <= MaxAccounts
    /\ db.convs \in Seq([group : BOOLEAN, members : SUBSET Users])
    /\ db.messages \in Seq([conv : DOMAIN db.convs, from : Users, to : Users \cup {NoUser}])
    /\ db.deliveries \in Seq([message : DOMAIN db.messages, to : Users, state : DeliveryStates])
    /\ db.files \in Seq([message : DOMAIN db.messages, from : Users, to : Users,
                         state : {"started", "completed"}])
    /\ Len(db.convs) <= MaxConversations /\ Len(db.messages) <= MaxMessages
    /\ Len(db.deliveries) <= MaxDeliveries /\ Len(db.files) <= MaxFiles
    /\ MembersStored <= MaxMembers

\* Messages, deliveries, file rows and conversations refer to each other as the
\* server takes for granted: one conversation per pair, one delivery per private
\* message, no row about a message that was refused.
TablesConsistent == Consistent(db)

\* Every call is all or nothing: also one that fails for want of room half way
\* through its tables (store_file_transfer is two calls in one).
IsStorage == Interface!Spec

\* A page of history that ends before a known message reads the same after every
\* later call: a client that pages backwards while messages arrive, naming the last
\* id it has, sees each message once.
OldPagesStay ==
    [][db' # db =>
       \A a \in Users : \A b \in Users \ {a}, m \in DOMAIN db.messages, n \in 1 .. MaxPage :
          ListHistory(db', a, b, m, n) = ListHistory(db, a, b, m, n)]_db

\* What heads a user's list of pending deliveries stays there, in its order, until
\* it is marked: later messages never push an older one out of the page a receiver
\* works through.
InboxKeepsOrder ==
    [][db' # db =>
       \A u \in Users, n \in 1 .. MaxPage :
          IsPrefix(Scan(ListPending(db, u, n), Waiting(db', u)), ListPending(db', u, n))]_db

\* The loops over the arrays answer what the SQL of the other backend asks for, for
\* every page and every limit: tests run against memory speak for MySQL.
ListingsAgree ==
    \A a \in Users, n \in 0 .. MaxPage :
        /\ ListPending(db, a, n) = PendingQuery(db, a, n)
        /\ \A b \in Users \ {a}, before \in 0 .. MaxMessages + 1 :
              ListHistory(db, a, b, before, n) = HistoryQuery(db, a, b, before, n)
=============================================================================
