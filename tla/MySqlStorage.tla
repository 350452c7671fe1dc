---------------------------- MODULE MySqlStorage ----------------------------
(***************************************************************************)
(* The MySQL backend (storage_mysql.c), statement by statement.  A call    *)
(* runs a short program of SQL statements over one connection, some of it  *)
(* inside a transaction; any statement may fail, the connection may be     *)
(* lost under it, and the server process may die between two of them.      *)
(* Ids come from AUTO_INCREMENT counters, which a rollback does not set    *)
(* back.  The connection is never reopened: after a loss every statement   *)
(* fails until the server is restarted.                                    *)
(***************************************************************************)
EXTENDS Tables

CONSTANTS Named,      \* conversation_id of a message: 0, or a conversation it names
          MaxList,    \* bound: length of a group's member list
          MaxRows     \* bound: no call that may need more ids of a table than this

IdTables == {"convs", "messages", "deliveries", "files"}

ASSUME MySqlAssumption == 0 \in Named /\ Named \subseteq Nat /\ MaxList \in Nat
                            /\ MaxRows \in [IdTables -> Nat]

VARIABLES data,     \* the committed tables
          work,     \* the tables as the connection sees them
          inTx,     \* a transaction is open
          next,     \* the AUTO_INCREMENT counters
          link,     \* the connection: up or lost
          call,     \* the call's arguments and the ids it has found so far
          todo,     \* the statements it still has to execute
          answer    \* what the last call returned

vars == <<data, work, inTx, next, link, call, todo, answer>>

\* What a caller may rely on, when the answer to a commit can be lost.
Interface == INSTANCE Storage WITH db <- data, Doubtful <- TRUE

-----------------------------------------------------------------------------
(* Calls and their programs.  A statement names what it does, and the user *)
(* it is about when that is not the call's sender or receiver.             *)

Sql(name) == [name |-> name, user |-> NoUser]
SqlFor(name, u) == [name |-> name, user |-> u]
SqlForEach(name, users) == [i \in DOMAIN users |-> SqlFor(name, users[i])]

\* out is the id the call answers.
Call(from, to, group, conv, out) ==
    [from |-> from, to |-> to, group |-> group, conv |-> conv, message |-> 0,
     state |-> "pending", out |-> out]
NoCall == Call(NoUser, NoUser, FALSE, 0, 0)

\* The members as the loop collects them, each where it is first named.
Unique(creator, list) ==
    LET named == <<creator>> \o list
    IN  {s \in SetToSeqs(ToSet(named)) :
            \A i, j \in DOMAIN s : i < j =>
               \E k \in DOMAIN named : named[k] = s[i] /\ s[j] \notin ToSet(SubSeq(named, 1, k))}

Locate(named) == IF named = 0 THEN <<Sql("find")>> ELSE <<Sql("check members")>>

\* Mutant of PrivateProgram: no transaction.
PrivateProgramBare(from, to, named) ==
    <<SqlFor("check user", from), SqlFor("check user", to)>>
    \o Locate(named) \o <<Sql("message"), Sql("delivery")>>

PrivateProgram(from, to, named) ==
    <<SqlFor("check user", from), SqlFor("check user", to), Sql("begin")>>
    \o Locate(named) \o <<Sql("message"), Sql("delivery"), Sql("commit")>>

\* Mutant of FileProgram: the file row is written after the commit.
FileProgramInTwo(named) ==
    <<Sql("begin")>> \o Locate(named)
    \o <<Sql("message"), Sql("delivery"), Sql("commit"), Sql("file")>>

\* The two ends are not checked: the foreign keys do that.
FileProgram(named) ==
    <<Sql("begin")>> \o Locate(named)
    \o <<Sql("message"), Sql("delivery"), Sql("file"), Sql("commit")>>

GroupProgram(creator, list, members) ==
    SqlForEach("check user", <<creator>> \o list) \o <<Sql("begin"), Sql("conversation")>>
    \o SqlForEach("member", members) \o <<Sql("commit")>>

Idle == todo = <<>>

\* The table whose counter a statement draws from.
Draws(sql) ==
    CASE sql.name \in {"conversation", "find"} -> {"convs"}
      [] sql.name = "message"  -> {"messages"}
      [] sql.name = "delivery" -> {"deliveries"}
      [] sql.name = "file"     -> {"files"}
      [] OTHER                 -> {}

Starts(request, program) ==
    /\ Idle /\ \A i \in DOMAIN program : \A t \in Draws(program[i]) : next[t] <= MaxRows[t]
    /\ call' = request /\ todo' = program
    /\ UNCHANGED <<data, work, inTx, next, link, answer>>

CreateAccount == \E u \in Users : Starts(Call(u, NoUser, FALSE, 0, u), <<Sql("account")>>)

StorePrivateMessage ==
    \E from \in Users, named \in Named : \E to \in Users \ {from} :
        Starts(Call(from, to, FALSE, named, 0), PrivateProgram(from, to, named))

StoreFileTransfer ==
    \E from \in Users, named \in Named : \E to \in Users \ {from} :
        Starts(Call(from, to, FALSE, named, 0), FileProgram(named))

CreateGroup ==
    \E creator \in Users, n \in 1 .. MaxList : \E list \in [1 .. n -> Users] :
        \E members \in Unique(creator, list) :
            /\ Len(members) >= 2
            /\ Starts(Call(creator, NoUser, TRUE, 0, 0), GroupProgram(creator, list, members))

StoreGroupMessage ==
    \E from \in Users, c \in DOMAIN data.convs :
        Starts(Call(from, NoUser, TRUE, c, 0), <<Sql("check group"), Sql("message")>>)

CompleteFileTransfer ==
    \E f \in DOMAIN data.files :
        Starts(Call(NoUser, NoUser, FALSE, 0, f), <<Sql("complete")>>)

MarkDeliveryState ==
    \E k \in DOMAIN data.deliveries, new \in DeliveryStates :
        Starts([Call(NoUser, NoUser, FALSE, 0, k) EXCEPT !.state = new],
               <<Sql("read state"), Sql("mark")>>)

-----------------------------------------------------------------------------
(* Statements.                                                             *)

NextIs(names) == ~Idle /\ Head(todo).name \in names

\* The call goes on with `rest`; when nothing is left it returns OK.
GoesOn(request, rest) ==
    /\ todo' = rest
    /\ call' = IF rest = <<>> THEN NoCall ELSE request
    /\ answer' = IF rest = <<>> THEN Interface!Ok(request.out) ELSE answer
    /\ UNCHANGED link

\* Mutant of Ends: the transaction is left open.
EndsOpen(ended) ==
    todo' = <<>> /\ call' = NoCall /\ data' = ended /\ UNCHANGED <<inTx, work>>

\* The call ends before its work is done; what its transaction wrote is undone.  (The
\* result of ROLLBACK is ignored, storage_mysql.c:148: one that fails while the
\* connection goes on is not modelled.)
Ends(ended) ==
    /\ todo' = <<>> /\ call' = NoCall /\ inTx' = FALSE /\ work' = ended /\ data' = ended

GiveUp == Ends(data) /\ answer' = Interface!Failed /\ UNCHANGED <<next, link>>

Begin ==
    /\ NextIs({"begin"}) /\ link = "up"
    /\ inTx' = TRUE /\ GoesOn(call, Tail(todo)) /\ UNCHANGED <<data, work, next>>

Commit ==
    /\ NextIs({"commit"}) /\ link = "up"
    /\ data' = work /\ inTx' = FALSE /\ GoesOn(call, Tail(todo)) /\ UNCHANGED <<work, next>>

\* What the checking SELECTs ask.  The count of active members takes no account of
\* the conversation's type.
Passes(sql) ==
    CASE sql.name = "check user" -> sql.user \in work.accounts
      [] sql.name = "check members" ->
            /\ call.conv \in DOMAIN work.convs
            /\ Cardinality(work.convs[call.conv].members \cap {call.from, call.to}) = 2
      [] sql.name = "check group" -> call.conv \in GroupsOf(work, call.from)

Check ==
    /\ NextIs({"check user", "check members", "check group"}) /\ link = "up"
    /\ \/ Passes(Head(todo)) /\ GoesOn(call, Tail(todo)) /\ UNCHANGED <<data, work, inTx, next>>
       \/ ~Passes(Head(todo)) /\ GiveUp

\* Found, the conversation is used; otherwise it and its two members are inserted.
FindConversation ==
    LET found == {c \in DOMAIN work.convs :
                     ~work.convs[c].group /\ {call.from, call.to} \subseteq work.convs[c].members}
    IN  /\ NextIs({"find"}) /\ link = "up"
        /\ \/ found # {} /\ GoesOn([call EXCEPT !.conv = Least(found)], Tail(todo))
           \/ /\ found = {}
              /\ GoesOn(call, <<Sql("conversation")>>
                              \o SqlForEach("member", <<call.from, call.to>>) \o Tail(todo))
        /\ UNCHANGED <<data, work, inTx, next>>

\* Already there, there is nothing to update; a step back is refused.
ReadState ==
    LET old == work.deliveries[call.out].state
    IN  /\ NextIs({"read state"}) /\ link = "up"
        /\ \/ /\ MayFollow(old, call.state)
              /\ GoesOn(call, IF old = call.state THEN <<>> ELSE Tail(todo))
              /\ UNCHANGED <<data, work, inTx, next>>
           \/ ~MayFollow(old, call.state) /\ GiveUp

\* The constraints of the tables a statement writes.
Allowed(sql) ==
    CASE sql.name = "account" -> call.from \notin work.accounts
      [] sql.name = "member"  -> sql.user \in work.accounts
      [] sql.name = "message" -> {call.from, call.to} \subseteq work.accounts \cup {NoUser}
      [] OTHER                -> TRUE

Drawn(sql) == [t \in IdTables |-> IF t \in Draws(sql) THEN next[t] + 1 ELSE next[t]]

\* The tables after a statement that writes.
Written(sql) ==
    CASE sql.name = "account" -> [work EXCEPT !.accounts = @ \cup {call.from}]
      [] sql.name = "conversation" ->
            [work EXCEPT !.convs = With(@, next.convs, Conv(call.group, {}))]
      [] sql.name = "member" -> [work EXCEPT !.convs[call.conv].members = @ \cup {sql.user}]
      [] sql.name = "message" ->
            [work EXCEPT !.messages = With(@, next.messages, Message(call.conv, call.from, call.to))]
      [] sql.name = "delivery" ->
            [work EXCEPT !.deliveries = With(@, next.deliveries, Delivery(call.message, call.to))]
      [] sql.name = "file" ->
            [work EXCEPT !.files = With(@, next.files, File(call.message, call.from, call.to))]
      [] sql.name = "complete" -> [work EXCEPT !.files[call.out].state = "completed"]
      [] sql.name = "mark" -> [work EXCEPT !.deliveries[call.out].state = call.state]

\* mysql_insert_id, kept where the call needs it.
Noted(sql) ==
    CASE sql.name = "conversation" -> [call EXCEPT !.conv = next.convs, !.out = next.convs]
      [] sql.name = "message"      -> [call EXCEPT !.message = next.messages, !.out = next.messages]
      [] sql.name = "file"         -> [call EXCEPT !.out = next.files]
      [] OTHER                     -> call

Writes == {"account", "conversation", "member", "message", "delivery", "file", "complete", "mark"}

\* Outside a transaction a statement commits by itself.
Write ==
    LET sql == Head(todo)
    IN  /\ NextIs(Writes) /\ link = "up"
        /\ \/ /\ Allowed(sql)
              /\ work' = Written(sql) /\ data' = (IF inTx THEN data ELSE work')
              /\ next' = Drawn(sql)
              /\ GoesOn(Noted(sql), Tail(todo)) /\ UNCHANGED inTx
           \/ ~Allowed(sql) /\ GiveUp

-----------------------------------------------------------------------------
(* Failures.                                                               *)

\* The statement under way fails: an error of the database, or no connection.
StatementFails == ~Idle /\ GiveUp

\* The statement under way was done at the database before its answer was lost: a
\* commit, or a write outside a transaction.
DoneUnheard ==
    /\ link = "up"
    /\ \/ NextIs({"commit"}) /\ Ends(work) /\ UNCHANGED next
       \/ /\ NextIs(Writes) /\ ~inTx /\ Allowed(Head(todo))
          /\ Ends(Written(Head(todo))) /\ next' = Drawn(Head(todo))

Undone == Ends(data) /\ UNCHANGED next

\* The connection goes; the caller, if one waits, hears of an error either way.
ConnectionLost ==
    /\ link = "up" /\ link' = "lost"
    /\ DoneUnheard \/ Undone
    /\ answer' = IF Idle THEN answer ELSE Interface!Failed

\* The server process dies, and with it the caller; a new one connects.
Restart == (DoneUnheard \/ Undone) /\ link' = "up" /\ UNCHANGED answer

-----------------------------------------------------------------------------

Init ==
    /\ data = EmptyTables /\ work = EmptyTables /\ inTx = FALSE
    /\ next = [t \in IdTables |-> 1]
    /\ link = "up" /\ call = NoCall /\ todo = <<>> /\ answer = Interface!NoAnswer

Next ==
    \/ CreateAccount
    \/ StorePrivateMessage
    \/ StoreFileTransfer
    \/ CreateGroup
    \/ StoreGroupMessage
    \/ CompleteFileTransfer
    \/ MarkDeliveryState
    \/ Begin
    \/ Check
    \/ FindConversation
    \/ ReadState
    \/ Write
    \/ Commit
    \/ StatementFails
    \/ ConnectionLost
    \/ Restart

Spec == Init /\ [][Next]_vars

-----------------------------------------------------------------------------
(* Properties.                                                             *)

\* Between calls the connection has no transaction open and sees what is committed:
\* on every way out of a call its transaction was committed or rolled back, so that
\* the next call's statements neither join it nor read it.
TypeOK ==
    /\ data.accounts \subseteq Users
    /\ \A t \in IdTables : next[t] \in Nat /\ \A id \in DOMAIN data[t] : id < next[t]
    /\ inTx \in BOOLEAN /\ (inTx \/ work = data) /\ (Idle => ~inTx)
    /\ (Idle <=> call = NoCall) /\ link \in {"up", "lost"}

\* What is committed is consistent, wherever a call fails, the connection is lost or
\* the process dies.
TablesConsistent == Consistent(data)

\* Every call takes effect as a whole or not at all; one that answers OK took
\* effect; only a lost answer hides an effect.
IsStorage == Interface!Spec

\* A page of history that ends before a committed message never changes: ids that
\* are lost in a rollback are not given to a later message.
OldPagesStay ==
    [][data' # data =>
       \A a \in Users : \A b \in Users \ {a}, m \in DOMAIN data.messages, n \in 1 .. MaxRows.messages :
          HistoryQuery(data', a, b, m, n) = HistoryQuery(data, a, b, m, n)]_data

\* A message for one user lies in the private conversation of its two ends.  Refuted
\* when callers may name the conversation: the check counts members and never looks
\* at the conversation's type, so that a group of both will do.
PrivateStaysPrivate ==
    \A m \in DOMAIN data.messages :
        LET msg == data.messages[m]
        IN  msg.to # NoUser => msg.conv \in Private(data, msg.from, msg.to)
=============================================================================
