---------------------------- MODULE MySqlProofs ----------------------------
(***************************************************************************)
(* The MySQL backend, statement by statement, keeps the promises of        *)
(* lan_chat_storage_c: whatever fails and whenever the process dies, what  *)
(* is committed is the result of whole calls.                              *)
(*                                                                         *)
(* The inductive invariant is a Stage for every place in a call's program: *)
(* what is still to be executed, and by what the tables of the transaction *)
(* differ from the committed ones.  At a commit the difference is a call   *)
(* of the interface; a statement outside a transaction is one by itself;   *)
(* every other step leaves the committed tables alone.                     *)
(***************************************************************************)
EXTENDS MySqlStorage, SequenceTheorems, FiniteSetTheorems, TLAPS

Promises == INSTANCE StorageProofs WITH db <- data, Doubtful <- TRUE

Words == {"check user", "check members", "check group", "begin", "commit", "find", "read state"} \cup Writes
Statement == [name : Words, user : Users \cup {NoUser}]

LEMMA IsStatement ==
    ASSUME NEW name \in Words
    PROVE  Sql(name) \in Statement /\ \A u \in Users : SqlFor(name, u) \in Statement
BY DEF Sql, SqlFor, Statement

-----------------------------------------------------------------------------
(* Programs, a statement at a time.                                        *)

LEMMA ConsProperties ==
    ASSUME NEW a \in Statement, NEW s \in Seq(Statement)
    PROVE  /\ Cons(a, s) \in Seq(Statement) /\ Cons(a, s) # <<>>
           /\ Head(Cons(a, s)) = a /\ Tail(Cons(a, s)) = s
           /\ Len(Cons(a, s)) = Len(s) + 1
           /\ Cons(a, s)[1] = a /\ \A i \in 1 .. Len(s) : Cons(a, s)[i + 1] = s[i]
<1>1. <<a>> \in Seq(Statement) /\ Len(<<a>>) = 1 /\ <<a>>[1] = a
  OBVIOUS
<1>2. /\ Cons(a, s) \in Seq(Statement) /\ Len(Cons(a, s)) = Len(s) + 1
      /\ \A i \in 1 .. Len(s) + 1 : Cons(a, s)[i] = IF i <= 1 THEN <<a>>[i] ELSE s[i - 1]
  BY <1>1, ConcatProperties DEF Cons
<1>3. Len(s) \in Nat
  BY LenProperties
<1>4. Cons(a, s)[1] = a /\ \A i \in 1 .. Len(s) : Cons(a, s)[i + 1] = s[i]
  BY <1>1, <1>2, <1>3
<1>5. Cons(a, s) # <<>> /\ Head(Cons(a, s)) = a
  BY <1>2, <1>3, <1>4
<1>6. Tail(Cons(a, s)) = s
  <2>1. Tail(Cons(a, s)) \in Seq(Statement) /\ Len(Tail(Cons(a, s))) = Len(s)
    BY <1>2, <1>3, <1>5, HeadTailProperties
  <2>2. \A i \in 1 .. Len(s) : Tail(Cons(a, s))[i] = Cons(a, s)[i + 1]
    BY <1>2, <1>3, <1>5
  <2> QED BY <1>4, <2>1, <2>2, SeqEqual
<1> QED BY <1>2, <1>4, <1>5, <1>6

LEMMA ForEach ==
    ASSUME NEW name \in Words, NEW users \in Seq(Users)
    PROVE  /\ SqlForEach(name, users) \in Seq(Statement) /\ Len(SqlForEach(name, users)) = Len(users)
           /\ \A i \in 1 .. Len(users) : SqlForEach(name, users)[i] = SqlFor(name, users[i])
<1> DEFINE e == SqlForEach(name, users)
<1>1. DOMAIN users = 1 .. Len(users) /\ Len(users) \in Nat
  BY LenProperties
<1>2. \A i \in 1 .. Len(users) : SqlFor(name, users[i]) \in Statement
  BY <1>1, IsStatement, ElementOfSeq
<1>3. e = [i \in 1 .. Len(users) |-> SqlFor(name, users[i])]
  BY <1>1 DEF SqlForEach
<1>4. e \in [1 .. Len(users) -> Statement]
  BY <1>2, <1>3
<1>5. e \in Seq(Statement)
  BY <1>1, <1>4, SeqDef
<1>6. \A i \in 1 .. Len(users) : e[i] = SqlFor(name, users[i])
  BY <1>3
<1>7. DOMAIN e = 1 .. Len(users)
  BY <1>3
<1> HIDE DEF e
<1>8. DOMAIN e = 1 .. Len(e) /\ Len(e) \in Nat
  BY <1>5, LenProperties
<1>9. Len(e) = Len(users)
  BY <1>1, <1>7, <1>8
<1> QED BY <1>5, <1>6, <1>9 DEF e

LEMMA ForEachFirst ==
    ASSUME NEW name \in Words, NEW users \in Seq(Users), users # <<>>
    PROVE  /\ Head(users) \in Users /\ Tail(users) \in Seq(Users)
           /\ SqlForEach(name, users) = Cons(SqlFor(name, Head(users)), SqlForEach(name, Tail(users)))
<1>1. /\ Head(users) \in Users /\ Head(users) = users[1] /\ Tail(users) \in Seq(Users) /\ Len(users) \in Nat \ {0}
      /\ Len(Tail(users)) = Len(users) - 1 /\ \A i \in 1 .. Len(users) - 1 : Tail(users)[i] = users[i + 1]
  OBVIOUS
<1> DEFINE e == SqlForEach(name, users)
           t == SqlForEach(name, Tail(users))
           x == SqlFor(name, Head(users))
<1>2. e \in Seq(Statement) /\ Len(e) = Len(users) /\ \A i \in 1 .. Len(users) : e[i] = SqlFor(name, users[i])
  BY ForEach, SMTT(30)
<1>3. /\ t \in Seq(Statement) /\ Len(t) = Len(users) - 1
      /\ \A i \in 1 .. Len(users) - 1 : t[i] = SqlFor(name, Tail(users)[i])
  BY <1>1, ForEach
<1>4. \A i \in 1 .. Len(users) - 1 : t[i] = SqlFor(name, users[i + 1])
  BY <1>1, <1>3
<1>5. x \in Statement /\ x = SqlFor(name, users[1])
  BY <1>1, IsStatement
<1> HIDE DEF e, t, x
<1>6. /\ Cons(x, t) \in Seq(Statement) /\ Len(Cons(x, t)) = Len(t) + 1 /\ Cons(x, t)[1] = x
      /\ \A i \in 1 .. Len(t) : Cons(x, t)[i + 1] = t[i]
  BY <1>3, <1>5, ConsProperties
<1>7. ASSUME NEW i \in 1 .. Len(users) PROVE e[i] = Cons(x, t)[i]
  <2>1. CASE i = 1
    BY <1>1, <1>2, <1>5, <1>6, <2>1
  <2>2. CASE i # 1
    <3>1. i - 1 \in 1 .. Len(t) /\ i - 1 \in 1 .. Len(users) - 1 /\ (i - 1) + 1 = i
      BY <1>1, <1>3, <2>2
    <3>2. Cons(x, t)[i] = t[i - 1] /\ t[i - 1] = SqlFor(name, users[i])
      BY <1>4, <1>6, <3>1
    <3> QED BY <1>2, <3>2
  <2> QED BY <2>1, <2>2
<1>8. Len(e) = Len(Cons(x, t))
  BY <1>1, <1>2, <1>3, <1>6
<1>9. e = Cons(x, t)
  BY <1>2, <1>6, <1>7, <1>8, SeqEqual
<1> QED BY <1>1, <1>9 DEF e, t, x

\* A program that begins with a statement for each of some users.
Each(name, users, rest) == SqlForEach(name, users) \o rest

LEMMA EachProperties ==
    ASSUME NEW name \in Words, NEW users \in Seq(Users), NEW rest \in Seq(Statement)
    PROVE  /\ Each(name, users, rest) \in Seq(Statement)
           /\ users = <<>> => Each(name, users, rest) = rest
           /\ users # <<>> =>
                 /\ Head(users) \in Users /\ Tail(users) \in Seq(Users)
                 /\ Each(name, users, rest) = Cons(SqlFor(name, Head(users)), Each(name, Tail(users), rest))
<1>1. Each(name, users, rest) \in Seq(Statement)
  BY ForEach, ConcatProperties DEF Each
<1>2. CASE users = <<>>
  <2>1. SqlForEach(name, users) = <<>>
    <3>0. Len(users) = 0
      BY <1>2
    <3>1. SqlForEach(name, users) \in Seq(Statement) /\ Len(SqlForEach(name, users)) = 0
      BY <3>0, ForEach
    <3> DEFINE e == SqlForEach(name, users)
    <3> HIDE DEF e
    <3>2. e \in Seq(Statement) /\ Len(e) = 0 => e = <<>>
      OBVIOUS
    <3> QED BY <3>1, <3>2 DEF e
  <2> QED BY <1>1, <1>2, <2>1, ConcatEmptySeq DEF Each
<1>3. CASE users # <<>>
  <2> DEFINE x == SqlFor(name, Head(users))
             t == SqlForEach(name, Tail(users))
  <2>1. Head(users) \in Users /\ Tail(users) \in Seq(Users)
    BY <1>3, ForEachFirst
  <2>3. SqlForEach(name, users) = <<x>> \o t
    BY <1>3, ForEachFirst, Zenon DEF Cons
  <2>4. t \in Seq(Statement)
    BY <2>1, ForEach
  <2>5. x \in Statement
    BY <2>1, IsStatement
  <2> HIDE DEF x, t
  <2>2. (<<x>> \o t) \o rest = <<x>> \o (t \o rest)
    <3>1. <<x>> \in Seq(Statement)
      BY <2>5
    <3> QED BY <2>4, <3>1, ConcatAssociative
  <2>6. Each(name, users, rest) = Cons(x, Each(name, Tail(users), rest))
    BY <2>2, <2>3, Zenon DEF Each, Cons, t
  <2> QED BY <1>1, <1>3, <2>1, <2>6 DEF x
<1> QED BY <1>2, <1>3

LEMMA ConsConcat ==
    ASSUME NEW a \in Statement, NEW s \in Seq(Statement), NEW r \in Seq(Statement)
    PROVE  Cons(a, s) \o r = Cons(a, s \o r)
<1>1. <<a>> \in Seq(Statement)
  OBVIOUS
<1>2. (<<a>> \o s) \o r = <<a>> \o (s \o r)
  BY <1>1, ConcatAssociative
<1> QED BY <1>2, Zenon DEF Cons

LEMMA ConsIs ==
    ASSUME NEW a \in Statement, NEW s \in Seq(Statement), NEW l \in Seq(Statement),
           Len(l) = Len(s) + 1, l[1] = a, \A i \in 1 .. Len(s) : l[i + 1] = s[i]
    PROVE  l = Cons(a, s)
<1> DEFINE r == Cons(a, s)
<1>1. r \in Seq(Statement) /\ Len(r) = Len(s) + 1 /\ r[1] = a /\ \A i \in 1 .. Len(s) : r[i + 1] = s[i]
  BY ConsProperties
<1> HIDE DEF r
<1>2. Len(s) \in Nat
  BY LenProperties
<1>3. ASSUME NEW i \in 1 .. Len(l) PROVE l[i] = r[i]
  <2>1. CASE i = 1
    BY <1>1, <2>1
  <2>2. CASE i # 1
    <3>1. i - 1 \in 1 .. Len(s) /\ (i - 1) + 1 = i
      BY <1>2, <2>2
    <3> QED BY <1>1, <3>1
  <2> QED BY <2>1, <2>2
<1>4. l = r
  BY <1>1, <1>3, SeqEqual
<1> QED BY <1>4 DEF r

LEMMA Programs1 == \A a \in Statement : <<a>> \in Seq(Statement)
OBVIOUS

LEMMA Programs2 == \A a, b \in Statement : <<a, b>> \in Seq(Statement)
OBVIOUS

LEMMA Programs3 == \A a, b, c \in Statement : <<a, b, c>> \in Seq(Statement)
OBVIOUS

LEMMA Programs4 == \A a, b, c, d \in Statement : <<a, b, c, d>> \in Seq(Statement)
OBVIOUS

LEMMA Tuple1 ==
    ASSUME NEW a \in Statement
    PROVE  <<a>> = Cons(a, <<>>)
<1>1. <<a>> \in Seq(Statement)
  OBVIOUS
<1> QED BY <1>1, ConcatEmptySeq DEF Cons

LEMMA Tuple2 ==
    ASSUME NEW a \in Statement, NEW b \in Statement
    PROVE  <<a, b>> = Cons(a, <<b>>)
<1> DEFINE t == <<b>>
           l == <<a, b>>
<1>1. l \in Seq(Statement)
  OBVIOUS
<1>2. t \in Seq(Statement)
  OBVIOUS
<1>3. Len(l) = 2 /\ Len(t) = 1
  OBVIOUS
<1>4. l[1] = a /\ l[2] = t[1]
  OBVIOUS
<1> HIDE DEF l, t
<1>5. Len(l) = Len(t) + 1 /\ \A i \in 1 .. Len(t) : l[i + 1] = t[i]
  <2>1. \A i \in 1 .. Len(t) : i = 1
    BY <1>3
  <2> QED BY <1>3, <1>4, <2>1
<1>6. l = Cons(a, t)
  BY <1>1, <1>2, <1>4, <1>5, ConsIs
<1> QED BY <1>6 DEF l, t

LEMMA Tuple3 ==
    ASSUME NEW a \in Statement, NEW b \in Statement, NEW c \in Statement
    PROVE  <<a, b, c>> = Cons(a, <<b, c>>)
<1> DEFINE t == <<b, c>>
           l == <<a, b, c>>
<1>1. l \in Seq(Statement)
  OBVIOUS
<1>2. t \in Seq(Statement)
  OBVIOUS
<1>3. Len(l) = 3 /\ Len(t) = 2
  OBVIOUS
<1>4. l[1] = a /\ l[2] = t[1] /\ l[3] = t[2]
  OBVIOUS
<1> HIDE DEF l, t
<1>5. Len(l) = Len(t) + 1 /\ \A i \in 1 .. Len(t) : l[i + 1] = t[i]
  <2>1. \A i \in 1 .. Len(t) : i = 1 \/ i = 2
    BY <1>3
  <2> QED BY <1>3, <1>4, <2>1
<1>6. l = Cons(a, t)
  BY <1>1, <1>2, <1>4, <1>5, ConsIs
<1> QED BY <1>6 DEF l, t

LEMMA Tuple4 ==
    ASSUME NEW a \in Statement, NEW b \in Statement, NEW c \in Statement, NEW d \in Statement
    PROVE  <<a, b, c, d>> = Cons(a, <<b, c, d>>)
<1> DEFINE t == <<b, c, d>>
           l == <<a, b, c, d>>
<1>1. l \in Seq(Statement)
  OBVIOUS
<1>2. t \in Seq(Statement)
  OBVIOUS
<1>3. Len(l) = 4 /\ Len(t) = 3
  OBVIOUS
<1>4. l[1] = a /\ l[2] = t[1] /\ l[3] = t[2] /\ l[4] = t[3]
  OBVIOUS
<1> HIDE DEF l, t
<1>5. Len(l) = Len(t) + 1 /\ \A i \in 1 .. Len(t) : l[i + 1] = t[i]
  <2>1. \A i \in 1 .. Len(t) : i = 1 \/ i = 2 \/ i = 3
    BY <1>3
  <2> QED BY <1>3, <1>4, <2>1
<1>6. l = Cons(a, t)
  BY <1>1, <1>2, <1>4, <1>5, ConsIs
<1> QED BY <1>6 DEF l, t

-----------------------------------------------------------------------------
(* The programs, cut where the tables change.                              *)

Closing == Cons(Sql("commit"), <<>>)
AfterDelivery(file) == IF file THEN Cons(Sql("file"), Closing) ELSE Closing
AfterMessage(file) == Cons(Sql("delivery"), AfterDelivery(file))
AfterConv(file) == Cons(Sql("message"), AfterMessage(file))
SecondMember(b, file) == Cons(SqlFor("member", b), AfterConv(file))
FirstMember(a, b, file) == Cons(SqlFor("member", a), SecondMember(b, file))
NewConversation(a, b, file) == Cons(Sql("conversation"), FirstMember(a, b, file))
Locating(named, file) ==
    Cons(IF named = 0 THEN Sql("find") ELSE Sql("check members"), AfterConv(file))
Opening(named, file) == Cons(Sql("begin"), Locating(named, file))
SecondCheck(b, named) == Cons(SqlFor("check user", b), Opening(named, FALSE))
FirstCheck(a, b, named) == Cons(SqlFor("check user", a), SecondCheck(b, named))

AddMembers(members) == Each("member", members, Closing)
NewGroup(members) == Cons(Sql("conversation"), AddMembers(members))
OpenGroup(members) == Cons(Sql("begin"), NewGroup(members))
CheckUsers(list, members) == Each("check user", list, OpenGroup(members))

Programs == Seq(Statement)

LEMMA PrivateCuts ==
    ASSUME NEW a \in Users, NEW b \in Users, NEW named \in Nat, NEW file \in BOOLEAN
    PROVE  /\ Closing \in Programs /\ Closing # <<>> /\ Tail(Closing) = <<>> /\ Head(Closing) = Sql("commit")
           /\ AfterDelivery(file) \in Programs /\ AfterMessage(file) \in Programs
           /\ AfterConv(file) \in Programs /\ SecondMember(b, file) \in Programs
           /\ FirstMember(a, b, file) \in Programs
           /\ NewConversation(a, b, file) \in Programs /\ Locating(named, file) \in Programs
           /\ Opening(named, file) \in Programs /\ SecondCheck(b, named) \in Programs
           /\ FirstCheck(a, b, named) \in Programs
<1>0. \A name \in Words : Sql(name) \in Statement /\ \A u \in Users : SqlFor(name, u) \in Statement
  BY IsStatement
<1>1. /\ Sql("commit") \in Statement /\ Sql("file") \in Statement /\ Sql("delivery") \in Statement
      /\ Sql("message") \in Statement /\ Sql("conversation") \in Statement /\ Sql("find") \in Statement
      /\ Sql("check members") \in Statement /\ Sql("begin") \in Statement
      /\ SqlFor("member", a) \in Statement /\ SqlFor("member", b) \in Statement
      /\ SqlFor("check user", a) \in Statement /\ SqlFor("check user", b) \in Statement
  BY <1>0 DEF Words, Writes
<1>2. Closing \in Programs /\ Closing # <<>> /\ Tail(Closing) = <<>> /\ Head(Closing) = Sql("commit")
  <2>1. <<>> \in Programs
    BY DEF Programs
  <2> QED BY <1>1, <2>1, ConsProperties DEF Closing, Programs
<1>3. AfterDelivery(file) \in Programs
  <2>1. Cons(Sql("file"), Closing) \in Programs
    BY <1>1, <1>2, ConsProperties DEF Programs
  <2> QED BY <1>2, <2>1 DEF AfterDelivery
<1>4. AfterMessage(file) \in Programs
  BY <1>1, <1>3, ConsProperties DEF AfterMessage, Programs
<1>5. AfterConv(file) \in Programs
  BY <1>1, <1>4, ConsProperties DEF AfterConv, Programs
<1>6. SecondMember(b, file) \in Programs
  BY <1>1, <1>5, ConsProperties DEF SecondMember, Programs
<1>7. FirstMember(a, b, file) \in Programs
  BY <1>1, <1>6, ConsProperties DEF FirstMember, Programs
<1>8. NewConversation(a, b, file) \in Programs
  BY <1>1, <1>7, ConsProperties DEF NewConversation, Programs
<1>9. Locating(named, file) \in Programs
  BY <1>1, <1>5, ConsProperties DEF Locating, Programs
<1>10. Opening(named, file) \in Programs
  BY <1>1, <1>9, ConsProperties DEF Opening, Programs
<1>11. Opening(named, FALSE) \in Programs
  <2>1. AfterConv(FALSE) \in Programs
    <3>1. AfterDelivery(FALSE) \in Programs
      BY <1>1, <1>2, ConsProperties DEF AfterDelivery, Programs
    <3>2. AfterMessage(FALSE) \in Programs
      BY <1>1, <3>1, ConsProperties DEF AfterMessage, Programs
    <3> QED BY <1>1, <3>2, ConsProperties DEF AfterConv, Programs
  <2>2. Locating(named, FALSE) \in Programs
    BY <1>1, <2>1, ConsProperties DEF Locating, Programs
  <2> QED BY <1>1, <2>2, ConsProperties DEF Opening, Programs
<1>12. SecondCheck(b, named) \in Programs
  BY <1>1, <1>11, ConsProperties DEF SecondCheck, Programs
<1>13. FirstCheck(a, b, named) \in Programs
  BY <1>1, <1>12, ConsProperties DEF FirstCheck, Programs
<1> QED BY <1>2, <1>3, <1>4, <1>5, <1>6, <1>7, <1>8, <1>9, <1>10, <1>12, <1>13

LEMMA GroupCuts ==
    ASSUME NEW members \in Seq(Users), NEW list \in Seq(Users)
    PROVE  /\ AddMembers(members) \in Programs /\ NewGroup(members) \in Programs
           /\ OpenGroup(members) \in Programs /\ CheckUsers(list, members) \in Programs
<1>1. /\ Sql("conversation") \in Statement /\ Sql("begin") \in Statement /\ Sql("commit") \in Statement
      /\ "member" \in Words /\ "check user" \in Words
  BY IsStatement DEF Words, Writes
<1>2. Closing \in Programs
  <2>1. <<>> \in Programs
    BY DEF Programs
  <2> QED BY <1>1, <2>1, ConsProperties DEF Closing, Programs
<1>3. AddMembers(members) \in Programs
  BY <1>1, <1>2, EachProperties DEF AddMembers, Programs
<1>4. NewGroup(members) \in Programs
  BY <1>1, <1>3, ConsProperties DEF NewGroup, Programs
<1>5. OpenGroup(members) \in Programs
  BY <1>1, <1>4, ConsProperties DEF OpenGroup, Programs
<1>6. CheckUsers(list, members) \in Programs
  BY <1>1, <1>5, EachProperties DEF CheckUsers, Programs
<1> QED BY <1>3, <1>4, <1>5, <1>6

LEMMA LocatedPrograms ==
    ASSUME NEW named \in Nat
    PROVE  /\ Locate(named) \o <<Sql("message"), Sql("delivery"), Sql("commit")>> = Locating(named, FALSE)
           /\ Locate(named) \o <<Sql("message"), Sql("delivery"), Sql("file"), Sql("commit")>>
                 = Locating(named, TRUE)
<1> DEFINE loc == IF named = 0 THEN Sql("find") ELSE Sql("check members")
           m == Sql("message")
           d == Sql("delivery")
           f == Sql("file")
           c == Sql("commit")
<1>1. /\ m \in Statement /\ d \in Statement /\ f \in Statement /\ c \in Statement
      /\ Sql("find") \in Statement /\ Sql("check members") \in Statement
  BY IsStatement DEF Words, Writes
<1>2. loc \in Statement
  BY <1>1
<1>3. Locate(named) = <<loc>>
  BY DEF Locate
<1> HIDE DEF loc
<1>4. <<m, d, c>> = AfterConv(FALSE) /\ <<m, d, f, c>> = AfterConv(TRUE)
  <2> HIDE DEF m, d, f, c
  <2>1. <<m, d, c>> = Cons(m, Cons(d, Cons(c, <<>>)))
    <3>1. <<m, d, c>> = Cons(m, <<d, c>>)
      BY <1>1, Tuple3, ZenonT(40)
    <3>2. <<d, c>> = Cons(d, <<c>>)
      BY <1>1, Tuple2
    <3>3. <<c>> = Cons(c, <<>>)
      BY <1>1, Tuple1
    <3> QED BY <3>1, <3>2, <3>3
  <2>2. <<m, d, f, c>> = Cons(m, Cons(d, Cons(f, Cons(c, <<>>))))
    <3>1. <<m, d, f, c>> = Cons(m, <<d, f, c>>)
      <4>1. m \in Statement /\ d \in Statement /\ f \in Statement /\ c \in Statement
        BY <1>1
      <4> QED BY <4>1, Tuple4
    <3>2. <<d, f, c>> = Cons(d, <<f, c>>)
      BY <1>1, Tuple3, ZenonT(40)
    <3>3. <<f, c>> = Cons(f, <<c>>)
      BY <1>1, Tuple2
    <3>4. <<c>> = Cons(c, <<>>)
      BY <1>1, Tuple1
    <3> QED BY <3>1, <3>2, <3>3, <3>4
  <2> QED BY <2>1, <2>2 DEF AfterConv, AfterMessage, AfterDelivery, Closing, m, d, f, c
<1>5. Locating(named, FALSE) = <<loc>> \o AfterConv(FALSE) /\ Locating(named, TRUE) = <<loc>> \o AfterConv(TRUE)
  BY Zenon DEF Locating, Cons, loc
<1> QED BY <1>3, <1>4, <1>5

LEMMA PrivatePrograms ==
    ASSUME NEW a \in Users, NEW b \in Users, NEW named \in Nat
    PROVE  /\ PrivateProgram(a, b, named) = FirstCheck(a, b, named)
           /\ FileProgram(named) = Opening(named, TRUE)
<1> DEFINE x == SqlFor("check user", a)
           y == SqlFor("check user", b)
           z == Sql("begin")
           l == Locate(named)
           p == <<Sql("message"), Sql("delivery"), Sql("commit")>>
           q == <<Sql("message"), Sql("delivery"), Sql("file"), Sql("commit")>>
<1>1. x \in Statement /\ y \in Statement /\ z \in Statement
  BY IsStatement DEF Words, Writes
<1>2. l \in Seq(Statement) /\ p \in Seq(Statement) /\ q \in Seq(Statement)
  <2>1. /\ Sql("message") \in Statement /\ Sql("delivery") \in Statement /\ Sql("file") \in Statement
        /\ Sql("commit") \in Statement /\ Sql("find") \in Statement /\ Sql("check members") \in Statement
    BY IsStatement DEF Words, Writes
  <2>2. p \in Seq(Statement)
    BY <2>1, Programs3
  <2>3. q \in Seq(Statement)
    BY <2>1, Programs4
  <2>4. <<Sql("find")>> \in Seq(Statement)
    BY <2>1, Programs1
  <2>5. <<Sql("check members")>> \in Seq(Statement)
    BY <2>1, Programs1
  <2>6. l \in Seq(Statement)
    BY <2>4, <2>5 DEF Locate
  <2> QED BY <2>2, <2>3, <2>6
<1>3. l \o p = Locating(named, FALSE) /\ l \o q = Locating(named, TRUE)
  BY LocatedPrograms
<1>4. PrivateProgram(a, b, named) = (<<x, y, z>> \o l) \o p /\ FileProgram(named) = (<<z>> \o l) \o q
  BY DEF PrivateProgram, FileProgram
<1> HIDE DEF x, y, z, l, p, q
<1>5. /\ <<x, y, z>> \in Seq(Statement) /\ <<y, z>> \in Seq(Statement) /\ <<z>> \in Seq(Statement)
      /\ l \o p \in Seq(Statement)
  <2>1. <<x, y, z>> \in Seq(Statement)
    BY <1>1
  <2>2. <<y, z>> \in Seq(Statement)
    BY <1>1
  <2>3. <<z>> \in Seq(Statement)
    BY <1>1
  <2>4. l \o p \in Seq(Statement)
    BY <1>2, ConcatProperties
  <2> QED BY <2>1, <2>2, <2>3, <2>4
<1>6. (<<x, y, z>> \o l) \o p = <<x, y, z>> \o (l \o p) /\ (<<z>> \o l) \o q = <<z>> \o (l \o q)
  BY <1>2, <1>5, ConcatAssociative, SMTT(30)
<1>7. <<x, y, z>> \o (l \o p) = Cons(x, Cons(y, Cons(z, l \o p)))
  <2>1. <<x, y, z>> = Cons(x, <<y, z>>)
    BY <1>1, Tuple3
  <2>5. <<y, z>> = Cons(y, <<z>>)
    BY <1>1, Tuple2
  <2>2. <<x, y, z>> \o (l \o p) = Cons(x, <<y, z>> \o (l \o p))
    <3>1. Cons(x, <<y, z>>) \o (l \o p) = Cons(x, <<y, z>> \o (l \o p))
      BY <1>1, <1>5, ConsConcat, ZenonT(40)
    <3> QED BY <2>1, <3>1
  <2>3. <<y, z>> \o (l \o p) = Cons(y, <<z>> \o (l \o p))
    <3>1. Cons(y, <<z>>) \o (l \o p) = Cons(y, <<z>> \o (l \o p))
      BY <1>1, <1>5, ConsConcat, ZenonT(40)
    <3> QED BY <2>5, <3>1
  <2>4. <<z>> \o (l \o p) = Cons(z, l \o p)
    BY Zenon DEF Cons
  <2> QED BY <2>2, <2>3, <2>4
<1>8. <<z>> \o (l \o q) = Cons(z, l \o q)
  BY Zenon DEF Cons
<1> QED BY <1>3, <1>4, <1>6, <1>7, <1>8 DEF FirstCheck, SecondCheck, Opening, x, y, z

LEMMA FoundNone ==
    ASSUME NEW a \in Users, NEW b \in Users, NEW file \in BOOLEAN
    PROVE  <<Sql("conversation")>> \o SqlForEach("member", <<a, b>>) \o AfterConv(file)
              = NewConversation(a, b, file)
<1> DEFINE x == Sql("conversation")
           s == SqlForEach("member", <<a, b>>)
           r == AfterConv(file)
<1>1. <<a, b>> \in Seq(Users) /\ <<b>> \in Seq(Users) /\ <<>> \in Seq(Users) /\ x \in Statement /\ "member" \in Words
  <2>1. <<a, b>> \in Seq(Users)
    OBVIOUS
  <2>2. <<b>> \in Seq(Users)
    OBVIOUS
  <2>3. <<>> \in Seq(Users)
    OBVIOUS
  <2>4. x \in Statement /\ "member" \in Words
    BY IsStatement DEF Words, Writes
  <2> QED BY <2>1, <2>2, <2>3, <2>4
<1>2. s \in Seq(Statement)
  BY <1>1, ForEach
<1>3. r \in Seq(Statement)
  BY 0 \in Nat, PrivateCuts DEF Programs
<1>4. Each("member", <<a, b>>, r) = Cons(SqlFor("member", a), Cons(SqlFor("member", b), r))
  <2>1. /\ Head(<<a, b>>) = a /\ Tail(<<a, b>>) = <<b>> /\ <<a, b>> # <<>>
        /\ Head(<<b>>) = b /\ Tail(<<b>>) = <<>> /\ <<b>> # <<>>
    OBVIOUS
  <2> HIDE DEF r
  <2>2. Each("member", <<a, b>>, r) = Cons(SqlFor("member", a), Each("member", <<b>>, r))
    <3> DEFINE l == <<a, b>>
    <3>1. l \in Seq(Users) /\ l # <<>> /\ Head(l) = a /\ Tail(l) = <<b>>
      BY <1>1, <2>1
    <3> HIDE DEF l
    <3>2. Each("member", l, r) = Cons(SqlFor("member", Head(l)), Each("member", Tail(l), r))
      BY <1>1, <1>3, <3>1, EachProperties
    <3> QED BY <3>1, <3>2 DEF l
  <2>3. Each("member", <<b>>, r) = Cons(SqlFor("member", b), Each("member", <<>>, r))
    <3> DEFINE l == <<b>>
    <3>1. l \in Seq(Users) /\ l # <<>> /\ Head(l) = b /\ Tail(l) = <<>>
      BY <1>1, <2>1
    <3> HIDE DEF l
    <3>2. Each("member", l, r) = Cons(SqlFor("member", Head(l)), Each("member", Tail(l), r))
      BY <1>1, <1>3, <3>1, EachProperties
    <3> QED BY <3>1, <3>2 DEF l
  <2>4. Each("member", <<>>, r) = r
    BY <1>1, <1>3, EachProperties
  <2> QED BY <2>2, <2>3, <2>4
<1> HIDE DEF x, s, r
<1>5. (<<x>> \o s) \o r = <<x>> \o (s \o r)
  <2>1. <<x>> \in Seq(Statement)
    BY <1>1
  <2> QED BY <1>2, <1>3, <2>1, ConcatAssociative
<1>6. (<<x>> \o s) \o r = Cons(x, Each("member", <<a, b>>, r))
  BY <1>5, Zenon DEF Cons, Each, s
<1> QED BY <1>4, <1>6 DEF NewConversation, FirstMember, SecondMember, x, s, r

LEMMA GroupPrograms ==
    ASSUME NEW creator \in Users, NEW list \in Seq(Users), NEW members \in Seq(Users)
    PROVE  /\ <<creator>> \o list \in Seq(Users)
           /\ GroupProgram(creator, list, members) = CheckUsers(<<creator>> \o list, members)
<1>1. <<creator>> \o list \in Seq(Users)
  <2>1. <<creator>> \in Seq(Users)
    OBVIOUS
  <2> QED BY <2>1, ConcatProperties
<1> DEFINE k == SqlForEach("check user", <<creator>> \o list)
           x == Sql("begin")
           y == Sql("conversation")
           v == SqlForEach("member", members)
           c == Sql("commit")
<1>2. /\ x \in Statement /\ y \in Statement /\ c \in Statement /\ "member" \in Words /\ "check user" \in Words
  BY IsStatement DEF Words, Writes
<1>3. k \in Seq(Statement) /\ v \in Seq(Statement)
  BY <1>1, <1>2, ForEach
<1>4. GroupProgram(creator, list, members) = ((k \o <<x, y>>) \o v) \o <<c>>
  BY DEF GroupProgram
<1> HIDE DEF k, x, y, v, c
<1>5. <<x, y>> \in Seq(Statement) /\ <<c>> \in Seq(Statement) /\ <<y>> \in Seq(Statement)
  <2>1. <<x, y>> \in Seq(Statement)
    BY <1>2, Programs2
  <2>2. <<c>> \in Seq(Statement)
    BY <1>2, Programs1
  <2>3. <<y>> \in Seq(Statement)
    BY <1>2, Programs1
  <2> QED BY <2>1, <2>2, <2>3
<1>6. v \o <<c>> \in Seq(Statement) /\ <<x, y>> \o v \in Seq(Statement)
  BY <1>3, <1>5, ConcatProperties
<1>7. ((k \o <<x, y>>) \o v) \o <<c>> = k \o (<<x, y>> \o (v \o <<c>>))
  <2>1. (k \o <<x, y>>) \o v = k \o (<<x, y>> \o v)
    BY <1>3, <1>5, ConcatAssociative
  <2>2. (k \o (<<x, y>> \o v)) \o <<c>> = k \o ((<<x, y>> \o v) \o <<c>>)
    BY <1>3, <1>5, <1>6, ConcatAssociative, SMTT(30)
  <2>3. (<<x, y>> \o v) \o <<c>> = <<x, y>> \o (v \o <<c>>)
    BY <1>3, <1>5, ConcatAssociative
  <2> QED BY <2>1, <2>2, <2>3
<1>8. <<x, y>> \o (v \o <<c>>) = Cons(x, Cons(y, v \o <<c>>))
  <2>1. <<x, y>> = Cons(x, <<y>>)
    BY <1>2, Tuple2
  <2>2. <<x, y>> \o (v \o <<c>>) = Cons(x, <<y>> \o (v \o <<c>>))
    <3>1. Cons(x, <<y>>) \o (v \o <<c>>) = Cons(x, <<y>> \o (v \o <<c>>))
      BY <1>2, <1>5, <1>6, ConsConcat, ZenonT(40)
    <3> QED BY <2>1, <3>1
  <2>3. <<y>> \o (v \o <<c>>) = Cons(y, v \o <<c>>)
    BY Zenon DEF Cons
  <2> QED BY <2>2, <2>3
<1>9. v \o <<c>> = AddMembers(members)
  <2>1. <<c>> = Closing
    BY <1>2, Tuple1 DEF Closing, c
  <2> QED BY <2>1 DEF AddMembers, Each, v
<1>10. k \o (<<x, y>> \o (v \o <<c>>)) = CheckUsers(<<creator>> \o list, members)
  <2>1. OpenGroup(members) = Cons(x, Cons(y, v \o <<c>>))
    BY <1>9 DEF OpenGroup, NewGroup, x, y
  <2>2. CheckUsers(<<creator>> \o list, members) = k \o OpenGroup(members)
    BY DEF CheckUsers, Each, k
  <2> QED BY <1>8, <2>1, <2>2
<1> QED BY <1>1, <1>4, <1>7, <1>10

-----------------------------------------------------------------------------
(* Where a call can be, and what its transaction has done.                 *)

Quiet == ~inTx /\ work = data
Opened == inTx /\ work = data

\* A message between two users.
Pair == call.from \in Users /\ call.to \in Users /\ call.from # call.to /\ call.group = FALSE
Asked == Pair /\ call.conv \in Named

\* The transaction has written conversations and nothing else.
OnlyConvs ==
    /\ inTx /\ work.accounts = data.accounts /\ work.messages = data.messages
    /\ work.deliveries = data.deliveries /\ work.files = data.files
Unpaired == Private(data, call.from, call.to) = {}
Added(members) == GrownBy(data.convs, work.convs, call.conv, Conv(call.group, members))

\* A caller that names a conversation gets the one it named, whatever it is.
ConvReady ==
    \/ call.conv \in Private(data, call.from, call.to) /\ work.convs = data.convs
    \/ Unpaired /\ Added({call.from, call.to})
    \/ Named # {0}

MessageIn ==
    /\ inTx /\ Pair /\ ConvReady
    /\ {call.from, call.to} \subseteq data.accounts /\ work.accounts = data.accounts
    /\ GrownBy(data.messages, work.messages, call.message, Message(call.conv, call.from, call.to))
DeliveryIn ==
    /\ MessageIn
    /\ \E k \in DOMAIN work.deliveries :
          GrownBy(data.deliveries, work.deliveries, k, Delivery(call.message, call.to))

Listed(users) == {users[i] : i \in DOMAIN users}
Several(S) == \E a, b \in S : a # b

AtRest == todo = <<>> /\ Quiet /\ call = NoCall

AtAccount == todo = <<Sql("account")>> /\ Quiet /\ call.from \in Users /\ call.out = call.from
AtComplete == todo = <<Sql("complete")>> /\ Quiet /\ call.out \in DOMAIN data.files

AtState == todo = <<Sql("read state"), Sql("mark")>> /\ Quiet /\ call.out \in DOMAIN data.deliveries
AtMark ==
    /\ todo = <<Sql("mark")>> /\ Quiet /\ call.out \in DOMAIN data.deliveries
    /\ MayFollow(data.deliveries[call.out].state, call.state)

ToGroup == Quiet /\ call.from \in Users /\ call.to = NoUser
AtGroupCheck == todo = <<Sql("check group"), Sql("message")>> /\ ToGroup
AtGroupMessage == todo = <<Sql("message")>> /\ ToGroup /\ call.conv \in GroupsOf(data, call.from)

AtFirstCheck == todo = FirstCheck(call.from, call.to, call.conv) /\ Quiet /\ Asked
AtSecondCheck == todo = SecondCheck(call.to, call.conv) /\ Quiet /\ Asked
AtOpening(file) == todo = Opening(call.conv, file) /\ Quiet /\ Asked
AtLocating(file) == todo = Locating(call.conv, file) /\ Opened /\ Asked
AtConversation(file) == todo = NewConversation(call.from, call.to, file) /\ Opened /\ Pair /\ Unpaired
AtFirstMember(file) ==
    todo = FirstMember(call.from, call.to, file) /\ OnlyConvs /\ Pair /\ Unpaired /\ Added({})
AtSecondMember(file) ==
    todo = SecondMember(call.to, file) /\ OnlyConvs /\ Pair /\ Unpaired /\ Added({call.from})
AtMessage(file) == todo = AfterConv(file) /\ OnlyConvs /\ Pair /\ ConvReady
AtDelivery(file) ==
    /\ todo = AfterMessage(file) /\ MessageIn /\ call.out = call.message
    /\ work.deliveries = data.deliveries /\ work.files = data.files
AtFile == todo = AfterDelivery(TRUE) /\ DeliveryIn /\ work.files = data.files
AtMessageCommit ==
    todo = Closing /\ DeliveryIn /\ work.files = data.files /\ call.out = call.message
AtFileCommit ==
    /\ todo = Closing /\ DeliveryIn
    /\ GrownBy(data.files, work.files, call.out, File(call.message, call.from, call.to))

OfGroup == call.from \in Users /\ call.group = TRUE
AtUserCheck ==
    /\ Quiet /\ OfGroup
    /\ \E list, members \in Seq(Users) :
          list # <<>> /\ Several(Listed(members)) /\ todo = CheckUsers(list, members)
AtOpenGroup ==
    /\ Quiet /\ OfGroup
    /\ \E members \in Seq(Users) : Several(Listed(members)) /\ todo = OpenGroup(members)
AtNewGroup ==
    /\ Opened /\ OfGroup
    /\ \E members \in Seq(Users) : Several(Listed(members)) /\ todo = NewGroup(members)

\* The members in the table, and those still to be added.
Gathered(in, members) ==
    /\ OnlyConvs /\ OfGroup /\ call.out = call.conv
    /\ IsFiniteSet(in) /\ Added(in) /\ Several(in \cup Listed(members))
AtMember ==
    \E in \in SUBSET data.accounts, members \in Seq(Users) :
        Gathered(in, members) /\ members # <<>> /\ todo = AddMembers(members)
AtGroupCommit == \E in \in SUBSET data.accounts : Gathered(in, <<>>) /\ todo = Closing

Stage ==
    \/ AtRest \/ AtAccount \/ AtComplete \/ AtState \/ AtMark \/ AtGroupCheck \/ AtGroupMessage
    \/ AtFirstCheck \/ AtSecondCheck \/ AtFile \/ AtMessageCommit \/ AtFileCommit
    \/ \E file \in BOOLEAN :
          \/ AtOpening(file) \/ AtLocating(file) \/ AtConversation(file) \/ AtFirstMember(file)
          \/ AtSecondMember(file) \/ AtMessage(file) \/ AtDelivery(file)
    \/ AtUserCheck \/ AtOpenGroup \/ AtNewGroup \/ AtMember \/ AtGroupCommit

-----------------------------------------------------------------------------
(* What holds at every stage.                                              *)

IsTables(d) ==
    \E a, c, m, k, f :
        d = [accounts |-> a, convs |-> c, messages |-> m, deliveries |-> k, files |-> f]

Drawable(t, id) == \A i \in DOMAIN t : i \in Nat \ {0} /\ i < id
Below(d, n) ==
    /\ Drawable(d.convs, n.convs) /\ Drawable(d.messages, n.messages)
    /\ Drawable(d.deliveries, n.deliveries) /\ Drawable(d.files, n.files)

CallType == [from : Users \cup {NoUser}, to : Users \cup {NoUser}, group : BOOLEAN, conv : Nat,
             message : Nat, state : DeliveryStates, out : Users \cup Nat]

Fits(d, n) == IsTables(d) /\ d.accounts \subseteq Users /\ Below(d, n)

Control ==
    /\ next \in [IdTables -> Nat \ {0}] /\ Fits(data, next) /\ Fits(work, next)
    /\ call \in CallType /\ inTx \in BOOLEAN /\ link \in {"up", "lost"}

Inv == Control /\ Stage /\ (Named = {0} => Promises!Sound(data))

\* A step keeps the control state, and what it commits is a call of the interface.
Refines == Named = {0} => Interface!Next \/ (data' = data /\ answer' = answer)
Advances == Control' /\ Stage' /\ Refines

-----------------------------------------------------------------------------
(* The next statement at every stage.                                      *)

Runs(name, user, rest) ==
    todo # <<>> /\ Head(todo) = [name |-> name, user |-> user] /\ Tail(todo) = rest

LEMMA RunsSql ==
    ASSUME NEW name \in Words, NEW rest \in Programs, todo = Cons(Sql(name), rest)
    PROVE  Runs(name, NoUser, rest)
BY IsStatement, ConsProperties DEF Programs, Runs, Sql

LEMMA RunsFor ==
    ASSUME NEW name \in Words, NEW user \in Users, NEW rest \in Programs, todo = Cons(SqlFor(name, user), rest)
    PROVE  Runs(name, user, rest)
<1>1. SqlFor(name, user) \in Statement
  BY IsStatement
<1> QED BY <1>1, ConsProperties DEF Programs, Runs, SqlFor

LEMMA RunsEach ==
    ASSUME NEW name \in Words, NEW users \in Seq(Users), users # <<>>, NEW rest \in Programs,
           todo = Each(name, users, rest)
    PROVE  /\ Head(users) \in Users /\ Tail(users) \in Seq(Users)
           /\ Runs(name, Head(users), Each(name, Tail(users), rest))
           /\ Tail(users) = <<>> => Each(name, Tail(users), rest) = rest
           /\ Each(name, Tail(users), rest) \in Programs
<1>1. /\ Head(users) \in Users /\ Tail(users) \in Seq(Users)
      /\ todo = Cons(SqlFor(name, Head(users)), Each(name, Tail(users), rest))
  BY EachProperties DEF Programs
<1>2. /\ Each(name, Tail(users), rest) \in Programs
      /\ Tail(users) = <<>> => Each(name, Tail(users), rest) = rest
  BY <1>1, EachProperties DEF Programs
<1> QED BY <1>1, <1>2, RunsFor

LEMMA NotEmpty ==
    ASSUME NEW a \in Statement, NEW s \in Programs
    PROVE  Cons(a, s) # <<>>
BY ConsProperties DEF Programs

LEMMA WrittenIs ==
    ASSUME NEW sql
    PROVE  /\ sql.name = "account" => Written(sql) = [work EXCEPT !.accounts = @ \cup {call.from}]
           /\ sql.name = "conversation" =>
                 Written(sql) = [work EXCEPT !.convs = With(@, next.convs, Conv(call.group, {}))]
           /\ sql.name = "member" => Written(sql) = [work EXCEPT !.convs[call.conv].members = @ \cup {sql.user}]
           /\ sql.name = "message" =>
                 Written(sql) = [work EXCEPT !.messages = With(@, next.messages, Message(call.conv, call.from, call.to))]
           /\ sql.name = "delivery" =>
                 Written(sql) = [work EXCEPT !.deliveries = With(@, next.deliveries, Delivery(call.message, call.to))]
           /\ sql.name = "file" =>
                 Written(sql) = [work EXCEPT !.files = With(@, next.files, File(call.message, call.from, call.to))]
           /\ sql.name = "complete" => Written(sql) = [work EXCEPT !.files[call.out].state = "completed"]
           /\ sql.name = "mark" => Written(sql) = [work EXCEPT !.deliveries[call.out].state = call.state]
BY DEF Written

LEMMA WordsAre ==
    /\ "check user" \in Words /\ "check members" \in Words /\ "check group" \in Words
    /\ "begin" \in Words /\ "commit" \in Words /\ "find" \in Words /\ "read state" \in Words
    /\ "account" \in Words /\ "conversation" \in Words /\ "member" \in Words /\ "message" \in Words
    /\ "delivery" \in Words /\ "file" \in Words /\ "complete" \in Words /\ "mark" \in Words
BY DEF Words, Writes

LEMMA NoProgram == <<>> \in Programs
BY DEF Programs

LEMMA ShortHeads ==
    /\ AtRest => todo = <<>>
    /\ AtAccount => Runs("account", NoUser, <<>>)
    /\ AtComplete => Runs("complete", NoUser, <<>>)
    /\ AtState => Runs("read state", NoUser, <<Sql("mark")>>)
    /\ AtMark => Runs("mark", NoUser, <<>>)
    /\ AtGroupCheck => Runs("check group", NoUser, <<Sql("message")>>)
    /\ AtGroupMessage => Runs("message", NoUser, <<>>)
    /\ AtMessageCommit => Runs("commit", NoUser, <<>>)
    /\ AtFileCommit => Runs("commit", NoUser, <<>>)
    /\ AtGroupCommit => Runs("commit", NoUser, <<>>)
<1>1. ASSUME NEW name \in Words, todo = <<Sql(name)>> PROVE Runs(name, NoUser, <<>>)
  BY <1>1, IsStatement, Tuple1, RunsSql, NoProgram
<1>2. ASSUME NEW name \in Words, NEW then \in Words, todo = <<Sql(name), Sql(then)>>
      PROVE  Runs(name, NoUser, <<Sql(then)>>)
  <2>1. Sql(name) \in Statement /\ Sql(then) \in Statement
    BY IsStatement
  <2>2. <<Sql(then)>> \in Programs
    BY <2>1, Programs1 DEF Programs
  <2>3. <<Sql(name), Sql(then)>> = Cons(Sql(name), <<Sql(then)>>)
    BY <2>1, Tuple2
  <2> QED BY <1>2, <2>2, <2>3, RunsSql
<1>3. ASSUME todo = Closing PROVE Runs("commit", NoUser, <<>>)
  BY <1>3, RunsSql, NoProgram, WordsAre DEF Closing
<1>4. AtRest => todo = <<>>
  BY DEF AtRest
<1>5. AtAccount => Runs("account", NoUser, <<>>)
  BY <1>1, WordsAre DEF AtAccount
<1>6. AtComplete => Runs("complete", NoUser, <<>>)
  BY <1>1, WordsAre DEF AtComplete
<1>7. AtState => Runs("read state", NoUser, <<Sql("mark")>>)
  BY <1>2, WordsAre DEF AtState
<1>8. AtMark => Runs("mark", NoUser, <<>>)
  BY <1>1, WordsAre DEF AtMark
<1>9. AtGroupCheck => Runs("check group", NoUser, <<Sql("message")>>)
  BY <1>2, WordsAre DEF AtGroupCheck
<1>10. AtGroupMessage => Runs("message", NoUser, <<>>)
  BY <1>1, WordsAre DEF AtGroupMessage
<1>11. AtMessageCommit \/ AtFileCommit \/ AtGroupCommit => Runs("commit", NoUser, <<>>)
  BY <1>3 DEF AtMessageCommit, AtFileCommit, AtGroupCommit
<1> QED BY <1>4, <1>5, <1>6, <1>7, <1>8, <1>9, <1>10, <1>11

LEMMA PrivateHeads ==
    ASSUME NEW file \in BOOLEAN, Control
    PROVE  /\ AtFirstCheck => Runs("check user", call.from, SecondCheck(call.to, call.conv))
           /\ AtSecondCheck => Runs("check user", call.to, Opening(call.conv, FALSE))
           /\ AtOpening(file) => Runs("begin", NoUser, Locating(call.conv, file))
           /\ AtLocating(file) => Runs(IF call.conv = 0 THEN "find" ELSE "check members", NoUser, AfterConv(file))
           /\ AtConversation(file) => Runs("conversation", NoUser, FirstMember(call.from, call.to, file))
           /\ AtFirstMember(file) => Runs("member", call.from, SecondMember(call.to, file))
           /\ AtSecondMember(file) => Runs("member", call.to, AfterConv(file))
           /\ AtMessage(file) => Runs("message", NoUser, AfterMessage(file))
           /\ AtDelivery(file) => Runs("delivery", NoUser, AfterDelivery(file))
           /\ AtFile => Runs("file", NoUser, Closing)
<1>1. call.conv \in Nat
  BY DEF Control, CallType
<1> DEFINE n == call.conv
<1>2. CASE Pair
  <2>1. /\ AfterDelivery(file) \in Programs /\ AfterMessage(file) \in Programs
        /\ AfterConv(file) \in Programs /\ SecondMember(call.to, file) \in Programs
        /\ FirstMember(call.from, call.to, file) \in Programs /\ Locating(n, file) \in Programs
        /\ SecondCheck(call.to, n) \in Programs /\ Closing \in Programs
    BY <1>1, <1>2, PrivateCuts DEF Pair
  <2>2. Opening(n, FALSE) \in Programs
    BY <1>1, <1>2, PrivateCuts DEF Pair
  <2>3. call.from \in Users /\ call.to \in Users
    BY <1>2 DEF Pair
  <2> HIDE DEF n
  <2>4. AtFirstCheck => Runs("check user", call.from, SecondCheck(call.to, n))
    BY <2>1, <2>3, RunsFor, WordsAre DEF AtFirstCheck, FirstCheck, n
  <2>5. AtSecondCheck => Runs("check user", call.to, Opening(n, FALSE))
    BY <2>2, <2>3, RunsFor, WordsAre DEF AtSecondCheck, SecondCheck, n
  <2>6. AtOpening(file) => Runs("begin", NoUser, Locating(n, file))
    BY <2>1, RunsSql, WordsAre DEF AtOpening, Opening, n
  <2>7. AtLocating(file) => Runs(IF n = 0 THEN "find" ELSE "check members", NoUser, AfterConv(file))
    BY <2>1, RunsSql, WordsAre DEF AtLocating, Locating, n
  <2>8. AtConversation(file) => Runs("conversation", NoUser, FirstMember(call.from, call.to, file))
    BY <2>1, RunsSql, WordsAre DEF AtConversation, NewConversation
  <2>9. AtFirstMember(file) => Runs("member", call.from, SecondMember(call.to, file))
    BY <2>1, <2>3, RunsFor, WordsAre DEF AtFirstMember, FirstMember
  <2>10. AtSecondMember(file) => Runs("member", call.to, AfterConv(file))
    BY <2>1, <2>3, RunsFor, WordsAre DEF AtSecondMember, SecondMember
  <2>11. AtMessage(file) => Runs("message", NoUser, AfterMessage(file))
    BY <2>1, RunsSql, WordsAre DEF AtMessage, AfterConv
  <2>12. AtDelivery(file) => Runs("delivery", NoUser, AfterDelivery(file))
    BY <2>1, RunsSql, WordsAre DEF AtDelivery, AfterMessage
  <2>13. AtFile => Runs("file", NoUser, Closing)
    BY <2>1, RunsSql, WordsAre DEF AtFile, AfterDelivery
  <2> QED BY <2>4, <2>5, <2>6, <2>7, <2>8, <2>9, <2>10, <2>11, <2>12, <2>13 DEF n
<1>3. CASE ~Pair
  BY <1>3 DEF AtFirstCheck, AtSecondCheck, AtOpening, AtLocating, AtConversation, AtFirstMember, AtSecondMember,
              AtMessage, AtDelivery, AtFile, Asked, DeliveryIn, MessageIn
<1> QED BY <1>2, <1>3

LEMMA UserCheckHead ==
    ASSUME NEW list \in Seq(Users), NEW members \in Seq(Users), list # <<>>, todo = CheckUsers(list, members)
    PROVE  /\ Head(list) \in Users /\ Tail(list) \in Seq(Users)
           /\ Runs("check user", Head(list), CheckUsers(Tail(list), members))
           /\ Tail(list) = <<>> => CheckUsers(Tail(list), members) = OpenGroup(members)
<1>1. OpenGroup(members) \in Programs /\ "check user" \in Words
  BY GroupCuts, WordsAre
<1> QED BY <1>1, RunsEach DEF CheckUsers

LEMMA OpenGroupHead ==
    ASSUME NEW members \in Seq(Users), todo = OpenGroup(members)
    PROVE  Runs("begin", NoUser, NewGroup(members))
<1>1. NewGroup(members) \in Programs /\ "begin" \in Words
  BY GroupCuts, WordsAre
<1> QED BY <1>1, RunsSql DEF OpenGroup

LEMMA NewGroupHead ==
    ASSUME NEW members \in Seq(Users), todo = NewGroup(members)
    PROVE  Runs("conversation", NoUser, AddMembers(members))
<1>1. AddMembers(members) \in Programs /\ "conversation" \in Words
  BY GroupCuts, WordsAre
<1> QED BY <1>1, RunsSql DEF NewGroup

LEMMA ClosingProgram == Closing \in Programs /\ Closing # <<>>
<1>1. Sql("commit") \in Statement /\ <<>> \in Seq(Statement)
  BY IsStatement, WordsAre, NoProgram DEF Programs
<1> QED BY <1>1, ConsProperties DEF Closing, Programs

LEMMA MemberHead ==
    ASSUME NEW members \in Seq(Users), members # <<>>, todo = AddMembers(members)
    PROVE  /\ Head(members) \in Users /\ Tail(members) \in Seq(Users)
           /\ Runs("member", Head(members), AddMembers(Tail(members)))
           /\ Tail(members) = <<>> => AddMembers(Tail(members)) = Closing
BY RunsEach, WordsAre, ClosingProgram DEF AddMembers

OnName(name) == todo # <<>> /\ Head(todo).name = name

LEMMA GroupHeads ==
    /\ AtUserCheck => OnName("check user")
    /\ AtOpenGroup => OnName("begin")
    /\ AtNewGroup => OnName("conversation")
    /\ AtMember => OnName("member")
<1>1. ASSUME NEW name, NEW user, NEW rest, Runs(name, user, rest) PROVE OnName(name)
  BY <1>1 DEF Runs, OnName
<1>2. AtUserCheck => OnName("check user")
  BY <1>1, UserCheckHead DEF AtUserCheck
<1>3. AtOpenGroup => OnName("begin")
  BY <1>1, OpenGroupHead DEF AtOpenGroup
<1>4. AtNewGroup => OnName("conversation")
  BY <1>1, NewGroupHead DEF AtNewGroup
<1>5. AtMember => OnName("member")
  BY <1>1, MemberHead DEF AtMember
<1> QED BY <1>2, <1>3, <1>4, <1>5

\* Which stages a statement can be run at.
LEMMA StageOf ==
    ASSUME Control, Stage
    PROVE  /\ OnName("check user") => AtFirstCheck \/ AtSecondCheck \/ AtUserCheck
           /\ OnName("check members") \/ OnName("find") => \E file \in BOOLEAN : AtLocating(file)
           /\ OnName("check group") => AtGroupCheck
           /\ OnName("begin") => AtOpenGroup \/ \E file \in BOOLEAN : AtOpening(file)
           /\ OnName("commit") => AtMessageCommit \/ AtFileCommit \/ AtGroupCommit
           /\ OnName("read state") => AtState
           /\ OnName("account") => AtAccount
           /\ OnName("conversation") => AtNewGroup \/ \E file \in BOOLEAN : AtConversation(file)
           /\ OnName("member") => AtMember \/ \E file \in BOOLEAN : AtFirstMember(file) \/ AtSecondMember(file)
           /\ OnName("message") => AtGroupMessage \/ \E file \in BOOLEAN : AtMessage(file)
           /\ OnName("delivery") => \E file \in BOOLEAN : AtDelivery(file)
           /\ OnName("file") => AtFile
           /\ OnName("complete") => AtComplete
           /\ OnName("mark") => AtMark
           /\ todo = <<>> => AtRest
<1>1. ASSUME NEW name, NEW user, NEW rest, Runs(name, user, rest) PROVE OnName(name)
  BY <1>1 DEF Runs, OnName
<1>2. /\ AtAccount => OnName("account")
      /\ AtComplete => OnName("complete")
      /\ AtState => OnName("read state")
      /\ AtMark => OnName("mark")
      /\ AtGroupCheck => OnName("check group")
      /\ AtGroupMessage => OnName("message")
      /\ AtMessageCommit \/ AtFileCommit \/ AtGroupCommit => OnName("commit")
  BY <1>1, ShortHeads
<1>3. /\ AtFirstCheck \/ AtSecondCheck => OnName("check user")
      /\ AtFile => OnName("file")
  BY <1>1, PrivateHeads
<1>4. ASSUME NEW file \in BOOLEAN
      PROVE  /\ AtOpening(file) => OnName("begin")
             /\ AtLocating(file) => OnName("find") \/ OnName("check members")
             /\ AtConversation(file) => OnName("conversation")
             /\ AtFirstMember(file) \/ AtSecondMember(file) => OnName("member")
             /\ AtMessage(file) => OnName("message")
             /\ AtDelivery(file) => OnName("delivery")
  BY <1>1, PrivateHeads
<1>5. \/ AtRest
      \/ AtAccount \/ AtComplete \/ AtState \/ AtMark \/ AtGroupCheck \/ AtGroupMessage
      \/ AtFirstCheck \/ AtSecondCheck \/ AtFile \/ AtMessageCommit \/ AtFileCommit
      \/ \E file \in BOOLEAN :
            \/ AtOpening(file) \/ AtLocating(file) \/ AtConversation(file) \/ AtFirstMember(file)
            \/ AtSecondMember(file) \/ AtMessage(file) \/ AtDelivery(file)
      \/ AtUserCheck \/ AtOpenGroup \/ AtNewGroup \/ AtMember \/ AtGroupCommit
  BY DEF Stage
<1>6. \A a, b : OnName(a) /\ OnName(b) => a = b
  BY DEF OnName
<1>7. AtRest => \A a : ~OnName(a)
  BY DEF AtRest, OnName
<1>8. todo = <<>> => \A a : ~OnName(a)
  BY DEF OnName
<1> QED BY <1>2, <1>3, <1>4, <1>5, <1>6, <1>7, <1>8, GroupHeads

-----------------------------------------------------------------------------
(* Steps that change no table.                                             *)

LEMMA ControlKept ==
    ASSUME Control, data' \in {data, work}, work' \in {data, work}, next' = next,
           call' \in CallType, inTx' \in BOOLEAN, link' \in {"up", "lost"}
    PROVE  Control'
BY DEF Control

LEMMA NoCallTyped == NoCall \in CallType /\ \A c \in CallType : c # NoCall \/ c.from = NoUser
BY DEF NoCall, Call, CallType, DeliveryStates

LEMMA EndAtRest ==
    ASSUME Control, NEW e, Ends(e), next' \in [IdTables -> Nat \ {0}], Fits(e, next'), link' \in {"up", "lost"}
    PROVE  Control' /\ AtRest' /\ Stage'
<1>1. todo' = <<>> /\ call' = NoCall /\ inTx' = FALSE /\ work' = e /\ data' = e
  BY DEF Ends
<1>2. AtRest'
  BY <1>1 DEF AtRest, Quiet
<1>3. Control'
  BY <1>1, NoCallTyped DEF Control
<1> QED BY <1>2, <1>3 DEF Stage

LEMMA GiveUpAdvances ==
    ASSUME Control, GiveUp
    PROVE  Advances
<1>1. Control' /\ Stage'
  <2>1. next' = next /\ link' = link /\ Ends(data)
    BY DEF GiveUp
  <2> QED BY <2>1, EndAtRest DEF Control
<1>2. Refines
  <2>1. data' = data /\ answer' = Interface!Failed
    BY DEF GiveUp, Ends
  <2> QED BY <2>1 DEF Refines, Interface!Next, Interface!Refuse
<1> QED BY <1>1, <1>2 DEF Advances

LEMMA GoesOnTo ==
    ASSUME NEW request, NEW rest, GoesOn(request, rest), rest # <<>>
    PROVE  todo' = rest /\ call' = request /\ answer' = answer /\ link' = link
BY DEF GoesOn

LEMMA GoesOnToEnd ==
    ASSUME NEW request, GoesOn(request, <<>>)
    PROVE  todo' = <<>> /\ call' = NoCall /\ answer' = Interface!Ok(request.out) /\ link' = link
BY DEF GoesOn

\* A step that leaves the committed tables and the answer alone.
LEMMA QuietAdvance ==
    ASSUME Control, data' = data, work' = work, next' = next, answer' = answer, link' = link,
           call' \in CallType, inTx' \in BOOLEAN, Stage'
    PROVE  Advances
<1>1. Control'
  BY ControlKept DEF Control
<1> QED BY <1>1 DEF Advances, Refines

LEMMA BeginAdvances ==
    ASSUME Control, Stage, Begin
    PROVE  Advances
<1>1. OnName("begin") /\ inTx' = TRUE /\ GoesOn(call, Tail(todo)) /\ data' = data /\ work' = work /\ next' = next
  BY DEF Begin, NextIs, Idle, OnName
<1>2. call \in CallType
  BY DEF Control
<1>3. ASSUME NEW file \in BOOLEAN, AtOpening(file) PROVE Advances
  <2>1. Tail(todo) = Locating(call.conv, file)
    BY <1>3, PrivateHeads DEF Runs
  <2>2. Locating(call.conv, file) # <<>>
    <3>1. Locating(call.conv, file) \in Programs /\ AfterConv(file) \in Programs
      BY <1>2, <1>3, PrivateCuts DEF AtOpening, Asked, Pair, CallType
    <3>2. Sql("find") \in Statement /\ Sql("check members") \in Statement
      BY IsStatement, WordsAre
    <3> QED BY <3>1, <3>2, NotEmpty DEF Locating
  <2>3. todo' = Locating(call.conv, file) /\ call' = call /\ answer' = answer /\ link' = link
    BY <1>1, <2>1, <2>2, GoesOnTo
  <2>4. AtLocating(file)'
    BY <1>1, <1>3, <2>3 DEF AtOpening, AtLocating, Quiet, Opened, Asked, Pair
  <2> QED BY <1>1, <1>2, <2>3, <2>4, QuietAdvance DEF Stage
<1>4. ASSUME AtOpenGroup PROVE Advances
  <2>1. PICK members \in Seq(Users) : Several(Listed(members)) /\ todo = OpenGroup(members)
    BY <1>4 DEF AtOpenGroup
  <2>2. Tail(todo) = NewGroup(members)
    BY <2>1, OpenGroupHead DEF Runs
  <2>3. NewGroup(members) # <<>>
    BY GroupCuts, IsStatement, WordsAre, NotEmpty DEF NewGroup
  <2>4. todo' = NewGroup(members) /\ call' = call /\ answer' = answer /\ link' = link
    BY <1>1, <2>2, <2>3, GoesOnTo
  <2>5. AtNewGroup'
    BY <1>1, <1>4, <2>1, <2>4 DEF AtOpenGroup, AtNewGroup, Quiet, Opened, OfGroup
  <2> QED BY <1>1, <1>2, <2>4, <2>5, QuietAdvance DEF Stage
<1> QED BY <1>1, <1>3, <1>4, StageOf

LEMMA LeastInSet ==
    ASSUME NEW T \in SUBSET Nat, T # {}
    PROVE  Least(T) \in T /\ Least(T) \in Nat
<1>1. \E x \in T : \A y \in T : ~ (<<y, x>> \in OpToRel(<, Nat))
  BY NatLessThanWellFounded, WFMin
<1>2. PICK x \in T : \A y \in T : ~ (<<y, x>> \in OpToRel(<, Nat))
  BY <1>1
<1>3. \A y \in T : x <= y
  <2> SUFFICES ASSUME NEW y \in T PROVE x <= y
    OBVIOUS
  <2>1. ~ (<<y, x>> \in OpToRel(<, Nat))
    BY <1>2
  <2>2. x \in Nat /\ y \in Nat
    OBVIOUS
  <2>3. ~ (y < x)
    BY <2>1, <2>2 DEF OpToRel
  <2> QED BY <2>2, <2>3
<1> QED BY <1>3 DEF Least

LEMMA FollowingPrograms ==
    ASSUME NEW a \in Users, NEW b \in Users, NEW named \in Nat, NEW file \in BOOLEAN
    PROVE  /\ SecondCheck(b, named) # <<>> /\ Opening(named, file) # <<>>
           /\ NewConversation(a, b, file) # <<>> /\ FirstMember(a, b, file) # <<>>
           /\ SecondMember(b, file) # <<>> /\ AfterConv(file) # <<>>
           /\ AfterMessage(file) # <<>> /\ AfterDelivery(file) # <<>>
<1>1. /\ Sql("file") \in Statement /\ Sql("delivery") \in Statement /\ Sql("message") \in Statement
      /\ Sql("conversation") \in Statement /\ Sql("begin") \in Statement
      /\ SqlFor("member", a) \in Statement /\ SqlFor("member", b) \in Statement
      /\ SqlFor("check user", b) \in Statement
  BY IsStatement, WordsAre
<1>2. /\ AfterDelivery(file) \in Programs /\ AfterMessage(file) \in Programs
      /\ AfterConv(file) \in Programs /\ SecondMember(b, file) \in Programs
      /\ FirstMember(a, b, file) \in Programs /\ Locating(named, file) \in Programs
  BY PrivateCuts
<1>3. Opening(named, FALSE) \in Programs
  BY PrivateCuts
<1>4. SecondCheck(b, named) # <<>>
  BY <1>1, <1>3, NotEmpty DEF SecondCheck
<1>5. Opening(named, file) # <<>>
  BY <1>1, <1>2, NotEmpty DEF Opening
<1>6. NewConversation(a, b, file) # <<>>
  BY <1>1, <1>2, NotEmpty DEF NewConversation
<1>7. FirstMember(a, b, file) # <<>>
  BY <1>1, <1>2, NotEmpty DEF FirstMember
<1>8. SecondMember(b, file) # <<>>
  BY <1>1, <1>2, NotEmpty DEF SecondMember
<1>9. AfterConv(file) # <<>>
  BY <1>1, <1>2, NotEmpty DEF AfterConv
<1>10. AfterMessage(file) # <<>>
  BY <1>1, <1>2, NotEmpty DEF AfterMessage
<1>11. AfterDelivery(file) # <<>>
  BY <1>1, ClosingProgram, NotEmpty DEF AfterDelivery
<1> QED BY <1>4, <1>5, <1>6, <1>7, <1>8, <1>9, <1>10, <1>11

LEMMA FollowingGroups ==
    ASSUME NEW list \in Seq(Users), NEW members \in Seq(Users)
    PROVE  /\ OpenGroup(members) # <<>>
           /\ list # <<>> => CheckUsers(list, members) # <<>>
           /\ AddMembers(members) # <<>>
<1>1. OpenGroup(members) # <<>>
  BY GroupCuts, IsStatement, WordsAre, NotEmpty DEF OpenGroup
<1>2. ASSUME list # <<>> PROVE CheckUsers(list, members) # <<>>
  <2>1. /\ Head(list) \in Users /\ Tail(list) \in Seq(Users)
        /\ CheckUsers(list, members) = Cons(SqlFor("check user", Head(list)), CheckUsers(Tail(list), members))
    <3>1. OpenGroup(members) \in Seq(Statement) /\ "check user" \in Words
      BY GroupCuts, WordsAre DEF Programs
    <3> QED BY <1>2, <3>1, EachProperties DEF CheckUsers
  <2> QED BY <2>1, GroupCuts, IsStatement, WordsAre, NotEmpty
<1>3. AddMembers(members) # <<>>
  <2>1. CASE members = <<>>
    BY <2>1, ClosingProgram, WordsAre, EachProperties, ZenonT(40) DEF AddMembers, Programs
  <2>2. CASE members # <<>>
    <3>1. /\ Head(members) \in Users /\ Tail(members) \in Seq(Users)
          /\ AddMembers(members) = Cons(SqlFor("member", Head(members)), AddMembers(Tail(members)))
      BY <2>2, ClosingProgram, WordsAre, EachProperties, ZenonT(40) DEF AddMembers, Programs
    <3> QED BY <3>1, GroupCuts, IsStatement, WordsAre, NotEmpty
  <2> QED BY <2>1, <2>2
<1> QED BY <1>1, <1>2, <1>3

LEMMA CheckAdvances ==
    ASSUME Control, Stage, Check
    PROVE  Advances
<1>1. CASE GiveUp
  BY <1>1, GiveUpAdvances
<1>2. CASE /\ Passes(Head(todo)) /\ GoesOn(call, Tail(todo))
           /\ data' = data /\ work' = work /\ next' = next /\ inTx' = inTx
  <2>1. OnName("check user") \/ OnName("check members") \/ OnName("check group")
    BY DEF Check, NextIs, Idle, OnName
  <2>2. call \in CallType /\ call.conv \in Nat /\ inTx \in BOOLEAN
    BY DEF Control, CallType
  <2>3. ASSUME NEW rest, Tail(todo) = rest, rest # <<>>
        PROVE  todo' = rest /\ call' = call /\ answer' = answer /\ link' = link
    BY <1>2, <2>3, GoesOnTo
  <2>4. ASSUME NEW rest, Tail(todo) = rest, rest # <<>>, Stage' PROVE Advances
    <3>1. call' = call /\ answer' = answer /\ link' = link
      BY <2>3, <2>4
    <3> QED BY <1>2, <2>2, <2>4, <3>1, QuietAdvance
  <2>5. ASSUME AtFirstCheck PROVE Advances
    <3>1. Tail(todo) = SecondCheck(call.to, call.conv) /\ SecondCheck(call.to, call.conv) # <<>>
      BY <2>2, <2>5, PrivateHeads, FollowingPrograms DEF Runs, AtFirstCheck, Asked, Pair
    <3>2. AtSecondCheck'
      BY <1>2, <2>3, <2>5, <3>1 DEF AtFirstCheck, AtSecondCheck, Quiet, Asked, Pair
    <3> QED BY <2>4, <3>1, <3>2 DEF Stage
  <2>6. ASSUME AtSecondCheck PROVE Advances
    <3>1. Tail(todo) = Opening(call.conv, FALSE) /\ Opening(call.conv, FALSE) # <<>>
      BY <2>2, <2>6, PrivateHeads, FollowingPrograms DEF Runs, AtSecondCheck, Asked, Pair
    <3>2. AtOpening(FALSE)'
      BY <1>2, <2>3, <2>6, <3>1 DEF AtSecondCheck, AtOpening, Quiet, Asked, Pair
    <3> QED BY <2>4, <3>1, <3>2 DEF Stage
  <2>7. ASSUME AtUserCheck PROVE Advances
    <3>1. PICK list, members \in Seq(Users) :
             list # <<>> /\ Several(Listed(members)) /\ todo = CheckUsers(list, members)
      BY <2>7 DEF AtUserCheck
    <3>2. /\ Tail(list) \in Seq(Users) /\ Tail(todo) = CheckUsers(Tail(list), members)
          /\ Tail(list) = <<>> => CheckUsers(Tail(list), members) = OpenGroup(members)
      BY <3>1, UserCheckHead DEF Runs
    <3>3. CASE Tail(list) = <<>>
      <4>1. Tail(todo) = OpenGroup(members) /\ OpenGroup(members) # <<>>
        BY <3>2, <3>3, FollowingGroups
      <4>2. AtOpenGroup'
        BY <1>2, <2>3, <2>7, <3>1, <4>1 DEF AtUserCheck, AtOpenGroup, Quiet, OfGroup
      <4> QED BY <2>4, <4>1, <4>2 DEF Stage
    <3>4. CASE Tail(list) # <<>>
      <4>1. CheckUsers(Tail(list), members) # <<>>
        BY <3>2, <3>4, FollowingGroups
      <4>2. AtUserCheck'
        <5>1. todo' = CheckUsers(Tail(list), members) /\ call' = call
          BY <2>3, <3>2, <4>1
        <5>2. Quiet' /\ OfGroup'
          BY <1>2, <2>7, <5>1 DEF AtUserCheck, Quiet, OfGroup
        <5> QED BY <3>1, <3>2, <3>4, <5>1, <5>2 DEF AtUserCheck
      <4> QED BY <2>4, <3>2, <4>1, <4>2 DEF Stage
    <3> QED BY <3>3, <3>4
  <2>8. ASSUME NEW file \in BOOLEAN, AtLocating(file), OnName("check members") PROVE Advances
    <3>1. call.conv # 0 /\ Tail(todo) = AfterConv(file)
      <4>1. Runs(IF call.conv = 0 THEN "find" ELSE "check members", NoUser, AfterConv(file))
        BY <2>8, PrivateHeads
      <4>2. call.conv = 0 => Runs("find", NoUser, AfterConv(file))
        BY <4>1
      <4>3. call.conv # 0 => Runs("check members", NoUser, AfterConv(file))
        BY <4>1
      <4>4. ASSUME call.conv = 0 PROVE FALSE
        <5>1. Head(todo).name = "find"
          BY <4>2, <4>4 DEF Runs
        <5> QED BY <2>8, <5>1 DEF OnName
      <4>5. Runs("check members", NoUser, AfterConv(file))
        BY <4>3, <4>4
      <4> QED BY <4>4, <4>5 DEF Runs
    <3>2. AfterConv(file) # <<>>
      BY <2>2, <2>8, FollowingPrograms DEF AtLocating, Asked, Pair
    <3>3. Named # {0}
      BY <2>8, <3>1 DEF AtLocating, Asked
    <3>4. AtMessage(file)'
      BY <1>2, <2>3, <2>8, <3>1, <3>2, <3>3
         DEF AtLocating, AtMessage, Opened, OnlyConvs, Asked, Pair, ConvReady
    <3> QED BY <2>4, <3>1, <3>2, <3>4 DEF Stage
  <2>9. ASSUME AtGroupCheck, OnName("check group") PROVE Advances
    <3>1. Tail(todo) = <<Sql("message")>> /\ <<Sql("message")>> # <<>>
      BY <2>9, ShortHeads DEF Runs
    <3>2. call.conv \in GroupsOf(work, call.from)
      BY <1>2, <2>9 DEF Passes, OnName
    <3>3. AtGroupMessage'
      BY <1>2, <2>3, <2>9, <3>1, <3>2 DEF AtGroupCheck, AtGroupMessage, ToGroup, Quiet
    <3> QED BY <2>4, <3>1, <3>3 DEF Stage
  <2>10. AtFirstCheck \/ AtSecondCheck \/ AtUserCheck \/ (\E file \in BOOLEAN : AtLocating(file) /\ OnName("check members"))
         \/ (AtGroupCheck /\ OnName("check group"))
    BY <2>1, StageOf
  <2> QED BY <2>5, <2>6, <2>7, <2>8, <2>9, <2>10
<1> QED BY <1>1, <1>2 DEF Check

LEMMA FindAdvances ==
    ASSUME Inv, FindConversation
    PROVE  Advances
<1> DEFINE found == {c \in DOMAIN work.convs :
                        ~work.convs[c].group /\ {call.from, call.to} \subseteq work.convs[c].members}
<1>1. /\ OnName("find") /\ data' = data /\ work' = work /\ inTx' = inTx /\ next' = next
      /\ \/ found # {} /\ GoesOn([call EXCEPT !.conv = Least(found)], Tail(todo))
         \/ /\ found = {}
            /\ GoesOn(call, <<Sql("conversation")>>
                            \o SqlForEach("member", <<call.from, call.to>>) \o Tail(todo))
  BY DEF FindConversation, NextIs, Idle, OnName
<1>2. Control /\ Stage /\ call \in CallType /\ call.conv \in Nat /\ inTx \in BOOLEAN
  BY DEF Inv, Control, CallType
<1>3. PICK file \in BOOLEAN : AtLocating(file)
  BY <1>1, <1>2, StageOf
<1>4. Opened /\ Asked /\ Pair /\ call.from \in Users /\ call.to \in Users
  BY <1>3 DEF AtLocating, Asked, Pair
<1>5. Tail(todo) = AfterConv(file)
  <2>1. Runs(IF call.conv = 0 THEN "find" ELSE "check members", NoUser, AfterConv(file))
    BY <1>2, <1>3, PrivateHeads
  <2> QED BY <2>1 DEF Runs
<1>6. AfterConv(file) # <<>> /\ NewConversation(call.from, call.to, file) # <<>>
  BY <1>2, <1>4, FollowingPrograms
<1>7. found \in SUBSET Nat
  BY <1>2 DEF Control, Fits, Below, Drawable
<1>8. CASE found # {} /\ GoesOn([call EXCEPT !.conv = Least(found)], Tail(todo))
  <2> DEFINE c == Least(found)
  <2>1. c \in found /\ c \in Nat
    BY <1>7, <1>8, LeastInSet
  <2>2. GoesOn([call EXCEPT !.conv = c], AfterConv(file))
    BY <1>5, <1>8
  <2>3. Named = {0} => c \in Private(data, call.from, call.to)
    <3>1. ASSUME Named = {0} PROVE c \in Private(data, call.from, call.to)
      <4>1. Promises!ConvsKnown(data) /\ work = data
        BY <1>4, <3>1, SMTT(30) DEF Inv, Promises!Sound, Opened
      <4>2. c \in DOMAIN data.convs /\ ~data.convs[c].group /\ {call.from, call.to} \subseteq data.convs[c].members
        BY <2>1, <4>1, ZenonT(40)
      <4>3. PICK a, b \in Users : data.convs[c].members = {a, b}
        BY <4>1, <4>2 DEF Promises!ConvsKnown, Promises!ConvKnown
      <4>4. data.convs[c].members = {call.from, call.to}
        BY <1>4, <4>2, <4>3 DEF Pair
      <4> QED BY <4>2, <4>4 DEF Private
    <3> QED BY <3>1
  <2> HIDE DEF c
  <2>4. todo' = AfterConv(file) /\ call' = [call EXCEPT !.conv = c] /\ answer' = answer /\ link' = link
    BY <1>6, <2>2, GoesOnTo
  <2>5. call' \in CallType /\ call'.from = call.from /\ call'.to = call.to /\ call'.group = call.group /\ call'.conv = c
    BY <1>2, <2>1, <2>4 DEF CallType
  <2>6. AtMessage(file)'
    <3>1. OnlyConvs' /\ Pair'
      BY <1>1, <1>4, <2>5 DEF Opened, OnlyConvs, Pair
    <3>2. ConvReady'
      <4>1. CASE Named = {0}
        BY <1>1, <1>4, <2>3, <2>5, <4>1 DEF ConvReady, Opened
      <4>2. CASE Named # {0}
        BY <4>2 DEF ConvReady
      <4> QED BY <4>1, <4>2
    <3> QED BY <2>4, <3>1, <3>2 DEF AtMessage
  <2> QED BY <1>1, <1>2, <2>4, <2>5, <2>6, QuietAdvance DEF Stage
<1>9. CASE /\ found = {}
           /\ GoesOn(call, <<Sql("conversation")>> \o SqlForEach("member", <<call.from, call.to>>) \o Tail(todo))
  <2>1. GoesOn(call, NewConversation(call.from, call.to, file))
    BY <1>4, <1>5, <1>9, FoundNone, ZenonT(40)
  <2>2. todo' = NewConversation(call.from, call.to, file) /\ call' = call /\ answer' = answer /\ link' = link
    BY <1>6, <2>1, GoesOnTo
  <2>3. Unpaired
    BY <1>4, <1>9 DEF Unpaired, Private, Opened
  <2>4. AtConversation(file)'
    <3>1. Opened' /\ Pair' /\ Unpaired'
      BY <1>1, <1>4, <2>2, <2>3 DEF Opened, Pair, Unpaired
    <3> QED BY <2>2, <3>1 DEF AtConversation
  <2> QED BY <1>1, <1>2, <2>2, <2>4, QuietAdvance DEF Stage
<1> QED BY <1>1, <1>8, <1>9

-----------------------------------------------------------------------------
(* The interface, and its copy in StorageProofs.                           *)

LEMMA SameQueries ==
    /\ \A d, a, b : Interface!Private(d, a, b) = Private(d, a, b) /\ Promises!Private(d, a, b) = Private(d, a, b)
    /\ \A d, u : Interface!GroupsOf(d, u) = GroupsOf(d, u) /\ Promises!GroupsOf(d, u) = GroupsOf(d, u)
BY DEF Interface!Private, Promises!Private, Private, Interface!GroupsOf, Promises!GroupsOf, GroupsOf

LEMMA SameCardinality ==
    \A S : Interface!Cardinality(S) = Cardinality(S) /\ Promises!Cardinality(S) = Cardinality(S)
BY DEF Interface!Cardinality, Promises!Cardinality, Cardinality

LEMMA SameWrites ==
    /\ \A t, u, id, row : /\ Interface!GrownBy(t, u, id, row) <=> GrownBy(t, u, id, row)
                          /\ Promises!GrownBy(t, u, id, row) <=> GrownBy(t, u, id, row)
    /\ \A T : Interface!Keeps(T) <=> Promises!Keeps(T)
    /\ \A id : Interface!Answers(id) <=> Promises!Answers(id)
<1>1. ASSUME NEW t, NEW u, NEW id, NEW row
      PROVE  /\ Interface!GrownBy(t, u, id, row) <=> GrownBy(t, u, id, row)
             /\ Promises!GrownBy(t, u, id, row) <=> GrownBy(t, u, id, row)
  BY DEF Interface!GrownBy, Promises!GrownBy, GrownBy, Interface!With, Promises!With, With
<1>2. ASSUME NEW T
      PROVE  Interface!Keeps(T) <=> Promises!Keeps(T)
  BY DEF Interface!Keeps, Promises!Keeps
<1>3. ASSUME NEW id
      PROVE  Interface!Answers(id) <=> Promises!Answers(id)
  BY DEF Interface!Answers, Promises!Answers, Interface!Ok, Promises!Ok, Interface!Failed, Promises!Failed
<1> QED BY <1>1, <1>2, <1>3

LEMMA SameRows ==
    /\ \A g, m : Interface!Conv(g, m) = Conv(g, m) /\ Promises!Conv(g, m) = Conv(g, m)
    /\ \A c, a, b : Interface!Message(c, a, b) = Message(c, a, b) /\ Promises!Message(c, a, b) = Message(c, a, b)
    /\ \A m, b : Interface!Delivery(m, b) = Delivery(m, b) /\ Promises!Delivery(m, b) = Delivery(m, b)
    /\ \A m, a, b : Interface!File(m, a, b) = File(m, a, b) /\ Promises!File(m, a, b) = File(m, a, b)
    /\ \A o, n : /\ Interface!MayFollow(o, n) <=> MayFollow(o, n)
                 /\ Promises!MayFollow(o, n) <=> MayFollow(o, n)
    /\ Interface!DeliveryStates = DeliveryStates /\ Promises!DeliveryStates = DeliveryStates
BY DEF Interface!Conv, Promises!Conv, Conv, Interface!Message, Promises!Message, Message,
       Interface!Delivery, Promises!Delivery, Delivery, Interface!File, Promises!File, File,
       Interface!MayFollow, Promises!MayFollow, MayFollow,
       Interface!DeliveryStates, Promises!DeliveryStates, DeliveryStates

LEMMA SameConsistent == \A d : Promises!Consistent(d) <=> Consistent(d)
<1> SUFFICES ASSUME NEW d PROVE Promises!Consistent(d) <=> Consistent(d)
  OBVIOUS
<1> QED BY SameQueries, SameCardinality DEF Promises!Consistent, Consistent

LEMMA SameSteps ==
    /\ Interface!Init <=> Promises!Init
    /\ Interface!Next <=> Promises!Next
<1>1. Interface!Init <=> Promises!Init
  BY DEF Interface!Init, Promises!Init, Interface!EmptyTables, Promises!EmptyTables, Interface!NoAnswer,
         Promises!NoAnswer, Interface!NoRows, Promises!NoRows
<1>2. Interface!Refuse <=> Promises!Refuse
  BY DEF Interface!Refuse, Promises!Refuse, Interface!Failed, Promises!Failed
<1>3. Interface!CreateAccount <=> Promises!CreateAccount
  BY SameQueries, SameWrites DEF Interface!CreateAccount, Promises!CreateAccount
<1>4. ASSUME NEW from, NEW to, NEW c, NEW m
      PROVE  Interface!PrivateStored(from, to, c, m) <=> Promises!PrivateStored(from, to, c, m)
  BY SameQueries, SameWrites, SameRows DEF Interface!PrivateStored, Promises!PrivateStored
<1>5. Interface!StorePrivateMessage <=> Promises!StorePrivateMessage
  BY <1>4, SameQueries, SameWrites DEF Interface!StorePrivateMessage, Promises!StorePrivateMessage
<1>6. Interface!StoreFileTransfer <=> Promises!StoreFileTransfer
  BY <1>4, SameQueries, SameWrites, SameRows DEF Interface!StoreFileTransfer, Promises!StoreFileTransfer
<1>7. Interface!CreateGroup <=> Promises!CreateGroup
  BY SameCardinality, SameWrites, SameRows DEF Interface!CreateGroup, Promises!CreateGroup
<1>8. Interface!StoreGroupMessage <=> Promises!StoreGroupMessage
  BY SameQueries, SameWrites, SameRows DEF Interface!StoreGroupMessage, Promises!StoreGroupMessage
<1>9. Interface!CompleteFileTransfer <=> Promises!CompleteFileTransfer
  BY SameQueries, SameWrites DEF Interface!CompleteFileTransfer, Promises!CompleteFileTransfer
<1>10. Interface!MarkDeliveryState <=> Promises!MarkDeliveryState
  BY SameQueries, SameWrites, SameRows DEF Interface!MarkDeliveryState, Promises!MarkDeliveryState
<1> QED BY <1>1, <1>2, <1>3, <1>5, <1>6, <1>7, <1>8, <1>9, <1>10 DEF Interface!Next, Promises!Next

LEMMA ReadAdvances ==
    ASSUME Inv, ReadState
    PROVE  Advances
<1>1. Control /\ Stage /\ call \in CallType /\ inTx \in BOOLEAN
  BY DEF Inv, Control
<1>2. CASE GiveUp
  BY <1>1, <1>2, GiveUpAdvances
<1> DEFINE old == work.deliveries[call.out].state
<1>3. CASE /\ OnName("read state") /\ MayFollow(old, call.state)
           /\ GoesOn(call, IF old = call.state THEN <<>> ELSE Tail(todo))
           /\ data' = data /\ work' = work /\ inTx' = inTx /\ next' = next
  <2>1. AtState
    BY <1>1, <1>3, StageOf
  <2>2. /\ Tail(todo) = <<Sql("mark")>> /\ <<Sql("mark")>> # <<>>
        /\ work = data /\ ~inTx /\ call.out \in DOMAIN data.deliveries
    BY <2>1, ShortHeads DEF Runs, AtState, Quiet
  <2>3. CASE old = call.state
    <3>1. GoesOn(call, <<>>)
      BY <1>3, <2>3
    <3>2. todo' = <<>> /\ call' = NoCall /\ answer' = Interface!Ok(call.out) /\ link' = link
      BY <3>1, GoesOnToEnd
    <3>3. AtRest'
      BY <1>3, <2>2, <3>2 DEF AtRest, Quiet
    <3>4. Control'
      BY <1>1, <1>3, <3>2, NoCallTyped, ControlKept DEF Control
    <3>5. ASSUME Named = {0} PROVE Interface!MarkDeliveryState
      <4> DEFINE t == data.deliveries
                 k == call.out
      <4>1. t = [i \in DOMAIN t |-> t[i]] /\ t[k] \in Promises!DeliveryRow
        BY <2>2, <3>5 DEF Inv, Promises!Sound, Promises!Typed, Promises!Rows
      <4>2. t[k].state = call.state
        BY <2>2, <2>3
      <4>3. [t[k] EXCEPT !.state = call.state] = t[k]
        BY <4>1, <4>2 DEF Promises!DeliveryRow
      <4> HIDE DEF t
      <4>4. [t EXCEPT ![k].state = call.state] = t
        BY <4>1, <4>3
      <4>5. call.state \in DeliveryStates /\ MayFollow(t[k].state, call.state)
        BY <1>1, <1>3, <2>2 DEF CallType, t
      <4>6. data'.deliveries = [data.deliveries EXCEPT ![k].state = call.state]
        BY <1>3, <4>4 DEF t
      <4>7. Interface!Answers(k)
        BY <3>2 DEF Interface!Answers
      <4>8. Interface!Keeps({"accounts", "convs", "messages", "files"})
        BY <1>3 DEF Interface!Keeps
      <4> QED BY <2>2, <4>5, <4>6, <4>7, <4>8, SameRows DEF Interface!MarkDeliveryState, t
    <3> QED BY <3>3, <3>4, <3>5 DEF Advances, Refines, Stage, Interface!Next
  <2>4. CASE old # call.state
    <3>1. GoesOn(call, <<Sql("mark")>>)
      BY <1>3, <2>2, <2>4
    <3>2. todo' = <<Sql("mark")>> /\ call' = call /\ answer' = answer /\ link' = link
      BY <2>2, <3>1, GoesOnTo
    <3>3. AtMark'
      BY <1>3, <2>2, <3>2 DEF AtMark, Quiet
    <3> QED BY <1>1, <1>3, <3>2, <3>3, QuietAdvance DEF Stage
  <2> QED BY <2>3, <2>4
<1> QED BY <1>2, <1>3 DEF ReadState, NextIs, Idle, OnName

-----------------------------------------------------------------------------
(* The tables after a statement that writes.                               *)

Has(d, a, c, m, k, f) ==
    /\ d = [accounts |-> a, convs |-> c, messages |-> m, deliveries |-> k, files |-> f]
    /\ d.accounts = a /\ d.convs = c /\ d.messages = m /\ d.deliveries = k /\ d.files = f

LEMMA TablesHave ==
    ASSUME NEW d, IsTables(d)
    PROVE  Has(d, d.accounts, d.convs, d.messages, d.deliveries, d.files)
BY DEF IsTables, Has

LEMMA HaveTables ==
    ASSUME NEW d, NEW a, NEW c, NEW m, NEW k, NEW f, Has(d, a, c, m, k, f)
    PROVE  IsTables(d)
BY DEF IsTables, Has

LEMMA OneTable ==
    ASSUME NEW d, IsTables(d), NEW x
    PROVE  /\ Has([d EXCEPT !.accounts = x], x, d.convs, d.messages, d.deliveries, d.files)
           /\ Has([d EXCEPT !.convs = x], d.accounts, x, d.messages, d.deliveries, d.files)
           /\ Has([d EXCEPT !.messages = x], d.accounts, d.convs, x, d.deliveries, d.files)
           /\ Has([d EXCEPT !.deliveries = x], d.accounts, d.convs, d.messages, x, d.files)
           /\ Has([d EXCEPT !.files = x], d.accounts, d.convs, d.messages, d.deliveries, x)
<1>1. PICK a, c, m, k, f :
         d = [accounts |-> a, convs |-> c, messages |-> m, deliveries |-> k, files |-> f]
  BY DEF IsTables
<1>2. Has([d EXCEPT !.accounts = x], x, d.convs, d.messages, d.deliveries, d.files)
  BY <1>1 DEF Has
<1>3. Has([d EXCEPT !.convs = x], d.accounts, x, d.messages, d.deliveries, d.files)
  BY <1>1 DEF Has
<1>4. Has([d EXCEPT !.messages = x], d.accounts, d.convs, x, d.deliveries, d.files)
  BY <1>1 DEF Has
<1>5. Has([d EXCEPT !.deliveries = x], d.accounts, d.convs, d.messages, x, d.files)
  BY <1>1 DEF Has
<1>6. Has([d EXCEPT !.files = x], d.accounts, d.convs, d.messages, d.deliveries, x)
  BY <1>1 DEF Has
<1> QED BY <1>2, <1>3, <1>4, <1>5, <1>6

LEMMA AccountWritten ==
    ASSUME NEW sql, IsTables(work), sql.name = "account"
    PROVE  Has(Written(sql), work.accounts \cup {call.from}, work.convs, work.messages, work.deliveries, work.files)
<1> DEFINE x == work.accounts \cup {call.from}
<1>1. Written(sql) = [work EXCEPT !.accounts = x]
  BY WrittenIs
<1> HIDE DEF x
<1>2. Has([work EXCEPT !.accounts = x], x, work.convs, work.messages, work.deliveries, work.files)
  BY OneTable
<1> QED BY <1>1, <1>2 DEF x

LEMMA ConversationWritten ==
    ASSUME NEW sql, IsTables(work), sql.name = "conversation"
    PROVE  Has(Written(sql), work.accounts, With(work.convs, next.convs, Conv(call.group, {})), work.messages, work.deliveries, work.files)
<1> DEFINE x == With(work.convs, next.convs, Conv(call.group, {}))
<1>1. Written(sql) = [work EXCEPT !.convs = x]
  BY WrittenIs
<1> HIDE DEF x
<1>2. Has([work EXCEPT !.convs = x], work.accounts, x, work.messages, work.deliveries, work.files)
  BY OneTable
<1> QED BY <1>1, <1>2 DEF x

LEMMA MemberWritten ==
    ASSUME NEW sql, IsTables(work), sql.name = "member"
    PROVE  Has(Written(sql), work.accounts, [work.convs EXCEPT ![call.conv].members = @ \cup {sql.user}], work.messages, work.deliveries, work.files)
<1> DEFINE x == [work.convs EXCEPT ![call.conv].members = @ \cup {sql.user}]
<1>1. Written(sql) = [work EXCEPT !.convs = x]
  BY WrittenIs
<1> HIDE DEF x
<1>2. Has([work EXCEPT !.convs = x], work.accounts, x, work.messages, work.deliveries, work.files)
  BY OneTable
<1> QED BY <1>1, <1>2 DEF x

LEMMA MessageWritten ==
    ASSUME NEW sql, IsTables(work), sql.name = "message"
    PROVE  Has(Written(sql), work.accounts, work.convs, With(work.messages, next.messages, Message(call.conv, call.from, call.to)), work.deliveries, work.files)
<1> DEFINE x == With(work.messages, next.messages, Message(call.conv, call.from, call.to))
<1>1. Written(sql) = [work EXCEPT !.messages = x]
  BY WrittenIs
<1> HIDE DEF x
<1>2. Has([work EXCEPT !.messages = x], work.accounts, work.convs, x, work.deliveries, work.files)
  BY OneTable
<1> QED BY <1>1, <1>2 DEF x

LEMMA DeliveryWritten ==
    ASSUME NEW sql, IsTables(work), sql.name = "delivery"
    PROVE  Has(Written(sql), work.accounts, work.convs, work.messages, With(work.deliveries, next.deliveries, Delivery(call.message, call.to)), work.files)
<1> DEFINE x == With(work.deliveries, next.deliveries, Delivery(call.message, call.to))
<1>1. Written(sql) = [work EXCEPT !.deliveries = x]
  BY WrittenIs
<1> HIDE DEF x
<1>2. Has([work EXCEPT !.deliveries = x], work.accounts, work.convs, work.messages, x, work.files)
  BY OneTable
<1> QED BY <1>1, <1>2 DEF x

LEMMA FileWritten ==
    ASSUME NEW sql, IsTables(work), sql.name = "file"
    PROVE  Has(Written(sql), work.accounts, work.convs, work.messages, work.deliveries, With(work.files, next.files, File(call.message, call.from, call.to)))
<1> DEFINE x == With(work.files, next.files, File(call.message, call.from, call.to))
<1>1. Written(sql) = [work EXCEPT !.files = x]
  BY WrittenIs
<1> HIDE DEF x
<1>2. Has([work EXCEPT !.files = x], work.accounts, work.convs, work.messages, work.deliveries, x)
  BY OneTable
<1> QED BY <1>1, <1>2 DEF x

LEMMA CompleteWritten ==
    ASSUME NEW sql, IsTables(work), sql.name = "complete"
    PROVE  Has(Written(sql), work.accounts, work.convs, work.messages, work.deliveries, [work.files EXCEPT ![call.out].state = "completed"])
<1> DEFINE x == [work.files EXCEPT ![call.out].state = "completed"]
<1>1. Written(sql) = [work EXCEPT !.files = x]
  BY WrittenIs
<1> HIDE DEF x
<1>2. Has([work EXCEPT !.files = x], work.accounts, work.convs, work.messages, work.deliveries, x)
  BY OneTable
<1> QED BY <1>1, <1>2 DEF x

LEMMA MarkWritten ==
    ASSUME NEW sql, IsTables(work), sql.name = "mark"
    PROVE  Has(Written(sql), work.accounts, work.convs, work.messages, [work.deliveries EXCEPT ![call.out].state = call.state], work.files)
<1> DEFINE x == [work.deliveries EXCEPT ![call.out].state = call.state]
<1>1. Written(sql) = [work EXCEPT !.deliveries = x]
  BY WrittenIs
<1> HIDE DEF x
<1>2. Has([work EXCEPT !.deliveries = x], work.accounts, work.convs, work.messages, x, work.files)
  BY OneTable
<1> QED BY <1>1, <1>2 DEF x

\* A row with a counter's id is a new one.
LEMMA Grows ==
    ASSUME NEW t, NEW id \in Nat \ {0}, NEW row, Drawable(t, id)
    PROVE  /\ GrownBy(t, With(t, id, row), id, row) /\ id \in DOMAIN With(t, id, row)
           /\ Drawable(With(t, id, row), id + 1)
<1>1. DOMAIN With(t, id, row) = DOMAIN t \cup {id}
  BY DEF With
<1> QED BY <1>1 DEF GrownBy, Drawable

LEMMA DrawnIs ==
    ASSUME NEW sql, next \in [IdTables -> Nat \ {0}]
    PROVE  /\ Drawn(sql) \in [IdTables -> Nat \ {0}]
           /\ Drawn(sql).convs = IF "convs" \in Draws(sql) THEN next.convs + 1 ELSE next.convs
           /\ Drawn(sql).messages = IF "messages" \in Draws(sql) THEN next.messages + 1 ELSE next.messages
           /\ Drawn(sql).deliveries = IF "deliveries" \in Draws(sql) THEN next.deliveries + 1 ELSE next.deliveries
           /\ Drawn(sql).files = IF "files" \in Draws(sql) THEN next.files + 1 ELSE next.files
<1>1. Drawn(sql) \in [IdTables -> Nat \ {0}]
  BY DEF Drawn
<1>2. "convs" \in IdTables /\ "messages" \in IdTables /\ "deliveries" \in IdTables /\ "files" \in IdTables
  BY DEF IdTables
<1> QED BY <1>1, <1>2 DEF Drawn

LEMMA DrawsFrom ==
    ASSUME NEW sql
    PROVE  /\ sql.name = "conversation" => "convs" \in Draws(sql)
           /\ sql.name = "message" => "messages" \in Draws(sql)
           /\ sql.name = "delivery" => "deliveries" \in Draws(sql)
           /\ sql.name = "file" => "files" \in Draws(sql)
BY DEF Draws

LEMMA DrawableLater ==
    ASSUME NEW t, NEW n \in Nat \ {0}, Drawable(t, n)
    PROVE  Drawable(t, n + 1)
BY DEF Drawable

LEMMA FitsLater ==
    ASSUME NEW d, NEW sql, next \in [IdTables -> Nat \ {0}], Fits(d, next)
    PROVE  Fits(d, Drawn(sql))
<1>1. "convs" \in IdTables /\ "messages" \in IdTables /\ "deliveries" \in IdTables /\ "files" \in IdTables
  BY DEF IdTables
<1>2. next.convs \in Nat \ {0} /\ next.messages \in Nat \ {0} /\ next.deliveries \in Nat \ {0} /\ next.files \in Nat \ {0}
  BY <1>1
<1>3. Below(d, next)
  BY DEF Fits
<1>4. Drawable(d.convs, Drawn(sql).convs)
  BY <1>2, <1>3, DrawnIs, DrawableLater DEF Below
<1>5. Drawable(d.messages, Drawn(sql).messages)
  BY <1>2, <1>3, DrawnIs, DrawableLater DEF Below
<1>6. Drawable(d.deliveries, Drawn(sql).deliveries)
  BY <1>2, <1>3, DrawnIs, DrawableLater DEF Below
<1>7. Drawable(d.files, Drawn(sql).files)
  BY <1>2, <1>3, DrawnIs, DrawableLater DEF Below
<1> QED BY <1>4, <1>5, <1>6, <1>7 DEF Fits, Below

LEMMA FitsHas ==
    ASSUME NEW d, NEW n, NEW a, NEW c, NEW m, NEW k, NEW f, Has(d, a, c, m, k, f), a \subseteq Users,
           Drawable(c, n.convs), Drawable(m, n.messages), Drawable(k, n.deliveries), Drawable(f, n.files)
    PROVE  Fits(d, n)
BY HaveTables DEF Has, Fits, Below

LEMMA WrittenFits ==
    ASSUME Control, NEW sql, sql.name \in Writes, sql.name = "account" => call.from \in Users
    PROVE  Fits(Written(sql), Drawn(sql))
<1> DEFINE n == Drawn(sql)
           w == Written(sql)
<1>1. /\ IsTables(work) /\ work.accounts \subseteq Users
      /\ next.convs \in Nat \ {0} /\ next.messages \in Nat \ {0} /\ next.deliveries \in Nat \ {0} /\ next.files \in Nat \ {0}
  <2>1. "convs" \in IdTables /\ "messages" \in IdTables /\ "deliveries" \in IdTables /\ "files" \in IdTables
    BY DEF IdTables
  <2> QED BY <2>1 DEF Control, Fits
<1>2. Fits(work, n) /\ Drawable(work.convs, next.convs) /\ Drawable(work.messages, next.messages)
      /\ Drawable(work.deliveries, next.deliveries) /\ Drawable(work.files, next.files)
  BY FitsLater DEF Control, Fits, Below
<1>12. /\ Drawable(work.convs, n.convs) /\ Drawable(work.messages, n.messages)
       /\ Drawable(work.deliveries, n.deliveries) /\ Drawable(work.files, n.files)
  BY <1>2 DEF Fits, Below
<1>3. /\ sql.name = "conversation" => n.convs = next.convs + 1
      /\ sql.name = "message" => n.messages = next.messages + 1
      /\ sql.name = "delivery" => n.deliveries = next.deliveries + 1
      /\ sql.name = "file" => n.files = next.files + 1
  BY DrawnIs, DrawsFrom DEF Control
<1> HIDE DEF n, w
<1>4. CASE sql.name = "account"
  <2>1. work.accounts \cup {call.from} \subseteq Users
    BY <1>1, <1>4
  <2> DEFINE x == work.accounts \cup {call.from}
  <2>2. Has(w, x, work.convs, work.messages, work.deliveries, work.files)
    BY <1>1, <1>4, AccountWritten DEF w
  <2>3. Fits(w, n)
    BY <1>1, <1>12, <2>1, <2>2, FitsHas
  <2> QED BY <2>3 DEF w, n
<1>5. CASE sql.name = "conversation"
  <2>1. Drawable(With(work.convs, next.convs, Conv(call.group, {})), n.convs)
    BY <1>1, <1>2, <1>3, <1>5, Grows
  <2> DEFINE x == With(work.convs, next.convs, Conv(call.group, {}))
  <2>2. Has(w, work.accounts, x, work.messages, work.deliveries, work.files)
    BY <1>1, <1>5, ConversationWritten DEF w
  <2>3. Fits(w, n)
    BY <1>1, <1>12, <2>1, <2>2, FitsHas
  <2> QED BY <2>3 DEF w, n
<1>6. CASE sql.name = "member"
  <2>1. Drawable([work.convs EXCEPT ![call.conv].members = @ \cup {sql.user}], n.convs)
    BY <1>2 DEF Drawable, Fits, Below
  <2> DEFINE x == [work.convs EXCEPT ![call.conv].members = @ \cup {sql.user}]
  <2>2. Has(w, work.accounts, x, work.messages, work.deliveries, work.files)
    BY <1>1, <1>6, MemberWritten DEF w
  <2>3. Fits(w, n)
    BY <1>1, <1>12, <2>1, <2>2, FitsHas
  <2> QED BY <2>3 DEF w, n
<1>7. CASE sql.name = "message"
  <2>1. Drawable(With(work.messages, next.messages, Message(call.conv, call.from, call.to)), n.messages)
    BY <1>1, <1>2, <1>3, <1>7, Grows
  <2> DEFINE x == With(work.messages, next.messages, Message(call.conv, call.from, call.to))
  <2>2. Has(w, work.accounts, work.convs, x, work.deliveries, work.files)
    BY <1>1, <1>7, MessageWritten DEF w
  <2>3. Fits(w, n)
    BY <1>1, <1>12, <2>1, <2>2, FitsHas
  <2> QED BY <2>3 DEF w, n
<1>8. CASE sql.name = "delivery"
  <2>1. Drawable(With(work.deliveries, next.deliveries, Delivery(call.message, call.to)), n.deliveries)
    BY <1>1, <1>2, <1>3, <1>8, Grows
  <2> DEFINE x == With(work.deliveries, next.deliveries, Delivery(call.message, call.to))
  <2>2. Has(w, work.accounts, work.convs, work.messages, x, work.files)
    BY <1>1, <1>8, DeliveryWritten DEF w
  <2>3. Fits(w, n)
    BY <1>1, <1>12, <2>1, <2>2, FitsHas
  <2> QED BY <2>3 DEF w, n
<1>9. CASE sql.name = "file"
  <2>1. Drawable(With(work.files, next.files, File(call.message, call.from, call.to)), n.files)
    BY <1>1, <1>2, <1>3, <1>9, Grows
  <2> DEFINE x == With(work.files, next.files, File(call.message, call.from, call.to))
  <2>2. Has(w, work.accounts, work.convs, work.messages, work.deliveries, x)
    BY <1>1, <1>9, FileWritten DEF w
  <2>3. Fits(w, n)
    BY <1>1, <1>12, <2>1, <2>2, FitsHas
  <2> QED BY <2>3 DEF w, n
<1>10. CASE sql.name = "complete"
  <2>1. Drawable([work.files EXCEPT ![call.out].state = "completed"], n.files)
    BY <1>2 DEF Drawable, Fits, Below
  <2> DEFINE x == [work.files EXCEPT ![call.out].state = "completed"]
  <2>2. Has(w, work.accounts, work.convs, work.messages, work.deliveries, x)
    BY <1>1, <1>10, CompleteWritten DEF w
  <2>3. Fits(w, n)
    BY <1>1, <1>12, <2>1, <2>2, FitsHas
  <2> QED BY <2>3 DEF w, n
<1>11. CASE sql.name = "mark"
  <2>1. Drawable([work.deliveries EXCEPT ![call.out].state = call.state], n.deliveries)
    BY <1>2 DEF Drawable, Fits, Below
  <2> DEFINE x == [work.deliveries EXCEPT ![call.out].state = call.state]
  <2>2. Has(w, work.accounts, work.convs, work.messages, x, work.files)
    BY <1>1, <1>11, MarkWritten DEF w
  <2>3. Fits(w, n)
    BY <1>1, <1>12, <2>1, <2>2, FitsHas
  <2> QED BY <2>3 DEF w, n
<1> QED BY <1>4, <1>5, <1>6, <1>7, <1>8, <1>9, <1>10, <1>11 DEF Writes, w, n

\* One more member in the row of a new conversation.
LEMMA MemberAdded ==
    ASSUME NEW t, NEW w, NEW id, NEW g, NEW in, NEW u, GrownBy(t, w, id, Conv(g, in))
    PROVE  GrownBy(t, [w EXCEPT ![id].members = @ \cup {u}], id, Conv(g, in \cup {u}))
<1>1. w = With(t, id, Conv(g, in)) /\ id \in Nat \ {0} /\ \A i \in DOMAIN t : i < id
  BY DEF GrownBy
<1>2. DOMAIN w = DOMAIN t \cup {id} /\ w[id] = Conv(g, in) /\ \A i \in DOMAIN t \ {id} : w[i] = t[i]
  BY <1>1 DEF With
<1>3. [w[id] EXCEPT !.members = @ \cup {u}] = Conv(g, in \cup {u})
  BY <1>2 DEF Conv
<1> DEFINE r == Conv(g, in \cup {u})
<1> HIDE DEF r
<1>4. [w EXCEPT ![id] = r] = [i \in DOMAIN t \cup {id} |-> IF i = id THEN r ELSE t[i]]
  BY <1>1, <1>2 DEF With
<1>5. [w EXCEPT ![id].members = @ \cup {u}] = [w EXCEPT ![id] = [w[id] EXCEPT !.members = @ \cup {u}]]
  OBVIOUS
<1>6. [w EXCEPT ![id].members = @ \cup {u}] = With(t, id, r)
  BY <1>3, <1>4, <1>5 DEF With, r
<1> QED BY <1>1, <1>6 DEF GrownBy, r


-----------------------------------------------------------------------------
(* Writes inside a transaction.                                            *)

\* A write that the constraints allow.
Wrote ==
    /\ NextIs(Writes) /\ Allowed(Head(todo))
    /\ work' = Written(Head(todo)) /\ data' = (IF inTx THEN data ELSE work')
    /\ next' = Drawn(Head(todo))
    /\ GoesOn(Noted(Head(todo)), Tail(todo)) /\ inTx' = inTx

LEMMA Counters ==
    ASSUME Control
    PROVE  /\ next.convs \in Nat \ {0} /\ next.messages \in Nat \ {0}
           /\ next.deliveries \in Nat \ {0} /\ next.files \in Nat \ {0}
           /\ IsTables(work) /\ IsTables(data)
           /\ Drawable(work.convs, next.convs) /\ Drawable(work.messages, next.messages)
           /\ Drawable(work.deliveries, next.deliveries) /\ Drawable(work.files, next.files)
           /\ Drawable(data.convs, next.convs) /\ Drawable(data.messages, next.messages)
           /\ Drawable(data.deliveries, next.deliveries) /\ Drawable(data.files, next.files)
<1>1. "convs" \in IdTables /\ "messages" \in IdTables /\ "deliveries" \in IdTables /\ "files" \in IdTables
  BY DEF IdTables
<1>2. next \in [IdTables -> Nat \ {0}] /\ Fits(data, next) /\ Fits(work, next)
  BY DEF Control
<1>3. /\ next.convs \in Nat \ {0} /\ next.messages \in Nat \ {0}
      /\ next.deliveries \in Nat \ {0} /\ next.files \in Nat \ {0}
  BY <1>1, <1>2
<1> QED BY <1>2, <1>3 DEF Fits, Below

LEMMA NotedIs ==
    ASSUME NEW sql
    PROVE  /\ sql.name = "conversation" => Noted(sql) = [call EXCEPT !.conv = next.convs, !.out = next.convs]
           /\ sql.name = "message" => Noted(sql) = [call EXCEPT !.message = next.messages, !.out = next.messages]
           /\ sql.name = "file" => Noted(sql) = [call EXCEPT !.out = next.files]
           /\ sql.name \notin {"conversation", "message", "file"} => Noted(sql) = call
BY DEF Noted

LEMMA ConvNoted ==
    ASSUME call \in CallType, NEW sql, sql.name = "conversation", NEW id \in Nat, id = next.convs
    PROVE  /\ Noted(sql) \in CallType /\ Noted(sql).from = call.from /\ Noted(sql).to = call.to
           /\ Noted(sql).group = call.group /\ Noted(sql).conv = id /\ Noted(sql).out = id
<1>1. Noted(sql) = [call EXCEPT !.conv = id, !.out = id]
  BY NotedIs
<1>2. call = [from |-> call.from, to |-> call.to, group |-> call.group, conv |-> call.conv,
              message |-> call.message, state |-> call.state, out |-> call.out]
  BY DEF CallType
<1>3. /\ call.from \in Users \cup {NoUser} /\ call.to \in Users \cup {NoUser} /\ call.group \in BOOLEAN
      /\ call.conv \in Nat /\ call.message \in Nat /\ call.state \in DeliveryStates
  BY DEF CallType
<1>4. Noted(sql) = [from |-> call.from, to |-> call.to, group |-> call.group, conv |-> id,
                    message |-> call.message, state |-> call.state, out |-> id]
  BY <1>1, <1>2
<1>5. Noted(sql) \in CallType
  BY <1>3, <1>4 DEF CallType
<1> QED BY <1>4, <1>5

LEMMA MessageNoted ==
    ASSUME call \in CallType, NEW sql, sql.name = "message", NEW id \in Nat, id = next.messages
    PROVE  /\ Noted(sql) \in CallType /\ Noted(sql).from = call.from /\ Noted(sql).to = call.to
           /\ Noted(sql).group = call.group /\ Noted(sql).conv = call.conv
           /\ Noted(sql).message = id /\ Noted(sql).out = id
<1>1. Noted(sql) = [call EXCEPT !.message = id, !.out = id]
  BY NotedIs
<1>2. call = [from |-> call.from, to |-> call.to, group |-> call.group, conv |-> call.conv,
              message |-> call.message, state |-> call.state, out |-> call.out]
  BY DEF CallType
<1>3. /\ call.from \in Users \cup {NoUser} /\ call.to \in Users \cup {NoUser} /\ call.group \in BOOLEAN
      /\ call.conv \in Nat /\ call.message \in Nat /\ call.state \in DeliveryStates
  BY DEF CallType
<1>4. Noted(sql) = [from |-> call.from, to |-> call.to, group |-> call.group, conv |-> call.conv,
                    message |-> id, state |-> call.state, out |-> id]
  BY <1>1, <1>2
<1>5. Noted(sql) \in CallType
  BY <1>3, <1>4 DEF CallType
<1> QED BY <1>4, <1>5

LEMMA FileNoted ==
    ASSUME call \in CallType, NEW sql, sql.name = "file", NEW id \in Nat, id = next.files
    PROVE  /\ Noted(sql) \in CallType /\ Noted(sql).from = call.from /\ Noted(sql).to = call.to
           /\ Noted(sql).group = call.group /\ Noted(sql).conv = call.conv
           /\ Noted(sql).message = call.message /\ Noted(sql).out = id
BY NotedIs DEF CallType

LEMMA NotedTyped ==
    ASSUME Control, NEW sql
    PROVE  Noted(sql) \in CallType
<1>1. call \in CallType /\ next.convs \in Nat /\ next.messages \in Nat /\ next.files \in Nat
  BY Counters DEF Control
<1>2. CASE sql.name = "conversation"
  BY <1>1, <1>2, ConvNoted
<1>3. CASE sql.name = "message"
  BY <1>1, <1>3, MessageNoted
<1>4. CASE sql.name = "file"
  BY <1>1, <1>4, FileNoted
<1>5. CASE sql.name \notin {"conversation", "message", "file"}
  BY <1>1, <1>5, NotedIs
<1> QED BY <1>2, <1>3, <1>4, <1>5

\* A write fits the counters it leaves.
LEMMA WriteFits ==
    ASSUME Control, Stage, NextIs(Writes)
    PROVE  LET sql == Head(todo)
           IN  /\ Drawn(sql) \in [IdTables -> Nat \ {0}]
               /\ Fits(Written(sql), Drawn(sql)) /\ Fits(data, Drawn(sql))
<1> DEFINE sql == Head(todo)
<1>1. sql.name \in Writes
  BY DEF NextIs
<1>2. sql.name = "account" => call.from \in Users
  BY StageOf DEF NextIs, Idle, OnName, AtAccount
<1>3. Drawn(sql) \in [IdTables -> Nat \ {0}] /\ Fits(data, Drawn(sql))
  BY DrawnIs, FitsLater DEF Control
<1>4. Fits(Written(sql), Drawn(sql))
  BY <1>1, <1>2, WrittenFits
<1> QED BY <1>3, <1>4

LEMMA WroteControl ==
    ASSUME Control, Stage, Wrote
    PROVE  Control'
<1>1. /\ next' \in [IdTables -> Nat \ {0}] /\ Fits(work', next') /\ Fits(data, next')
      /\ data' \in {data, work'} /\ inTx' = inTx
  BY WriteFits DEF Wrote
<1>2. call' \in CallType /\ link' = link
  BY NotedTyped, NoCallTyped DEF Wrote, GoesOn
<1> QED BY <1>1, <1>2 DEF Control

\* What a write in a transaction leaves to be shown.
LEMMA WroteInside ==
    ASSUME Control, Stage, Wrote, inTx, Tail(todo) # <<>>, Stage'
    PROVE  Advances
<1>1. data' = data /\ answer' = answer
  BY GoesOnTo DEF Wrote
<1> QED BY <1>1, WroteControl DEF Advances, Refines

\* In a transaction, the statement, what remains and the call as it goes on.
LEMMA WroteSteps ==
    ASSUME Wrote, inTx, NEW name, NEW user, NEW rest, Runs(name, user, rest), rest # <<>>
    PROVE  /\ Head(todo).name = name /\ Head(todo).user = user /\ Tail(todo) = rest /\ Tail(todo) # <<>>
           /\ todo' = rest /\ call' = Noted(Head(todo)) /\ inTx' /\ data' = data
           /\ work' = Written(Head(todo)) /\ Allowed(Head(todo))
<1>1. Head(todo).name = name /\ Head(todo).user = user /\ Tail(todo) = rest /\ Tail(todo) # <<>>
  BY DEF Runs
<1>2. GoesOn(Noted(Head(todo)), rest)
  BY <1>1 DEF Wrote
<1>3. todo' = rest /\ call' = Noted(Head(todo))
  BY <1>2, GoesOnTo
<1> QED BY <1>1, <1>3 DEF Wrote

LEMMA WriteConversation ==
    ASSUME Control, Stage, Wrote, NEW file \in BOOLEAN, AtConversation(file)
    PROVE  Advances
<1>1. inTx /\ work = data /\ Pair /\ Unpaired /\ Runs("conversation", NoUser, FirstMember(call.from, call.to, file))
  BY PrivateHeads DEF AtConversation, Opened
<1>2. FirstMember(call.from, call.to, file) # <<>>
  BY <1>1, 0 \in Nat, FollowingPrograms DEF Pair
<1> DEFINE sql == Head(todo)
           id == next.convs
<1>3. /\ sql.name = "conversation" /\ Tail(todo) # <<>> /\ todo' = FirstMember(call.from, call.to, file)
      /\ call' = Noted(sql) /\ inTx' /\ data' = data /\ work' = Written(sql)
  BY <1>1, <1>2, WroteSteps
<1>4. call'.from = call.from /\ call'.to = call.to /\ call'.group = call.group /\ call'.conv = id
  BY <1>3, Counters, ConvNoted DEF Control
<1>5. Has(work', data.accounts, With(data.convs, id, Conv(call.group, {})), data.messages, data.deliveries, data.files)
  BY <1>1, <1>3, Counters, ConversationWritten
<1>6. GrownBy(data.convs, With(data.convs, id, Conv(call.group, {})), id, Conv(call.group, {}))
  BY Counters, Grows
<1>7. OnlyConvs' /\ Pair' /\ Unpaired' /\ Added({})'
  <2>1. OnlyConvs'
    BY <1>3, <1>5 DEF OnlyConvs, Has
  <2>2. Pair' /\ Unpaired'
    BY <1>1, <1>3, <1>4 DEF Pair, Unpaired
  <2>3. Added({})'
    BY <1>3, <1>4, <1>5, <1>6 DEF Added, Has
  <2> QED BY <2>1, <2>2, <2>3
<1>8. AtFirstMember(file)'
  BY <1>3, <1>4, <1>7 DEF AtFirstMember
<1> QED BY <1>1, <1>3, <1>8, WroteInside DEF Stage

LEMMA WriteFirstMember ==
    ASSUME Control, Stage, Wrote, NEW file \in BOOLEAN, AtFirstMember(file)
    PROVE  Advances
<1>1. /\ inTx /\ OnlyConvs /\ Pair /\ Unpaired /\ Added({})
      /\ Runs("member", call.from, SecondMember(call.to, file))
  BY PrivateHeads DEF AtFirstMember, OnlyConvs
<1>2. SecondMember(call.to, file) # <<>>
  BY <1>1, 0 \in Nat, FollowingPrograms DEF Pair
<1> DEFINE sql == Head(todo)
<1>3. /\ sql.name = "member" /\ sql.user = call.from /\ Tail(todo) # <<>> /\ todo' = SecondMember(call.to, file)
      /\ call' = Noted(sql) /\ inTx' /\ data' = data /\ work' = Written(sql)
  BY <1>1, <1>2, WroteSteps
<1>4. call' = call
  BY <1>3, NotedIs
<1>5. Has(work', work.accounts, [work.convs EXCEPT ![call.conv].members = @ \cup {call.from}],
          work.messages, work.deliveries, work.files)
  BY <1>3, Counters, MemberWritten
<1>6. GrownBy(data.convs, [work.convs EXCEPT ![call.conv].members = @ \cup {call.from}], call.conv,
              Conv(call.group, {call.from}))
  <2>1. {} \cup {call.from} = {call.from}
    OBVIOUS
  <2> QED BY <1>1, <2>1, MemberAdded DEF Added
<1>7. OnlyConvs' /\ Pair' /\ Unpaired' /\ Added({call.from})'
  <2>1. OnlyConvs'
    BY <1>1, <1>3, <1>5 DEF OnlyConvs, Has
  <2>2. Pair' /\ Unpaired'
    BY <1>1, <1>3, <1>4 DEF Pair, Unpaired
  <2>3. Added({call.from})'
    BY <1>3, <1>4, <1>5, <1>6 DEF Added, Has
  <2> QED BY <2>1, <2>2, <2>3
<1>8. AtSecondMember(file)'
  BY <1>3, <1>4, <1>7 DEF AtSecondMember
<1> QED BY <1>1, <1>3, <1>8, WroteInside DEF Stage

LEMMA WriteSecondMember ==
    ASSUME Control, Stage, Wrote, NEW file \in BOOLEAN, AtSecondMember(file)
    PROVE  Advances
<1>1. /\ inTx /\ OnlyConvs /\ Pair /\ Unpaired /\ Added({call.from})
      /\ Runs("member", call.to, AfterConv(file))
  BY PrivateHeads DEF AtSecondMember, OnlyConvs
<1>2. AfterConv(file) # <<>>
  BY <1>1, 0 \in Nat, FollowingPrograms DEF Pair
<1> DEFINE sql == Head(todo)
<1>3. /\ sql.name = "member" /\ sql.user = call.to /\ Tail(todo) # <<>> /\ todo' = AfterConv(file)
      /\ call' = Noted(sql) /\ inTx' /\ data' = data /\ work' = Written(sql)
  BY <1>1, <1>2, WroteSteps
<1>4. call' = call
  BY <1>3, NotedIs
<1>5. Has(work', work.accounts, [work.convs EXCEPT ![call.conv].members = @ \cup {call.to}],
          work.messages, work.deliveries, work.files)
  BY <1>3, Counters, MemberWritten
<1>6. GrownBy(data.convs, [work.convs EXCEPT ![call.conv].members = @ \cup {call.to}], call.conv,
              Conv(call.group, {call.from, call.to}))
  <2>1. {call.from} \cup {call.to} = {call.from, call.to}
    OBVIOUS
  <2>2. GrownBy(data.convs, work.convs, call.conv, Conv(call.group, {call.from}))
    BY <1>1 DEF Added
  <2>3. GrownBy(data.convs, [work.convs EXCEPT ![call.conv].members = @ \cup {call.to}], call.conv,
                Conv(call.group, {call.from} \cup {call.to}))
    BY <2>2, MemberAdded
  <2> QED BY <2>1, <2>3
<1>7. OnlyConvs' /\ Pair' /\ ConvReady'
  <2>1. OnlyConvs'
    BY <1>1, <1>3, <1>5 DEF OnlyConvs, Has
  <2>2. Pair' /\ Unpaired'
    BY <1>1, <1>3, <1>4 DEF Pair, Unpaired
  <2>3. Added({call.from, call.to})'
    BY <1>3, <1>4, <1>5, <1>6 DEF Added, Has
  <2> QED BY <2>1, <2>2, <2>3 DEF ConvReady
<1>8. AtMessage(file)'
  BY <1>3, <1>4, <1>7 DEF AtMessage
<1> QED BY <1>1, <1>3, <1>8, WroteInside DEF Stage

LEMMA WriteMessage ==
    ASSUME Control, Stage, Wrote, NEW file \in BOOLEAN, AtMessage(file)
    PROVE  Advances
<1>1. inTx /\ OnlyConvs /\ Pair /\ ConvReady /\ Runs("message", NoUser, AfterMessage(file))
  BY PrivateHeads DEF AtMessage, OnlyConvs
<1>2. AfterMessage(file) # <<>>
  BY <1>1, 0 \in Nat, FollowingPrograms DEF Pair
<1> DEFINE sql == Head(todo)
           id == next.messages
           msg == Message(call.conv, call.from, call.to)
<1>3. /\ sql.name = "message" /\ Tail(todo) # <<>> /\ todo' = AfterMessage(file)
      /\ call' = Noted(sql) /\ inTx' /\ data' = data /\ work' = Written(sql) /\ Allowed(sql)
  BY <1>1, <1>2, WroteSteps
<1>4. /\ call'.from = call.from /\ call'.to = call.to /\ call'.group = call.group /\ call'.conv = call.conv
      /\ call'.message = id /\ call'.out = id
  BY <1>3, Counters, MessageNoted DEF Control
<1>5. Has(work', work.accounts, work.convs, With(data.messages, id, msg), data.deliveries, data.files)
  BY <1>1, <1>3, Counters, MessageWritten DEF OnlyConvs
<1>6. GrownBy(data.messages, With(data.messages, id, msg), id, msg)
  BY Counters, Grows
<1>7. {call.from, call.to} \subseteq data.accounts
  <2>1. {call.from, call.to} \subseteq work.accounts \cup {NoUser}
    BY <1>3 DEF Allowed
  <2> QED BY <1>1, <2>1, TablesAssumption DEF OnlyConvs, Pair
<1>8. MessageIn'
  <2>1. Pair' /\ ConvReady'
    <3>1. Pair'
      BY <1>1, <1>4 DEF Pair
    <3>2. work'.convs = work.convs
      BY <1>5 DEF Has
    <3>3. (Unpaired <=> Unpaired') /\ (Added({call.from, call.to}) <=> Added({call.from, call.to})')
      BY <1>3, <1>4, <3>2 DEF Unpaired, Added
    <3>4. ConvReady'
      BY <1>1, <1>3, <1>4, <3>2, <3>3 DEF ConvReady
    <3> QED BY <3>1, <3>4
  <2>2. {call'.from, call'.to} \subseteq data'.accounts /\ work'.accounts = data'.accounts
    BY <1>1, <1>3, <1>4, <1>5, <1>7 DEF Has, OnlyConvs
  <2>3. GrownBy(data'.messages, work'.messages, call'.message, Message(call'.conv, call'.from, call'.to))
    BY <1>3, <1>4, <1>5, <1>6 DEF Has
  <2> QED BY <1>3, <2>1, <2>2, <2>3 DEF MessageIn
<1>9. AtDelivery(file)'
  <2>1. work'.deliveries = data'.deliveries /\ work'.files = data'.files /\ call'.out = call'.message
    BY <1>3, <1>4, <1>5 DEF Has
  <2> QED BY <1>3, <1>8, <2>1 DEF AtDelivery
<1> QED BY <1>1, <1>3, <1>9, WroteInside DEF Stage

\* The message stays in while the rows that go with it are written.
LEMMA MessageStays ==
    ASSUME MessageIn, inTx' = inTx, data' = data, work'.accounts = work.accounts, work'.convs = work.convs,
           work'.messages = work.messages, call'.from = call.from, call'.to = call.to,
           call'.group = call.group, call'.conv = call.conv, call'.message = call.message
    PROVE  MessageIn'
<1>1. Pair'
  BY DEF Pair, MessageIn
<1>2. (Unpaired <=> Unpaired') /\ (Added({call.from, call.to}) <=> Added({call.from, call.to})')
  BY DEF Unpaired, Added
<1>3. ConvReady'
  BY <1>2 DEF ConvReady, MessageIn
<1> QED BY <1>1, <1>3 DEF MessageIn

LEMMA WriteDelivery ==
    ASSUME Control, Stage, Wrote, NEW file \in BOOLEAN, AtDelivery(file)
    PROVE  Advances
<1>1. /\ inTx /\ MessageIn /\ call.out = call.message /\ work.deliveries = data.deliveries /\ work.files = data.files
      /\ Runs("delivery", NoUser, AfterDelivery(file))
  BY PrivateHeads DEF AtDelivery, MessageIn
<1>2. AfterDelivery(file) # <<>>
  BY <1>1, 0 \in Nat, FollowingPrograms DEF Pair, MessageIn
<1> DEFINE sql == Head(todo)
           id == next.deliveries
           row == Delivery(call.message, call.to)
<1>3. /\ sql.name = "delivery" /\ Tail(todo) # <<>> /\ todo' = AfterDelivery(file)
      /\ call' = Noted(sql) /\ inTx' /\ data' = data /\ work' = Written(sql)
  BY <1>1, <1>2, WroteSteps
<1>4. call' = call
  BY <1>3, NotedIs
<1>5. Has(work', work.accounts, work.convs, work.messages, With(data.deliveries, id, row), data.files)
  BY <1>1, <1>3, Counters, DeliveryWritten
<1>6. GrownBy(data.deliveries, With(data.deliveries, id, row), id, row) /\ id \in DOMAIN With(data.deliveries, id, row)
  BY Counters, Grows
<1>7. MessageIn'
  BY <1>1, <1>3, <1>4, <1>5, MessageStays DEF Has
<1>8. DeliveryIn'
  <2>1. id \in DOMAIN work'.deliveries
    BY <1>5, <1>6 DEF Has
  <2>2. GrownBy(data'.deliveries, work'.deliveries, id, Delivery(call'.message, call'.to))
    BY <1>3, <1>4, <1>5, <1>6 DEF Has
  <2> HIDE DEF id
  <2> QED BY <1>7, <2>1, <2>2 DEF DeliveryIn
<1>9. work'.files = data'.files
  BY <1>3, <1>5 DEF Has
<1>10. CASE file
  BY <1>1, <1>3, <1>8, <1>9, <1>10, WroteInside DEF AtFile, Stage
<1>11. CASE ~file
  <2>1. AtMessageCommit'
    BY <1>1, <1>3, <1>4, <1>8, <1>9, <1>11 DEF AtMessageCommit, AfterDelivery
  <2> QED BY <1>1, <1>3, <2>1, WroteInside DEF Stage
<1> QED BY <1>10, <1>11

LEMMA WriteFile ==
    ASSUME Control, Stage, Wrote, AtFile
    PROVE  Advances
<1>1. inTx /\ DeliveryIn /\ MessageIn /\ work.files = data.files /\ Runs("file", NoUser, Closing)
  BY PrivateHeads DEF AtFile, DeliveryIn, MessageIn
<1> DEFINE sql == Head(todo)
           id == next.files
           row == File(call.message, call.from, call.to)
<1>3. /\ sql.name = "file" /\ Tail(todo) # <<>> /\ todo' = Closing
      /\ call' = Noted(sql) /\ inTx' /\ data' = data /\ work' = Written(sql)
  BY <1>1, ClosingProgram, WroteSteps
<1>4. /\ call'.from = call.from /\ call'.to = call.to /\ call'.group = call.group /\ call'.conv = call.conv
      /\ call'.message = call.message /\ call'.out = id
  BY <1>3, Counters, FileNoted DEF Control
<1>5. Has(work', work.accounts, work.convs, work.messages, work.deliveries, With(data.files, id, row))
  BY <1>1, <1>3, Counters, FileWritten
<1>6. GrownBy(data.files, With(data.files, id, row), id, row)
  BY Counters, Grows
<1>7. MessageIn'
  BY <1>1, <1>3, <1>4, <1>5, MessageStays DEF Has
<1>8. DeliveryIn'
  <2>1. work'.deliveries = work.deliveries
    BY <1>5 DEF Has
  <2> QED BY <1>1, <1>3, <1>4, <1>7, <2>1 DEF DeliveryIn
<1>9. GrownBy(data'.files, work'.files, call'.out, File(call'.message, call'.from, call'.to))
  BY <1>3, <1>4, <1>5, <1>6 DEF Has
<1>10. AtFileCommit'
  BY <1>3, <1>8, <1>9 DEF AtFileCommit
<1> QED BY <1>1, <1>3, <1>10, WroteInside DEF Stage

LEMMA SeveralNotEmpty ==
    ASSUME NEW members, Several(Listed(members))
    PROVE  members # <<>>
<1>1. members = <<>> => Listed(members) = {}
  BY DEF Listed
<1> QED BY <1>1 DEF Several

LEMMA WriteGroup ==
    ASSUME Control, Stage, Wrote, AtNewGroup
    PROVE  Advances
<1>1. PICK members \in Seq(Users) : Several(Listed(members)) /\ todo = NewGroup(members)
  BY DEF AtNewGroup
<1>2. /\ inTx /\ work = data /\ OfGroup /\ members # <<>>
      /\ Runs("conversation", NoUser, AddMembers(members)) /\ AddMembers(members) # <<>>
  BY <1>1, NewGroupHead, FollowingGroups, SeveralNotEmpty DEF AtNewGroup, Opened
<1> DEFINE sql == Head(todo)
           id == next.convs
<1>3. /\ sql.name = "conversation" /\ Tail(todo) # <<>> /\ todo' = AddMembers(members)
      /\ call' = Noted(sql) /\ inTx' /\ data' = data /\ work' = Written(sql)
  BY <1>2, WroteSteps
<1>4. /\ call'.from = call.from /\ call'.group = call.group /\ call'.conv = id /\ call'.out = id
  BY <1>3, Counters, ConvNoted DEF Control
<1>5. Has(work', data.accounts, With(data.convs, id, Conv(call.group, {})), data.messages, data.deliveries, data.files)
  BY <1>2, <1>3, Counters, ConversationWritten
<1>6. GrownBy(data.convs, With(data.convs, id, Conv(call.group, {})), id, Conv(call.group, {}))
  BY Counters, Grows
<1>7. AtMember'
  <2>1. OnlyConvs'
    BY <1>3, <1>5 DEF OnlyConvs, Has
  <2>2. OfGroup' /\ call'.out = call'.conv
    BY <1>2, <1>4 DEF OfGroup
  <2>3. Added({})'
    BY <1>3, <1>4, <1>5, <1>6 DEF Added, Has
  <2>4. Several({} \cup Listed(members)) /\ IsFiniteSet({})
    <3>1. {} \cup Listed(members) = Listed(members)
      OBVIOUS
    <3> QED BY <1>1, <3>1, FS_EmptySet
  <2>5. Gathered({}, members)'
    BY <2>1, <2>2, <2>3, <2>4 DEF Gathered
  <2>6. {} \in SUBSET data'.accounts
    OBVIOUS
  <2> QED BY <1>2, <1>3, <2>5, <2>6 DEF AtMember
<1> QED BY <1>2, <1>3, <1>7, WroteInside DEF Stage

LEMMA ListedFirst ==
    ASSUME NEW members \in Seq(Users), members # <<>>
    PROVE  Listed(members) = {Head(members)} \cup Listed(Tail(members))
<1>1. /\ Len(members) \in Nat \ {0} /\ DOMAIN members = 1 .. Len(members) /\ Head(members) = members[1]
      /\ Tail(members) \in Seq(Users) /\ Len(Tail(members)) = Len(members) - 1
      /\ DOMAIN Tail(members) = 1 .. Len(members) - 1
      /\ \A i \in 1 .. Len(members) - 1 : Tail(members)[i] = members[i + 1]
  OBVIOUS
<1>2. ASSUME NEW i \in DOMAIN members PROVE members[i] \in {Head(members)} \cup Listed(Tail(members))
  <2>1. CASE i = 1
    BY <1>1, <2>1
  <2>2. CASE i # 1
    <3>1. i - 1 \in 1 .. Len(members) - 1 /\ (i - 1) + 1 = i
      BY <1>1, <2>2
    <3>2. Tail(members)[i - 1] = members[i] /\ i - 1 \in DOMAIN Tail(members)
      BY <1>1, <3>1
    <3> QED BY <3>2 DEF Listed
  <2> QED BY <2>1, <2>2
<1>3. Head(members) \in Listed(members)
  BY <1>1 DEF Listed
<1>4. ASSUME NEW i \in DOMAIN Tail(members) PROVE Tail(members)[i] \in Listed(members)
  <2>1. i + 1 \in DOMAIN members /\ Tail(members)[i] = members[i + 1]
    BY <1>1
  <2> QED BY <2>1 DEF Listed
<1> QED BY <1>2, <1>3, <1>4 DEF Listed

LEMMA WriteMember ==
    ASSUME Control, Stage, Wrote, AtMember
    PROVE  Advances
<1>1. PICK in \in SUBSET data.accounts, members \in Seq(Users) :
         Gathered(in, members) /\ members # <<>> /\ todo = AddMembers(members)
  BY DEF AtMember
<1> DEFINE u == Head(members)
           rest == Tail(members)
           sql == Head(todo)
           more == in \cup {u}
<1>2. /\ inTx /\ OnlyConvs /\ OfGroup /\ call.out = call.conv /\ IsFiniteSet(in) /\ Added(in)
      /\ Several(in \cup Listed(members))
  BY <1>1 DEF Gathered, OnlyConvs
<1>3. /\ u \in Users /\ rest \in Seq(Users) /\ Runs("member", u, AddMembers(rest))
      /\ rest = <<>> => AddMembers(rest) = Closing
  BY <1>1, MemberHead
<1>4. AddMembers(rest) # <<>>
  BY <1>3, FollowingGroups
<1>5. /\ sql.name = "member" /\ sql.user = u /\ Tail(todo) # <<>> /\ todo' = AddMembers(rest)
      /\ call' = Noted(sql) /\ inTx' /\ data' = data /\ work' = Written(sql) /\ Allowed(sql)
  BY <1>2, <1>3, <1>4, WroteSteps
<1>6. call' = call /\ u \in data.accounts
  BY <1>2, <1>5, NotedIs DEF Allowed, OnlyConvs
<1>7. Has(work', work.accounts, [work.convs EXCEPT ![call.conv].members = @ \cup {u}],
          work.messages, work.deliveries, work.files)
  BY <1>5, Counters, MemberWritten
<1>8. GrownBy(data.convs, [work.convs EXCEPT ![call.conv].members = @ \cup {u}], call.conv, Conv(call.group, more))
  <2>1. GrownBy(data.convs, work.convs, call.conv, Conv(call.group, in))
    BY <1>2 DEF Added
  <2> HIDE DEF u
  <2> QED BY <2>1, MemberAdded
<1>9. in \cup Listed(members) = more \cup Listed(rest)
  <2>1. Listed(members) = {u} \cup Listed(rest)
    BY <1>1, ListedFirst
  <2> QED BY <2>1
<1>10. Gathered(more, rest)'
  <2>1. OnlyConvs'
    BY <1>2, <1>5, <1>7 DEF OnlyConvs, Has
  <2>2. OfGroup' /\ call'.out = call'.conv
    BY <1>2, <1>6 DEF OfGroup
  <2>3. IsFiniteSet(more)
    BY <1>2, FS_AddElement
  <2>4. Added(more)'
    BY <1>5, <1>6, <1>7, <1>8 DEF Added, Has
  <2>5. Several(more \cup Listed(rest))
    BY <1>2, <1>9
  <2> HIDE DEF more, rest
  <2> QED BY <2>1, <2>2, <2>3, <2>4, <2>5 DEF Gathered
<1>11. more \in SUBSET data'.accounts
  BY <1>5, <1>6
<1> HIDE DEF more
<1>12. CASE rest = <<>>
  <2>1. todo' = Closing /\ Gathered(more, <<>>)'
    BY <1>3, <1>5, <1>10, <1>12
  <2>2. AtGroupCommit'
    BY <1>11, <2>1 DEF AtGroupCommit
  <2> QED BY <1>2, <1>5, <2>2, WroteInside DEF Stage
<1>13. CASE rest # <<>>
  <2> HIDE DEF rest
  <2>1. AtMember'
    BY <1>3, <1>5, <1>10, <1>11, <1>13 DEF AtMember
  <2> QED BY <1>2, <1>5, <2>1, WroteInside DEF Stage
<1> QED BY <1>12, <1>13

-----------------------------------------------------------------------------
(* What is committed is a call of the interface.                           *)

\* Where a statement writes outside a transaction.
LEMMA OutsideStages ==
    ASSUME Control, Stage, NextIs(Writes), ~inTx
    PROVE  AtAccount \/ AtComplete \/ AtMark \/ AtGroupMessage
<1>1. Head(todo).name \in Writes /\ OnName(Head(todo).name)
  BY DEF NextIs, Idle, OnName
<1>2. ASSUME NEW file \in BOOLEAN
      PROVE  ~AtConversation(file) /\ ~AtFirstMember(file) /\ ~AtSecondMember(file) /\ ~AtMessage(file) /\ ~AtDelivery(file)
  BY DEF AtConversation, Opened, AtFirstMember, AtSecondMember, AtMessage, OnlyConvs, AtDelivery, MessageIn
<1>3. ~AtNewGroup /\ ~AtMember /\ ~AtFile
  BY DEF AtNewGroup, Opened, AtMember, Gathered, OnlyConvs, AtFile, DeliveryIn, MessageIn
<1> QED BY <1>1, <1>2, <1>3, StageOf DEF Writes

\* A statement outside a transaction.
LEMMA WriteEffect ==
    ASSUME Control, Stage, NextIs(Writes), ~inTx, Allowed(Head(todo)), data' = Written(Head(todo)),
           Interface!Answers(Noted(Head(todo)).out)
    PROVE  Interface!Next
<1> DEFINE sql == Head(todo)
<1>1. sql.name \in Writes /\ OnName(sql.name)
  BY DEF NextIs, Idle, OnName
<1>2. AtAccount \/ AtComplete \/ AtMark \/ AtGroupMessage
  BY OutsideStages
<1>3. ASSUME NEW name, Runs(name, NoUser, <<>>) PROVE sql.name = name
  BY <1>3 DEF Runs
<1>4. CASE AtAccount
  <2>1. sql.name = "account"
    BY <1>3, <1>4, ShortHeads
  <2>2. Has(data', data.accounts \cup {call.from}, data.convs, data.messages, data.deliveries, data.files)
    BY <1>4, <2>1, Counters, AccountWritten DEF AtAccount, Quiet
  <2>3. Interface!Answers(call.from) /\ call.from \in Users \ data.accounts
    <3>1. Noted(sql) = call
      BY <2>1, NotedIs
    <3>2. call.from \notin work.accounts
      BY <2>1 DEF Allowed
    <3> QED BY <1>4, <3>1, <3>2 DEF AtAccount, Quiet
  <2>4. Interface!Keeps({"convs", "messages", "deliveries", "files"})
    BY <2>2 DEF Has, Interface!Keeps
  <2>5. Interface!CreateAccount
    BY <2>2, <2>3, <2>4 DEF Has, Interface!CreateAccount
  <2> QED BY <2>1, <2>5 DEF Interface!Next
<1>5. CASE AtComplete
  <2>1. sql.name = "complete"
    BY <1>3, <1>5, ShortHeads
  <2>2. Has(data', data.accounts, data.convs, data.messages, data.deliveries,
            [data.files EXCEPT ![call.out].state = "completed"])
    BY <1>5, <2>1, Counters, CompleteWritten DEF AtComplete, Quiet
  <2>3. Interface!Answers(call.out) /\ call.out \in DOMAIN data.files
    BY <1>5, <2>1, NotedIs DEF AtComplete
  <2>4. Interface!Keeps({"accounts", "convs", "messages", "deliveries"})
    BY <2>2 DEF Has, Interface!Keeps
  <2>5. Interface!CompleteFileTransfer
    BY <2>2, <2>3, <2>4 DEF Has, Interface!CompleteFileTransfer
  <2> QED BY <2>1, <2>5 DEF Interface!Next
<1>6. CASE AtMark
  <2>1. sql.name = "mark"
    BY <1>3, <1>6, ShortHeads
  <2>2. Has(data', data.accounts, data.convs, data.messages,
            [data.deliveries EXCEPT ![call.out].state = call.state], data.files)
    BY <1>6, <2>1, Counters, MarkWritten DEF AtMark, Quiet
  <2>3. Interface!Answers(call.out) /\ call.out \in DOMAIN data.deliveries
    BY <1>6, <2>1, NotedIs DEF AtMark
  <2>4. Interface!Keeps({"accounts", "convs", "messages", "files"})
    BY <2>2 DEF Has, Interface!Keeps
  <2>5. call.state \in DeliveryStates /\ MayFollow(data.deliveries[call.out].state, call.state)
    BY <1>6 DEF AtMark, Control, CallType
  <2>6. Interface!MarkDeliveryState
    BY <2>2, <2>3, <2>4, <2>5, SameRows DEF Has, Interface!MarkDeliveryState
  <2> QED BY <2>1, <2>6 DEF Interface!Next
<1>7. CASE AtGroupMessage
  <2>1. sql.name = "message"
    BY <1>3, <1>7, ShortHeads
  <2> DEFINE id == next.messages
             msg == Message(call.conv, call.from, NoUser)
  <2>2. Has(data', data.accounts, data.convs, With(data.messages, id, msg), data.deliveries, data.files)
    BY <1>7, <2>1, Counters, MessageWritten DEF AtGroupMessage, ToGroup, Quiet
  <2>3. Interface!Answers(id)
    BY <2>1, Counters, MessageNoted DEF Control
  <2>4. GrownBy(data.messages, With(data.messages, id, msg), id, msg) /\ id \in DOMAIN With(data.messages, id, msg)
    BY Counters, Grows
  <2>5. Interface!Keeps({"accounts", "convs", "deliveries", "files"})
    BY <2>2 DEF Has, Interface!Keeps
  <2>6. call.from \in Users /\ call.conv \in Interface!GroupsOf(data, call.from) /\ id \in DOMAIN data'.messages
        /\ Interface!GrownBy(data.messages, data'.messages, id, Interface!Message(call.conv, call.from, NoUser))
    BY <1>7, <2>2, <2>4, SameQueries, SameWrites, SameRows DEF AtGroupMessage, ToGroup, Has
  <2> HIDE DEF id
  <2>7. Interface!StoreGroupMessage
    BY <2>3, <2>5, <2>6 DEF Interface!StoreGroupMessage
  <2> QED BY <2>1, <2>7 DEF Interface!Next
<1> QED BY <1>2, <1>4, <1>5, <1>6, <1>7

\* A message that lies in the transaction, committed.
LEMMA MessageEffect ==
    ASSUME Named = {0}, DeliveryIn, data' = work
    PROVE  /\ Interface!PrivateStored(call.from, call.to, call.conv, call.message)
           /\ call.from \in Users /\ call.to \in Users
           /\ call.conv \in DOMAIN data'.convs /\ call.message \in DOMAIN data'.messages
<1>1. /\ Pair /\ ConvReady /\ {call.from, call.to} \subseteq data.accounts /\ work.accounts = data.accounts
      /\ GrownBy(data.messages, work.messages, call.message, Message(call.conv, call.from, call.to))
      /\ \E k \in DOMAIN work.deliveries :
            GrownBy(data.deliveries, work.deliveries, k, Delivery(call.message, call.to))
  BY DEF DeliveryIn, MessageIn
<1>2. /\ call.conv \in DOMAIN data'.convs
      /\ \/ call.conv \in Interface!Private(data, call.from, call.to) /\ Interface!Keeps({"convs"})
         \/ /\ Interface!Private(data, call.from, call.to) = {}
            /\ Interface!GrownBy(data.convs, data'.convs, call.conv, Interface!Conv(FALSE, {call.from, call.to}))
  <2>1. CASE call.conv \in Private(data, call.from, call.to) /\ work.convs = data.convs
    <3>1. Interface!Keeps({"convs"})
      BY <2>1 DEF Interface!Keeps
    <3>2. call.conv \in DOMAIN data'.convs
      BY <2>1 DEF Private
    <3> QED BY <2>1, <3>1, <3>2, SameQueries
  <2>2. CASE Unpaired /\ Added({call.from, call.to})
    <3>1. GrownBy(data.convs, work.convs, call.conv, Conv(FALSE, {call.from, call.to}))
      BY <1>1, <2>2 DEF Added, Pair
    <3>2. call.conv \in DOMAIN work.convs
      BY <3>1 DEF GrownBy, With
    <3> QED BY <2>2, <3>1, <3>2, SameQueries, SameWrites, SameRows DEF Unpaired
  <2> QED BY <1>1, <2>1, <2>2 DEF ConvReady
<1>3. call.message \in DOMAIN data'.messages
  BY <1>1 DEF GrownBy, With
<1>4. Interface!Keeps({"accounts"})
  BY <1>1 DEF Interface!Keeps
<1>5. Interface!GrownBy(data.messages, data'.messages, call.message, Interface!Message(call.conv, call.from, call.to))
  BY <1>1, SameWrites, SameRows
<1>6. \E k \in DOMAIN data'.deliveries :
         Interface!GrownBy(data.deliveries, data'.deliveries, k, Interface!Delivery(call.message, call.to))
  BY <1>1, SameWrites, SameRows
<1>7. {call.from, call.to} \subseteq data.accounts /\ call.from # call.to
  BY <1>1 DEF Pair
<1> QED BY <1>1, <1>2, <1>3, <1>4, <1>5, <1>6, <1>7 DEF Interface!PrivateStored, Pair

LEMMA TwoOrMore ==
    ASSUME NEW S, IsFiniteSet(S), Several(S)
    PROVE  Cardinality(S) >= 2
<1>1. PICK a, b \in S : a # b
  BY DEF Several
<1>2. Cardinality({a, b}) = 2 /\ IsFiniteSet({a, b})
  <2>1. IsFiniteSet({a}) /\ Cardinality({a}) = 1
    BY FS_Singleton
  <2>2. Cardinality({a} \cup {b}) = 2 /\ IsFiniteSet({a} \cup {b})
    BY <1>1, <2>1, FS_AddElement, SMTT(30)
  <2>3. {a} \cup {b} = {a, b}
    OBVIOUS
  <2> QED BY <2>2, <2>3
<1>3. Cardinality({a, b}) <= Cardinality(S) /\ Cardinality(S) \in Nat
  BY FS_Subset, FS_CardinalityType
<1> QED BY <1>2, <1>3

LEMMA CommitEffect ==
    ASSUME Named = {0}, Control, Stage, NextIs({"commit"}), data' = work, Interface!Answers(call.out)
    PROVE  Interface!Next
<1>1. AtMessageCommit \/ AtFileCommit \/ AtGroupCommit
  BY StageOf DEF NextIs, Idle, OnName
<1>2. CASE AtMessageCommit
  <2>1. DeliveryIn /\ work.files = data.files /\ call.out = call.message
    BY <1>2 DEF AtMessageCommit
  <2>2. Interface!Keeps({"files"})
    BY <2>1 DEF Interface!Keeps
  <2>3. Interface!StorePrivateMessage
    BY <2>1, <2>2, MessageEffect DEF Interface!StorePrivateMessage
  <2> QED BY <2>3 DEF Interface!Next
<1>3. CASE AtFileCommit
  <2>1. DeliveryIn /\ GrownBy(data.files, work.files, call.out, File(call.message, call.from, call.to))
    BY <1>3 DEF AtFileCommit
  <2>2. call.out \in DOMAIN data'.files
    BY <2>1 DEF GrownBy, With
  <2>3. Interface!GrownBy(data.files, data'.files, call.out, Interface!File(call.message, call.from, call.to))
    BY <2>1, SameWrites, SameRows
  <2>4. Interface!StoreFileTransfer
    BY <2>1, <2>2, <2>3, MessageEffect DEF Interface!StoreFileTransfer
  <2> QED BY <2>4 DEF Interface!Next
<1>4. CASE AtGroupCommit
  <2>1. PICK in \in SUBSET data.accounts : Gathered(in, <<>>)
    BY <1>4 DEF AtGroupCommit
  <2>2. /\ OnlyConvs /\ call.group = TRUE /\ call.out = call.conv /\ IsFiniteSet(in)
        /\ GrownBy(data.convs, work.convs, call.conv, Conv(call.group, in)) /\ Several(in \cup Listed(<<>>))
    BY <2>1 DEF Gathered, OfGroup, Added
  <2>3. Interface!Cardinality(in) >= 2
    <3>1. Listed(<<>>) = {}
      BY DEF Listed
    <3>2. in \cup Listed(<<>>) = in
      BY <3>1
    <3> QED BY <2>2, <3>2, TwoOrMore, SameCardinality
  <2>4. Interface!GrownBy(data.convs, data'.convs, call.conv, Interface!Conv(TRUE, in))
    BY <2>2, SameWrites, SameRows
  <2>5. call.conv \in DOMAIN data'.convs
    BY <2>2 DEF GrownBy, With
  <2>6. Interface!Keeps({"accounts", "messages", "deliveries", "files"})
    BY <2>2 DEF OnlyConvs, Interface!Keeps
  <2>7. Interface!Answers(call.conv)
    BY <2>2
  <2>8. Interface!CreateGroup
    BY <2>3, <2>4, <2>5, <2>6, <2>7 DEF Interface!CreateGroup
  <2> QED BY <2>8 DEF Interface!Next
<1> QED BY <1>1, <1>2, <1>3, <1>4

-----------------------------------------------------------------------------
(* The steps that commit, and those that end a call.                       *)

LEMMA CommitAdvances ==
    ASSUME Control, Stage, Commit
    PROVE  Advances
<1>1. /\ NextIs({"commit"}) /\ data' = work /\ inTx' = FALSE /\ GoesOn(call, Tail(todo)) /\ work' = work /\ next' = next
  BY DEF Commit
<1>2. Tail(todo) = <<>>
  BY <1>1, StageOf, ShortHeads DEF NextIs, Idle, OnName, Runs
<1>3. todo' = <<>> /\ call' = NoCall /\ answer' = Interface!Ok(call.out) /\ link' = link
  BY <1>1, <1>2, GoesOnToEnd
<1>4. AtRest'
  BY <1>1, <1>3 DEF AtRest, Quiet
<1>5. Control'
  BY <1>1, <1>3, NoCallTyped, ControlKept DEF Control
<1>6. Named = {0} => Interface!Next
  BY <1>1, <1>3, CommitEffect DEF Interface!Answers
<1> QED BY <1>4, <1>5, <1>6 DEF Advances, Stage, Refines

LEMMA WriteAdvances ==
    ASSUME Control, Stage, Write
    PROVE  Advances
<1>1. CASE GiveUp
  BY <1>1, GiveUpAdvances
<1>2. CASE Wrote
  <2>1. OnName(Head(todo).name) /\ Head(todo).name \in Writes
    BY <1>2 DEF Wrote, NextIs, Idle, OnName
  <2>2. CASE inTx
    <3>1. ~AtAccount /\ ~AtComplete /\ ~AtMark /\ ~AtGroupMessage
      BY <2>2 DEF AtAccount, AtComplete, AtMark, AtGroupMessage, ToGroup, Quiet
    <3>2. \/ AtNewGroup \/ AtMember \/ AtFile
          \/ \E file \in BOOLEAN : \/ AtConversation(file) \/ AtFirstMember(file) \/ AtSecondMember(file)
                                   \/ AtMessage(file) \/ AtDelivery(file)
      BY <2>1, <3>1, StageOf DEF Writes
    <3> QED BY <1>2, <3>2, WriteGroup, WriteMember, WriteFile, WriteConversation, WriteFirstMember,
               WriteSecondMember, WriteMessage, WriteDelivery
  <2>3. CASE ~inTx
    <3>1. /\ NextIs(Writes) /\ Allowed(Head(todo)) /\ data' = Written(Head(todo)) /\ work' = data' /\ inTx' = inTx
          /\ GoesOn(Noted(Head(todo)), Tail(todo))
      BY <1>2, <2>3 DEF Wrote
    <3>2. Tail(todo) = <<>>
      BY <3>1, <2>3, OutsideStages, ShortHeads DEF Runs
    <3>3. todo' = <<>> /\ call' = NoCall /\ answer' = Interface!Ok(Noted(Head(todo)).out) /\ link' = link
      BY <3>1, <3>2, GoesOnToEnd
    <3>4. AtRest'
      BY <2>3, <3>1, <3>3 DEF AtRest, Quiet
    <3>5. Interface!Next
      BY <2>3, <3>1, <3>3, WriteEffect DEF Interface!Answers
    <3> QED BY <1>2, <3>4, <3>5, WroteControl DEF Advances, Stage, Refines
  <2> QED BY <2>2, <2>3
<1> QED BY <1>1, <1>2 DEF Write, Wrote

\* A statement done whose answer is lost, and one undone.
LEMMA LostEnd ==
    ASSUME Control, Stage, DoneUnheard \/ Undone, link' \in {"up", "lost"}, answer' \in {answer, Interface!Failed}
    PROVE  Advances
<1>0. /\ data' = data => Refines
      /\ Control' /\ Stage' /\ Refines => Advances
      /\ Interface!Next => Refines
  BY DEF Refines, Interface!Next, Interface!Refuse, Advances
<1>1. \A id : Interface!Answers(id)
  BY DEF Interface!Answers
<1>2. CASE Undone
  BY <1>0, <1>2, EndAtRest DEF Undone, Ends, Control
<1>3. CASE NextIs({"commit"}) /\ Ends(work) /\ next' = next
  <2>1. Control' /\ Stage' /\ data' = work
    BY <1>3, EndAtRest DEF Ends, Control
  <2>2. Named = {0} => Interface!Next
    BY <1>1, <1>3, <2>1, CommitEffect
  <2> QED BY <2>1, <2>2 DEF Advances, Refines
<1>4. CASE /\ NextIs(Writes) /\ ~inTx /\ Allowed(Head(todo))
           /\ Ends(Written(Head(todo))) /\ next' = Drawn(Head(todo))
  <2>1. Control' /\ Stage' /\ data' = Written(Head(todo))
    BY <1>4, EndAtRest, WriteFits DEF Ends
  <2>2. Interface!Next
    BY <1>1, <1>4, <2>1, WriteEffect
  <2> QED BY <1>0, <2>1, <2>2
<1> QED BY <1>2, <1>3, <1>4 DEF DoneUnheard

-----------------------------------------------------------------------------
(* Calls that start.                                                       *)

\* Nothing moves but the call; it is shown to be at its first stage.
LEMMA StartAdvances ==
    ASSUME Control, Stage, NEW request \in CallType, NEW program, Starts(request, program), Quiet' => Stage'
    PROVE  Advances
<1>1. /\ todo = <<>> /\ call' = request /\ data' = data /\ work' = work /\ inTx' = inTx /\ next' = next /\ link' = link
      /\ answer' = answer
  BY DEF Starts, Idle
<1>2. Quiet
  BY <1>1, StageOf DEF AtRest
<1>3. Quiet'
  BY <1>1, <1>2 DEF Quiet
<1>4. inTx \in BOOLEAN
  BY DEF Control
<1> QED BY <1>1, <1>3, <1>4, QuietAdvance

LEMMA Started ==
    ASSUME NEW request, NEW program, Starts(request, program)
    PROVE  call' = request /\ todo' = program /\ data' = data
BY DEF Starts

LEMMA ShortCalls ==
    ASSUME Control, Stage, CreateAccount \/ StoreGroupMessage \/ CompleteFileTransfer \/ MarkDeliveryState
    PROVE  Advances
<1>1. CASE CreateAccount
  <2>1. PICK u \in Users : Starts(Call(u, NoUser, FALSE, 0, u), <<Sql("account")>>)
    BY <1>1 DEF CreateAccount
  <2> DEFINE c == Call(u, NoUser, FALSE, 0, u)
  <2>2. c \in CallType /\ c.from = u /\ c.out = u
    BY DEF Call, CallType, DeliveryStates
  <2> HIDE DEF c
  <2>3. Quiet' => AtAccount'
    <3>1. call' = c /\ todo' = <<Sql("account")>>
      BY <2>1, Started DEF c
    <3> QED BY <2>2, <3>1 DEF AtAccount
  <2> QED BY <2>1, <2>2, <2>3, StartAdvances DEF Stage, c
<1>2. CASE StoreGroupMessage
  <2>1. PICK u \in Users, g \in DOMAIN data.convs :
           Starts(Call(u, NoUser, TRUE, g, 0), <<Sql("check group"), Sql("message")>>)
    BY <1>2 DEF StoreGroupMessage
  <2> DEFINE c == Call(u, NoUser, TRUE, g, 0)
  <2>2. g \in Nat
    BY Counters DEF Drawable
  <2>3. c \in CallType /\ c.from = u /\ c.to = NoUser
    BY <2>2 DEF Call, CallType, DeliveryStates
  <2> HIDE DEF c
  <2>4. Quiet' => AtGroupCheck'
    <3>1. call' = c /\ todo' = <<Sql("check group"), Sql("message")>>
      BY <2>1, Started DEF c
    <3> QED BY <2>3, <3>1 DEF AtGroupCheck, ToGroup
  <2> QED BY <2>1, <2>3, <2>4, StartAdvances DEF Stage, c
<1>3. CASE CompleteFileTransfer
  <2>1. PICK f \in DOMAIN data.files : Starts(Call(NoUser, NoUser, FALSE, 0, f), <<Sql("complete")>>)
    BY <1>3 DEF CompleteFileTransfer
  <2> DEFINE c == Call(NoUser, NoUser, FALSE, 0, f)
  <2>2. f \in Nat
    BY Counters DEF Drawable
  <2>3. c \in CallType /\ c.out = f
    BY <2>2 DEF Call, CallType, DeliveryStates
  <2> HIDE DEF c
  <2>4. Quiet' => AtComplete'
    <3>1. call' = c /\ todo' = <<Sql("complete")>> /\ data' = data
      BY <2>1, Started DEF c
    <3> QED BY <2>3, <3>1 DEF AtComplete
  <2> QED BY <2>1, <2>3, <2>4, StartAdvances DEF Stage, c
<1>4. CASE MarkDeliveryState
  <2>1. PICK k \in DOMAIN data.deliveries, new \in DeliveryStates :
           Starts([Call(NoUser, NoUser, FALSE, 0, k) EXCEPT !.state = new], <<Sql("read state"), Sql("mark")>>)
    BY <1>4 DEF MarkDeliveryState
  <2> DEFINE c == [Call(NoUser, NoUser, FALSE, 0, k) EXCEPT !.state = new]
  <2>2. k \in Nat
    BY Counters DEF Drawable
  <2>3. c \in CallType /\ c.out = k
    BY <2>2 DEF Call, CallType, DeliveryStates
  <2> HIDE DEF c
  <2>4. Quiet' => AtState'
    <3>1. call' = c /\ todo' = <<Sql("read state"), Sql("mark")>> /\ data' = data
      BY <2>1, Started DEF c
    <3> QED BY <2>3, <3>1 DEF AtState
  <2> QED BY <2>1, <2>3, <2>4, StartAdvances DEF Stage, c
<1> QED BY <1>1, <1>2, <1>3, <1>4

LEMMA PrivateCalls ==
    ASSUME Control, Stage, StorePrivateMessage \/ StoreFileTransfer
    PROVE  Advances
<1>1. PICK from \in Users, named \in Named : \E to \in Users \ {from} :
         \/ Starts(Call(from, to, FALSE, named, 0), PrivateProgram(from, to, named))
         \/ Starts(Call(from, to, FALSE, named, 0), FileProgram(named))
  BY DEF StorePrivateMessage, StoreFileTransfer
<1>2. PICK to \in Users \ {from} :
         \/ Starts(Call(from, to, FALSE, named, 0), PrivateProgram(from, to, named))
         \/ Starts(Call(from, to, FALSE, named, 0), FileProgram(named))
  BY <1>1
<1> DEFINE c == Call(from, to, FALSE, named, 0)
<1>3. named \in Nat
  BY MySqlAssumption
<1>4. c \in CallType /\ c.from = from /\ c.to = to /\ c.group = FALSE /\ c.conv = named
  BY <1>3 DEF Call, CallType, DeliveryStates
<1> HIDE DEF c
<1>5. ASSUME NEW program, Starts(c, program) PROVE call' = c /\ todo' = program /\ Asked'
  BY <1>4, <1>5, Started DEF Asked, Pair
<1>6. CASE Starts(c, PrivateProgram(from, to, named))
  <2>1. Starts(c, FirstCheck(from, to, named))
    BY <1>3, <1>6, PrivatePrograms
  <2>2. Quiet' => AtFirstCheck'
    BY <1>4, <1>5, <2>1 DEF AtFirstCheck
  <2> QED BY <1>4, <2>1, <2>2, StartAdvances DEF Stage
<1>7. CASE Starts(c, FileProgram(named))
  <2>1. Starts(c, Opening(named, TRUE))
    BY <1>3, <1>7, PrivatePrograms
  <2>2. Quiet' => AtOpening(TRUE)'
    BY <1>4, <1>5, <2>1 DEF AtOpening
  <2> QED BY <1>4, <2>1, <2>2, StartAdvances DEF Stage
<1> QED BY <1>2, <1>6, <1>7 DEF c

LEMMA GroupCalls ==
    ASSUME Control, Stage, CreateGroup
    PROVE  Advances
<1>1. PICK creator \in Users, n \in 1 .. MaxList : \E list \in [1 .. n -> Users] : \E members \in Unique(creator, list) :
         /\ Len(members) >= 2
         /\ Starts(Call(creator, NoUser, TRUE, 0, 0), GroupProgram(creator, list, members))
  BY DEF CreateGroup
<1>0. PICK list \in [1 .. n -> Users] : \E members \in Unique(creator, list) :
         /\ Len(members) >= 2
         /\ Starts(Call(creator, NoUser, TRUE, 0, 0), GroupProgram(creator, list, members))
  BY <1>1
<1>2. PICK members \in Unique(creator, list) :
         /\ Len(members) >= 2
         /\ Starts(Call(creator, NoUser, TRUE, 0, 0), GroupProgram(creator, list, members))
  BY <1>0
<1>3. list \in Seq(Users) /\ n \in Nat
  <2>1. n \in Nat
    BY MySqlAssumption
  <2> QED BY <2>1, SeqDef
<1> DEFINE named == <<creator>> \o list
<1>4. named \in Seq(Users) /\ named # <<>>
  <2>1. named \in Seq(Users)
    BY <1>3, GroupPrograms, EmptySeq
  <2>2. Len(named) = 1 + Len(list) /\ Len(list) \in Nat
    BY <1>3
  <2> HIDE DEF named
  <2> QED BY <2>1, <2>2
<1>5. members \in Seq(Users) /\ Several(Listed(members))
  <2>1. members \in SetToSeqs(ToSet(named))
    BY DEF Unique
  <2> HIDE DEF named
  <2>2. members \in Seq(ToSet(named)) /\ \A i, j \in DOMAIN members : members[i] = members[j] => i = j
    <3> DEFINE size == Cardinality(ToSet(named))
    <3>1. members \in {f \in [1 .. size -> ToSet(named)] : \A i, j \in 1 .. size : i # j => f[i] # f[j]}
      BY <2>1, Zenon DEF SetToSeqs
    <3>2. size \in Nat
      <4>1. DOMAIN named = 1 .. Len(named) /\ Len(named) \in Nat
        BY <1>4
      <4>2. IsFiniteSet(DOMAIN named)
        BY <4>1, FS_Interval
      <4>3. named \in Surjection(DOMAIN named, ToSet(named))
        BY <1>4 DEF ToSet, Surjection
      <4>4. IsFiniteSet(ToSet(named))
        BY <4>2, <4>3, FS_Surjection
      <4> QED BY <4>4, FS_CardinalityType
    <3> HIDE DEF size
    <3>3. DOMAIN members = 1 .. size /\ members \in [1 .. size -> ToSet(named)]
      BY <3>1
    <3>4. members \in Seq(ToSet(named))
      BY <3>2, <3>3, SeqDef
    <3> QED BY <3>1, <3>3, <3>4
  <2>3. ToSet(named) \subseteq Users
    BY <1>4 DEF ToSet
  <2>4. members \in Seq(Users)
    BY <2>2, <2>3
  <2>5. 1 \in DOMAIN members /\ 2 \in DOMAIN members
    BY <1>2, <2>4
  <2>6. members[1] # members[2]
    BY <2>2, <2>5
  <2> QED BY <2>4, <2>5, <2>6 DEF Several, Listed
<1> DEFINE c == Call(creator, NoUser, TRUE, 0, 0)
<1>6. c \in CallType /\ c.from = creator /\ c.group = TRUE
  BY DEF Call, CallType, DeliveryStates
<1> HIDE DEF c
<1>7. Starts(c, CheckUsers(named, members))
  BY <1>2, <1>3, <1>5, GroupPrograms DEF c
<1> HIDE DEF named
<1>8. Quiet' => AtUserCheck'
  <2>1. call' = c /\ todo' = CheckUsers(named, members)
    BY <1>7, Started
  <2>2. OfGroup'
    BY <1>6, <2>1 DEF OfGroup
  <2> QED BY <1>4, <1>5, <2>1, <2>2 DEF AtUserCheck
<1> QED BY <1>6, <1>7, <1>8, StartAdvances DEF Stage

-----------------------------------------------------------------------------

LEMMA NextAdvances ==
    ASSUME Inv, Next
    PROVE  Advances
<1>1. Control /\ Stage
  BY DEF Inv
<1>2. CASE StatementFails
  BY <1>1, <1>2, GiveUpAdvances DEF StatementFails
<1>3. CASE ConnectionLost
  BY <1>1, <1>3, LostEnd DEF ConnectionLost
<1>4. CASE Restart
  BY <1>1, <1>4, LostEnd DEF Restart
<1> QED BY <1>1, <1>2, <1>3, <1>4, ShortCalls, PrivateCalls, GroupCalls, BeginAdvances, CheckAdvances, FindAdvances,
           ReadAdvances, WriteAdvances, CommitAdvances DEF Next

LEMMA InitHolds ==
    ASSUME Init
    PROVE  Inv
<1>1. /\ data = EmptyTables /\ work = EmptyTables /\ inTx = FALSE
      /\ link = "up" /\ call = NoCall /\ todo = <<>> /\ answer = Interface!NoAnswer
      /\ next = [t \in IdTables |-> 1]
  BY DEF Init
<1>2. AtRest
  BY <1>1 DEF AtRest, Quiet
<1>3. Fits(EmptyTables, next)
  <2>1. DOMAIN NoRows = {}
    BY DEF NoRows
  <2> QED BY <2>1 DEF Fits, IsTables, EmptyTables, Below, Drawable
<1>4. Control
  <2>1. next \in [IdTables -> Nat \ {0}]
    BY <1>1
  <2>2. inTx \in BOOLEAN /\ link \in {"up", "lost"} /\ call \in CallType
    BY <1>1, NoCallTyped
  <2> QED BY <1>1, <1>3, <2>1, <2>2 DEF Control
<1>5. Promises!Sound(data)
  <2>1. Promises!Init
    BY <1>1 DEF Promises!Init, Promises!EmptyTables, EmptyTables, Promises!NoRows, NoRows, Promises!NoAnswer, Interface!NoAnswer
  <2> QED BY <2>1, TablesAssumption, Promises!InitSound DEF Promises!Tabular
<1> QED BY <1>2, <1>4, <1>5 DEF Inv, Stage

Moving == <<data, work, inTx, next, link, call, todo>>

LEMMA StageStays ==
    ASSUME Stage, UNCHANGED Moving
    PROVE  Stage'
<1> USE DEF Moving, Quiet, Opened, Pair, Asked, OnlyConvs, Unpaired, Added, ConvReady, MessageIn, DeliveryIn, ToGroup,
            OfGroup, Gathered
<1>1. (AtRest => AtRest') /\ (AtAccount => AtAccount') /\ (AtComplete => AtComplete')
  BY DEF AtRest, AtAccount, AtComplete
<1>2. (AtState => AtState') /\ (AtMark => AtMark') /\ (AtGroupCheck => AtGroupCheck')
      /\ (AtGroupMessage => AtGroupMessage')
  BY DEF AtState, AtMark, AtGroupCheck, AtGroupMessage
<1>3. (AtFirstCheck => AtFirstCheck') /\ (AtSecondCheck => AtSecondCheck')
  BY DEF AtFirstCheck, AtSecondCheck
<1>4. (AtFile => AtFile') /\ (AtMessageCommit => AtMessageCommit') /\ (AtFileCommit => AtFileCommit')
  BY DEF AtFile, AtMessageCommit, AtFileCommit
<1>5. ASSUME NEW file \in BOOLEAN
      PROVE  /\ AtOpening(file) => AtOpening(file)'
             /\ AtLocating(file) => AtLocating(file)'
             /\ AtConversation(file) => AtConversation(file)'
             /\ AtFirstMember(file) => AtFirstMember(file)'
             /\ AtSecondMember(file) => AtSecondMember(file)'
             /\ AtMessage(file) => AtMessage(file)'
             /\ AtDelivery(file) => AtDelivery(file)'
  BY DEF AtOpening, AtLocating, AtConversation, AtFirstMember, AtSecondMember, AtMessage, AtDelivery
<1>6. (AtUserCheck => AtUserCheck') /\ (AtOpenGroup => AtOpenGroup') /\ (AtNewGroup => AtNewGroup')
  BY DEF AtUserCheck, AtOpenGroup, AtNewGroup
<1>7. (AtMember => AtMember') /\ (AtGroupCommit => AtGroupCommit')
  BY DEF AtMember, AtGroupCommit
<1> QED BY <1>1, <1>2, <1>3, <1>4, <1>5, <1>6, <1>7 DEF Stage

LEMMA StepHolds == Inv /\ [Next]_vars => Inv'
<1> SUFFICES ASSUME Inv, [Next]_vars PROVE Inv'
  OBVIOUS
<1>1. CASE Next
  <2>1. Control' /\ Stage' /\ Refines
    BY <1>1, NextAdvances DEF Advances
  <2>2. ASSUME Named = {0} PROVE Promises!Sound(data')
    <3>1. Promises!Sound(data)
      BY <2>2 DEF Inv
    <3>2. CASE data' = data
      BY <3>1, <3>2
    <3>3. CASE Interface!Next
      <4>1. Promises!Next /\ Promises!Tabular
        BY <3>1, <3>3, SameSteps DEF Promises!Tabular
      <4>2. Promises!Tabular'
        BY <4>1, TablesAssumption, Promises!StepSound
      <4> QED BY <4>2 DEF Promises!Tabular
    <3> QED BY <2>1, <2>2, <3>2, <3>3 DEF Refines
  <2> QED BY <2>1, <2>2 DEF Inv
<1>2. CASE UNCHANGED vars
  <2>1. UNCHANGED Moving
    BY <1>2 DEF vars, Moving
  <2>2. Control'
    BY <2>1 DEF Inv, Control, Moving
  <2>3. Stage'
    BY <2>1, StageStays DEF Inv
  <2> QED BY <2>1, <2>2, <2>3 DEF Inv, Moving
<1> QED BY <1>1, <1>2

LEMMA InvGivesTypes == Inv => TypeOK
<1> SUFFICES ASSUME Inv PROVE TypeOK
  OBVIOUS
<1>1. Control /\ Stage
  BY DEF Inv
<1>2. data.accounts \subseteq Users /\ inTx \in BOOLEAN /\ link \in {"up", "lost"}
  BY <1>1 DEF Control, Fits
<1>3. ASSUME NEW t \in IdTables PROVE next[t] \in Nat /\ \A id \in DOMAIN data[t] : id < next[t]
  BY <1>1, Counters DEF IdTables, Drawable
<1>4. inTx \/ Quiet
  BY <1>1 DEF Stage, AtRest, AtAccount, AtComplete, AtState, AtMark, ToGroup, AtGroupCheck, AtGroupMessage,
      AtFirstCheck, AtSecondCheck, AtOpening, AtLocating, Opened, AtConversation, AtFirstMember, AtSecondMember,
      OnlyConvs, AtMessage, AtDelivery, MessageIn, DeliveryIn, AtFile, AtMessageCommit, AtFileCommit,
      AtUserCheck, AtOpenGroup, AtNewGroup, AtMember, AtGroupCommit, Gathered
<1>5. AtRest \/ call.from \in Users \/ call.out \in Nat \ {0}
  <2>1. \A id \in DOMAIN data.files \cup DOMAIN data.deliveries : id \in Nat \ {0}
    BY <1>1, Counters DEF Drawable
  <2> QED BY <1>1, <2>1 DEF Stage, AtAccount, AtComplete, AtState, AtMark, ToGroup, AtGroupCheck, AtGroupMessage,
      AtFirstCheck, AtSecondCheck, Asked, Pair, AtOpening, AtLocating, AtConversation, AtFirstMember, AtSecondMember,
      AtMessage, AtDelivery, MessageIn, DeliveryIn, AtFile, AtMessageCommit, AtFileCommit,
      OfGroup, AtUserCheck, AtOpenGroup, AtNewGroup, AtMember, AtGroupCommit, Gathered
<1>6. Idle <=> call = NoCall
  <2>1. Idle => AtRest
    BY <1>1, StageOf DEF Idle
  <2>2. NoCall.from = NoUser /\ NoCall.out = 0
    BY DEF NoCall, Call
  <2> QED BY <1>5, <2>1, <2>2, TablesAssumption DEF AtRest, Idle
<1>7. Idle => ~inTx
  BY <1>1, StageOf DEF Idle, AtRest, Quiet
<1> QED BY <1>2, <1>3, <1>4, <1>6, <1>7 DEF TypeOK, Quiet

\* On every way out of a call its transaction is committed or rolled back: at rest
\* the connection has none open and sees what is committed, and an id a table holds
\* is always below the table's counter.
THEOREM NoTransactionStaysOpen == Spec => []TypeOK
<1> QED BY InitHolds, StepHolds, InvGivesTypes, PTL DEF Spec

LEMMA InitIsStorage == Init => Interface!Init
BY DEF Init, Interface!Init, EmptyTables, Interface!EmptyTables, NoRows, Interface!NoRows

LEMMA StepIsStorage ==
    ASSUME Named = {0}
    PROVE  Inv /\ [Next]_vars => [Interface!Next]_(Interface!vars)
<1> SUFFICES ASSUME Inv, [Next]_vars PROVE [Interface!Next]_(Interface!vars)
  OBVIOUS
<1>1. CASE Next
  BY <1>1, NextAdvances DEF Advances, Refines, Interface!vars
<1>2. CASE UNCHANGED vars
  BY <1>2 DEF vars, Interface!vars
<1> QED BY <1>1, <1>2

\* The backend implements the storage interface: a call takes effect as a whole or not
\* at all, one that answers OK took effect, and only a lost answer hides an effect.  Of
\* callers that name no conversation, as the server does.
THEOREM MySqlIsStorage ==
    ASSUME Named = {0}
    PROVE  Spec => IsStorage
<1>1. Inv /\ [Next]_vars => [Interface!Next]_(Interface!vars)
  BY StepIsStorage
<1> QED BY <1>1, InitHolds, InitIsStorage, StepHolds, PTL DEF Spec, IsStorage, Interface!Spec

\* What is committed is consistent, wherever a call fails, the connection is lost or
\* the process dies.
THEOREM MySqlIsConsistent ==
    ASSUME Named = {0}
    PROVE  Spec => []TablesConsistent
<1>1. Inv => TablesConsistent
  <2> SUFFICES ASSUME Inv PROVE Consistent(data)
    BY DEF TablesConsistent
  <2>1. Promises!Sound(data)
    BY DEF Inv
  <2>2. Promises!Consistent(data)
    BY <2>1, TablesAssumption, Promises!SoundIsConsistent
  <2> QED BY <2>2, SameConsistent
<1> QED BY <1>1, InitHolds, StepHolds, PTL DEF Spec

\* A page of history is cut from the same messages before and after a step.
LEMMA SameOlder ==
    \A d, a, b, before : Promises!Older(d, a, b, before) =
        {m \in DOMAIN d.messages :
            /\ Private(d, a, b) # {}
            /\ d.messages[m].conv = Least(Private(d, a, b))
            /\ before = 0 \/ m < before}
<1>1. \A S : Promises!Least(S) = Least(S)
  BY DEF Promises!Least, Least
<1> QED BY <1>1, SameQueries DEF Promises!Older

SamePages ==
    data' # data =>
       \A a \in Users : \A b \in Users \ {a}, m \in DOMAIN data.messages, n \in 1 .. MaxRows.messages :
          HistoryQuery(data', a, b, m, n) = HistoryQuery(data, a, b, m, n)

LEMMA StepKeepsPages ==
    ASSUME Named = {0}
    PROVE  Inv /\ [Next]_vars => [SamePages]_data
<1> SUFFICES ASSUME Inv, Next PROVE SamePages
  BY DEF vars
<1> SUFFICES ASSUME data' # data, NEW a \in Users, NEW b \in Users \ {a}, NEW m \in DOMAIN data.messages,
                    NEW n \in 1 .. MaxRows.messages
             PROVE  HistoryQuery(data', a, b, m, n) = HistoryQuery(data, a, b, m, n)
  BY DEF SamePages
<1>1. Promises!Next /\ Promises!Sound(data)
  BY NextAdvances, SameSteps DEF Advances, Refines, Inv
<1>2. Promises!Older(data', a, b, m) = Promises!Older(data, a, b, m)
  BY <1>1, TablesAssumption, Promises!OlderStay
<1> QED BY <1>2, SameOlder DEF HistoryQuery

\* A page of history that ends before a committed message never changes, whatever is
\* rolled back or lost: ids that are lost are not given to a later message.
THEOREM MySqlPagesStay ==
    ASSUME Named = {0}
    PROVE  Spec => OldPagesStay
<1>1. Inv /\ [Next]_vars => [SamePages]_data
  BY StepKeepsPages
<1>2. Spec => [][SamePages]_data
  BY <1>1, InitHolds, StepHolds, PTL DEF Spec
<1> QED BY <1>2 DEF OldPagesStay, SamePages
=============================================================================
