----------------------------- MODULE ContactsProofs -----------------------------
(***************************************************************************)
(* Proofs about Contacts for any users and any number of choices and       *)
(* losses.                                                                 *)
(***************************************************************************)
EXTENDS Contacts, SequenceTheorems, TLAPS

RouterMsgs == Questions \cup ({"ack"} \X Pushes)
AppMsgs == Pushes \cup Answers
Unique(rows) ==
  \A i, j \in DOMAIN rows : rows[i].user = rows[j].user => i = j
-----------------------------------------------------------------------------
(***************************************************************************)
(* Messages: what a message is, from its first component.                  *)
(***************************************************************************)
LEMMA RouterMessage ==
  ASSUME NEW m \in RouterMsgs
  PROVE  /\ m[1] \in {"ack", "pull", "agree", "ask", "delete"}
         /\ m[1] = "ack" => m[2] \in Pushes
         /\ m[1] = "pull" <=> m = <<"pull">>
         /\ m[1] \in {"agree", "ask", "delete"} => m[2] \in Users
BY DEF RouterMsgs, Questions

LEMMA AppMessage ==
  ASSUME NEW m \in AppMsgs
  PROVE  /\ m[1] \in {"request", "reply", "refusal", "removed", "dealt", "asked",
                      "deleted", "list"}
         /\ m[1] \in {"request", "reply", "refusal", "removed"} =>
              m \in Pushes /\ m[2] \in Users
         /\ m[1] \in {"asked", "deleted"} => m[2] \in Users
         /\ m[1] = "deleted" => m = <<"deleted", m[2]>>
         /\ m[1] = "list" => m[2] \subseteq Users
BY DEF AppMsgs, Pushes, Answers

LEMMA Dealt ==
  ASSUME NEW b \in BOOLEAN
  PROVE  <<"dealt", b>> \in AppMsgs
BY DEF AppMsgs, Answers
-----------------------------------------------------------------------------
(***************************************************************************)
(* Rows: what the operators on the table of requests preserve.             *)
(***************************************************************************)
LEMMA RowFields ==
  ASSUME NEW r \in Rows, NEW s \in Statuses
  PROVE  /\ r.user \in Users
         /\ [r EXCEPT !.dealStaus = s] \in Rows
         /\ [r EXCEPT !.dealStaus = s].user = r.user
BY DEF Rows

LEMMA MarkedRows ==
  ASSUME NEW rows \in Seq(Rows), NEW u, NEW s \in Statuses
  PROVE  /\ Marked(rows, u, s) \in Seq(Rows)
         /\ Unique(rows) => Unique(Marked(rows, u, s))
<1>. DEFINE t == Marked(rows, u, s)
<1>1. /\ Len(rows) \in Nat /\ DOMAIN rows = 1 .. Len(rows)
      /\ \A i \in 1 .. Len(rows) : rows[i] \in Rows
  BY LenProperties, ElementOfSeq
<1>2. t = [i \in 1 .. Len(rows) |-> t[i]]
  BY <1>1 DEF Marked
<1>3. ASSUME NEW i \in 1 .. Len(rows)
      PROVE  t[i] \in Rows /\ t[i].user = rows[i].user
  <2>. DEFINE q == [rows[i] EXCEPT !.dealStaus = s]
  <2>1. t[i] = IF i \in Of(rows, u) THEN q ELSE rows[i]
    BY <1>1 DEF Marked
  <2>2. q \in Rows /\ q.user = rows[i].user
    BY <1>1, RowFields
  <2>. HIDE DEF q, t
  <2>. QED BY <1>1, <2>1, <2>2
<1>. HIDE DEF t
<1>4. t \in [1 .. Len(rows) -> Rows]
  BY <1>2, <1>3
<1>5. t \in Seq(Rows)
  BY <1>1, <1>4, SeqDef
<1>6. Unique(rows) => Unique(t)
  BY <1>1, <1>2, <1>3 DEF Unique
<1>. QED BY <1>5, <1>6 DEF t

\* RemoveAt closes the gap.
LEMMA RemoveAtProperties ==
  ASSUME NEW S, NEW s \in Seq(S), NEW i \in 1 .. Len(s)
  PROVE  /\ RemoveAt(s, i) \in Seq(S)
         /\ Len(RemoveAt(s, i)) = Len(s) - 1
         /\ \A j \in 1 .. Len(s) - 1 :
              RemoveAt(s, i)[j] = IF j < i THEN s[j] ELSE s[j + 1]
<1>. DEFINE a == SubSeq(s, 1, i - 1)
            b == SubSeq(s, i + 1, Len(s))
            n == Len(s)
<1>0. n \in Nat /\ i \in Nat /\ i >= 1 /\ i <= n
  BY LenProperties
<1>1. /\ a \in Seq(S) /\ Len(a) = i - 1
      /\ \A j \in 1 .. i - 1 : a[j] = s[j]
  <2>. \A j \in 1 .. i - 1 : s[j] \in S
    BY <1>0, ElementOfSeq
  <2>. QED BY <1>0, SubSeqProperties
<1>2. /\ b \in Seq(S) /\ Len(b) = n - i
      /\ \A j \in 1 .. n - i : b[j] = s[j + i]
  <2>. \A j \in i + 1 .. n : s[j] \in S
    BY <1>0, ElementOfSeq
  <2>1. /\ b \in Seq(S) /\ Len(b) = IF i + 1 <= n THEN n - (i + 1) + 1 ELSE 0
        /\ \A j \in 1 .. n - (i + 1) + 1 : b[j] = s[i + 1 + j - 1]
    BY <1>0, SubSeqProperties
  <2>2. Len(b) = n - i
    BY <1>0, <2>1
  <2>3. ASSUME NEW j \in 1 .. n - i PROVE b[j] = s[j + i]
    <3>1. j \in 1 .. n - (i + 1) + 1 /\ i + 1 + j - 1 = j + i
      BY <1>0
    <3>. QED BY <2>1, <3>1
  <2>. QED BY <2>1, <2>2, <2>3
<1>3. RemoveAt(s, i) = a \o b
  BY DEF RemoveAt
<1>. HIDE DEF a, b, n
<1>4. /\ a \o b \in Seq(S) /\ Len(a \o b) = (i - 1) + (n - i)
      /\ \A j \in 1 .. (i - 1) + (n - i) : (a \o b)[j] =
           IF j <= i - 1 THEN a[j] ELSE b[j - (i - 1)]
  <2>1. /\ a \o b \in Seq(S) /\ Len(a \o b) = Len(a) + Len(b)
        /\ \A j \in 1 .. Len(a) + Len(b) : (a \o b)[j] =
             IF j <= Len(a) THEN a[j] ELSE b[j - Len(a)]
    BY <1>1, <1>2, ConcatProperties
  <2>. QED BY <1>1, <1>2, <2>1
<1>5. ASSUME NEW j \in 1 .. n - 1
      PROVE  (a \o b)[j] = IF j < i THEN s[j] ELSE s[j + 1]
  <2>1. j \in 1 .. (i - 1) + (n - i)
    BY <1>0
  <2>2. CASE j < i
    BY <1>0, <1>1, <1>4, <2>1, <2>2
  <2>3. CASE ~(j < i)
    <3>1. j - (i - 1) \in 1 .. n - i /\ j - (i - 1) + i = j + 1
      BY <1>0, <2>3
    <3>. QED BY <1>0, <1>2, <1>4, <2>1, <2>3, <3>1
  <2>. QED BY <2>2, <2>3
<1>6. (i - 1) + (n - i) = n - 1
  BY <1>0
<1>. QED BY <1>3, <1>4, <1>5, <1>6 DEF n

\* A row that is deleted is gone, and the others stay.
LEMMA WithoutRows ==
  ASSUME NEW rows \in Seq(Rows), Unique(rows), NEW u
  PROVE  /\ Without(rows, u) \in Seq(Rows)
         /\ Unique(Without(rows, u))
         /\ Of(Without(rows, u), u) = {}
<1>. DEFINE n == Len(rows)
<1>1. n \in Nat /\ DOMAIN rows = 1 .. n
  BY LenProperties
<1>2. CASE Of(rows, u) = {}
  <2>1. Without(rows, u) = rows
    BY <1>1, <1>2 DEF Without, RemoveFirstMatch, Of
  <2>. QED BY <1>2, <2>1
<1>3. ASSUME NEW i \in Of(rows, u)
      PROVE  /\ Without(rows, u) \in Seq(Rows)
             /\ Unique(Without(rows, u))
             /\ Of(Without(rows, u), u) = {}
  <2>1. i \in 1 .. n /\ rows[i].user = u
    BY <1>1 DEF Of
  <2>2. {j \in 1 .. n : rows[j].user = u} = {i}
    BY <1>1, <2>1 DEF Unique
  <2>3. SelectInSeq(rows, LAMBDA r : r.user = u) = i
    <3>1. Min({i}) = i
      BY <1>1, <2>1 DEF Min
    <3>. QED BY <2>2, <3>1 DEF SelectInSeq
  <2>. DEFINE t == RemoveAt(rows, i)
  <2>4. Without(rows, u) = t
    BY <2>1, <2>3 DEF Without, RemoveFirstMatch
  <2>5. /\ t \in Seq(Rows) /\ Len(t) = n - 1
        /\ \A j \in 1 .. n - 1 : t[j] = IF j < i THEN rows[j] ELSE rows[j + 1]
    BY <2>1, RemoveAtProperties
  <2>6. DOMAIN t = 1 .. n - 1
    BY <2>5, LenProperties
  <2>. HIDE DEF t, n
  <2>7. \A j \in 1 .. n - 1 :
          LET J == IF j < i THEN j ELSE j + 1
          IN  J \in 1 .. n /\ J # i /\ t[j] = rows[J]
    BY <1>1, <2>1, <2>5
  <2>8. Unique(t)
    <3>. SUFFICES ASSUME NEW j \in 1 .. n - 1, NEW k \in 1 .. n - 1,
                         t[j].user = t[k].user
                  PROVE  j = k
      BY <2>6 DEF Unique
    <3>. DEFINE J == IF j < i THEN j ELSE j + 1
                K == IF k < i THEN k ELSE k + 1
    <3>1. J = K
      BY <1>1, <2>7 DEF Unique
    <3>. QED BY <1>1, <2>1, <3>1
  <2>9. Of(t, u) = {}
    BY <2>2, <2>6, <2>7 DEF Of
  <2>. QED BY <2>4, <2>5, <2>8, <2>9
<1>. QED BY <1>2, <1>3

LEMMA OnTopRows ==
  ASSUME NEW rows \in Seq(Rows), Unique(rows), NEW u \in Users, NEW s \in Statuses
  PROVE  OnTop(rows, u, s) \in Seq(Rows) /\ Unique(OnTop(rows, u, s))
<1>. DEFINE r == [user |-> u, dealStaus |-> s]
            w == Without(rows, u)
            t == OnTop(rows, u, s)
<1>1. r \in Rows /\ r.user = u
  BY DEF Rows
<1>2. w \in Seq(Rows) /\ Unique(w) /\ Of(w, u) = {}
  BY WithoutRows
<1>3. t = <<r>> \o w
  BY DEF OnTop
<1>. HIDE DEF r, w, t
<1>4. <<r>> \in Seq(Rows) /\ Len(<<r>>) = 1 /\ <<r>>[1] = r
  BY <1>1
<1>5. /\ t \in Seq(Rows) /\ Len(t) = 1 + Len(w)
      /\ \A i \in 1 .. 1 + Len(w) : t[i] = IF i <= 1 THEN r ELSE w[i - 1]
  <2>1. /\ t \in Seq(Rows) /\ Len(t) = Len(<<r>>) + Len(w)
        /\ \A i \in 1 .. Len(<<r>>) + Len(w) :
             t[i] = IF i <= Len(<<r>>) THEN <<r>>[i] ELSE w[i - Len(<<r>>)]
    BY <1>2, <1>3, <1>4, ConcatProperties
  <2>2. Len(w) \in Nat
    BY <1>2, LenProperties
  <2>. QED BY <1>4, <2>1, <2>2
<1>6. /\ Len(w) \in Nat /\ DOMAIN w = 1 .. Len(w) /\ DOMAIN t = 1 .. Len(t)
  BY <1>2, <1>5, LenProperties
<1>7. \A i \in DOMAIN t :
        \/ i = 1 /\ t[i].user = u
        \/ i - 1 \in DOMAIN w /\ t[i] = w[i - 1]
  <2>. SUFFICES ASSUME NEW i \in DOMAIN t
                PROVE  \/ i = 1 /\ t[i].user = u
                       \/ i - 1 \in DOMAIN w /\ t[i] = w[i - 1]
    OBVIOUS
  <2>0. i \in 1 .. 1 + Len(w)
    BY <1>5, <1>6
  <2>1. CASE i = 1
    BY <1>1, <1>5, <2>0, <2>1
  <2>2. CASE i # 1
    <3>1. i - 1 \in 1 .. Len(w) /\ ~(i <= 1)
      BY <1>6, <2>0, <2>2
    <3>. QED BY <1>5, <1>6, <2>0, <3>1
  <2>. QED BY <2>1, <2>2
<1>8. \A i \in DOMAIN w : w[i].user # u
  BY <1>2 DEF Of
<1>9. Unique(t)
  <2>. SUFFICES ASSUME NEW i \in DOMAIN t, NEW j \in DOMAIN t, t[i].user = t[j].user
                PROVE  i = j
    BY DEF Unique
  <2>1. CASE i = 1 \/ j = 1
    BY <1>6, <1>7, <1>8, <2>1
  <2>2. CASE i # 1 /\ j # 1
    <3>1. i - 1 = j - 1
      BY <1>2, <1>7, <2>2 DEF Unique
    <3>. QED BY <1>6, <3>1
  <2>. QED BY <2>1, <2>2
<1>. QED BY <1>5, <1>9 DEF t
-----------------------------------------------------------------------------
(***************************************************************************)
(* Types, action by action.                                                *)
(***************************************************************************)
Page == [open : BOOLEAN, rows : Seq(Rows), row : Nat \ {0}]

LEMMA Types ==
  ASSUME TypeOK
  PROVE  /\ toRouter \in Seq(RouterMsgs) /\ toApp \in Seq(AppMsgs)
         /\ requests \in Seq(Rows) /\ Unique(requests) /\ page \in Page
BY DEF TypeOK, RouterMsgs, AppMsgs, Unique, Page

\* What one action must show: the rest of TypeOK it leaves alone.
LEMMA TypesKept ==
  ASSUME friends' \subseteq Users, asking' \subseteq Users, invited' \subseteq Users,
         owed' \subseteq Pushes, toRouter' \in Seq(RouterMsgs),
         toApp' \in Seq(AppMsgs), requests' \in Seq(Rows), Unique(requests'),
         friendArray' \subseteq Users, loaded' \in BOOLEAN, page' \in Page,
         agreedSince' \subseteq Users, missed' \in BOOLEAN,
         choices' \in Nat, losses' \in Nat
  PROVE  TypeOK'
BY DEF TypeOK, RouterMsgs, AppMsgs, Unique, Page

LEMMA SendTypes ==
  ASSUME TypeOK, NEW sent \in Seq(RouterMsgs), Send(sent)
  PROVE  /\ toRouter' \in Seq(RouterMsgs)
         /\ agreedSince' \subseteq Users /\ missed' \in BOOLEAN
<1>1. toRouter \o sent \in Seq(RouterMsgs)
  BY Types, ConcatProperties
<1>. QED BY <1>1 DEF Send, Pulls, Agreed, TypeOK

LEMMA OthersTypes ==
  ASSUME TypeOK, Others
  PROVE  TypeOK'
<1>. USE DEF Choice, history
<1>1. ASSUME NEW u \in Users, UserAsks(u) \/ UserReplies(u) \/ UserDeletes(u)
      PROVE  TypeOK'
  BY <1>1 DEF UserAsks, UserReplies, UserDeletes, TypeOK, Pushes
<1>. QED BY <1>1 DEF Others

LEMMA PushTypes ==
  ASSUME TypeOK, NEW p \in owed, Push(p)
  PROVE  TypeOK'
<1>1. p \in AppMsgs
  BY DEF TypeOK, AppMsgs
<1>2. toApp' \in Seq(AppMsgs)
  BY <1>1, Types, AppendProperties DEF Push, Answer
<1>. QED BY <1>2, Types, TypesKept DEF Push, TypeOK, router, history

LEMMA RouterTakesTypes ==
  ASSUME TypeOK, RouterTakes
  PROVE  TypeOK'
<1>. DEFINE m == Head(toRouter)
<1>1. m \in RouterMsgs /\ toRouter' \in Seq(RouterMsgs)
  BY Types, HeadTailProperties DEF RouterTakes
<1>2. /\ UNCHANGED <<requests, friendArray, loaded, page, history, choices, losses>>
      /\ RouterReads(m)
  BY DEF RouterTakes
<1>. HIDE DEF m
<1>3. /\ friends' \subseteq Users /\ asking' \subseteq Users /\ invited' \subseteq Users
      /\ owed' \subseteq Pushes
  BY <1>1, <1>2, RouterMessage DEF RouterReads, TypeOK, router
<1>4. toApp' \in Seq(AppMsgs)
  <2>1. \/ toApp' = toApp
        \/ \E a \in AppMsgs : toApp' = Append(toApp, a)
    <3>1. CASE m[1] = "ack"
      BY <1>2, <3>1 DEF RouterReads
    <3>2. CASE m[1] = "pull"
      <4>1. <<"list", friends>> \in AppMsgs
        BY DEF AppMsgs, Answers, TypeOK
      <4>. QED BY <1>2, <3>2, <4>1 DEF RouterReads, Answer
    <3>3. CASE m[1] = "agree"
      <4>1. <<"dealt", m[2] \in asking \cup friends>> \in AppMsgs
        <5>1. (m[2] \in asking \cup friends) \in BOOLEAN
          OBVIOUS
        <5>. QED BY <5>1, Dealt
      <4>. QED BY <1>2, <3>3, <4>1 DEF RouterReads, Answer
    <3>4. CASE m[1] = "ask"
      <4>1. <<"asked", m[2]>> \in AppMsgs
        BY <1>1, <3>4, RouterMessage DEF AppMsgs, Answers
      <4>. QED BY <1>2, <3>4, <4>1 DEF RouterReads, Answer
    <3>5. CASE m[1] = "delete"
      <4>1. <<"deleted", m[2]>> \in AppMsgs
        BY <1>1, <3>5, RouterMessage DEF AppMsgs, Answers
      <4>. QED BY <1>2, <3>5, <4>1 DEF RouterReads, Answer
    <3>. QED BY <1>1, <3>1, <3>2, <3>3, <3>4, <3>5, RouterMessage
  <2>. QED BY <2>1, Types, AppendProperties
<1>. QED BY <1>1, <1>2, <1>3, <1>4, Types, TypesKept DEF TypeOK, history

\* The page shows the rows of the table.
LEMMA PageTypes ==
  ASSUME NEW pg \in Page, NEW rows \in Seq(Rows)
  PROVE  /\ pg.rows \in Seq(Rows) /\ pg.open \in BOOLEAN /\ pg.row \in Nat \ {0}
         /\ [pg EXCEPT !.rows = rows] \in Page
BY DEF Page

LEMMA AppTakesTypes ==
  ASSUME TypeOK, AppTakes
  PROVE  TypeOK'
<1>. DEFINE m == Head(toApp)
<1>1. m \in AppMsgs /\ toApp' \in Seq(AppMsgs)
  BY Types, HeadTailProperties DEF AppTakes
<1>2. /\ UNCHANGED <<friends, asking, invited, owed, choices, losses>>
      /\ AppReads(m) /\ ~Beyond(m)
  BY DEF AppTakes, router
<1>. HIDE DEF m
<1>3. requests \in Seq(Rows) /\ Unique(requests) /\ page \in Page /\ page.rows \in Seq(Rows)
  BY Types, PageTypes
<1>. SUFFICES /\ toRouter' \in Seq(RouterMsgs) /\ agreedSince' \subseteq Users
              /\ missed' \in BOOLEAN /\ requests' \in Seq(Rows) /\ Unique(requests')
              /\ friendArray' \subseteq Users /\ loaded' \in BOOLEAN /\ page' \in Page
  BY <1>1, <1>2, TypesKept DEF TypeOK
<1>4. CASE m[1] = "request" /\ ReceiveRequest(m[2])
  <2>. DEFINE u == m[2]
              ack == <<"ack", <<"request", u>>>>
              sent == IF Shows(u) THEN <<ack>> ELSE <<ack, <<"agree", u>>>>
  <2>1. u \in Users
    BY <1>1, <1>4, AppMessage
  <2>2. sent \in Seq(RouterMsgs)
    <3>1. ack \in RouterMsgs /\ <<"agree", u>> \in RouterMsgs
      BY <2>1 DEF RouterMsgs, Questions, Pushes
    <3>. HIDE DEF ack
    <3>. QED BY <3>1
  <2>3. Send(sent)
    BY <1>4 DEF ReceiveRequest
  <2>. HIDE DEF sent
  <2>4. requests' \in Seq(Rows) /\ Unique(requests')
    BY <1>3, <1>4, <2>1, OnTopRows DEF ReceiveRequest, StatusOf, Statuses
  <2>5. page' \in Page
    BY <1>3, <1>4, <2>4, PageTypes DEF ReceiveRequest
  <2>. QED BY <1>4, <2>2, <2>3, <2>4, <2>5, SendTypes DEF ReceiveRequest, TypeOK
<1>5. CASE m[1] \in {"reply", "refusal"} /\ ReceiveReply(m)
  <2>. DEFINE sent == <<<<"ack", m>>>> \o Refresh
  <2>1. sent \in Seq(RouterMsgs)
    <3>1. <<"ack", m>> \in RouterMsgs /\ <<"pull">> \in RouterMsgs
      BY <1>1, <1>5, AppMessage DEF RouterMsgs, Questions
    <3>. QED BY <3>1, ConcatProperties DEF Refresh
  <2>2. Send(sent)
    BY <1>5 DEF ReceiveReply
  <2>. HIDE DEF sent
  <2>3. requests' \in Seq(Rows) /\ Unique(requests')
    BY <1>3, <1>5, MarkedRows DEF ReceiveReply, Statuses
  <2>4. page' \in Page
    <3>1. Marked(page.rows, m[2], "agreed") \in Seq(Rows)
      BY <1>3, MarkedRows DEF Statuses
    <3>. QED BY <1>3, <1>5, <3>1, PageTypes DEF ReceiveReply
  <2>. QED BY <1>5, <2>1, <2>2, <2>3, <2>4, SendTypes DEF ReceiveReply, TypeOK
<1>6. CASE m[1] = "removed" /\ ReceiveRemoved(m[2])
  <2>. DEFINE sent == <<<<"ack", <<"removed", m[2]>>>>>> \o Refresh
  <2>1. sent \in Seq(RouterMsgs)
    <3>1. <<"ack", <<"removed", m[2]>>>> \in RouterMsgs /\ <<"pull">> \in RouterMsgs
      BY <1>1, <1>6, AppMessage DEF RouterMsgs, Questions, Pushes
    <3>. QED BY <3>1, ConcatProperties DEF Refresh
  <2>2. Send(sent)
    BY <1>6 DEF ReceiveRemoved
  <2>. HIDE DEF sent
  <2>. QED BY <1>3, <1>6, <2>1, <2>2, WithoutRows, SendTypes DEF ReceiveRemoved, TypeOK
<1>7. CASE m[1] = "asked" /\ ReceiveAsked(m[2])
  <2>1. requests' \in Seq(Rows) /\ Unique(requests')
    BY <1>1, <1>3, <1>7, AppMessage, OnTopRows DEF ReceiveAsked, Statuses
  <2>. QED BY <1>3, <1>7, <2>1, Types DEF ReceiveAsked, TypeOK, history
<1>8. CASE m[1] = "deleted" /\ ReceiveDeleted(m[2])
  BY <1>3, <1>8, WithoutRows, Types DEF ReceiveDeleted, TypeOK, history
<1>9. CASE m[1] = "list" /\ ReceiveList(m[2])
  BY <1>1, <1>3, <1>9, AppMessage, Types DEF ReceiveList, TypeOK, history
<1>10. CASE m[1] = "dealt" /\ ReceiveDealt(m[2])
  <2>1. CASE page.open /\ m[2]
    <3>. DEFINE i == page.row
                u == page.rows[i].user
                rows == [page.rows EXCEPT ![i].dealStaus = "agreed"]
    <3>1. i \in 1 .. Len(page.rows)
      BY <1>2, <1>3, <1>10, <2>1, LenProperties DEF Beyond, Page
    <3>2. page.rows[i] \in Rows
      BY <1>3, <3>1, ElementOfSeq
    <3>3. rows \in Seq(Rows)
      <4>1. [page.rows[i] EXCEPT !.dealStaus = "agreed"] \in Rows
        BY <3>2, RowFields DEF Statuses
      <4>2. rows = [page.rows EXCEPT ![i] = [page.rows[i] EXCEPT !.dealStaus = "agreed"]]
        BY <1>3, <3>1, LenProperties
      <4>. QED BY <1>3, <3>1, <4>1, <4>2, ExceptSeq
    <3>4. page' = [page EXCEPT !.rows = rows]
      BY <1>3, <1>10, <2>1 DEF ReceiveDealt, Page
    <3>5. requests' = Marked(requests, u, "agreed")
      BY <1>10, <2>1 DEF ReceiveDealt
    <3>. HIDE DEF rows, u
    <3>6. page' \in Page /\ requests' \in Seq(Rows) /\ Unique(requests')
      BY <1>3, <3>3, <3>4, <3>5, PageTypes, MarkedRows DEF Statuses
    <3>. QED BY <1>10, <3>6, Types DEF ReceiveDealt, TypeOK, history
  <2>2. CASE ~(page.open /\ m[2])
    BY <1>3, <1>10, <2>2, Types DEF ReceiveDealt, TypeOK, history
  <2>. QED BY <2>1, <2>2
<1>. QED BY <1>2, <1>4, <1>5, <1>6, <1>7, <1>8, <1>9, <1>10 DEF AppReads

LEMMA OneMessage ==
  ASSUME NEW m \in RouterMsgs
  PROVE  <<m>> \in Seq(RouterMsgs)
OBVIOUS

LEMMA UserTypes ==
  ASSUME TypeOK, User
  PROVE  TypeOK'
<1>. USE DEF router, history
<1>1. /\ requests \in Seq(Rows) /\ Unique(requests) /\ page \in Page
      /\ page.rows \in Seq(Rows) /\ choices \in Nat
      /\ toApp \in Seq(AppMsgs) /\ toRouter \in Seq(RouterMsgs)
  BY Types, PageTypes DEF TypeOK
<1>2. Choice => choices' \in Nat
  BY <1>1 DEF Choice
<1>3. NoPage \in Page
  BY DEF NoPage, Page
<1>4. CASE ShowContacts
  <2>1. <<<<"pull">>>> \in Seq(RouterMsgs) /\ Send(<<<<"pull">>>>)
    BY <1>4 DEF RouterMsgs, Questions, ShowContacts
  <2>. QED BY <1>1, <1>2, <1>3, <1>4, <2>1, SendTypes, TypesKept DEF ShowContacts, TypeOK
<1>5. CASE OpenRequests
  <2>1. page' \in Page
    BY <1>1, <1>5 DEF OpenRequests, Page
  <2>. QED BY <1>1, <1>2, <1>5, <2>1, TypesKept DEF OpenRequests, TypeOK
<1>6. CASE DeleteAll
  <2>1. <<>> \in Seq(Rows) /\ Unique(<<>>)
    BY DEF Unique
  <2>2. page' \in Page
    BY <1>1, <1>6, <2>1, PageTypes DEF DeleteAll
  <2>. QED BY <1>1, <1>2, <1>6, <2>1, <2>2, TypesKept DEF DeleteAll, TypeOK
<1>7. ASSUME NEW i \in DOMAIN page.rows
      PROVE  page.rows[i] \in Rows /\ i \in 1 .. Len(page.rows)
  BY <1>1, LenProperties, ElementOfSeq
<1>8. ASSUME NEW i \in DOMAIN page.rows, Accept(i)
      PROVE  TypeOK'
  <2>. DEFINE m == <<"agree", page.rows[i].user>>
  <2>1. <<m>> \in Seq(RouterMsgs) /\ Send(<<m>>)
    <3>1. page.rows[i].user \in Users
      BY <1>7, RowFields DEF Statuses
    <3>. QED BY <1>8, <3>1 DEF RouterMsgs, Questions, Accept
  <2>2. page' \in Page
    <3>1. i \in Nat \ {0}
      BY <1>7
    <3>. QED BY <1>1, <1>8, <3>1 DEF Accept, Page
  <2>. HIDE DEF m
  <2>. QED BY <1>1, <1>2, <1>8, <2>1, <2>2, SendTypes, TypesKept DEF Accept, TypeOK
<1>9. ASSUME NEW i \in DOMAIN page.rows, Expire(i)
      PROVE  TypeOK'
  <2>. DEFINE rows == [page.rows EXCEPT ![i].dealStaus = "expired"]
  <2>1. rows \in Seq(Rows)
    <3>1. [page.rows[i] EXCEPT !.dealStaus = "expired"] \in Rows
      BY <1>7, RowFields DEF Statuses
    <3>2. rows = [page.rows EXCEPT ![i] = [page.rows[i] EXCEPT !.dealStaus = "expired"]]
      BY <1>1, <1>7, LenProperties
    <3>. QED BY <1>1, <1>7, <3>1, <3>2, ExceptSeq
  <2>2. page' = [page EXCEPT !.rows = rows]
    BY <1>1, <1>9 DEF Expire, Page
  <2>. HIDE DEF rows
  <2>3. page' \in Page
    BY <1>1, <2>1, <2>2, PageTypes
  <2>4. requests' \in Seq(Rows) /\ Unique(requests')
    BY <1>1, <1>9, MarkedRows DEF Expire, Statuses
  <2>. QED BY <1>1, <1>2, <1>9, <2>3, <2>4, TypesKept DEF Expire, TypeOK
<1>10. ASSUME NEW u \in Users, Ask(u) \/ Delete(u)
       PROVE  TypeOK'
  <2>1. PICK m \in RouterMsgs : Send(<<m>>)
    BY <1>10 DEF Ask, Delete, RouterMsgs, Questions
  <2>. QED BY <1>1, <1>2, <1>10, <2>1, OneMessage, SendTypes, TypesKept
           DEF Ask, Delete, TypeOK
<1>. QED BY <1>4, <1>5, <1>6, <1>8, <1>9, <1>10 DEF User

LEMMA LossTypes ==
  ASSUME TypeOK, Lose \/ Restart
  PROVE  TypeOK'
<1>. USE DEF router, history
<1>1. <<>> \in Seq(RouterMsgs) /\ <<<<"pull">>>> \in Seq(RouterMsgs)
      /\ <<>> \in Seq(AppMsgs)
  BY DEF RouterMsgs, Questions
<1>2. losses' \in Nat
  BY DEF Lose, Restart, Loss, TypeOK
<1>3. missed' \in BOOLEAN
  BY DEF Lose, Restart, TypeOK
<1>4. page' \in Page
  <2>1. NoPage \in Page
    BY DEF NoPage, Page
  <2>. QED BY <2>1, Types DEF Lose, Restart
<1>. QED BY <1>1, <1>2, <1>3, <1>4, Types, TypesKept DEF Lose, Restart, TypeOK

LEMMA InitTypes == Init => TypeOK
<1>. SUFFICES ASSUME Init PROVE TypeOK
  OBVIOUS
<1>1. NoPage \in Page
  BY DEF NoPage, Page
<1>2. /\ toRouter \in Seq(RouterMsgs) /\ toApp \in Seq(AppMsgs)
      /\ requests \in Seq(Rows) /\ Unique(requests)
  BY DEF Init, RouterMsgs, Questions, Unique
<1>. QED BY <1>1, <1>2 DEF Init, TypeOK, RouterMsgs, AppMsgs, Unique, Page

LEMMA NextTypes == TypeOK /\ [Next]_vars => TypeOK'
<1>1. TypeOK /\ UNCHANGED vars => TypeOK'
  BY DEF vars, router, history, TypeOK
<1>. QED BY <1>1, OthersTypes, UserTypes, PushTypes, RouterTakesTypes, AppTakesTypes,
            LossTypes DEF Next

\* Type correctness, with one request of a user in the table at most.
THEOREM TypeCorrect == Spec => []TypeOK
BY InitTypes, NextTypes, PTL DEF Spec
-----------------------------------------------------------------------------
(***************************************************************************)
(* Why the list catches up.  ListCatchesUp speaks of the moments when      *)
(* nothing is under way; what is under way is what must be said of it for  *)
(* an invariant: the friends the app will know once it has read its        *)
(* messages, and the questions for the list that are still to be asked.    *)
(***************************************************************************)
\* An acknowledgement of news after which the Contacts tab asks for the list, and
\* an agreement not counted in agreedSince, have a question for the list behind them.
NeedsPull(m) == \/ loaded /\ m[1] = "ack" /\ m[2][1] \in {"reply", "removed"}
                \/ m[1] = "agree" /\ m[2] \notin agreedSince
PullsBehind ==
  \A i \in 1 .. Len(toRouter) : NeedsPull(toRouter[i]) =>
    \E j \in i + 1 .. Len(toRouter) : toRouter[j] = <<"pull">>

\* Is u a friend for the app once it has read what is under way to it?  The last
\* list says so, or friendArray, and no answer behind it takes u out.
Gives(m, u) == m[1] = "list" /\ u \in m[2]
Keeps(m, u) == m[1] # "list" /\ m # <<"deleted", u>>
Sees(known, q, u) ==
  \E j \in 0 .. Len(q) :
    /\ IF j = 0 THEN u \in known ELSE Gives(q[j], u)
    /\ \A i \in j + 1 .. Len(q) : Keeps(q[i], u)

NoNews == \A p \in owed : p[1] \notin {"reply", "removed"}
UpToDate == loaded /\ ~missed /\ <<"pull">> \notin Range(toRouter) /\ NoNews

ListSeen ==
  UpToDate => \A u \in Users :
    /\ Sees(friendArray, toApp, u) => u \in friends
    /\ u \in friends => Sees(friendArray, toApp, u) \/ u \in agreedSince

IInv == TypeOK /\ PullsBehind /\ ListSeen

LEMMA InRange ==
  ASSUME NEW S, NEW q \in Seq(S), NEW x
  PROVE  x \in Range(q) <=> \E i \in 1 .. Len(q) : q[i] = x
BY LenProperties DEF Range

LEMMA SeesNothing ==
  ASSUME NEW known, NEW u
  PROVE  Sees(known, <<>>, u) <=> u \in known
BY DEF Sees

\* A message that is put last.
LEMMA SeesAppend ==
  ASSUME NEW known, NEW u, NEW q \in Seq(AppMsgs), NEW m \in AppMsgs
  PROVE  Sees(known, Append(q, m), u) <=>
           Gives(m, u) \/ (Keeps(m, u) /\ Sees(known, q, u))
<1>. DEFINE n == Len(q)
            t == Append(q, m)
<1>1. /\ n \in Nat /\ Len(t) = n + 1 /\ t[n + 1] = m
      /\ \A i \in 1 .. n : t[i] = q[i]
  BY LenProperties, AppendProperties
<1>. HIDE DEF n, t
<1>2. ASSUME Gives(m, u)
      PROVE  Sees(known, t, u)
  <2>1. n + 1 \in 0 .. Len(t) /\ n + 1 # 0 /\ Gives(t[n + 1], u)
    BY <1>1, <1>2
  <2>2. \A i \in (n + 1) + 1 .. Len(t) : FALSE
    BY <1>1
  <2>. QED BY <2>1, <2>2 DEF Sees
<1>3. ASSUME Keeps(m, u), Sees(known, q, u)
      PROVE  Sees(known, t, u)
  <2>1. PICK j \in 0 .. n : /\ IF j = 0 THEN u \in known ELSE Gives(q[j], u)
                            /\ \A i \in j + 1 .. n : Keeps(q[i], u)
    BY <1>3 DEF Sees, n
  <2>2. j \in 0 .. Len(t) /\ (IF j = 0 THEN u \in known ELSE Gives(t[j], u))
    BY <1>1, <2>1
  <2>3. ASSUME NEW i \in j + 1 .. Len(t)
        PROVE  Keeps(t[i], u)
    <3>1. CASE i = n + 1
      BY <1>1, <1>3, <3>1
    <3>2. CASE i # n + 1
      <4>1. i \in j + 1 .. n /\ i \in 1 .. n
        BY <1>1, <2>1, <3>2
      <4>. QED BY <1>1, <2>1, <4>1
    <3>. QED BY <3>1, <3>2
  <2>. QED BY <2>2, <2>3 DEF Sees
<1>4. ASSUME Sees(known, t, u)
      PROVE  Gives(m, u) \/ (Keeps(m, u) /\ Sees(known, q, u))
  <2>1. PICK j \in 0 .. n + 1 : /\ IF j = 0 THEN u \in known ELSE Gives(t[j], u)
                                /\ \A i \in j + 1 .. n + 1 : Keeps(t[i], u)
    BY <1>1, <1>4 DEF Sees
  <2>2. CASE j = n + 1
    BY <1>1, <2>1, <2>2
  <2>3. CASE j # n + 1
    <3>1. j \in 0 .. n /\ n + 1 \in j + 1 .. n + 1
      BY <1>1, <2>3
    <3>2. Keeps(m, u)
      BY <1>1, <2>1, <3>1
    <3>3. IF j = 0 THEN u \in known ELSE Gives(q[j], u)
      BY <1>1, <2>1, <3>1
    <3>4. \A i \in j + 1 .. n : Keeps(q[i], u)
      <4>1. \A i \in j + 1 .. n : i \in 1 .. n /\ i \in j + 1 .. n + 1
        BY <1>1, <3>1
      <4>. QED BY <1>1, <2>1, <4>1
    <3>5. Sees(known, q, u)
      BY <3>1, <3>3, <3>4 DEF Sees, n
    <3>. QED BY <3>2, <3>5
  <2>. QED BY <2>2, <2>3
<1>. QED BY <1>2, <1>3, <1>4 DEF t

\* The first message is read.
LEMMA SeesTail ==
  ASSUME NEW before, NEW after, NEW u, NEW q \in Seq(AppMsgs), q # <<>>,
         u \in after <=> Gives(Head(q), u) \/ (Keeps(Head(q), u) /\ u \in before)
  PROVE  Sees(after, Tail(q), u) <=> Sees(before, q, u)
<1>. DEFINE n == Len(q)
            t == Tail(q)
            m == Head(q)
<1>1. /\ n \in Nat \ {0} /\ Len(t) = n - 1 /\ m = q[1]
      /\ \A i \in 1 .. n - 1 : t[i] = q[i + 1]
  BY EmptySeq, HeadTailProperties
<1>0. u \in after <=> Gives(m, u) \/ (Keeps(m, u) /\ u \in before)
  OBVIOUS
<1>. HIDE DEF n, t, m
<1>2. ASSUME Sees(before, q, u)
      PROVE  Sees(after, t, u)
  <2>1. PICK j \in 0 .. n : /\ IF j = 0 THEN u \in before ELSE Gives(q[j], u)
                            /\ \A i \in j + 1 .. n : Keeps(q[i], u)
    BY <1>2 DEF Sees, n
  <2>. DEFINE k == IF j = 0 THEN 0 ELSE j - 1
  <2>2. k \in 0 .. n - 1
    BY <1>1
  <2>3. \A i \in k + 1 .. n - 1 : i \in 1 .. n - 1 /\ i + 1 \in j + 1 .. n
    BY <1>1
  <2>4. \A i \in k + 1 .. n - 1 : Keeps(t[i], u)
    BY <1>1, <2>1, <2>3
  <2>5. IF k = 0 THEN u \in after ELSE Gives(t[k], u)
    <3>1. CASE j = 0
      <4>1. 1 \in j + 1 .. n
        BY <1>1, <3>1
      <4>. QED BY <1>0, <1>1, <2>1, <3>1, <4>1
    <3>2. CASE j = 1
      BY <1>0, <1>1, <2>1, <3>2
    <3>3. CASE j \notin {0, 1}
      <4>1. k \in 1 .. n - 1 /\ k + 1 = j /\ k # 0
        BY <1>1, <3>3
      <4>. QED BY <1>1, <2>1, <3>3, <4>1
    <3>. QED BY <3>1, <3>2, <3>3
  <2>. HIDE DEF k
  <2>. QED BY <1>1, <2>2, <2>4, <2>5 DEF Sees
<1>3. ASSUME Sees(after, t, u)
      PROVE  Sees(before, q, u)
  <2>1. PICK k \in 0 .. n - 1 : /\ IF k = 0 THEN u \in after ELSE Gives(t[k], u)
                                /\ \A i \in k + 1 .. n - 1 : Keeps(t[i], u)
    BY <1>1, <1>3 DEF Sees
  <2>2. \A i \in k + 2 .. n : Keeps(q[i], u)
    <3>. SUFFICES ASSUME NEW i \in k + 2 .. n PROVE Keeps(q[i], u)
      OBVIOUS
    <3>1. i - 1 \in k + 1 .. n - 1 /\ i - 1 \in 1 .. n - 1 /\ (i - 1) + 1 = i
      BY <1>1, <2>1
    <3>2. t[i - 1] = q[(i - 1) + 1] /\ Keeps(t[i - 1], u)
      BY <1>1, <2>1, <3>1
    <3>. QED BY <3>1, <3>2
  <2>3. CASE k # 0
    <3>1. k + 1 \in 0 .. n /\ k + 1 # 0 /\ k \in 1 .. n - 1 /\ (k + 1) + 1 = k + 2
      BY <1>1, <2>3
    <3>2. Gives(q[k + 1], u)
      BY <1>1, <2>1, <2>3, <3>1
    <3>. QED BY <2>2, <3>1, <3>2 DEF Sees, n
  <2>4. CASE k = 0 /\ Gives(m, u)
    <3>1. 1 \in 0 .. n /\ 1 + 1 = k + 2 /\ Gives(q[1], u) /\ 1 # 0
      BY <1>1, <2>4
    <3>. QED BY <2>2, <3>1 DEF Sees, n
  <2>5. CASE k = 0 /\ Keeps(m, u) /\ u \in before
    <3>1. \A i \in 0 + 1 .. n : Keeps(q[i], u)
      <4>1. \A i \in 0 + 1 .. n : i = 1 \/ i \in k + 2 .. n
        BY <2>5
      <4>. QED BY <1>1, <2>2, <2>5, <4>1
    <3>2. 0 \in 0 .. n
      BY <1>1
    <3>. QED BY <2>5, <3>1, <3>2 DEF Sees, n
  <2>. QED BY <1>0, <2>1, <2>3, <2>4, <2>5
<1>. QED BY <1>2, <1>3 DEF t

\* Messages under way that are neither lists nor deletions change nothing.
LEMMA SeesQuiet ==
  ASSUME NEW known, NEW u, NEW q \in Seq(AppMsgs),
         \A m \in Range(q) : m[1] \notin {"list", "deleted"}
  PROVE  Sees(known, q, u) <=> u \in known
<1>1. Len(q) \in Nat
  BY LenProperties
<1>2. \A i \in 1 .. Len(q) : q[i][1] # "list" /\ q[i][1] # "deleted"
  BY InRange
<1>3. \A i \in 1 .. Len(q) : ~Gives(q[i], u) /\ Keeps(q[i], u)
  BY <1>2 DEF Gives, Keeps
<1>4. ASSUME Sees(known, q, u) PROVE u \in known
  <2>1. PICK j \in 0 .. Len(q) : IF j = 0 THEN u \in known ELSE Gives(q[j], u)
    BY <1>4 DEF Sees
  <2>2. j = 0 \/ j \in 1 .. Len(q)
    BY <1>1
  <2>. QED BY <1>3, <2>1, <2>2
<1>5. ASSUME u \in known PROVE Sees(known, q, u)
  <2>1. 0 \in 0 .. Len(q) /\ \A i \in 0 + 1 .. Len(q) : i \in 1 .. Len(q)
    BY <1>1
  <2>. QED BY <1>3, <1>5, <2>1 DEF Sees
<1>. QED BY <1>4, <1>5
-----------------------------------------------------------------------------
(***************************************************************************)
(* The questions for the list, through what is sent and what is read.      *)
(***************************************************************************)
\* The last message sent asks for the list.
LEMMA SendPull ==
  ASSUME TypeOK, NEW sent \in Seq(RouterMsgs), Send(sent),
         sent # <<>>, sent[Len(sent)] = <<"pull">>
  PROVE  PullsBehind' /\ ~UpToDate'
<1>. DEFINE n == Len(toRouter) + Len(sent)
<1>1. /\ Len(toRouter) \in Nat /\ Len(sent) \in Nat \ {0}
      /\ toRouter \in Seq(RouterMsgs)
  BY Types, LenProperties, EmptySeq
<1>2. toRouter' = toRouter \o sent
  BY DEF Send
<1>3. /\ Len(toRouter') = n /\ toRouter' \in Seq(RouterMsgs)
      /\ \A i \in 1 .. n : toRouter'[i] = IF i <= Len(toRouter) THEN toRouter[i]
                                          ELSE sent[i - Len(toRouter)]
  BY <1>1, <1>2, ConcatProperties
<1>4. n \in 1 .. n /\ toRouter'[n] = <<"pull">>
  <2>1. n \in 1 .. n /\ ~(n <= Len(toRouter)) /\ n - Len(toRouter) = Len(sent)
    BY <1>1
  <2>. QED BY <1>3, <2>1
<1>. HIDE DEF n
<1>5. PullsBehind'
  <2>. SUFFICES ASSUME NEW i \in 1 .. n, NeedsPull(toRouter[i])'
                PROVE  \E j \in i + 1 .. n : toRouter'[j] = <<"pull">>
    BY <1>3 DEF PullsBehind
  <2>1. i # n
    BY <1>4 DEF NeedsPull
  <2>2. n \in i + 1 .. n
    BY <1>4, <2>1
  <2>. QED BY <1>4, <2>2
<1>6. <<"pull">> \in Range(toRouter')
  BY <1>3, <1>4, InRange
<1>. QED BY <1>5, <1>6 DEF UpToDate

\* What else is sent asks for nothing, and needs no question for the list.
LEMMA SendOther ==
  ASSUME TypeOK, PullsBehind, NEW sent \in Seq(RouterMsgs), Send(sent),
         UNCHANGED loaded,
         \A k \in 1 .. Len(sent) :
           /\ sent[k][1] # "pull"
           /\ sent[k][1] = "ack" => ~loaded \/ sent[k][2][1] \notin {"reply", "removed"}
  PROVE  /\ PullsBehind' /\ agreedSince \subseteq agreedSince' /\ missed' = missed
         /\ <<"pull">> \in Range(toRouter) => <<"pull">> \in Range(toRouter')
<1>. DEFINE l == Len(toRouter)
            n == l + Len(sent)
<1>1. /\ l \in Nat /\ Len(sent) \in Nat /\ toRouter \in Seq(RouterMsgs)
      /\ \A k \in 1 .. Len(sent) : sent[k] \in RouterMsgs
  BY Types, LenProperties, ElementOfSeq
<1>2. /\ toRouter' = toRouter \o sent
      /\ agreedSince' = IF Pulls(sent) THEN {} ELSE agreedSince \cup Agreed(sent)
      /\ missed' = (missed /\ ~Pulls(sent))
  BY DEF Send
<1>3. /\ Len(toRouter') = n /\ toRouter' \in Seq(RouterMsgs)
      /\ \A i \in 1 .. n : toRouter'[i] = IF i <= l THEN toRouter[i] ELSE sent[i - l]
  BY <1>1, <1>2, ConcatProperties
<1>4. ~Pulls(sent)
  BY InRange DEF Pulls
<1>5. agreedSince \subseteq agreedSince' /\ missed' = missed
  BY <1>2, <1>4 DEF TypeOK
<1>6. \A k \in 1 .. Len(sent) : sent[k][1] = "agree" => sent[k][2] \in agreedSince'
  <2>. SUFFICES ASSUME NEW k \in 1 .. Len(sent), sent[k][1] = "agree"
                PROVE  sent[k][2] \in Agreed(sent)
    BY <1>2, <1>4
  <2>1. sent[k][2] \in Users /\ sent[k] = <<"agree", sent[k][2]>>
    <3>1. \A m \in RouterMsgs : m[1] = "agree" => m[2] \in Users /\ m = <<"agree", m[2]>>
      BY DEF RouterMsgs, Questions
    <3>. QED BY <1>1, <3>1
  <2>2. <<"agree", sent[k][2]>> \in Range(sent)
    BY <2>1, InRange
  <2>. QED BY <2>1, <2>2 DEF Agreed
<1>. HIDE DEF l, n
<1>7. PullsBehind'
  <2>. SUFFICES ASSUME NEW i \in 1 .. n, NeedsPull(toRouter[i])'
                PROVE  \E j \in i + 1 .. n : toRouter'[j] = <<"pull">>
    BY <1>3 DEF PullsBehind
  <2>1. CASE i <= l
    <3>1. i \in 1 .. l /\ toRouter'[i] = toRouter[i]
      BY <1>1, <1>3, <2>1 DEF n
    <3>2. NeedsPull(toRouter[i])
      BY <1>5, <3>1 DEF NeedsPull
    <3>3. PICK j \in i + 1 .. l : toRouter[j] = <<"pull">>
      BY <3>1, <3>2 DEF PullsBehind, l
    <3>4. j \in i + 1 .. n /\ j \in 1 .. n /\ j <= l
      BY <1>1, <3>1 DEF n
    <3>. QED BY <1>3, <3>3, <3>4
  <2>2. CASE ~(i <= l)
    <3>1. i - l \in 1 .. Len(sent) /\ toRouter'[i] = sent[i - l]
      BY <1>1, <1>3, <2>2 DEF n
    <3>. QED BY <1>6, <3>1 DEF NeedsPull
  <2>. QED BY <2>1, <2>2
<1>8. ASSUME <<"pull">> \in Range(toRouter)
      PROVE  <<"pull">> \in Range(toRouter')
  <2>1. PICK i \in 1 .. l : toRouter[i] = <<"pull">>
    BY <1>1, <1>8, InRange DEF l
  <2>2. i \in 1 .. n /\ i <= l
    BY <1>1 DEF n
  <2>3. toRouter'[i] = <<"pull">>
    BY <1>3, <2>1, <2>2
  <2>. QED BY <1>3, <2>2, <2>3, InRange
<1>. QED BY <1>5, <1>7, <1>8

\* The router reads a message: what is behind stays behind.
LEMMA TailPulls ==
  ASSUME TypeOK, PullsBehind, toRouter # <<>>, toRouter' = Tail(toRouter),
         UNCHANGED <<loaded, agreedSince>>
  PROVE  /\ PullsBehind'
         /\ NeedsPull(Head(toRouter)) => <<"pull">> \in Range(toRouter')
         /\ <<"pull">> \in Range(toRouter) =>
              Head(toRouter) = <<"pull">> \/ <<"pull">> \in Range(toRouter')
<1>. DEFINE n == Len(toRouter)
<1>1. /\ n \in Nat \ {0} /\ Len(toRouter') = n - 1 /\ Head(toRouter) = toRouter[1]
      /\ toRouter \in Seq(RouterMsgs) /\ toRouter' \in Seq(RouterMsgs)
      /\ \A i \in 1 .. n - 1 : toRouter'[i] = toRouter[i + 1]
  BY Types, EmptySeq, HeadTailProperties
<1>. HIDE DEF n
<1>2. ASSUME NEW j \in 2 .. n, toRouter[j] = <<"pull">>
      PROVE  j - 1 \in 1 .. n - 1 /\ toRouter'[j - 1] = <<"pull">>
  <2>1. j - 1 \in 1 .. n - 1 /\ (j - 1) + 1 = j
    BY <1>1
  <2>. QED BY <1>1, <1>2, <2>1
<1>3. PullsBehind'
  <2>. SUFFICES ASSUME NEW i \in 1 .. n - 1, NeedsPull(toRouter[i])'
                PROVE  \E j \in i + 1 .. n - 1 : toRouter'[j] = <<"pull">>
    BY <1>1 DEF PullsBehind
  <2>1. i + 1 \in 1 .. n /\ NeedsPull(toRouter[i + 1])
    BY <1>1 DEF NeedsPull
  <2>2. PICK j \in (i + 1) + 1 .. n : toRouter[j] = <<"pull">>
    BY <2>1 DEF PullsBehind, n
  <2>3. j \in 2 .. n /\ j - 1 \in i + 1 .. n - 1
    BY <1>1
  <2>. QED BY <1>2, <2>2, <2>3
<1>4. ASSUME NeedsPull(Head(toRouter))
      PROVE  <<"pull">> \in Range(toRouter')
  <2>1. PICK j \in 1 + 1 .. n : toRouter[j] = <<"pull">>
    <3>1. 1 \in 1 .. n
      BY <1>1
    <3>2. NeedsPull(toRouter[1])
      BY <1>1, <1>4 DEF NeedsPull
    <3>. QED BY <3>1, <3>2 DEF PullsBehind, n
  <2>2. j \in 2 .. n /\ j - 1 \in 1 .. Len(toRouter')
    BY <1>1
  <2>3. toRouter'[j - 1] = <<"pull">>
    BY <1>2, <2>1, <2>2
  <2>. QED BY <1>1, <2>2, <2>3, InRange
<1>5. ASSUME <<"pull">> \in Range(toRouter), Head(toRouter) # <<"pull">>
      PROVE  <<"pull">> \in Range(toRouter')
  <2>1. PICK j \in 1 .. n : toRouter[j] = <<"pull">>
    BY <1>1, <1>5, InRange DEF n
  <2>2. j \in 2 .. n
    BY <1>1, <1>5, <2>1
  <2>. QED BY <1>1, <1>2, <2>1, <2>2, InRange
<1>. QED BY <1>3, <1>4, <1>5
-----------------------------------------------------------------------------
(***************************************************************************)
(* ListSeen, action by action.                                             *)
(***************************************************************************)
LEMMA KeepSeen ==
  ASSUME ListSeen, UpToDate' => UpToDate, UNCHANGED friends,
         agreedSince \subseteq agreedSince',
         \A u \in Users :
           Sees(friendArray', toApp', u) <=> Sees(friendArray, toApp, u)
  PROVE  ListSeen'
BY DEF ListSeen, Sees, Gives, Keeps

LEMMA OthersSeen ==
  ASSUME IInv, NEW u \in Users, UserAsks(u) \/ UserReplies(u) \/ UserDeletes(u)
  PROVE  PullsBehind' /\ ListSeen'
<1>1. UNCHANGED <<toRouter, toApp, friendArray, loaded, agreedSince, missed>>
  BY DEF UserAsks, UserReplies, UserDeletes, history
<1>2. PullsBehind'
  BY <1>1 DEF IInv, PullsBehind, NeedsPull
<1>3. NoNews' => NoNews /\ UNCHANGED friends
  <2>1. CASE UserAsks(u)
    BY <2>1 DEF UserAsks, NoNews
  <2>2. CASE UserReplies(u)
    <3>1. CASE owed' = owed \cup {<<"reply", u>>}
      <4>1. <<"reply", u>> \in owed' /\ <<"reply", u>>[1] = "reply"
        BY <3>1
      <4>. QED BY <4>1 DEF NoNews
    <3>2. CASE owed' = owed \cup {<<"refusal", u>>} /\ friends' = friends
      BY <3>2 DEF NoNews
    <3>. QED BY <2>2, <3>1, <3>2 DEF UserReplies
  <2>3. CASE UserDeletes(u)
    <3>1. <<"removed", u>> \in owed' /\ <<"removed", u>>[1] = "removed"
      BY <2>3 DEF UserDeletes
    <3>. QED BY <3>1 DEF NoNews
  <2>. QED BY <2>1, <2>2, <2>3
<1>4. CASE NoNews'
  <2>1. \A v \in Users : Sees(friendArray', toApp', v) <=> Sees(friendArray, toApp, v)
    BY <1>1
  <2>2. UpToDate' => UpToDate
    BY <1>1, <1>3 DEF UpToDate
  <2>3. agreedSince \subseteq agreedSince' /\ UNCHANGED friends
    BY <1>1, <1>3, <1>4
  <2>. QED BY <1>2, <2>1, <2>2, <2>3, KeepSeen DEF IInv
<1>5. CASE ~NoNews'
  BY <1>2, <1>5 DEF ListSeen, UpToDate
<1>. QED BY <1>2, <1>4, <1>5

LEMMA PushSeen ==
  ASSUME IInv, NEW p \in owed, Push(p)
  PROVE  PullsBehind' /\ ListSeen'
<1>1. /\ UNCHANGED <<friends, owed, toRouter, friendArray, loaded, agreedSince, missed>>
      /\ toApp' = Append(toApp, p)
  BY DEF Push, router, history, Answer
<1>2. PullsBehind'
  BY <1>1 DEF IInv, PullsBehind, NeedsPull
<1>3. p \in AppMsgs /\ toApp \in Seq(AppMsgs)
  BY Types DEF IInv, TypeOK, AppMsgs
<1>4. p[1] \notin {"list", "deleted"}
  BY DEF IInv, TypeOK, Pushes
<1>5. \A u \in Users : ~Gives(p, u) /\ Keeps(p, u)
  BY <1>4 DEF Gives, Keeps
<1>6. \A u \in Users : Sees(friendArray', toApp', u) <=> Sees(friendArray, toApp, u)
  BY <1>1, <1>3, <1>5, SeesAppend
<1>7. UpToDate' => UpToDate
  BY <1>1 DEF UpToDate, NoNews
<1>. QED BY <1>1, <1>2, <1>6, <1>7, KeepSeen DEF IInv

LEMMA RouterTakesSeen ==
  ASSUME IInv, RouterTakes
  PROVE  PullsBehind' /\ ListSeen'
<1>. DEFINE m == Head(toRouter)
<1>1. /\ RouterReads(m) /\ toRouter # <<>> /\ toRouter' = Tail(toRouter)
      /\ UNCHANGED <<friendArray, loaded, agreedSince, missed>>
  BY DEF RouterTakes, history
<1>2. /\ PullsBehind'
      /\ NeedsPull(m) => <<"pull">> \in Range(toRouter')
      /\ <<"pull">> \in Range(toRouter) => m = <<"pull">> \/ <<"pull">> \in Range(toRouter')
  BY <1>1, TailPulls DEF IInv
<1>3. m \in RouterMsgs /\ toApp \in Seq(AppMsgs)
  BY <1>1, Types, HeadTailProperties DEF IInv
<1>4. m[1] = "pull" <=> m = <<"pull">>
  BY <1>3, RouterMessage
<1>. HIDE DEF m
<1>5. CASE m[1] = "ack"
  <2>1. UNCHANGED <<friends, toApp>> /\ owed' = owed \ {m[2]}
    BY <1>1, <1>5 DEF RouterReads
  <2>2. UpToDate' => UpToDate
    <3>. SUFFICES ASSUME UpToDate' PROVE NoNews
      BY <1>1, <1>2, <1>4, <1>5 DEF UpToDate
    <3>1. ~NeedsPull(m) /\ loaded
      BY <1>1, <1>2 DEF UpToDate
    <3>2. m[2][1] \notin {"reply", "removed"}
      BY <1>5, <3>1 DEF NeedsPull
    <3>. QED BY <2>1, <3>2 DEF UpToDate, NoNews
  <2>. QED BY <1>1, <1>2, <2>1, <2>2, KeepSeen DEF IInv
<1>6. CASE m[1] = "pull"
  <2>. DEFINE a == <<"list", friends>>
  <2>1. UNCHANGED friends /\ toApp' = Append(toApp, a)
    BY <1>1, <1>6 DEF RouterReads, Answer, router
  <2>2. a \in AppMsgs /\ \A u \in Users : (Gives(a, u) <=> u \in friends) /\ ~Keeps(a, u)
    BY DEF AppMsgs, Answers, Gives, Keeps, IInv, TypeOK
  <2>. HIDE DEF a
  <2>3. \A u \in Users : Sees(friendArray', toApp', u) <=> u \in friends'
    BY <1>1, <1>3, <2>1, <2>2, SeesAppend
  <2>. QED BY <1>2, <2>3 DEF ListSeen, Sees, Gives, Keeps
<1>7. CASE m[1] = "agree"
  <2>. DEFINE a == <<"dealt", m[2] \in asking \cup friends>>
  <2>1. /\ friends \subseteq friends' /\ friends' \subseteq friends \cup {m[2]}
        /\ toApp' = Append(toApp, a) /\ UNCHANGED owed
    BY <1>1, <1>7 DEF RouterReads, Answer
  <2>2. a \in AppMsgs /\ a[1] = "dealt"
    <3>1. (m[2] \in asking \cup friends) \in BOOLEAN
      OBVIOUS
    <3>. QED BY <3>1, Dealt
  <2>. HIDE DEF a
  <2>3. \A u \in Users : ~Gives(a, u) /\ Keeps(a, u)
    BY <2>2 DEF Gives, Keeps
  <2>4. \A u \in Users : Sees(friendArray', toApp', u) <=> Sees(friendArray, toApp, u)
    BY <1>1, <1>3, <2>1, <2>2, <2>3, SeesAppend
  <2>5. UpToDate' => UpToDate /\ m[2] \in agreedSince
    BY <1>1, <1>2, <1>4, <1>7, <2>1 DEF UpToDate, NoNews, NeedsPull
  <2>6. ASSUME UpToDate', NEW u \in Users
        PROVE  /\ Sees(friendArray', toApp', u) => u \in friends'
               /\ u \in friends' => Sees(friendArray', toApp', u) \/ u \in agreedSince'
    BY <1>1, <2>1, <2>4, <2>5, <2>6 DEF IInv, ListSeen
  <2>. QED BY <1>2, <2>6 DEF ListSeen, Sees, Gives, Keeps
<1>8. CASE m[1] = "ask"
  <2>. DEFINE a == <<"asked", m[2]>>
  <2>1. /\ UNCHANGED <<friends, owed>>
        /\ toApp' = toApp \/ toApp' = Append(toApp, a)
    BY <1>1, <1>8 DEF RouterReads, Answer
  <2>2. a \in AppMsgs /\ \A u \in Users : ~Gives(a, u) /\ Keeps(a, u)
    <3>1. m[2] \in Users
      BY <1>3, <1>8, RouterMessage
    <3>. QED BY <3>1 DEF AppMsgs, Answers, Gives, Keeps
  <2>. HIDE DEF a
  <2>3. \A u \in Users : Sees(friendArray', toApp', u) <=> Sees(friendArray, toApp, u)
    <3>1. \A u \in Users : Sees(friendArray, Append(toApp, a), u)
                               <=> Sees(friendArray, toApp, u)
      BY <1>3, <2>2, SeesAppend
    <3>. QED BY <1>1, <2>1, <3>1
  <2>4. UpToDate' => UpToDate
    BY <1>1, <1>2, <1>4, <1>8, <2>1 DEF UpToDate, NoNews
  <2>. QED BY <1>1, <1>2, <2>1, <2>3, <2>4, KeepSeen DEF IInv
<1>9. CASE m[1] = "delete"
  <2>. DEFINE a == <<"deleted", m[2]>>
  <2>1. /\ friends' = friends \ {m[2]} /\ UNCHANGED owed
        /\ toApp' = Append(toApp, a)
    BY <1>1, <1>9 DEF RouterReads, Answer
  <2>2. a \in AppMsgs /\ \A u \in Users : ~Gives(a, u) /\ (Keeps(a, u) <=> u # m[2])
    <3>1. m[2] \in Users
      BY <1>3, <1>9, RouterMessage
    <3>. QED BY <3>1 DEF AppMsgs, Answers, Gives, Keeps
  <2>. HIDE DEF a
  <2>3. \A u \in Users : Sees(friendArray', toApp', u)
                           <=> u # m[2] /\ Sees(friendArray, toApp, u)
    BY <1>1, <1>3, <2>1, <2>2, SeesAppend
  <2>4. UpToDate' => UpToDate
    BY <1>1, <1>2, <1>4, <1>9, <2>1 DEF UpToDate, NoNews
  <2>5. ASSUME UpToDate', NEW u \in Users
        PROVE  /\ Sees(friendArray', toApp', u) => u \in friends'
               /\ u \in friends' => Sees(friendArray', toApp', u) \/ u \in agreedSince'
    BY <1>1, <2>1, <2>3, <2>4, <2>5 DEF IInv, ListSeen
  <2>. QED BY <1>2, <2>5 DEF ListSeen, Sees, Gives, Keeps
<1>. QED BY <1>3, <1>5, <1>6, <1>7, <1>8, <1>9, RouterMessage

\* The app reads a message: friendArray follows lists and deletions.
LEMMA AppTakesKnows ==
  ASSUME IInv, AppTakes
  PROVE  /\ UNCHANGED <<friends, owed, loaded>>
         /\ \A u \in Users : Sees(friendArray', toApp', u) <=> Sees(friendArray, toApp, u)
<1>. DEFINE m == Head(toApp)
<1>1. /\ AppReads(m) /\ toApp # <<>> /\ toApp' = Tail(toApp)
      /\ UNCHANGED <<friends, owed>>
  BY DEF AppTakes, router
<1>2. m \in AppMsgs /\ toApp \in Seq(AppMsgs)
  BY <1>1, Types, HeadTailProperties DEF IInv
<1>. HIDE DEF m
<1>3. UNCHANGED loaded
  BY <1>1 DEF AppReads, ReceiveRequest, ReceiveReply, ReceiveRemoved, ReceiveAsked,
              ReceiveDeleted, ReceiveList, ReceiveDealt
<1>4. ASSUME NEW u \in Users
      PROVE  u \in friendArray' <=> Gives(m, u) \/ (Keeps(m, u) /\ u \in friendArray)
  <2>1. CASE m[1] = "list"
    <3>1. friendArray' = m[2]
      BY <1>1, <2>1 DEF AppReads, ReceiveList
    <3>. QED BY <2>1, <3>1 DEF Gives, Keeps
  <2>2. CASE m[1] = "deleted"
    <3>1. friendArray' = friendArray \ {m[2]}
      BY <1>1, <2>2 DEF AppReads, ReceiveDeleted
    <3>2. m = <<"deleted", m[2]>>
      BY <1>2, <2>2, AppMessage
    <3>3. Keeps(m, u) <=> u # m[2]
      BY <2>2, <3>2 DEF Keeps
    <3>. QED BY <2>2, <3>1, <3>3 DEF Gives
  <2>3. CASE m[1] \notin {"list", "deleted"}
    <3>1. friendArray' = friendArray
      BY <1>1, <2>3 DEF AppReads, ReceiveRequest, ReceiveReply, ReceiveRemoved,
                        ReceiveAsked, ReceiveDealt
    <3>2. ~Gives(m, u) /\ Keeps(m, u)
      BY <2>3 DEF Gives, Keeps
    <3>. QED BY <3>1, <3>2
  <2>. QED BY <2>1, <2>2, <2>3
<1>5. \A u \in Users : Sees(friendArray', Tail(toApp), u) <=> Sees(friendArray, toApp, u)
  BY <1>1, <1>2, <1>4, SeesTail DEF m
<1>. QED BY <1>1, <1>3, <1>5

\* Two messages, one after the other.
LEMMA OneAndOne ==
  ASSUME NEW a, NEW b
  PROVE  <<a>> \o <<b>> = <<a, b>>
<1>. DEFINE s == <<a>>
            t == <<b>>
            S == {a, b}
<1>1. /\ s \in Seq(S) /\ Len(s) = 1 /\ s[1] = a
      /\ t \in Seq(S) /\ Len(t) = 1 /\ t[1] = b
  OBVIOUS
<1>. HIDE DEF s, t, S
<1>2. /\ s \o t \in Seq(S) /\ Len(s \o t) = 2
      /\ (s \o t)[1] = a /\ (s \o t)[2] = b
  <2>1. /\ s \o t \in Seq(S) /\ Len(s \o t) = Len(s) + Len(t)
        /\ \A i \in 1 .. Len(s) + Len(t) :
             (s \o t)[i] = IF i <= Len(s) THEN s[i] ELSE t[i - Len(s)]
    BY <1>1, ConcatProperties
  <2>. QED BY <1>1, <2>1
<1>3. s \o t = <<a, b>>
  <2>. DEFINE st == s \o t
              ab == <<a, b>>
  <2>1. ab \in Seq(S) /\ Len(ab) = 2 /\ ab[1] = a /\ ab[2] = b
    BY DEF S
  <2>2. st \in Seq(S) /\ Len(st) = 2 /\ \A i \in 1 .. 2 : st[i] = ab[i]
    BY <1>2, <2>1
  <2>. HIDE DEF st, ab
  <2>3. st = ab
    BY <2>1, <2>2, SeqEqual
  <2>. QED BY <2>3 DEF st, ab
<1>. QED BY <1>3 DEF s, t

\* What the app sends when it reads: questions for the list come last, and an
\* acknowledgement of news is sent without one only if the tab was never shown.
LEMMA AppTakesSends ==
  ASSUME IInv, AppTakes
  PROVE  \/ PullsBehind' /\ ~UpToDate'
         \/ /\ PullsBehind' /\ agreedSince \subseteq agreedSince' /\ missed' = missed
            /\ <<"pull">> \in Range(toRouter) => <<"pull">> \in Range(toRouter')
<1>. DEFINE m == Head(toApp)
<1>1. AppReads(m) /\ toApp # <<>> /\ UNCHANGED loaded
  BY AppTakesKnows DEF AppTakes
<1>2. m \in AppMsgs /\ TypeOK /\ PullsBehind
  BY <1>1, Types, HeadTailProperties DEF IInv
<1>. HIDE DEF m
<1>3. CASE UNCHANGED <<toRouter, history>>
  <2>1. PullsBehind' /\ agreedSince' = agreedSince
    BY <1>1, <1>2, <1>3 DEF PullsBehind, NeedsPull, history
  <2>. QED BY <1>3, <2>1 DEF history
<1>4. CASE m[1] = "request" /\ ReceiveRequest(m[2])
  <2>. DEFINE u == m[2]
              ack == <<"ack", <<"request", u>>>>
              sent == IF Shows(u) THEN <<ack>> ELSE <<ack, <<"agree", u>>>>
  <2>1. u \in Users
    BY <1>2, <1>4, AppMessage
  <2>2. Send(sent)
    BY <1>4 DEF ReceiveRequest
  <2>3. /\ ack \in RouterMsgs /\ ack[1] = "ack" /\ ack[2][1] = "request"
        /\ <<"agree", u>> \in RouterMsgs /\ <<"agree", u>>[1] = "agree"
    BY <2>1 DEF RouterMsgs, Questions, Pushes
  <2>. HIDE DEF ack, u
  <2>4. sent \in Seq(RouterMsgs)
    BY <2>3
  <2>5. \A k \in 1 .. Len(sent) : sent[k] \in {ack, <<"agree", u>>}
    OBVIOUS
  <2>. HIDE DEF sent
  <2>6. \A k \in 1 .. Len(sent) :
          /\ sent[k][1] # "pull"
          /\ sent[k][1] = "ack" => sent[k][2][1] \notin {"reply", "removed"}
    BY <2>3, <2>5
  <2>. QED BY <1>1, <1>2, <2>2, <2>4, <2>6, SendOther
<1>5. ASSUME NEW p \in Pushes, Send(<<<<"ack", p>>>> \o Refresh)
      PROVE  \/ PullsBehind' /\ ~UpToDate'
             \/ /\ PullsBehind' /\ agreedSince \subseteq agreedSince' /\ missed' = missed
                /\ <<"pull">> \in Range(toRouter) => <<"pull">> \in Range(toRouter')
  <2>. DEFINE a == <<"ack", p>>
  <2>1. a \in RouterMsgs /\ a[1] = "ack" /\ <<"pull">> \in RouterMsgs
    BY DEF RouterMsgs, Questions
  <2>2. Send(<<a>> \o Refresh)
    BY <1>5
  <2>. HIDE DEF a
  <2>3. CASE loaded
    <3>1. <<a>> \o Refresh = <<a, <<"pull">>>>
      <4>. DEFINE q == <<"pull">>
      <4>1. Refresh = <<q>>
        BY <2>3 DEF Refresh
      <4>. HIDE DEF q
      <4>2. <<a>> \o <<q>> = <<a, q>>
        BY OneAndOne
      <4>3. <<a>> \o Refresh = <<a, q>>
        BY <4>1, <4>2
      <4>. QED BY <4>3 DEF q
    <3>2. /\ <<a, <<"pull">>>> \in Seq(RouterMsgs) /\ <<a, <<"pull">>>> # <<>>
          /\ <<a, <<"pull">>>>[Len(<<a, <<"pull">>>>)] = <<"pull">>
      BY <2>1
    <3>. QED BY <1>2, <2>2, <3>1, <3>2, SendPull
  <2>4. CASE ~loaded
    <3>1. <<a>> \o Refresh = <<a>>
      BY <2>4 DEF Refresh
    <3>2. /\ <<a>> \in Seq(RouterMsgs)
          /\ \A k \in 1 .. Len(<<a>>) : <<a>>[k][1] # "pull"
      BY <2>1
    <3>. QED BY <1>1, <1>2, <2>2, <2>4, <3>1, <3>2, SendOther
  <2>. QED BY <2>3, <2>4
<1>6. CASE m[1] \in {"reply", "refusal"} /\ ReceiveReply(m)
  BY <1>2, <1>5, <1>6, AppMessage DEF ReceiveReply
<1>7. CASE m[1] = "removed" /\ ReceiveRemoved(m[2])
  <2>1. <<"removed", m[2]>> \in Pushes
    BY <1>2, <1>7, AppMessage DEF Pushes
  <2>. QED BY <1>5, <1>7, <2>1 DEF ReceiveRemoved
<1>8. ReceiveAsked(m[2]) \/ ReceiveDeleted(m[2]) \/ ReceiveList(m[2])
        \/ ReceiveDealt(m[2]) => UNCHANGED <<toRouter, history>>
  BY DEF ReceiveAsked, ReceiveDeleted, ReceiveList, ReceiveDealt
<1>. QED BY <1>1, <1>3, <1>4, <1>6, <1>7, <1>8 DEF AppReads

LEMMA AppTakesSeen ==
  ASSUME IInv, AppTakes
  PROVE  PullsBehind' /\ ListSeen'
<1>1. CASE ~UpToDate'
  BY <1>1, AppTakesSends DEF ListSeen
<1>2. CASE UpToDate'
  <2>1. /\ PullsBehind' /\ agreedSince \subseteq agreedSince' /\ missed' = missed
        /\ <<"pull">> \in Range(toRouter) => <<"pull">> \in Range(toRouter')
    BY <1>2, AppTakesSends
  <2>2. UpToDate
    BY <1>2, <2>1, AppTakesKnows DEF UpToDate, NoNews
  <2>3. UNCHANGED friends /\ \A u \in Users :
          Sees(friendArray', toApp', u) <=> Sees(friendArray, toApp, u)
    BY AppTakesKnows
  <2>. QED BY <2>1, <2>2, <2>3, KeepSeen DEF IInv
<1>. QED BY <1>1, <1>2

\* The user asks, agrees or deletes: one message, which is no question for the list.
LEMMA UserSends ==
  ASSUME IInv, NEW m \in RouterMsgs, m[1] \in {"agree", "ask", "delete"}, Send(<<m>>),
         UNCHANGED <<router, toApp, friendArray, loaded>>
  PROVE  PullsBehind' /\ ListSeen'
<1>1. /\ <<m>> \in Seq(RouterMsgs)
      /\ \A k \in 1 .. Len(<<m>>) : <<m>>[k][1] \notin {"pull", "ack"}
  OBVIOUS
<1>2. /\ PullsBehind' /\ agreedSince \subseteq agreedSince' /\ missed' = missed
      /\ <<"pull">> \in Range(toRouter) => <<"pull">> \in Range(toRouter')
  BY <1>1, SendOther DEF IInv
<1>3. UpToDate' => UpToDate
  BY <1>2 DEF UpToDate, NoNews, router
<1>4. UNCHANGED <<friends, toApp, friendArray>>
  BY DEF router
<1>5. \A u \in Users : Sees(friendArray', toApp', u) <=> Sees(friendArray, toApp, u)
  BY <1>4
<1>. QED BY <1>2, <1>3, <1>4, <1>5, KeepSeen DEF IInv

\* What touches only the table, the page and the bounds.
LEMMA StaysSeen ==
  ASSUME IInv, UNCHANGED <<router, toRouter, toApp, friendArray, loaded, history>>
  PROVE  PullsBehind' /\ ListSeen'
<1>1. UNCHANGED <<friends, owed, toRouter, toApp, friendArray, loaded, agreedSince, missed>>
  BY DEF router, history
<1>2. PullsBehind'
  <2>1. PullsBehind
    BY DEF IInv
  <2>2. toRouter' = toRouter
    BY <1>1
  <2>3. loaded' = loaded /\ agreedSince' = agreedSince
    BY <1>1
  <2>4. \A m : NeedsPull(m)' <=> NeedsPull(m)
    BY <2>3 DEF NeedsPull
  <2>. HIDE DEF IInv
  <2>. QED BY <2>1, <2>2, <2>4 DEF PullsBehind
<1>3. UpToDate' => UpToDate
  BY <1>1 DEF UpToDate, NoNews
<1>4. agreedSince \subseteq agreedSince' /\ \A u \in Users :
        Sees(friendArray', toApp', u) <=> Sees(friendArray, toApp, u)
  BY <1>1
<1>. QED BY <1>1, <1>2, <1>3, <1>4, KeepSeen DEF IInv

LEMMA UserSeen ==
  ASSUME IInv, User
  PROVE  PullsBehind' /\ ListSeen'
<1>1. CASE ShowContacts
  <2>1. /\ <<<<"pull">>>> \in Seq(RouterMsgs) /\ <<<<"pull">>>> # <<>>
        /\ <<<<"pull">>>>[Len(<<<<"pull">>>>)] = <<"pull">>
    BY DEF RouterMsgs, Questions
  <2>2. PullsBehind' /\ ~UpToDate'
    BY <1>1, <2>1, SendPull DEF ShowContacts, IInv
  <2>. QED BY <2>2 DEF ListSeen
<1>2. ASSUME OpenRequests \/ DeleteAll \/ \E i \in DOMAIN page.rows : Expire(i)
      PROVE  PullsBehind' /\ ListSeen'
  BY <1>2, StaysSeen DEF OpenRequests, DeleteAll, Expire
<1>3. ASSUME NEW i \in DOMAIN page.rows, Accept(i)
      PROVE  PullsBehind' /\ ListSeen'
  <2>. DEFINE m == <<"agree", page.rows[i].user>>
  <2>1. page.rows[i] \in Rows
    <3>1. page.rows \in Seq(Rows)
      BY Types, PageTypes DEF IInv
    <3>2. i \in 1 .. Len(page.rows)
      BY <3>1, LenProperties
    <3>. QED BY <3>1, <3>2, ElementOfSeq
  <2>2. m \in RouterMsgs /\ m[1] = "agree"
    BY <2>1 DEF Rows, RouterMsgs, Questions
  <2>3. Send(<<m>>) /\ UNCHANGED <<router, toApp, friendArray, loaded>>
    BY <1>3 DEF Accept
  <2>. HIDE DEF m
  <2>. QED BY <2>2, <2>3, UserSends
<1>4. ASSUME NEW u \in Users, Ask(u) \/ Delete(u)
      PROVE  PullsBehind' /\ ListSeen'
  <2>1. PICK m \in RouterMsgs : m[1] \in {"ask", "delete"} /\ Send(<<m>>)
    BY <1>4 DEF Ask, Delete, RouterMsgs, Questions
  <2>2. UNCHANGED <<router, toApp, friendArray, loaded>>
    BY <1>4 DEF Ask, Delete
  <2>. QED BY <2>1, <2>2, UserSends
<1>. QED BY <1>1, <1>2, <1>3, <1>4 DEF User

\* A lost connection: what was under way about friends is marked as missed.
LEMMA LoseSeen ==
  ASSUME IInv, Lose
  PROVE  PullsBehind' /\ ListSeen'
<1>1. /\ toRouter' = <<>> /\ toApp' = <<>>
      /\ UNCHANGED <<friends, owed, friendArray, loaded, agreedSince>>
      /\ missed' = (missed \/ \E m \in Range(toRouter) \cup Range(toApp) :
                                m[1] \in {"pull", "list", "delete", "deleted"})
  BY DEF Lose, router
<1>2. PullsBehind'
  BY <1>1 DEF PullsBehind
<1>3. ASSUME UpToDate'
      PROVE  /\ UpToDate
             /\ \A m \in Range(toApp) : m[1] \notin {"list", "deleted"}
  <2>1. /\ ~missed
        /\ \A m \in Range(toRouter) \cup Range(toApp) :
             m[1] \notin {"pull", "list", "delete", "deleted"}
    BY <1>1, <1>3 DEF UpToDate
  <2>2. <<"pull">> \notin Range(toRouter)
    <3>1. <<"pull">>[1] = "pull"
      OBVIOUS
    <3>. QED BY <2>1, <3>1
  <2>. QED BY <1>1, <1>3, <2>1, <2>2 DEF UpToDate, NoNews
<1>4. ASSUME UpToDate'
      PROVE  \A u \in Users : Sees(friendArray', toApp', u) <=> Sees(friendArray, toApp, u)
  <2>1. toApp \in Seq(AppMsgs)
    BY Types DEF IInv
  <2>2. \A u \in Users : Sees(friendArray, toApp, u) <=> u \in friendArray
    BY <1>3, <1>4, <2>1, SeesQuiet
  <2>. QED BY <1>1, <2>2, SeesNothing
<1>5. CASE UpToDate'
  BY <1>1, <1>2, <1>3, <1>4, <1>5, KeepSeen DEF IInv
<1>6. CASE ~UpToDate'
  BY <1>2, <1>6 DEF ListSeen
<1>. QED BY <1>5, <1>6

LEMMA RestartSeen ==
  ASSUME IInv, Restart
  PROVE  PullsBehind' /\ ListSeen'
<1>1. toRouter' = <<<<"pull">>>> /\ loaded' = FALSE
  BY DEF Restart
<1>2. Len(toRouter') = 1 /\ toRouter'[1] = <<"pull">> /\ <<"pull">>[1] = "pull"
  BY <1>1
<1>3. PullsBehind'
  BY <1>2 DEF PullsBehind, NeedsPull
<1>. QED BY <1>1, <1>3 DEF ListSeen, UpToDate

LEMMA InitSeen == Init => IInv
<1>. SUFFICES ASSUME Init PROVE IInv
  OBVIOUS
<1>1. Len(toRouter) = 1 /\ toRouter[1] = <<"pull">> /\ <<"pull">>[1] = "pull" /\ ~loaded
  BY DEF Init
<1>2. PullsBehind
  BY <1>1 DEF PullsBehind, NeedsPull
<1>3. ListSeen
  BY <1>1 DEF ListSeen, UpToDate
<1>. QED BY <1>2, <1>3, InitTypes DEF IInv

LEMMA NextSeen == IInv /\ [Next]_vars => IInv'
<1>. SUFFICES ASSUME IInv, [Next]_vars
              PROVE  IInv'
  OBVIOUS
<1>1. TypeOK'
  BY NextTypes DEF IInv
<1>2. CASE UNCHANGED vars
  BY <1>1, <1>2, StaysSeen DEF vars, IInv
<1>3. CASE Others
  BY <1>1, <1>3, OthersSeen DEF Others, IInv
<1>4. CASE User
  BY <1>1, <1>4, UserSeen DEF IInv
<1>5. CASE \E p \in owed : Push(p)
  BY <1>1, <1>5, PushSeen DEF IInv
<1>6. CASE RouterTakes
  BY <1>1, <1>6, RouterTakesSeen DEF IInv
<1>7. CASE AppTakes
  BY <1>1, <1>7, AppTakesSeen DEF IInv
<1>8. CASE Lose \/ Restart
  BY <1>1, <1>8, LoseSeen, RestartSeen DEF IInv
<1>. QED BY <1>2, <1>3, <1>4, <1>5, <1>6, <1>7, <1>8 DEF Next
-----------------------------------------------------------------------------
\* When nothing is under way, the Contacts tab has been shown and no answer that
\* matters was lost, friendArray is the router's list, but for the users agreed to
\* since it was asked for: every push about friends that is acknowledged has a
\* question for the list behind it.
THEOREM ListCaughtUp == Spec => []ListCatchesUp
<1>1. IInv => ListCatchesUp
  <2>. SUFFICES ASSUME IInv, Quiet, loaded, ~missed
                PROVE  friendArray \subseteq friends
                       /\ friends \subseteq friendArray \cup agreedSince
    BY DEF ListCatchesUp
  <2>1. UpToDate
    BY DEF Quiet, UpToDate, NoNews, Range
  <2>2. \A u \in Users : Sees(friendArray, toApp, u) <=> u \in friendArray
    BY SeesNothing DEF Quiet
  <2>3. friendArray \subseteq Users /\ friends \subseteq Users
    BY DEF IInv, TypeOK
  <2>. QED BY <2>1, <2>2, <2>3 DEF IInv, ListSeen
<1>. QED BY <1>1, InitSeen, NextSeen, PTL DEF Spec
=============================================================================
