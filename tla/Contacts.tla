-------------------------------- MODULE Contacts --------------------------------
(***************************************************************************)
(* Who is a friend: the router decides, the app keeps copies.              *)
(*   - friendArray (ChatListDataUtil), replaced by every list pulled; a    *)
(*     message of somebody who is not in it is acknowledged and dropped;   *)
(*   - the table of requests (FriendModel, FRIEND_REQUEST_TABNAME);        *)
(*   - the page of new requests, with a copy of the table and the row      *)
(*     whose acceptance it waits for: answers carry no user.               *)
(* Pushes are acknowledged before they are handled.  A push whose          *)
(* acknowledgement is lost comes again; a lost question or answer does     *)
(* not, and no list is pulled after a reconnection.  The router and the    *)
(* other users are known from what the code expects of them; both          *)
(* directions of the connection keep the order.                            *)
(* The saves made on background threads (the list table, realFriendNoti)   *)
(* are part of the handlers that start them.                               *)
(***************************************************************************)
EXTENDS Naturals, Sequences, SequencesExt

CONSTANTS
  Users,       \* the other users
  MaxChoices,  \* bound: what the user and the others decide to do
  MaxLosses    \* bound: lost connections and ends of the process

ASSUME ContactsBounds == MaxChoices \in Nat /\ MaxLosses \in Nat

VARIABLES
  friends,      \* router: the friends of the user
  asking,       \* router: users who have asked and got no answer
  invited,      \* router: users who were asked and gave no answer
  owed,         \* router: pushes that were not acknowledged
  toRouter, toApp,
  requests,     \* the table, newest request first
  friendArray,
  loaded,       \* was the Contacts tab shown since the start?
  page,         \* NewRequestsViewController
  agreedSince,  \* history: agreements sent since a list was last asked for
  missed,       \* history: an answer about friends was lost since then
  choices, losses

router == <<friends, asking, invited, owed>>
history == <<agreedSince, missed>>
vars == <<router, toRouter, toApp, requests, friendArray, loaded, page,
          history, choices, losses>>

\* dealStaus 0 to 3.
Statuses == {"offered", "agreed", "expired", "pending"}
Rows == [user: Users, dealStaus: Statuses]
Pushes == {"request", "reply", "refusal", "removed"} \X Users
Questions == {<<"pull">>} \cup ({"agree", "ask", "delete"} \X Users)
Answers == ({"dealt"} \X BOOLEAN) \cup ({"asked", "deleted"} \X Users)
           \cup ({"list"} \X SUBSET Users)

TypeOK ==
  /\ friends \subseteq Users /\ asking \subseteq Users /\ invited \subseteq Users
  /\ owed \subseteq Pushes
  /\ toRouter \in Seq(Questions \cup ({"ack"} \X Pushes))
  /\ toApp \in Seq(Pushes \cup Answers)
  /\ requests \in Seq(Rows)
  /\ \A i, j \in DOMAIN requests : requests[i].user = requests[j].user => i = j
  /\ friendArray \subseteq Users
  /\ loaded \in BOOLEAN
  /\ page \in [open: BOOLEAN, rows: Seq(Rows), row: Nat \ {0}]
  /\ agreedSince \subseteq Users /\ missed \in BOOLEAN
  /\ choices \in Nat /\ losses \in Nat

NoPage == [open |-> FALSE, rows |-> <<>>, row |-> 1]

\* The tab bar was just loaded, and asked for the list.
Init ==
  /\ friends = {} /\ asking = {} /\ invited = {} /\ owed = {}
  /\ toRouter = <<<<"pull">>>> /\ toApp = <<>>
  /\ requests = <<>> /\ friendArray = {}
  /\ loaded = FALSE /\ page = NoPage
  /\ agreedSince = {} /\ missed = FALSE
  /\ choices = 0 /\ losses = 0

Choice == choices < MaxChoices /\ choices' = choices + 1
Loss == losses < MaxLosses /\ losses' = losses + 1

\* What the app sends in one handler, and what the history keeps of it.
Pulls(sent) == <<"pull">> \in Range(sent)
Agreed(sent) == {u \in Users : <<"agree", u>> \in Range(sent)}
Send(sent) ==
  /\ toRouter' = toRouter \o sent
  /\ agreedSince' = IF Pulls(sent) THEN {} ELSE agreedSince \cup Agreed(sent)
  /\ missed' = (missed /\ ~Pulls(sent))
Answer(m) == toApp' = Append(toApp, m)

\* The rows of a table or of the page.
Of(rows, u) == {i \in DOMAIN rows : rows[i].user = u}
Has(rows, u, s) == \E i \in Of(rows, u) : rows[i].dealStaus = s
\* bg_delete of the rows of a user, who has one at most (TypeOK).
Without(rows, u) == RemoveFirstMatch(rows, LAMBDA r : r.user = u)
\* Mutant: the row that was there stays.
AddedOnTop(rows, u, s) == <<[user |-> u, dealStaus |-> s]>> \o rows
\* requestTime is now: the row comes first.
OnTop(rows, u, s) == <<[user |-> u, dealStaus |-> s]>> \o Without(rows, u)
\* bg_saveOrUpdate of a copy: a row that was deleted does not come back.
Marked(rows, u, s) ==
  [i \in DOMAIN rows |-> IF i \in Of(rows, u) THEN [rows[i] EXCEPT !.dealStaus = s]
                         ELSE rows[i]]
-----------------------------------------------------------------------------
\* The others and the router.
UserAsks(u) ==
  /\ u \notin friends
  /\ Choice
  /\ asking' = asking \cup {u}
  /\ owed' = owed \cup {<<"request", u>>}
  /\ UNCHANGED <<friends, invited, toRouter, toApp, requests, friendArray, loaded,
                 page, history, losses>>

UserReplies(u) ==
  /\ u \in invited
  /\ Choice
  /\ invited' = invited \ {u}
  /\ \/ friends' = friends \cup {u} /\ owed' = owed \cup {<<"reply", u>>}
     \/ friends' = friends /\ owed' = owed \cup {<<"refusal", u>>}
  /\ UNCHANGED <<asking, toRouter, toApp, requests, friendArray, loaded, page,
                 history, losses>>

UserDeletes(u) ==
  /\ u \in friends
  /\ Choice
  /\ friends' = friends \ {u}
  /\ owed' = owed \cup {<<"removed", u>>}
  /\ UNCHANGED <<asking, invited, toRouter, toApp, requests, friendArray, loaded,
                 page, history, losses>>

Push(p) ==
  /\ p \in owed
  /\ p \notin Range(toApp) /\ <<"ack", p>> \notin Range(toRouter)
  /\ Answer(p)
  /\ UNCHANGED <<router, toRouter, requests, friendArray, loaded, page, history,
                 choices, losses>>

\* The router takes the next message of the app.
RouterReads(m) ==
  \/ /\ m[1] = "ack"
     /\ owed' = owed \ {m[2]}
     /\ UNCHANGED <<friends, asking, invited, toApp>>
  \/ /\ m[1] = "pull"
     /\ Answer(<<"list", friends>>)
     /\ UNCHANGED router
  \/ /\ m[1] = "agree"
     /\ friends' = IF m[2] \in asking THEN friends \cup {m[2]} ELSE friends
     /\ asking' = asking \ {m[2]}
     /\ Answer(<<"dealt", m[2] \in asking \cup friends>>)
     /\ UNCHANGED <<invited, owed>>
  \/ /\ m[1] = "ask"
     /\ IF m[2] \in friends THEN UNCHANGED <<invited, toApp>>
        ELSE invited' = invited \cup {m[2]} /\ Answer(<<"asked", m[2]>>)
     /\ UNCHANGED <<friends, asking, owed>>
  \/ /\ m[1] = "delete"
     /\ friends' = friends \ {m[2]}
     /\ Answer(<<"deleted", m[2]>>)
     /\ UNCHANGED <<asking, invited, owed>>

RouterTakes ==
  /\ toRouter # <<>>
  /\ RouterReads(Head(toRouter))
  /\ toRouter' = Tail(toRouter)
  /\ UNCHANGED <<requests, friendArray, loaded, page, history, choices, losses>>
-----------------------------------------------------------------------------
\* Is a request of u shown to the user?
Shows(u) == IF Of(requests, u) = {} THEN u \notin friendArray
            ELSE Has(requests, u, "pending")
\* Mutant: a request that expired stays so when it is made again.
StatusKept(u) == IF Has(requests, u, "expired") THEN "expired"
                 ELSE IF Shows(u) THEN "offered" ELSE "agreed"
StatusOf(u) == IF Shows(u) THEN "offered" ELSE "agreed"

\* handleAddFriendPush: a request is shown, or agreed to without the user.
ReceiveRequest(u) ==
  LET ack == <<"ack", <<"request", u>>>>
  IN  /\ requests' = OnTop(requests, u, StatusOf(u))
      /\ Send(IF Shows(u) THEN <<ack>> ELSE <<ack, <<"agree", u>>>>)
      /\ page' = IF Shows(u) /\ page.open THEN [page EXCEPT !.rows = requests']
                 ELSE page
      /\ UNCHANGED <<friendArray, loaded>>

\* Mutant: the list is not asked for again.
NoPull == <<>>
\* friendListChangeNoti and FRIEND_DELETE_MY_NOTI, heard by the Contacts tab.
Refresh == IF loaded THEN <<<<"pull">>>> ELSE <<>>

\* handleAddFriendReply: an agreement or a refusal, which mark the row alike.
ReceiveReply(p) ==
  /\ requests' = Marked(requests, p[2], "agreed")
  /\ page' = [page EXCEPT !.rows = Marked(@, p[2], "agreed")]
  /\ Send(<<<<"ack", p>>>> \o Refresh)
  /\ UNCHANGED <<friendArray, loaded>>

\* handleDelFriendPush
ReceiveRemoved(u) ==
  /\ requests' = Without(requests, u)
  /\ Send(<<<<"ack", <<"removed", u>>>>>> \o Refresh)
  /\ UNCHANGED <<friendArray, loaded, page>>

\* addFriendSuccess
ReceiveAsked(u) ==
  /\ requests' = OnTop(requests, u, "pending")
  /\ UNCHANGED <<toRouter, friendArray, loaded, page, history>>

\* deleteFriendSuccess
ReceiveDeleted(u) ==
  /\ requests' = Without(requests, u)
  /\ friendArray' = friendArray \ {u}
  /\ UNCHANGED <<toRouter, loaded, page, history>>

\* getFriendListNoti
ReceiveList(us) ==
  /\ friendArray' = us
  /\ UNCHANGED <<toRouter, requests, loaded, page, history>>

\* realFriendNoti: the row that was tapped, whoever is in it now.
ReceiveDealt(ok) ==
  /\ IF page.open /\ ok
     THEN LET u == page.rows[page.row].user
          IN  /\ requests' = Marked(requests, u, "agreed")
              /\ page' = [page EXCEPT !.rows[page.row].dealStaus = "agreed"]
     ELSE UNCHANGED <<requests, page>>
  /\ UNCHANGED <<toRouter, friendArray, loaded, history>>

\* The row is beyond the end of the list: the exception ends the process.
Beyond(m) == m[1] = "dealt" /\ page.open /\ page.row > Len(page.rows)

AppReads(m) ==
  \/ m[1] = "request" /\ ReceiveRequest(m[2])
  \/ m[1] \in {"reply", "refusal"} /\ ReceiveReply(m)
  \/ m[1] = "removed" /\ ReceiveRemoved(m[2])
  \/ m[1] = "asked" /\ ReceiveAsked(m[2])
  \/ m[1] = "deleted" /\ ReceiveDeleted(m[2])
  \/ m[1] = "list" /\ ReceiveList(m[2])
  \/ m[1] = "dealt" /\ ReceiveDealt(m[2])

AppTakes ==
  /\ toApp # <<>>
  /\ ~Beyond(Head(toApp))
  /\ AppReads(Head(toApp))
  /\ toApp' = Tail(toApp)
  /\ UNCHANGED <<router, choices, losses>>
-----------------------------------------------------------------------------
\* The Contacts tab appears, from another tab or from the page of requests.
ShowContacts ==
  /\ Choice
  /\ loaded' = TRUE
  /\ page' = NoPage
  /\ Send(<<<<"pull">>>>)
  /\ UNCHANGED <<router, toApp, requests, friendArray, losses>>

\* dataInit of the page of requests.
OpenRequests ==
  /\ loaded /\ ~page.open
  /\ Choice
  /\ page' = [open |-> TRUE, rows |-> requests, row |-> 1]
  /\ UNCHANGED <<router, toRouter, toApp, requests, friendArray, loaded, history,
                 losses>>

\* sendAgreeFriendWithRow
Accept(i) ==
  /\ page.open
  /\ page.rows[i].dealStaus = "offered"
  /\ Choice
  /\ page' = [page EXCEPT !.row = i]
  /\ Send(<<<<"agree", page.rows[i].user>>>>)
  /\ UNCHANGED <<router, toApp, requests, friendArray, loaded, losses>>

\* setFriendModel: after seven days a cell shows, and saves, an expired request.
Expire(i) ==
  /\ page.open
  /\ page.rows[i].dealStaus = "offered"
  /\ Choice
  /\ page' = [page EXCEPT !.rows[i].dealStaus = "expired"]
  /\ requests' = Marked(requests, page.rows[i].user, "expired")
  /\ UNCHANGED <<router, toRouter, toApp, friendArray, loaded, history, losses>>

\* "Delete All"
DeleteAll ==
  /\ page.open /\ requests # <<>>
  /\ Choice
  /\ requests' = <<>>
  /\ page' = [page EXCEPT !.rows = <<>>]
  /\ UNCHANGED <<router, toRouter, toApp, friendArray, loaded, history, losses>>

\* sendApplicationAction and deleteFriendRequest
Ask(u) ==
  /\ u \notin friendArray
  /\ Choice
  /\ Send(<<<<"ask", u>>>>)
  /\ UNCHANGED <<router, toApp, requests, friendArray, loaded, page, losses>>

Delete(u) ==
  /\ u \in friendArray
  /\ Choice
  /\ Send(<<<<"delete", u>>>>)
  /\ UNCHANGED <<router, toApp, requests, friendArray, loaded, page, losses>>

\* The connection is lost and restored: pushes come again, answers do not.
Lose ==
  /\ Loss
  /\ missed' = (missed \/ \E m \in Range(toRouter) \cup Range(toApp) :
                             m[1] \in {"pull", "list", "delete", "deleted"})
  /\ toRouter' = <<>> /\ toApp' = <<>>
  /\ UNCHANGED <<router, requests, friendArray, loaded, page, agreedSince, choices>>

\* The process ends, by itself or by the exception of realFriendNoti, and starts again.
Restart ==
  /\ Loss \/ (toApp # <<>> /\ Beyond(Head(toApp)) /\ UNCHANGED losses)
  /\ toRouter' = <<<<"pull">>>> /\ toApp' = <<>>
  /\ friendArray' = {} /\ loaded' = FALSE /\ page' = NoPage
  /\ agreedSince' = {} /\ missed' = FALSE
  /\ UNCHANGED <<router, requests, choices>>
-----------------------------------------------------------------------------
Others == \E u \in Users : UserAsks(u) \/ UserReplies(u) \/ UserDeletes(u)
User == \/ ShowContacts \/ OpenRequests \/ DeleteAll
        \/ \E i \in DOMAIN page.rows : Accept(i) \/ Expire(i)
        \/ \E u \in Users : Ask(u) \/ Delete(u)

Next == \/ Others \/ User
        \/ \E p \in owed : Push(p)
        \/ RouterTakes \/ AppTakes
        \/ Lose \/ Restart

Spec == Init /\ [][Next]_vars

\* Both ends read what they are sent, and the router sends what it owes.
FairSpec == /\ Spec
            /\ WF_vars(RouterTakes) /\ WF_vars(AppTakes \/ Restart)
            /\ \A p \in Pushes : WF_vars(Push(p))
-----------------------------------------------------------------------------
Quiet == toRouter = <<>> /\ toApp = <<>> /\ owed = {}

\* When nothing is under way and the Contacts tab has been shown, friendArray is
\* the router's list, but for users agreed to since it was asked for (after an
\* agreement no list is pulled) and for what a lost answer would have changed.
ListCatchesUp ==
  Quiet /\ loaded /\ ~missed =>
    friendArray \subseteq friends /\ friends \subseteq friendArray \cup agreedSince

\* A request reaches the user whatever connections are lost and however often the
\* process ends: once it was sent it comes to be in the table, to be agreed to or
\* agreed to already (handleAddFriendPush acknowledges it before it is stored).
RequestsArrive ==
  \A u \in Users : <<"request", u>> \in Range(toApp)
                     ~> Has(requests, u, "offered") \/ Has(requests, u, "agreed")
=============================================================================
