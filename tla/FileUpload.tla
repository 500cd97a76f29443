------------------------------ MODULE FileUpload ------------------------------
(***************************************************************************)
(* The segmented file upload of the app: SocketDataUtil (one object and    *)
(* one WebSocket per upload, SocketFileUtil), the array of live uploads    *)
(* kept by SocketManageUtil, and the part of the router that answers.      *)
(*                                                                         *)
(* A file is cut into segments.  Segment k+1 is sent when the router has   *)
(* acknowledged segment k; a segment without an answer is "resent" by a    *)
(* delayed selector.  Every callback (WebSocket events, delayed selectors, *)
(* taps of the user) runs on the main thread, so one action is one         *)
(* callback, and what interleaves is their order.  What travels is a FIFO  *)
(* per connection in each direction; losing the connection loses a suffix  *)
(* of what the router sent and has not been queued for the main thread.    *)
(***************************************************************************)
EXTENDS Naturals, Sequences

CONSTANTS
  Uploads,     \* identities of the SocketDataUtil objects, in creation order
  Files,       \* the files (a file keeps its fileid when it is sent again)
  ChatFiles,   \* those sent as chat messages; the others are in the task list
  FileOf,      \* the file each upload carries
  Segs,        \* number of segments of each file
  BodyCodes,   \* codes the router may answer to a frame with its segment
  BareCodes,   \* codes it may answer to a frame that is only a header
  MaxInFlight  \* bound: the timer fires only with fewer frames and answers
               \* in flight on its connection

\* Answers of the router: 0 accepted, 5 receiver deleted me, 1 stands for the
\* transient errors 1..4.  2 is also what the app reports for a lost connection.
Codes == {0, 1, 5}

ASSUME ConstantsOK ==
  /\ Uploads \subseteq Nat
  /\ ChatFiles \subseteq Files
  /\ FileOf \in [Uploads -> Files]
  /\ Segs \in [Files -> Nat \ {0}]
  /\ BodyCodes \subseteq Codes
  /\ BareCodes \subseteq Codes
  /\ MaxInFlight \in Nat

VARIABLES
  up,         \* the state of each SocketDataUtil and of its connection
  sockets,    \* SocketManageUtil.socketArray; its order is the order of Uploads
  withdrawn   \* files whose message the user withdrew while it was being sent

vars == <<up, sockets, withdrawn>>

N(u) == Segs[FileOf[u]]
-----------------------------------------------------------------------------
(***************************************************************************)
(* Frames and events.  A frame is the SendFile header, with (body) or      *)
(* without the bytes of its segment.  The inbox holds what the WebSocket   *)
(* has for the main thread: its onConnect, onData and onDisconnect.        *)
(***************************************************************************)
Frame(seq, body) == [seq |-> seq, body |-> body]
OnConnectEvent == [kind |-> "connect", seq |-> 0, code |-> 0]
OnDisconnectEvent == [kind |-> "disconnect", seq |-> 0, code |-> 0]
Answer(seq, code) == [kind |-> "answer", seq |-> seq, code |-> code]

\* conn: "none" no object yet; "closing" a close frame was sent but isConnected
\* still holds; "lost" the stream is down and its onDisconnect is queued.
Fresh == [conn    |-> "none",
          cur     |-> 1,        \* currentSegseq, also sendFile.segseq
          waiting |-> FALSE,    \* statusDic[currentSegseq] is "0"
          timer   |-> FALSE,    \* resendFile is scheduled
          complete |-> FALSE,   \* isComplete
          cancel  |-> FALSE,    \* isCancel
          finish  |-> FALSE,    \* sendFinsh
          code    |-> 0,        \* retCode
          wire    |-> <<>>,     \* frames on their way to the router
          inbox   |-> <<>>,     \* events on their way to the main thread
          stored  |-> {},       \* segments the router accepted
          posted  |-> <<>>,     \* result codes of the notifications posted
          deleted |-> FALSE]    \* DelMsg was sent for the cancelled file

IsConnected(r) == r.conn \in {"open", "closing"}
Disconnect(r) == IF r.conn = "open" THEN [r EXCEPT !.conn = "closing"] ELSE r

\* Mutant: sending a segment leaves isComplete as the last answer set it.
SendKeepsComplete(r, frame) ==
  [r EXCEPT !.waiting = TRUE, !.timer = TRUE,
            !.wire = IF r.conn = "open" THEN Append(@, frame) ELSE @]

\* A write after the close frame is discarded by the peer.
SendFileData(r, frame) ==
  [r EXCEPT !.waiting = TRUE, !.complete = FALSE, !.timer = TRUE,
            !.wire = IF r.conn = "open" THEN Append(@, frame) ELSE @]

\* Mutant: what is sent again is the segment with its bytes.
ResendSegment(r) ==
  IF IsConnected(r) THEN SendFileData(r, Frame(r.cur, TRUE)) ELSE r

\* sendFileWithTag:1 sends the header struct only.
Resend(r) == IF IsConnected(r) THEN SendFileData(r, Frame(r.cur, FALSE)) ELSE r

\* Mutants of Finish: sendFinsh is not set, the socket is not closed, the number
\* of the next segment is posted for the result.
FinishUnmarked(r) == [Disconnect(r) EXCEPT !.posted = Append(@, r.code)]
FinishStaysOpen(r) == [r EXCEPT !.finish = TRUE, !.posted = Append(@, r.code)]
FinishPostsNext(r) ==
  [Disconnect(r) EXCEPT !.finish = TRUE, !.posted = Append(@, r.cur + 1)]

\* sendFileWithTag:2 for an answer that carries number seq, file of n segments.
Finish(r) ==
  [Disconnect(r) EXCEPT !.finish = TRUE, !.posted = Append(@, r.code)]
SendNext(r, seq, n) ==
  CASE r.cur = n                      -> Finish(r)
    [] r.cur # n /\ IsConnected(r)    ->
         SendFileData([r EXCEPT !.cur = seq + 1], Frame(seq + 1, TRUE))
    [] r.cur # n /\ ~IsConnected(r)   -> r

\* Mutants: a refused file leaves the socket open; the answer is handled as if the
\* upload were not cancelled.
ReceiveStaysOpen(r0, m, n) ==
  LET r == [r0 EXCEPT !.complete = TRUE, !.waiting = FALSE, !.code = m.code]
  IN  CASE r.cancel -> Disconnect([r EXCEPT !.deleted = @ \/ r.cur = n])
        [] ~r.cancel /\ m.code = 0 -> SendNext(r, m.seq, n)
        [] ~r.cancel /\ m.code = 5 -> r
        [] ~r.cancel /\ m.code \notin {0, 5} -> Resend(r)

ReceiveIgnoringCancel(r0, m, n) ==
  LET r == [r0 EXCEPT !.complete = TRUE, !.waiting = FALSE, !.code = m.code]
  IN  CASE m.code = 0 -> SendNext(r, m.seq, n)
        [] m.code = 5 -> Disconnect(r)
        [] m.code \notin {0, 5} -> Resend(r)

ReceiveFileData(r0, m, n) ==
  LET r == [r0 EXCEPT !.complete = TRUE, !.waiting = FALSE, !.code = m.code]
  IN  CASE r.cancel -> Disconnect([r EXCEPT !.deleted = @ \/ r.cur = n])
        [] ~r.cancel /\ m.code = 0 -> SendNext(r, m.seq, n)
        [] ~r.cancel /\ m.code = 5 -> Disconnect(r)
        [] ~r.cancel /\ m.code \notin {0, 5} -> Resend(r)

ResendFile(r) == CASE r.cancel               -> Disconnect(r)
                   [] ~r.cancel /\ r.waiting -> Resend(r)
                   [] ~r.cancel /\ ~r.waiting -> r

\* The array is searched from its first element.
First(S) == CHOOSE v \in S : \A w \in S : v <= w

\* clearDisConnectSocket removes from the array while it enumerates it: whether
\* a complete element behind a removed one is skipped is not defined.
ClearDisConnectSocket ==
  LET Complete == {v \in sockets : up[v].complete} IN
  \E S \in SUBSET Complete : /\ Complete # {} => First(Complete) \in S
                             /\ sockets' = sockets \ S
-----------------------------------------------------------------------------
Init == /\ up = [u \in Uploads |-> Fresh]
        /\ sockets = {}
        /\ withdrawn = {}

\* A file is sent again only when its last attempt reported a failure that
\* leaves it to be sent (not 5), and never after its message was withdrawn (the
\* resends that overlap, or had read the row before, are in SendCache).
MayStart(u) ==
  /\ \A v \in Uploads : v < u => up[v].conn # "none"
  /\ FileOf[u] \notin withdrawn
  /\ \A v \in Uploads : (v < u /\ FileOf[v] = FileOf[u]) =>
        up[v].conn = "closed" /\ up[v].posted \in {<<1>>, <<2>>}

\* [[SocketDataUtil alloc] init] connects, sendFileId:... sets the callbacks,
\* the caller adds the object to socketArray.
Start(u) == /\ up[u].conn = "none"
            /\ MayStart(u)
            /\ up' = [up EXCEPT ![u].conn = "connecting"]
            /\ sockets' = sockets \cup {u}
            /\ UNCHANGED withdrawn

Connect(u) == /\ up[u].conn = "connecting"
              /\ up' = [up EXCEPT ![u].conn = "open",
                                  ![u].inbox = <<OnConnectEvent>>]
              /\ UNCHANGED <<sockets, withdrawn>>

\* The connection cannot be made or breaks: the main thread gets what was
\* already queued for it, then onDisconnect.
Lose(u) ==
  /\ up[u].conn \in {"connecting", "open", "closing"}
  /\ \E k \in 0..Len(up[u].inbox) :
       /\ OnConnectEvent \notin {up[u].inbox[i] : i \in (k+1)..Len(up[u].inbox)}
       /\ up' = [up EXCEPT ![u].conn = "lost", ![u].wire = <<>>,
                   ![u].inbox = Append(SubSeq(@, 1, k), OnDisconnectEvent)]
  /\ UNCHANGED <<sockets, withdrawn>>

RouterAnswers(u) ==
  /\ up[u].wire # <<>>
  /\ LET f == Head(up[u].wire) IN
     \E c \in (IF f.body THEN BodyCodes ELSE BareCodes) :
        up' = [up EXCEPT ![u].wire = Tail(@),
                 ![u].stored = IF f.body /\ c = 0 THEN @ \cup {f.seq} ELSE @,
                 ![u].inbox = Append(@, Answer(f.seq, c))]
  /\ UNCHANGED <<sockets, withdrawn>>

\* The router answers the close frame behind the frames it has read.
RouterCloses(u) == /\ up[u].conn = "closing"
                   /\ up[u].wire = <<>>
                   /\ up' = [up EXCEPT ![u].conn = "lost",
                               ![u].inbox = Append(@, OnDisconnectEvent)]
                   /\ UNCHANGED <<sockets, withdrawn>>
-----------------------------------------------------------------------------
\* The callbacks: the main thread takes the first event queued for upload u.
HasEvent(u, kind) == up[u].inbox # <<>> /\ Head(up[u].inbox).kind = kind
Taken(u) == [up[u] EXCEPT !.inbox = Tail(@)]

OnConnect(u) ==
  /\ HasEvent(u, "connect")
  /\ up' = [up EXCEPT ![u] = SendFileData(Taken(u), Frame(1, TRUE))]
  /\ UNCHANGED <<sockets, withdrawn>>

OnData(u) ==
  /\ HasEvent(u, "answer")
  /\ up' = [up EXCEPT
       ![u] = ReceiveFileData(Taken(u), Head(up[u].inbox), N(u))]
  /\ UNCHANGED <<sockets, withdrawn>>

\* What is reported of a connection that ended by itself: the last code the
\* router answered, or 2 when that one was good.  Mutant: it is kept.
KeptCode(r) == r.code
LostCode(r) == IF r.code = 0 THEN 2 ELSE r.code

OnDisconnect(u) ==
  /\ HasEvent(u, "disconnect")
  /\ LET r == [Taken(u) EXCEPT !.conn = "closed"]
         c == LostCode(r)
     IN \/ /\ r.cancel
           /\ up' = [up EXCEPT ![u] = r]
           /\ UNCHANGED sockets
        \/ /\ ~r.cancel /\ r.finish
           /\ up' = [up EXCEPT ![u] = r]
           /\ ClearDisConnectSocket
        \/ /\ ~r.cancel /\ ~r.finish
           /\ up' = [up EXCEPT ![u] =
                       [r EXCEPT !.code = c, !.posted = Append(@, c)]]
           /\ ClearDisConnectSocket
  /\ UNCHANGED withdrawn

TimerFires(u) ==
  /\ up[u].timer
  /\ Len(up[u].wire) + Len(up[u].inbox) < MaxInFlight
  /\ up' = [up EXCEPT ![u] = ResendFile([up[u] EXCEPT !.timer = FALSE])]
  /\ UNCHANGED <<sockets, withdrawn>>
-----------------------------------------------------------------------------
Matching(f) == {v \in sockets : FileOf[v] = f}

\* Withdraw of a message whose file is not sent yet: the first upload with that
\* fileid is marked, and the message disappears from the chat.
Withdraw(f) ==
  /\ f \notin withdrawn
  /\ \E u \in Uploads : FileOf[u] = f /\ up[u].conn # "none"
  /\ \A u \in Uploads : FileOf[u] = f => <<0>> # up[u].posted
  /\ withdrawn' = withdrawn \cup {f}
  /\ up' = IF Matching(f) = {} THEN up
           ELSE [up EXCEPT ![First(Matching(f))].cancel = TRUE]
  /\ UNCHANGED sockets

\* cancelFileOptionWithSrcKey: from the task list.
CancelFileOption(f) ==
  /\ Matching(f) # {}
  /\ LET v == First(Matching(f)) IN
       /\ up' = [up EXCEPT ![v] = Disconnect(@)]
       /\ sockets' = sockets \ {v}
  /\ UNCHANGED withdrawn

\* clearAllConnectSocket: logging out and switching circle.
ClearAllConnectSocket ==
  /\ sockets # {}
  /\ up' = [v \in Uploads |-> IF v \in sockets THEN Disconnect(up[v]) ELSE up[v]]
  /\ sockets' = {}
  /\ UNCHANGED withdrawn

Network(u) == Connect(u) \/ Lose(u) \/ RouterAnswers(u) \/ RouterCloses(u)
Callback(u) == OnConnect(u) \/ OnData(u) \/ OnDisconnect(u) \/ TimerFires(u)
User == \/ \E u \in Uploads : Start(u)
        \/ \E f \in ChatFiles : Withdraw(f)
        \/ \E f \in Files \ ChatFiles : CancelFileOption(f)
        \/ ClearAllConnectSocket

Next == (\E u \in Uploads : Network(u) \/ Callback(u)) \/ User

Spec == Init /\ [][Next]_vars

\* The router answers, the main run loop runs what is queued and what is due,
\* a connection attempt ends.  Nothing obliges the network to fail or the user
\* to do anything.
Fairness ==
  \A u \in Uploads : /\ WF_vars(Connect(u))
                     /\ WF_vars(RouterAnswers(u))
                     /\ WF_vars(RouterCloses(u))
                     /\ WF_vars(OnConnect(u) \/ OnData(u) \/ OnDisconnect(u))
                     /\ WF_vars(TimerFires(u))

FairSpec == Spec /\ Fairness
-----------------------------------------------------------------------------
UploadState ==
  [conn : {"none", "connecting", "open", "closing", "lost", "closed"},
   cur : Nat, waiting : BOOLEAN, timer : BOOLEAN, complete : BOOLEAN,
   cancel : BOOLEAN, finish : BOOLEAN, code : Codes \cup {2},
   wire : Seq([seq : Nat, body : BOOLEAN]),
   inbox : Seq([kind : {"connect", "answer", "disconnect"},
                seq : Nat, code : Codes]),
   stored : SUBSET Nat, posted : Seq(Codes \cup {2}), deleted : BOOLEAN]

\* Type correctness.
TypeOK == /\ up \in [Uploads -> UploadState]
          /\ sockets \subseteq Uploads
          /\ withdrawn \subseteq Files

Report(u) == {up[u].posted[i] : i \in DOMAIN up[u].posted}

\* An upload reported as sent (code 0 of FILE_SEND_NOTI and its siblings) is a
\* file of which the router accepted every segment: late answers, resent
\* headers and broken connections never make the app delete the cache row of a
\* file that is not there.
ReportTruthful == \A u \in Uploads : 0 \in Report(u) => up[u].stored = 1..N(u)

\* An upload reports at most one result: never success and then failure when
\* the connection closes behind it, never two successes from two answers.
OutcomeOnce == \A u \in Uploads : Len(up[u].posted) <= 1

\* Stop and wait: the bytes of one segment at most are on their way or
\* acknowledged and not yet seen, and they are those of the current segment,
\* all those before it being accepted.
BodyFrames(r) == {i \in 1..Len(r.wire) : r.wire[i].body}
GoodAnswers(r) == {i \in 1..Len(r.inbox) :
                     r.inbox[i].kind = "answer" /\ r.inbox[i].code = 0}
StopAndWait ==
  \A u \in Uploads : LET r == up[u] IN
    /\ 1..(r.cur - 1) \subseteq r.stored
    /\ \A i \in BodyFrames(r) : r.wire[i].seq = r.cur
    /\ \A i \in GoodAnswers(r) : r.inbox[i].seq = r.cur
    /\ \A i, j \in BodyFrames(r) : i = j
    /\ \A i, j \in GoodAnswers(r) : i = j
    /\ BodyFrames(r) = {} \/ GoodAnswers(r) = {}

\* No upload hangs: on an open connection a frame or an event is under way, so that
\* the app never waits for an answer to nothing, and a lost connection still has
\* its onDisconnect to come, whatever answers, timers and cancellations there were
\* and whatever the router answers.
NeverHangs ==
  \A u \in Uploads : LET r == up[u] IN
    /\ r.conn = "open" => r.wire # <<>> \/ r.inbox # <<>>
    /\ r.conn = "lost" => \E i \in 1..Len(r.inbox) : r.inbox[i].kind = "disconnect"

\* The end of one upload clears the array of finished uploads; it never removes
\* another upload that is still connecting or transferring, which could then
\* not be cancelled any more.
ClearSparesLive ==
  [][\A u \in Uploads : OnDisconnect(u) =>
       \A v \in sockets \ sockets' : up[v].conn \notin {"connecting", "open"}]_vars

\* Every step of the protocol is a step of the abstract transfer, under the
\* mapping that reads what the router stored, what the app posted and which
\* objects carry isCancel: segments in order, one truthful result, silence after it.
Promise == INSTANCE Transfer WITH
             Total <- [u \in Uploads |-> N(u)],
             got <- [u \in Uploads |-> up[u].stored],
             result <- [u \in Uploads |-> up[u].posted],
             cancelled <- {u \in Uploads : up[u].cancel}
ImplementsTransfer == Promise!Spec

\* Every upload comes to an end, cancelled or not (for a router that accepts or
\* refuses every segment, and any mixture of lost connections and late answers).
EventuallyEnds ==
  \A u \in Uploads : up[u].conn = "connecting" ~> up[u].conn = "closed"
-----------------------------------------------------------------------------
(***************************************************************************)
(* The inductive invariant behind ReportTruthful, OutcomeOnce and          *)
(* StopAndWait, for a router that never accepts a frame without its        *)
(* segment.  The right to move to the next segment is a token: the bytes   *)
(* of the current segment on the wire, or their acceptance in the inbox.   *)
(***************************************************************************)
NoToken(r) == BodyFrames(r) = {} /\ GoodAnswers(r) = {}

TokenInv(r) ==
  /\ \A i \in BodyFrames(r) : r.wire[i].seq = r.cur
  /\ \A i \in GoodAnswers(r) : r.inbox[i].seq = r.cur /\ r.cur \in r.stored
  /\ \A i, j \in BodyFrames(r) : i = j
  /\ \A i, j \in GoodAnswers(r) : i = j
  /\ BodyFrames(r) = {} \/ GoodAnswers(r) = {}

SegmentInv(r, n) == /\ r.cur \in 1..n
                    /\ 1..(r.cur - 1) \subseteq r.stored
                    /\ r.stored \subseteq 1..r.cur
                    /\ r.finish => NoToken(r) /\ r.stored = 1..n

\* Before onConnect runs nothing was sent.
Unsent(r) == NoToken(r) /\ r.cur = 1 /\ ~r.finish

ChannelInv(r) ==
  /\ r.conn \in {"none", "connecting"} => r.inbox = <<>> /\ Unsent(r)
  /\ r.conn \notin {"open", "closing"} => r.wire = <<>>
  /\ r.conn = "closed" => r.inbox = <<>>
  /\ \A i \in 1..Len(r.inbox) :
       /\ r.inbox[i].kind = "connect" => i = 1 /\ Unsent(r)
       /\ r.inbox[i].kind = "disconnect" => i = Len(r.inbox) /\ r.conn = "lost"

PostedInv(r) == /\ Len(r.posted) <= 1
                /\ r.finish <=> r.posted = <<0>>
                /\ ~r.finish /\ r.conn # "closed" => r.posted = <<>>

UploadInv(r, n) == /\ TokenInv(r)
                   /\ SegmentInv(r, n)
                   /\ ChannelInv(r)
                   /\ PostedInv(r)

IInv == TypeOK /\ \A u \in Uploads : UploadInv(up[u], N(u))
=============================================================================
