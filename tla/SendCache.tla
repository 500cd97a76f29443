------------------------------- MODULE SendCache -------------------------------
(***************************************************************************)
(* The cache of unsent chat messages: the table CHAT_CACHE_TABNAME         *)
(* (ChatModel), which survives a crash, and what adds, resends and deletes *)
(* its rows: the chat views, SendCacheChatUtil (a timer that resends),     *)
(* SocketDataUtil (the end of an upload) and SocketMessageUtil (replies of *)
(* the router).  An upload is what Transfer says of it: it ends once, with *)
(* success, a refusal or a failure.                                        *)
(*                                                                         *)
(* A resend goes through three queues, each of which works on the row as   *)
(* it was read: the delayed selector (due), the background task that reads *)
(* and encrypts the file (reading), the block on the main thread that      *)
(* saves the row again and starts the upload.                              *)
(***************************************************************************)
EXTENDS Naturals

CONSTANTS
  Msgs,         \* the messages, by msgid
  Kind,         \* their kind: Kind[m] \in Kinds
  Peer,         \* the friend or group each is sent to
  SizedMedia,   \* files whose row holds the name "name,WxH", not the file's
  MaxUploads,   \* bound: resends scheduled and uploads running per message
  MaxFaults     \* bound: crashes, disconnections, failures and error replies

Kinds == {"text", "groupText", "file", "groupFile"}
Rows == {"none", "sending", "failed"}   \* no row, isSendFailed NO, YES

ASSUME ConstantsOK == /\ Kind \in [Msgs -> Kinds]
                      /\ SizedMedia \subseteq {m \in Msgs : Kind[m] = "file"}
                      /\ MaxUploads \in Nat /\ MaxFaults \in Nat

VARIABLES
  app,        \* "dead", "offline", "online" (connected and logged in)
  row,        \* the row of each message; persistent
  due,        \* messages whose resend is scheduled
  reading,    \* files read for a resend, whose upload is not started yet
  live,       \* number of uploads of each message that will report
  dead,       \* messages with an earlier attempt left in socketArray
  wire,       \* messages (group files: the preflight) sent to the router
  replies,    \* <<message, RetCode>> on their way back
  sent,       \* messages the user sent
  withdrawn,  \* messages the user withdrew before they were sent
  accepted,   \* messages the router took over
  refused,    \* messages the router refused for good
  faults

vars == <<app, row, due, reading, live, dead, wire, replies,
          sent, withdrawn, accepted, refused, faults>>
router == <<accepted, refused>>
user == <<sent, withdrawn>>

IsText(m) == Kind[m] \in {"text", "groupText"}
IsFile(m) == ~IsText(m)

\* After the first login.
Init == /\ app = "online"
        /\ row = [m \in Msgs |-> "none"]
        /\ due = {} /\ reading = {} /\ dead = {}
        /\ live = [m \in Msgs |-> 0]
        /\ wire = {} /\ replies = {}
        /\ sent = {} /\ withdrawn = {} /\ accepted = {} /\ refused = {}
        /\ faults = 0

\* What is written to a socket that is down is lost.
Written(m) == IF app = "online" THEN wire \cup {m} ELSE wire

Fault == faults < MaxFaults /\ faults' = faults + 1

\* bg_saveOrUpdate of a row that was read is an update where bg_id is the row's;
\* ids are not used again, so a row that was deleted does not come back.
Update(m, status) ==
  IF row[m] = "none" THEN row ELSE [row EXCEPT ![m] = status]
-----------------------------------------------------------------------------
\* A new message: its row is saved.
Saved(m) == /\ app # "dead"
            /\ m \notin sent
            /\ sent' = sent \cup {m}
            /\ row' = [row EXCEPT ![m] = "sending"]

\* inputViewPopSttring: the text is sent.
SendText(m) ==
  /\ IsText(m) /\ Saved(m)
  /\ wire' = Written(m)
  /\ UNCHANGED <<app, due, reading, live, dead, replies, withdrawn, router, faults>>

\* sendFileWithToid: the first upload is started.
SendFile(m) ==
  /\ IsFile(m) /\ Saved(m)
  /\ live' = [live EXCEPT ![m] = 1]
  /\ UNCHANGED <<app, due, reading, dead, wire, replies, withdrawn, router, faults>>

\* isCancel: the upload reports nothing.  Mutant: also where none is found.
CancelBlindly(m) == live' = [live EXCEPT ![m] = @ - 1]
CancelUpload(m) == live[m] > 0 /\ live' = [live EXCEPT ![m] = @ - 1]

\* Withdraw of a message that is not sent yet: the row is deleted and isCancel
\* is set on the first socket of that file, which then reports nothing; an
\* earlier attempt left in the array is found before the one that runs.
Withdraw(m) ==
  /\ app # "dead"
  /\ row[m] # "none" /\ m \notin withdrawn
  /\ withdrawn' = withdrawn \cup {m}
  /\ row' = [row EXCEPT ![m] = "none"]
  /\ \/ CancelUpload(m)
     \/ /\ live[m] = 0 \/ m \in dead
        /\ UNCHANGED live
  /\ UNCHANGED <<app, due, reading, dead, wire, replies, sent, router, faults>>

\* Mutants: only a failed row is sent again; a file is sent again unless failed.
ResendsFailedOnly(m) == row[m] = "failed"
ResendsUnfailed(m) == row[m] # "none" /\ (IsFile(m) => row[m] = "sending")

\* sendCacheChat: the rows that are sent again.
ToResend(m) == row[m] # "none" /\ (IsFile(m) => row[m] = "failed")

\* sendCacheChat, every ten seconds: one row of the table, as it was read.
Schedule(m) ==
  /\ app = "online"
  /\ m \notin due
  /\ ToResend(m)
  /\ live[m] + (IF m \in reading THEN 1 ELSE 0) < MaxUploads
  /\ due' = due \cup {m}
  /\ UNCHANGED <<app, row, reading, live, dead, wire, replies, user, router, faults>>

\* sendTextMessageWithChatModel, after a delay: the text is sent as it was read.
ResendText(m) ==
  /\ m \in due /\ IsText(m)
  /\ due' = due \ {m}
  /\ wire' = Written(m)
  /\ UNCHANGED <<app, row, reading, live, dead, replies, user, router, faults>>

\* sendFileWithChatModel, after a delay: in the background the file is read
\* under the name the row holds; where there is none nothing happens.
ReadFile(m) ==
  /\ m \in due /\ IsFile(m)
  /\ due' = due \ {m}
  /\ reading' = IF m \in SizedMedia THEN reading ELSE reading \cup {m}
  /\ UNCHANGED <<app, row, live, dead, wire, replies, user, router, faults>>

\* The block on the main thread: isSendFailed = NO, bg_saveOrUpdate, and a new
\* SocketDataUtil, even for a message that was withdrawn meanwhile.
StartUpload(m) ==
  /\ m \in reading
  /\ reading' = reading \ {m}
  /\ row' = Update(m, "sending")
  /\ live' = [live EXCEPT ![m] = @ + 1]
  /\ UNCHANGED <<app, due, dead, wire, replies, user, router, faults>>
-----------------------------------------------------------------------------
\* The message is marked as failed.  Mutant: that is left out.
NotFailed(m) == row
Failed(m) == Update(m, "failed")

\* The end of an upload of a file to a friend, and to a group, where a complete
\* upload is followed by a preflight over the main connection.
UploadSucceeds(m) ==
  /\ live[m] > 0
  /\ live' = [live EXCEPT ![m] = @ - 1]
  /\ IF Kind[m] = "file"
     THEN /\ accepted' = accepted \cup {m}
          /\ row' = [row EXCEPT ![m] = "none"]
          /\ UNCHANGED wire
     ELSE /\ wire' = Written(m)
          /\ UNCHANGED <<accepted, row>>
  /\ UNCHANGED <<app, due, reading, dead, replies, user, refused, faults>>

\* retCode 5: the receiver is no friend any more.
UploadRefused(m) ==
  /\ live[m] > 0
  /\ live' = [live EXCEPT ![m] = @ - 1]
  /\ refused' = refused \cup {m}
  /\ row' = [row EXCEPT ![m] = "none"]
  /\ UNCHANGED <<app, due, reading, dead, wire, replies, user, accepted, faults>>

UploadFails(m) ==
  /\ live[m] > 0
  /\ Fault
  /\ live' = [live EXCEPT ![m] = @ - 1]
  /\ dead' = dead \cup {m}
  /\ row' = Failed(m)
  /\ UNCHANGED <<app, due, reading, wire, replies, user, router>>

\* Mutant of DeletesText: a text is taken off the table whatever the reply says.
AnyReply(c) == TRUE

\* The router: RetCode 0 accepted; for a text 2 is final, 1 (not reachable) and
\* the errors of the group requests are not.  A 0 without a PriKey does to a text
\* what 1 does, nothing; it counts as a fault of the router, which echoes the key.
RouterTakes(m) ==
  /\ m \in wire
  /\ wire' = wire \ {m}
  /\ \/ /\ accepted' = accepted \cup {m}
        /\ replies' = replies \cup {<<m, 0>>}
        /\ UNCHANGED <<refused, faults>>
     \/ /\ Kind[m] = "text"
        /\ refused' = refused \cup {m}
        /\ replies' = replies \cup {<<m, 2>>}
        /\ UNCHANGED <<accepted, faults>>
     \/ /\ Fault
        /\ replies' = replies \cup {<<m, 1>>}
        /\ \/ UNCHANGED accepted
           \/ Kind[m] = "text" /\ accepted' = accepted \cup {m}
        /\ UNCHANGED refused
  /\ UNCHANGED <<app, row, due, reading, live, dead, user>>

\* Which replies delete the row: handleSendMsg, handleGroupSendMsg,
\* handleGroupSendFilePre.
DeletesText(c) == c \in {0, 2}
DeletesGroupText(c) == TRUE
DeletesGroupFile(c) == c = 0
Deletes(m, c) == \/ Kind[m] = "text" /\ DeletesText(c)
                 \/ Kind[m] = "groupText" /\ DeletesGroupText(c)
                 \/ IsFile(m) /\ DeletesGroupFile(c)

OnReply(m, c) ==
  /\ <<m, c>> \in replies
  /\ replies' = replies \ {<<m, c>>}
  /\ row' = IF Deletes(m, c) THEN [row EXCEPT ![m] = "none"]
            ELSE IF IsFile(m) THEN Failed(m) ELSE row
  /\ UNCHANGED <<app, due, reading, live, dead, wire, user, router, faults>>
-----------------------------------------------------------------------------
Login == /\ app = "offline"
         /\ app' = "online"
         /\ UNCHANGED <<row, due, reading, live, dead, wire, replies,
                        user, router, faults>>

Disconnect == /\ app = "online"
              /\ Fault
              /\ app' = "offline"
              /\ wire' = {} /\ replies' = {}
              /\ UNCHANGED <<row, due, reading, live, dead, user, router>>

Crash == /\ app # "dead"
         /\ Fault
         /\ app' = "dead"
         /\ due' = {} /\ reading' = {} /\ dead' = {}
         /\ live' = [m \in Msgs |-> 0]
         /\ wire' = {} /\ replies' = {}
         /\ UNCHANGED <<row, user, router>>

\* deleteCacheFileNollData: for a row whose file is not found, the rows of the
\* same conversation with another msgid.
CleanedUp(m) == \E f \in SizedMedia : /\ row[f] # "none"
                                      /\ f # m
                                      /\ Peer[f] = Peer[m]

Launch == /\ app = "dead"
          /\ app' = "offline"
          /\ row' = [m \in Msgs |-> IF CleanedUp(m) THEN "none" ELSE row[m]]
          /\ UNCHANGED <<due, reading, live, dead, wire, replies,
                         user, router, faults>>

Upload(m) == UploadSucceeds(m) \/ UploadRefused(m) \/ UploadFails(m)

Next == \/ \E m \in Msgs : \/ SendText(m) \/ SendFile(m) \/ Withdraw(m)
                           \/ Schedule(m) \/ ResendText(m) \/ ReadFile(m)
                           \/ StartUpload(m)
                           \/ Upload(m) \/ RouterTakes(m)
                           \/ \E c \in {0, 1, 2} : OnReply(m, c)
        \/ Login \/ Disconnect \/ Crash \/ Launch

Spec == Init /\ [][Next]_vars

\* The user starts the app again and it logs in, the timer and the main run
\* loop run, an upload ends (FileUpload!EventuallyEnds), the router answers.
Fairness == /\ WF_vars(Launch) /\ WF_vars(Login)
            /\ \A m \in Msgs :
                 /\ WF_vars(Schedule(m))
                 /\ WF_vars(ResendText(m)) /\ WF_vars(ReadFile(m))
                 /\ WF_vars(StartUpload(m)) /\ WF_vars(Upload(m))
                 /\ WF_vars(RouterTakes(m))
                 /\ WF_vars(\E c \in {0, 1, 2} : OnReply(m, c))

FairSpec == Spec /\ Fairness
-----------------------------------------------------------------------------
\* Type correctness.
TypeOK == /\ app \in {"dead", "offline", "online"}
          /\ row \in [Msgs -> Rows]
          /\ due \subseteq Msgs /\ reading \subseteq Msgs /\ dead \subseteq Msgs
          /\ live \in [Msgs -> Nat]
          /\ wire \subseteq Msgs
          /\ replies \subseteq Msgs \X {0, 1, 2}
          /\ sent \subseteq Msgs /\ withdrawn \subseteq Msgs
          /\ accepted \subseteq Msgs /\ refused \subseteq Msgs
          /\ faults \in Nat

\* What the code may forget: a text to a group, which any reply takes off the
\* table, and the other messages of a conversation with a photo or a video.
Forgettable(m) == \/ Kind[m] = "groupText"
                  \/ \E f \in SizedMedia : f # m /\ Peer[f] = Peer[m]

\* A message whose row is gone was accepted or refused by the router, or the
\* user withdrew it: stale replies, resends, failures, disconnections and
\* crashes never make the app forget another message.
NeverLost ==
  \A m \in sent : row[m] = "none" =>
    m \in accepted \cup refused \cup withdrawn \/ Forgettable(m)

\* Only a crash strands a file, that is, leaves a row that says "sending" while
\* no upload runs (nothing resends such a row): overlapping resends, failures,
\* late replies and withdrawals never do.
Stranded(m) == Kind[m] = "file" /\ row[m] = "sending" /\ live[m] = 0
OnlyCrashStrands ==
  [][\A m \in Msgs : Stranded(m)' => Stranded(m) \/ app' = "dead"]_vars

\* A failed file is sent again (SendCacheChatUtil.m:104).
FailedIsRetried ==
  \A m \in Msgs : row[m] = "failed" ~> row[m] # "failed"

\* A text message leaves the cache, whatever crashes and losses it meets.
TextSettles ==
  \A m \in Msgs : IsText(m) /\ row[m] # "none" ~> row[m] = "none"
=============================================================================
