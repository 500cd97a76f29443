# Confidant iOS app: verification development

Confidant is a messenger whose messages and files go through a router that the
user owns (a "node" or "circle"). This directory holds TLA+ models of the app's
own logic (`src/PNRouter`, mostly `Utils/` and the screens that keep state), TLC
configurations that check them on small instances, and TLAPS proofs about them
for every instance. The router is not in the repository: it is modelled from how
the app uses it and marked external in `PROJECT.json`. The repository has no
tests; what the code is meant to do is taken from its comments.

## 1. Inventory of the system

| Component | State it keeps | Operations | What makes it hard |
|---|---|---|---|
| **File upload** `SocketDataUtil`, `SocketFileUtil`, `SocketManageUtil` | one object and one WebSocket per upload: current segment, waiting flag, delayed selector, `isComplete`, `isCancel`, `sendFinsh`, `retCode`; the shared `socketArray` | start, onConnect, onData, onDisconnect, resend timer, withdraw, cancel, clear | callbacks queued on the main thread behind one another, answers later than the timer, a connection lost between any two steps, several uploads sharing an array that is searched and filtered |
| **Cutting of a file** (same class) | segment number, offset, size, more flag | first segment, next segment | fixed-width arithmetic at the boundaries of segments |
| **Cache of unsent messages** `SendCacheChatUtil`, table `CHAT_CACHE_TABNAME` | a row per unsent message, on disk | add, resend (10 s timer, delayed selector, background read, main-thread save), mark failed, delete on reply, clean up at launch, withdraw | rows used long after they were read, replies lost or late, crash at any point |
| **Router session** `SocketUtil`, `HeartBeatUtil`, `PNTabbarViewController`, `CircleOutUtil`, `LoginViewController`, `AppDelegate` | main WebSocket, heartbeat and resend timers, log-in, log-out and switch flags, current router | connect, log in, reconnect, switch circle, time out, log out | notifications dropped by guards on `isSwitch`/`isLogOut`; timers and blocks that nobody cancels |
| **Router discovery** `ReviceRadio`, `AFNetworkReachabilityManager` | one block shared by all users of the manager, searches, look-ups | search by broadcast, ask the server | reports posted before the block was replaced run the new one |
| **Inbound messages** `SocketMessageUtil`, `MutManagerUtil` | parts of long messages by id | reassemble, dispatch to handlers | nothing removes or compares the parts that are kept |
| **Contacts** `ContactViewController`, `NewRequestsViewController`, `FriendRequestViewController`, `FriendDetailViewController`, handlers in `SocketMessageUtil` | `friendArray`, table of requests, page of requests | request, agree, refuse, expire, delete; pushes and list | copies that lag behind the router, pushes that come twice, answers that carry no user |
| **Downloads** `FileDownUtil`, delete in `TaskListViewController` | rows of the task list (`FileData.status`: 1 done, 2 running, 3 failed), `taskArr` | download, answer, delete, log out, restart | blocks on three threads with the user's steps in between |
| **Chat list** `ChatListDataUtil` | list of conversations, unread marks, mirrored in a table | add, merge, remove, clear | memory and table changed from several handlers |
| **Album uploads** `UploadFileManager`, `PNFileModel` | `uploadStatus` of album files | start, end, reset at launch | crash during an upload |
| Requests `SendRequestUtil` | none | build and write | - |
| WebSocket (Starscream), Tox transport, crypto, e-mail, other screens, push extension, vendored pods | - | - | third-party, I/O or views |

How they interact: a chat screen saves a row in the cache and starts an upload
(or writes a text to the main WebSocket). The end of the upload, or the reply
that `SocketMessageUtil` dispatches, deletes the row or marks it failed. Log-in
(`handleLogin`) starts the heartbeat and the resend timer; loss of the connection
and log-out stop them. Log-out and switch of circle also clear `socketArray` and
the downloads. Messages in parts are put together before any handler sees them;
the handlers of friend requests write tables that the Contacts screens copy. All
callbacks of the WebSockets and all selectors run on the main thread;
`sendCacheChat`, the reading of files and the database run on other queues and
hop back.

What makes each correct: an upload reports its end once and truthfully, sends
every byte once and in order, and ends; the cache forgets no message and sends
failed ones again; a session that lost its connection gets it back, on its own
router, and a switch ends; a message in parts is handed over once and whole; the
list of friends follows the router's and no request is lost; a row says
"running" only while a download runs, and a deleted one comes back only over
another row that took its id.

## 2. Modules

| Module | Models | Role |
|---|---|---|
| `Segments` | cutting of a file | byte ranges and words |
| `Transfer` | - | abstract specification of an upload |
| `FileUpload` | upload protocol | detailed, implements `Transfer` |
| `SendCache` | cache of unsent messages | uses an upload as `Transfer` describes it |
| `Inbox` | - | abstract specification: messages are handed over whole |
| `MultiPart` | reassembly of messages in parts | detailed, implements `Inbox` |
| `Session` | session, discovery, switch of circle | the composition of tab bar, `CircleOutUtil`, log-in page and reachability on one thread |
| `Contacts` | friends and requests | app and router, two queues of messages |
| `Downloads` | HTTP downloads and their rows | blocks of several threads |
| `...MC` | - | instances for TLC, definitions of constants, refuted claims |
| `SegmentsProofs`, `FileUploadProofs`, `FileUploadRefines`, `SendCacheProofs`, `MultiPartProofs`, `SessionProofs`, `ContactsProofs`, `DownloadsProofs` | - | theorems |

### Segments
`FirstSegment` is the arithmetic of `sendFileId`, `NextSegment` that of
`sendFileWithTag:2`, with `uint32_t` as `% Word` (`int * uint32_t` is
`uint32_t`; an `NSData` length is 64 bits wide). `Body` is the range given to
`subdataWithRange`. The contents of the header other than number, offset, size
and segmore are left out, and so is the checksum, which the code computes over
header and bytes for the first segment and over the header alone for the later
ones.

### FileUpload
An upload `u` is a record: the fields of `SocketDataUtil` (`cur` is
`currentSegseq` and `sendFile.segseq`, `waiting` is its entry of `statusDic`,
`timer` a pending `resendFile`) and its connection (`conn`, the frames on the
`wire`, the events in the `inbox` of the main thread). The rest is ghost state:
`stored` (what the router accepted), `posted` (the result notifications) and
`deleted` (DelMsg was written).
One action is one callback, because nothing preempts the main thread:
`OnConnect`, `OnData` (`receiveFileData`), `OnDisconnect`, `TimerFires`
(`resendFile`). `Connect`, `Lose`, `RouterAnswers` and `RouterCloses` are the
network. `Withdraw`, `CancelFileOption` and `ClearAllConnectSocket` are the user.
Two facts of the WebSocket library matter. `disconnect()` does nothing unless
connected and otherwise sends a close frame and goes on delivering
(`conn = "closing"`, `isConnected` still true). A lost connection is seen behind
what is already queued, and the rest is gone (`Lose` keeps a prefix of the
inbox). `clearDisConnectSocket` changes the array while enumerating it, so which
finished elements behind the first it removes is left open.
The app may start an upload for a file again after a reported failure other than
5; that is what `SendCache` and the task list do. The retried upload is a new
object, so `FileOf` maps two uploads to one file. Two resends of one file that
overlap in time share nothing but the router and the row; they are in `SendCache`,
not here.
`cancelFileOptionWithSrcKey` is an action of task-list files, `Withdraw` of chat
files.

`Transfer` says what all this is for: segments get to the router in order, one
result at most is reported, 0 only if all segments are there, nothing is stored
after the result and nothing is reported after a cancel. `ImplementsTransfer`
maps `got` to `stored`, `result` to `posted` and `cancelled` to `isCancel`.

### SendCache
`row` is the table: no row, `isSendFailed` NO ("sending"), YES ("failed"). It is
the one variable a `Crash` keeps. A resend passes through `Schedule`
(`sendCacheChat`), `ResendText` or `ReadFile` (the delayed selectors) and, for a file,
`StartUpload` (the block on the main thread). `bg_saveOrUpdate` of a row that was
read is an update by its id (`Update`), and ids of this table are AUTOINCREMENT: a
row that was withdrawn meanwhile does not come back, though its upload starts. An
answer without a `PriKey`, which `handleSendMsg` does not take, is one of the other
replies of `RouterTakes`, and a fault. These are separate actions because the code gives up the thread
between them. `live` counts the uploads that will still report. Each of them
ends with `UploadSucceeds`, `UploadRefused` (code 5) or `UploadFails`, which are
the reports `Transfer` allows. `CancelUpload` takes one that was found by
`Withdraw` out of the count. A file to a group needs a second request on the main
connection when its upload is complete. `wire` and `replies` are that
connection, and both are lost by `Disconnect`. `Launch` includes the clean-up
`deleteCacheFileNollData`. `SizedMedia` are photos and videos, whose row holds
the name `name,WxH` while the file is stored under `name`.
Left out: deletion of every row of a friend or of the user
(`FriendDetailViewController`, a deleted account), which the user asked for;
explicit log-out, which for the cache is a `Disconnect`; content and encryption.

### MultiPart
`mutTempDic` holds the parts under each msgid, as pairs of message and number, so
that a mixture of two messages or of two attempts would show. `ReceivePart` and
`ReceiveLast` are the two branches of `receiveText` on `more`; `Kept` is what
`mutTempDic` holds afterwards. The code clears it at offset 0 only, compares no
offset and removes nothing when a message is complete, and so does the model. An
offset is the number of the part (the code adds 1100 bytes). The router is
assumed to answer one request at a time, to use a msgid for one message at a time,
and to send a message again that was cut off. `Inbox` is what the handlers rely on.

### Session
All is on the main thread, so one action is one handler, from the notification to
its return, with every observer in the order in which they are called: `Disconnected`
is `CircleOutUtil` first and the tab bar second. `app` is `AppDelegate` and
`RouterConfig` (root view, `isLogOut`, `isSwitch`, router); `socket` is
`SocketUtil`, whose `connect` makes a new socket and drops the old one, and whose
`disconnect` is without effect before the connection is up; `reach` is the
reachability manager with its one `block`, the `reports` posted to the main queue
and the searches that they start; `circle` is `CircleOutUtil`; `login` the log-in
page. What nobody cancels is counted: `reports`, `lookups`, `findTimers`,
`loginTimers`, `delayed` (the tab bar's `connectSocket` one second ahead) and
`roots` (blocks that show another root view 1.5 s later). An address is the router
it leads to.
The block that the tab bar gives the reachability manager holds the tab bar weakly,
and `setRootTabbarWithManager` replaces the tab bar: from then on the block is
`"old"`, and a report runs it in vain (`OldReport`), unless a `connectSocket` timer
still holds the object. Between the log-out and the new tab bar the one before it
lives: `AppDelegate.sideMenuViewController` is a strong reference, which
`setRootLoginWithType` leaves alone.
A switch to a router without an address goes over Tox. The log-in may fail
(`ToxFails`) or succeed (`ToxLoggedIn`), which shows a view with a button and no
timer until the router is online (`ToxAdds`) or the user cancels (`ToxCancelled`);
then the router is asked for the user, but only if `toxSuccessCount` was 0, and
nothing sets it back. What is sent after that goes over Tox (`OverTox`) and its
answers are left out.
`PushInSwitch` says whether the router may log the user out while a finished
switch is still waiting to show its tab bar: then `setRootTabbarWithManager` sets
`isLogOut` NO over a log-out and leaves a tab bar without a router. The theorems
assume it does not happen.
Left out: registration of a new user, answers over Tox, devices with a MAC address, the second copy
of the switch in `ChooseCircleViewController`, the shortcut for a VPN, the
automatic log-in at launch, and the turn of the main queue between the answer to a
broadcast and its notification. Whether the phone is on Wi-Fi is a choice
(`TabsReport` or `TabsSearch`), `reConnectCount` is not kept.

### Contacts
`friends`, `asking`, `invited` and `owed` are the router, `toRouter` and `toApp`
the connection, in order. `friendArray`, `requests` (the table, newest first),
`loaded` (does the Contacts tab exist, and so hear the notifications) and `page`
(the open page of requests with its own copy of the rows and the index that was
tapped) are the app. `ReceiveDealt` marks the row at that index, whoever is in it
by then, and ends the process when there is none (`Beyond`, `Restart`), as
`realFriendNoti` does. `owed` pushes come again until they are acknowledged;
questions and answers that are lost do not. `agreedSince` and `missed` are history.
Left out: groups and their verification, e-mail contacts, remarks and avatars.

### Downloads
A download is a chain of blocks: `DownFile` (the call), `FindRow` and `SaveRow`
(database thread), `MakeTask` (main thread), `Answered` (NSURLSession), `Report`
(main thread), `Look` (database thread) and `SaveResult` (by way of the main thread
to the database's). `stage` says which comes next. The account is read by each
block when it runs (`userId`), so a block can look for a row of the wrong account.
The thread of the look-ups is one serial queue: from the look-up of a new download
to its save nothing else runs there (`QueueFree`), while `delAction` deletes from a
thread of its own.
`table` holds the rows by `bg_id`. The library gives a new row the largest id plus
one (`NewId`), so the id of a deleted row is used again, and saves a row that was
read by its id, all columns at once, if there is a row of that id (`Update`). An
answer that looked up its row before it was deleted is therefore saved over the row
that has its id now, if there is one. `fileId` is a time in the code; here it is
the number of the download that made the row.
`delAction` deletes and then cancels, on a global queue: `DeleteRow` leaves the
fileId in `cancels` or not, as the status on the screen may be an old one, and
`CancelDown` cancels the last task made for it. `LogOut` cancels all tasks only if
the session has a socket (`session`). The table outlives the process (`Restart`),
the downloads do not. `undisturbed` is history: no restart, no change of account,
no row written over another so far.
Left out: progress, downloads over Tox, the cancel code that no button reaches.

## 3. Runs

Passing:

| Run | Question | Bounds and why they are enough |
|---|---|---|
| `segments` | do the segments cover the file once, with right headers | all lengths to 53 and sizes to 10, word 64: 53 + 10 is the last sum that fits; exact multiples, one byte, empty files and sizes above the length occur |
| `upload` | two uploads side by side: are reports truthful and unique, does one segment go at a time, does an upload ever wait for an answer to nothing (`NeverHangs`), does clearing spare live uploads, is every step one of `Transfer`, does every upload end | a photo of two segments (a current one and one behind it) and a note of one; at most 2 messages in flight when the timer fires, enough for an answer and a late copy to cross; about 125,000 states. A segment is answered 0 or 5, a bare header 1 (which stands for every code but 0 and 5); other codes and longer files are covered by the theorems |
| `cache_safety` | is a message ever forgotten or stranded | a text, a file, a group file; two uploads of one file (overlapping resends), two faults in any order. `NeverLost` names what the code may forget (`Forgettable`), so it is stated of every message; a fourth one, a photo with a friend of its own, was checked once with the same result (6.3 million states) |
| `cache_settles` | is a failed file sent again, does a text leave the cache | a text and a file, two faults |
| `session` | does a lost session get its connection back, on its own router; has a switch always something that ends it (`SwitchUnderWay`), and does it end | two circles, two choices (log-out, log-in, switch), two faults, two pending reports or timers of a kind: a switch that fails followed by a log-in, a loss during the search of another, a switch over Tox that is cancelled; about 387,000 states |
| `multipart` | is every message handed over once and whole | four messages of up to three parts, two msgids so that messages share one, four losses; about 2,900 states |
| `contacts` | does the list of friends catch up, is no request lost | two users, so that rows move and answers meet the wrong one; four choices of anybody, one loss or restart; about 294,000 states |
| `downloads` | has a file one row, do rows follow their downloads, does a deleted one stay deleted | two files, two accounts, two downloads (of one file or of two, the second with the id of the first's deleted row), one log-in or restart; about 444,000 states. Two log-ins or restarts (a million states) were checked once with the same result |

Refuted claims (the run expects the violation; the comments are quoted under
"findings" in `PROJECT.json`):

| Run | The comment says | The code does |
|---|---|---|
| `session_timer` | it is checked whether the log-in request was answered in time | the timer outlives its switch, and empties the router of the session that followed |
| `friend_consent` | the user can choose whether to allow a request | a request that comes twice before the user looked is agreed to |
| `download_logout` | all files being downloaded are cleared | one whose task is not made yet starts after the log-out |
| `cache_cleanup` | rows are deleted whose file is gone | the others of the conversation are (`!=`) |

Deadlock is not checked: all systems may stop (everything sent, nothing to do).
`MaxFaults`, `MaxLosses` and `MaxChanges` bound what goes wrong, `MaxChoices` what
the user decides, `MaxUploads` and `MaxDownloads` what overlaps, `MaxInFlight` and
`MaxPending` what is under way at a time. No symmetry is used: uploads and
downloads are ordered, and liveness is checked.

### Fairness
- `FileUpload`: a connection attempt ends, the router answers frames and close
  frames, the main run loop runs what is queued or due. Nothing is assumed of
  losing the connection or of the user. A router that keeps answering a
  transient error makes the app send the header for ever, so `EventuallyEnds` is
  checked for one that answers a segment with 0 or 5.
- `SendCache`: the app is launched and logs in again after a crash or a
  disconnection, timers and selectors run, an upload ends, the router answers.
- `Session`: an attempt to connect ends, one way or the other; a close ends; the
  router answers; the main queue runs every report, timer and block; a log-in to
  Tox succeeds or fails (`ToxLogin`). Nothing is assumed of a router coming online
  over Tox (`ToxAdds`) or of the user cancelling (`ToxCancelled`). Connections are
  lost finitely often. The properties except what the model shows the code to do:
  - `NeverStranded`, `Reconnects`: a connection is lost, and the tab bar told, after
    a log-in and before the new tab bar is shown. The block then belongs to the tab
    bar that goes, its report does nothing, and until the network changes or
    another loss nobody reconnects (`reach.block = "old"`).
  - `SwitchUnderWay`, `SwitchEnds`: the answer to a log-in at the old router, coming
    after the switch began, sets `currentRouterToxid` back; the search then leads to
    the old address, a failed attempt there is taken for the end of the connection
    that was cancelled, and nothing ends the switch.
  - `SwitchEnds`: a switch waits for a router over Tox, without a timer
    (`ToxWaits`). Both: the router is online, but a router was reached over Tox
    before in this process, so it is not asked and nothing ends the switch
    (`ToxHangs`).
- `MultiPart`, `Contacts`: both ends read what they are sent, the router sends
  what it has; connections are lost finitely often.
- `Downloads`: queues run and NSURLSession answers or times out.

Faults are finitely many, so what is shown is that the app recovers, not that it
makes progress while everything fails.

## 4. Proofs

- **Segments**: `SegmentsTyped`, `SegmentsCoverFile`, `HeadersFit`,
  `NoByteIsSentTwice`, from the invariant `IInv` (offset = max * (seq - 1),
  segmore iff there is more, what was sent is the range up to the end of the current
  segment). Assumption: length + segment size < Word, under which no product wraps.
- **FileUpload**: `TypeCorrect` for all constants. `TokenDiscipline` proves the
  inductive invariant `IInv`. None of the three safety properties is inductive by
  itself. What makes them so is that the right to move on to the next segment is
  a token: either the bytes of the current segment are on the wire or their
  acceptance is in the inbox, at most once, and never both. Header-only frames
  and their answers carry no token. That is why `0 \notin BareCodes` is assumed:
  a router that accepted a bare header would let the app skip a segment. The other
  parts say where in the life of a connection something may be queued, and that
  a result is posted by the last acceptance or by the end of the connection.
  `ReportsAreTruthful`, `OneOutcome` and `StopsAndWaits` follow. The other two
  theorems assume nothing of `BareCodes`. `ClearingSparesLive` rests on `LiveIInv`:
  onDisconnect is the last event of a connection, and an upload that is complete
  has left the connections that can still report. `clearDisConnectSocket` removes
  complete ones only, and may skip any. `UploadsNeverHang` adds `HangInv`: a lost
  connection has onDisconnect at the end of its inbox, where no callback before it
  can take it away, and whatever a callback finds on an open connection, it writes
  a frame or closes. It is the safety core of `EventuallyEnds`.
- **FileUploadRefines**: `TransferImplemented`, the refinement for any uploads,
  files and segments, from the same invariant and the same assumption: one step
  per action, which is a step of `Transfer` or a stutter of it.
- **SendCache**: `CacheTypeCorrect`. `RowsAreNeverLost` needs, besides types, that
  every reply in flight tells what the router did. It has no hypothesis: where the
  code does lose rows (a text to a group, the conversation of a photo or video)
  `NeverLost` says so itself. `OnlyACrashStrands` needs types only: no interleaving of resends,
  failures, replies and withdrawals leaves a file "sending" with no upload.
- **MultiPart**: `TypeCorrect`, `KeptCorrect`, `InboxImplemented`. The invariant
  adds to `KeptIsPrefix` that a message which is not being sent has nothing on the
  way, that one message at a time uses a msgid, and that of one message one part or
  one request is under way: then what the last part completes is `Whole(m)`, and
  `ReceiveLast` is `Inbox!Deliver`.
- **Session**: `SessionTyped` for any circles and bounds. `StrandedNever`,
  `OnItsRouter` and `SwitchesGoOn` assume `~PushInSwitch`. The invariant has three
  parts. `FlagsInv` says how the flags go together: during a switch `isLogOut` is
  set over the tab bar and no other root view is due; `isSwitch` is set only in a
  switch; a tab bar that is due is the first thing due, and belongs to a session
  that runs. `LinkInv` says how connection and flags do: something is asked only on
  a connection that was up; if anybody would take the next connection for his own
  (a session, a switch, a log-in page that waits) and there is a router, the last
  socket leads to it; and `NeverStranded` itself. `SwitchInv` is about switches:
  while no router is known a search is under way, a router that is known is
  `currentRouterToxid`, and unless that is the address of the connection that the
  switch cancelled, or the switch hangs over Tox, a search, an attempt, a timer or
  the view with the button is under way; what goes over Tox belongs to a switch
  whose router has no address, or to one that is past. `SwitchesGoOn` is the safety
  core of `SwitchEnds` and has its exceptions, as `StrandedNever` has those of
  `NeverStranded`.
- **Contacts**: `TypeCorrect` says that the table of requests has one row of a
  user at most, whatever is pushed twice. `ListCaughtUp` speaks of quiet moments;
  its invariant says what the app will know once it has read what is under way.
  `PullsBehind`: behind every acknowledgement of a push about friends there is a
  question for the list, so that the router, which reads in order, answers with
  what it acknowledged. `ListSeen`: when no question is under way and no such push
  is owed, the last list under way (or `friendArray`, if there is none), less what
  is deleted behind it, is the router's, but for `agreedSince`.
- **Downloads**: `TypeCorrect`, with every download at most once in `taskArr`, so
  that what removes the first occurrence removes the download. `OneRow`,
  `RunningBacked` and `DeletedStays` come from one invariant, `IInv`, with these
  parts: a row or a download that has a fileId is about the file of the download
  that made it (`FilesAgree`); what a look-up for a new download read is still so
  or deleted when it saves, since it has the queue to itself (`RowRead`); while
  undisturbed, everything is of the account that is logged in (`OneAccount`), a file
  has one row (`OneRowEach`), and behind every row that says running there is a
  download of its file which, if its answer is about to be saved, is about to save
  it in that very row (`Backed`). That a new id is new needs the largest id to
  exist, by well-foundedness (`NewIdIsNew`).

Every invariant, action property and refinement that a passing run checks is
stated by a theorem. Only model-checked is liveness (`EventuallyEnds`,
`FailedIsRetried`, `TextSettles`, `Reconnects`, `SwitchEnds`,
`EveryMessageArrives`, `RequestsArrive`, `RowsSettle`), which is out of the
prover's reach. So are the four refuted claims, which TLC refutes with a trace.

## 5. Not modelled

The components marked not_modelled in `PROJECT.json`, with the reason there. Most
lines of the repository are vendored: headers and sources of OpenSSL, Realm,
toxcore, Google's mail API, image and database libraries. They are external to
these models, so the share of the repository's lines that a definition stands for
is very small and cannot grow much. What remains of the app's own code is
screens, requests without state, encryption and the mail client.

In the modelled components: the task-list and album rows that an upload also
writes, the upload variants for contacts and e-mail attachments (same protocol,
other notification), the legacy text protocol `receiveFileText`, checksums, pushed
messages of chats and groups, and what the sections above name.

What the models show that no run states, because no document says otherwise or
one run for each would add little (they are hazards with a note):
- after 50 s without an answer an upload sends the header of the segment alone,
  and the comment in `SocketDataUtil.m` speaks of the segment;
- withdrawing a message marks the first object of that file, which may be a dead
  attempt, and the running one goes on;
- while a router is silent, or a connection half closed, an upload does not end: the
  header is sent again every 50 s. The fairness of `FileUpload` excludes it;
- with three downloads, an answer that brings a deleted row back over another one
  can leave a row that says running for ever, and a file with two rows (checked
  once; `undisturbed` ends with such a save);
- a push is acknowledged before it is stored, and a process that ends in between
  loses it; handlers are one step here;
- clearing all uploads does not stop those that are still connecting;
- a text to a group is forgotten with any reply, an error included;
- a photo or video that failed is looked up under `name,WxH`, and no file has that
  name, so it is not sent again;
- a crash strands a file that was being sent, and a row of a download that ran.

## 6. Plan

1. The chat list: rows in memory and in the table, unread counts against late
   answers to own messages.
2. The rows of album and task list that an upload writes, composed with `Transfer`.
3. Pushed messages and files, composed with `Contacts` (a message of somebody who
   is not in `friendArray` yet is dropped) and groups with their verification.
4. `Session` as what `SendCache` calls `app`, by a refinement mapping.
5. An abstract specification of the cache (what an outbox promises), implemented
   by `SendCache`, and the safety core of `RequestsArrive` as theorems.
