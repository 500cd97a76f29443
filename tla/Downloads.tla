-------------------------------- MODULE Downloads --------------------------------
(***************************************************************************)
(* Downloads of FileDownUtil over HTTP and their rows in the task list     *)
(* (FileData, FILE_STATUS_TABNAME).  A download is a chain of blocks on    *)
(* three threads: a look-up of the row on the database's queue and its     *)
(* save, the task made on the main thread, the answer of NSURLSession, a   *)
(* look-up again, and the row saved once more.  Between any two of them    *)
(* the user may delete the row, log out, and log in with another account;  *)
(* the blocks read the account when they run.                              *)
(*                                                                         *)
(* A row is saved under the id it was read with, all of its columns at     *)
(* once.  The id of a new row is the largest one plus one, so the id of a  *)
(* deleted row may be that of another file's row when an answer that was   *)
(* looked up before is saved.  The fileId of a row, a time, is that of the *)
(* download that made it.  The table outlives the process, the downloads   *)
(* do not.                                                                 *)
(***************************************************************************)
EXTENDS Naturals, Sequences, SequencesExt

CONSTANTS
  Files, Accounts,
  MaxDownloads,  \* bound: downloads
  MaxChanges     \* bound: log-ins and ends of the process

ASSUME DownloadBounds == MaxDownloads \in Nat /\ MaxChanges \in Nat

Ids == 1 .. MaxDownloads

VARIABLES
  userId,     \* the account logged in, or logged out last
  session,    \* "in"; "out"; "stopped": logged out, removeAllTask was called
  table,      \* the rows, by bg_id
  down,       \* the downloads, by the order they were asked for
  taskArr,    \* FileDownUtil.taskArr
  cancels,    \* fileIds that delAction has deleted and not yet cancelled
  asked,      \* number of downloads asked for
  changes,
  undisturbed \* history: one process, one account, no row written over another

vars == <<userId, session, table, down, taskArr, cancels, asked, changes, undisturbed>>

Row == [account: Accounts, file: Files, fileId: Ids,
        status: {"running", "done", "failed"}]
\* What is to happen next to a download.
Stages == {"find", "row", "task", "answer", "cancel", "report", "look", "save", "over"}
\* account is the one looked for, id the bg_id of what was found (0: nothing),
\* fileId that of the task, later that of the row that was read.
Download == [file: Files, account: Accounts, stage: Stages, ok: BOOLEAN,
             id: Nat, fileId: Ids]

TypeOK ==
  /\ userId \in Accounts /\ session \in {"in", "out", "stopped"}
  /\ table \in [DOMAIN table -> Row] /\ DOMAIN table \subseteq Nat \ {0}
  /\ asked \in 0 .. MaxDownloads
  /\ down \in [1 .. asked -> Download]
  /\ \A d \in 1 .. asked : d \in Range(taskArr) <=>
                             down[d].stage \in {"answer", "cancel", "report"}
  /\ taskArr \in Seq(1 .. asked) /\ IsInjective(taskArr)
  /\ cancels \subseteq Ids
  /\ changes \in Nat /\ undisturbed \in BOOLEAN

Init ==
  /\ userId \in Accounts /\ session = "in"
  /\ table = <<>> /\ down = <<>> /\ taskArr = <<>>
  /\ cancels = {}
  /\ asked = 0 /\ changes = 0
  /\ undisturbed = TRUE

\* The queue of the database is free: a look-up for a new download keeps it until
\* the row is saved.  Mutant: it does not.
NeverBusy == TRUE
QueueFree == \A d \in DOMAIN down : down[d].stage # "row"

\* find where userId, srcKey and msgId: the rows of a download.
RowsOf(d) == {i \in DOMAIN table : /\ table[i].account = down[d].account
                                   /\ table[i].file = down[d].file}

\* bg_saveOrUpdate of a new row, and of one that was read.
NewId == 1 + Max(DOMAIN table \cup {0})
Insert(i, row) == [j \in DOMAIN table \cup {i} |-> IF j = i THEN row ELSE table[j]]
\* Mutant: a row that is gone is written again.
UpdateAlways(i, row) == Insert(i, row)
Update(i, row) == IF i \in DOMAIN table THEN [table EXCEPT ![i] = row] ELSE table

Goes(d, from, to) ==
  /\ d \in DOMAIN down /\ down[d].stage = from
  /\ down' = [down EXCEPT ![d].stage = to]

\* cancel of an NSURLSession task: an answer that is there already stays.
Cancelled(ds) ==
  [d \in DOMAIN down |-> IF d \in ds /\ down[d].stage = "answer"
                         THEN [down[d] EXCEPT !.stage = "cancel"] ELSE down[d]]
-----------------------------------------------------------------------------
\* downFileWithFileModel: the row of the file is to be looked up.
DownFile(f) ==
  /\ session = "in"
  /\ asked < MaxDownloads
  /\ asked' = asked + 1
  /\ down' = Append(down, [file |-> f, account |-> userId, stage |-> "find",
                           ok |-> FALSE, id |-> 0, fileId |-> asked'])
  /\ UNCHANGED <<userId, session, table, taskArr, cancels, changes, undisturbed>>

\* What a look-up read: the first of the rows, which it does not order.
Finds(d, to) ==
  \E i \in RowsOf(d) :
    down' = [down EXCEPT ![d] = [@ EXCEPT !.stage = to, !.id = i,
                                          !.fileId = table[i].fileId]]

FindRow(d) ==
  /\ QueueFree
  /\ \/ Goes(d, "find", "row") /\ RowsOf(d) = {}
     \/ d \in DOMAIN down /\ down[d].stage = "find" /\ Finds(d, "row")
  /\ UNCHANGED <<userId, session, table, taskArr, cancels, asked, changes, undisturbed>>

\* Its row is saved as running, for the account of this moment; delAction may
\* have deleted the one that was found.
SaveRow(d) ==
  /\ Goes(d, "row", "task")
  /\ LET row == [account |-> userId, file |-> down[d].file,
                 fileId |-> down[d].fileId, status |-> "running"]
     IN  table' = IF down[d].id = 0 THEN Insert(NewId, row) ELSE Update(down[d].id, row)
  /\ UNCHANGED <<userId, session, taskArr, cancels, asked, changes, undisturbed>>

\* The task is made and starts, whether the user is logged in or not.
MakeTask(d) ==
  /\ Goes(d, "task", "answer")
  /\ taskArr' = Append(taskArr, d)
  /\ UNCHANGED <<userId, session, table, cancels, asked, changes, undisturbed>>

\* NSURLSession calls success or failure.
Answered(d) ==
  /\ d \in DOMAIN down /\ down[d].stage \in {"answer", "cancel"}
  /\ \E ok \in BOOLEAN :
       /\ ok => down[d].stage = "answer"
       /\ down' = [down EXCEPT ![d].stage = "report", ![d].ok = ok]
  /\ UNCHANGED <<userId, session, table, taskArr, cancels, asked, changes, undisturbed>>

\* Mutant: the task is not forgotten.
TasksKept(d) == taskArr
\* removeObject: takes out what is equal: a task is there once (TypeOK).
TasksBut(d) == RemoveFirst(taskArr, d)

\* success, failure: the row is to be looked up again, for the account of now.
Report(d) ==
  /\ d \in DOMAIN down /\ down[d].stage = "report"
  /\ down' = [down EXCEPT ![d].stage = "look", ![d].account = userId]
  /\ taskArr' = TasksBut(d)
  /\ UNCHANGED <<userId, session, table, cancels, asked, changes, undisturbed>>

Look(d) ==
  /\ QueueFree
  /\ \/ Goes(d, "look", "over") /\ RowsOf(d) = {}
     \/ d \in DOMAIN down /\ down[d].stage = "look" /\ Finds(d, "save")
  /\ UNCHANGED <<userId, session, table, taskArr, cancels, asked, changes, undisturbed>>

\* Mutant: a failure is not saved.
SavedDone(ok) == IF ok THEN "done" ELSE "running"
Saved(ok) == IF ok THEN "done" ELSE "failed"

\* The row that was read is saved on the database's queue, by way of the main one.
SaveResult(d) ==
  /\ QueueFree
  /\ Goes(d, "save", "over")
  /\ table' = Update(down[d].id,
                     [account |-> down[d].account, file |-> down[d].file,
                      fileId |-> down[d].fileId, status |-> Saved(down[d].ok)])
  /\ undisturbed' = (undisturbed /\ (down[d].id \in DOMAIN table =>
                                       table[down[d].id].fileId = down[d].fileId))
  /\ UNCHANGED <<userId, session, taskArr, cancels, asked, changes>>
-----------------------------------------------------------------------------
\* delAction, on a global queue: a row of the list is deleted (srcKey and fileId
\* are those of one row); the task is cancelled next if the list, read a while
\* ago, has the row as not done and the session is not over Tox.
DeleteRow(i) ==
  /\ session = "in"
  /\ i \in DOMAIN table /\ table[i].account = userId
  /\ table' = Restrict(table, DOMAIN table \ {i})
  /\ cancels' \in {cancels, cancels \cup {table[i].fileId}}
  /\ UNCHANGED <<userId, session, down, taskArr, asked, changes, undisturbed>>

\* The downloads in taskArr of a fileId: rows are reused, so is their fileId.
TasksOf(x) == {d \in Range(taskArr) : down[d].fileId = x}
LastMade(ds) == {d \in ds : \A e \in ds : \E i, j \in DOMAIN taskArr :
                              taskArr[i] = e /\ taskArr[j] = d /\ i <= j}

\* cancelDownWithFileid: the last task made for it is cancelled.
CancelDown(x) ==
  /\ x \in cancels
  /\ cancels' = cancels \ {x}
  /\ down' = Cancelled(LastMade(TasksOf(x)))
  /\ UNCHANGED <<userId, session, table, taskArr, asked, changes, undisturbed>>

\* logOutApp: removeAllTask if the session has a socket.
LogOut ==
  /\ session = "in"
  /\ \/ session' = "stopped" /\ down' = Cancelled(Range(taskArr))
     \/ session' = "out" /\ UNCHANGED down
  /\ UNCHANGED <<userId, table, taskArr, cancels, asked, changes, undisturbed>>

LogIn(a) ==
  /\ session # "in" /\ changes < MaxChanges
  /\ session' = "in"
  /\ userId' = a
  /\ undisturbed' = (undisturbed /\ a = userId)
  /\ changes' = changes + 1
  /\ UNCHANGED <<table, down, taskArr, cancels, asked>>

\* The process ends; nothing is done about the rows when it starts again.
Restart ==
  /\ changes < MaxChanges
  /\ changes' = changes + 1
  /\ down' = [d \in DOMAIN down |-> [down[d] EXCEPT !.stage = "over"]]
  /\ taskArr' = <<>> /\ cancels' = {}
  /\ undisturbed' = FALSE
  /\ UNCHANGED <<userId, session, table, asked>>
-----------------------------------------------------------------------------
DownloadStep(d) == \/ FindRow(d) \/ SaveRow(d) \/ MakeTask(d) \/ Answered(d)
                   \/ Report(d) \/ Look(d) \/ SaveResult(d)

Next == \/ \E f \in Files : DownFile(f)
        \/ \E d \in Ids : DownloadStep(d) \/ CancelDown(d)
        \/ \E i \in Ids : DeleteRow(i)
        \/ LogOut \/ Restart
        \/ \E a \in Accounts : LogIn(a)

Spec == Init /\ [][Next]_vars

\* Queues and threads run; NSURLSession answers, or times out.
FairSpec == Spec /\ \A d \in Ids : WF_vars(DownloadStep(d))
-----------------------------------------------------------------------------
UnderWay(f) == \E d \in DOMAIN down : down[d].file = f /\ down[d].stage # "over"

\* A file has one row, however many downloads of it run, in a process that was
\* not ended, with one account, and unless an answer was saved over another row:
\* what looks for a row and finds none has made its own before another looks.
OneRowEach ==
  undisturbed => \A i, j \in DOMAIN table : table[i].file = table[j].file => i = j

\* Under the same conditions a row says that its file is being downloaded only
\* while a download of it is under way: deletions, log-outs and downloads of the
\* same file at the same time leave none behind.
RunningIsBacked ==
  undisturbed => \A i \in DOMAIN table : table[i].status = "running" =>
                                           UnderWay(table[i].file)

FileIds(t) == {t[i].fileId : i \in DOMAIN t}

\* A row that was deleted comes back in one case: an answer found it before, and
\* its id is that of another row when the answer is saved.  What else is new in
\* the table is the row of a new download.
DeletedStaysDeleted ==
  [][\A x \in FileIds(table') \ FileIds(table) :
       \/ x \in DOMAIN down /\ down[x].stage = "row" /\ down[x].id = 0
       \/ \E d \in DOMAIN down : /\ down[d].stage = "save" /\ down[d].fileId = x
                                 /\ down[d].id \in DOMAIN table]_vars

\* Every row comes to say how its download ended, or is deleted, or disturbed.
RowsSettle ==
  \A i \in Ids :
    i \in DOMAIN table /\ table[i].status = "running"
      ~> ~(i \in DOMAIN table /\ table[i].status = "running") \/ ~undisturbed
=============================================================================
