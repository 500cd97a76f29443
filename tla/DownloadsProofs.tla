----------------------------- MODULE DownloadsProofs -----------------------------
(***************************************************************************)
(* Proofs about Downloads for any files, accounts and bounds.              *)
(***************************************************************************)
EXTENDS Downloads, SequenceTheorems, NaturalsInduction, WellFoundedInduction, TLAPS

\* The part of the types that the rows depend on; the ids have a largest one.
RowsTyped ==
  /\ userId \in Accounts /\ undisturbed \in BOOLEAN
  /\ table \in [DOMAIN table -> Row]
  /\ \E n \in Nat : DOMAIN table \subseteq 1 .. n
  /\ asked \in 0 .. MaxDownloads
  /\ down \in [1 .. asked -> Download]

\* Whoever has a fileId, a row or a download that read it, is about the file of
\* the download that made it.
FilesAgree ==
  /\ \A i \in DOMAIN table : /\ table[i].fileId \in DOMAIN down
                             /\ table[i].file = down[table[i].fileId].file
  /\ \A d \in DOMAIN down : /\ down[d].fileId \in DOMAIN down
                            /\ down[d].file = down[down[d].fileId].file

\* A look-up for a new download has the queue to itself until the row is saved:
\* what it read is still so, or deleted.
RowRead(d) ==
  /\ down[d].stage = "find" => down[d].id = 0
  /\ down[d].stage \in {"find", "row"} /\ down[d].id = 0 => down[d].fileId = d
  /\ down[d].stage = "row" =>
       /\ \A e \in DOMAIN down : down[e].stage = "row" => e = d
       /\ down[d].id = 0 => RowsOf(d) = {}
       /\ down[d].id \in DOMAIN table => /\ table[down[d].id].fileId = down[d].fileId
                                         /\ table[down[d].id].file = down[d].file

\* In one account, every row and every download that is not over is of it.
OneAccount ==
  undisturbed =>
    /\ \A d \in DOMAIN down : down[d].stage # "over" => down[d].account = userId
    /\ \A i \in DOMAIN table : table[i].account = userId

\* Who stands for a row that says "running": one whose answer is about to be saved
\* is about to save it there.
Backs(d, i) == /\ down[d].file = table[i].file /\ down[d].stage # "over"
               /\ down[d].stage = "save" => down[d].id = i
Backed == undisturbed => \A i \in DOMAIN table : table[i].status = "running" =>
                           \E d \in DOMAIN down : Backs(d, i)

IInv == /\ RowsTyped /\ FilesAgree /\ OneAccount /\ OneRowEach /\ Backed
        /\ \A d \in DOMAIN down : RowRead(d)
-----------------------------------------------------------------------------
(***************************************************************************)
(* The ids of the rows.                                                    *)
(***************************************************************************)
\* The id of a new row is that of no other.
LEMMA NewIdIsNew ==
  ASSUME RowsTyped
  PROVE  /\ NewId \in Nat \ {0} /\ NewId \notin DOMAIN table
         /\ \A i \in DOMAIN table : i < NewId
<1>. DEFINE S == DOMAIN table \cup {0}
<1>1. PICK n \in Nat : DOMAIN table \subseteq 1 .. n
  BY DEF RowsTyped
<1>2. \E m \in S : \A s \in S : m >= s
  <2>. DEFINE T == {n - s : s \in S}
              R == OpToRel(<, Nat)
  <2>1. S \subseteq 0 .. n
    BY <1>1
  <2>2. T \subseteq Nat /\ T # {}
    BY <2>1
  <2>. HIDE DEF S
  <2>3. IsWellFoundedOn(R, Nat)
    BY NatLessThanWellFounded
  <2>. HIDE DEF R
  <2>4. PICK t \in T : \A u \in T : ~(<<u, t>> \in R)
    BY <2>2, <2>3, WFMin
  <2>5. PICK m \in S : t = n - m
    OBVIOUS
  <2>6. ASSUME NEW s \in S PROVE m >= s
    <3>1. n - s \in T /\ n - s \in Nat /\ t \in Nat
      BY <2>2
    <3>2. ~(n - s < t)
      BY <2>4, <3>1 DEF R, OpToRel
    <3>3. s \in Int /\ m \in Int
      BY <2>1
    <3>. QED BY <2>5, <3>2, <3>3
  <2>. QED BY <2>6
<1>3. Max(S) \in S /\ \A s \in S : Max(S) >= s
  BY <1>2 DEF Max
<1>4. S \subseteq Nat
  BY <1>1
<1>5. NewId = 1 + Max(S)
  BY DEF NewId
<1>. HIDE DEF NewId
<1>6. ASSUME NEW i \in DOMAIN table PROVE i < NewId
  BY <1>3, <1>4, <1>5
<1>. QED BY <1>3, <1>4, <1>5, <1>6

\* What a table is after an insertion and after an update.
LEMMA InsertFields ==
  ASSUME RowsTyped, NEW row \in Row
  PROVE  LET t == Insert(NewId, row)
         IN  /\ DOMAIN t = DOMAIN table \cup {NewId} /\ t[NewId] = row
             /\ \A i \in DOMAIN table : t[i] = table[i]
             /\ t \in [DOMAIN t -> Row]
             /\ \E n \in Nat : DOMAIN t \subseteq 1 .. n
<1>. DEFINE k == NewId
            t == Insert(NewId, row)
<1>1. /\ k \in Nat \ {0} /\ k \notin DOMAIN table
      /\ \A i \in DOMAIN table : i < k
  BY NewIdIsNew
<1>2. t = [j \in DOMAIN table \cup {k} |-> IF j = k THEN row ELSE table[j]]
  BY DEF Insert
<1>3. PICK n \in Nat : DOMAIN table \subseteq 1 .. n
  BY DEF RowsTyped
<1>. HIDE DEF k, t
<1>4. DOMAIN t = DOMAIN table \cup {k} /\ t[k] = row
      /\ \A i \in DOMAIN table : t[i] = table[i]
  BY <1>1, <1>2
<1>5. \A i \in DOMAIN t : t[i] \in Row
  BY <1>4 DEF RowsTyped
<1>6. t \in [DOMAIN t -> Row]
  BY <1>2, <1>5
<1>7. DOMAIN t \subseteq 1 .. k
  <2>1. \A i \in DOMAIN table : i \in 1 .. k
    BY <1>1, <1>3
  <2>. QED BY <1>1, <1>4, <2>1
<1>. QED BY <1>1, <1>4, <1>6, <1>7 DEF k, t

LEMMA UpdateFields ==
  ASSUME RowsTyped, NEW i, NEW row \in Row
  PROVE  LET t == Update(i, row)
         IN  /\ DOMAIN t = DOMAIN table
             /\ i \in DOMAIN table => t[i] = row
             /\ \A j \in DOMAIN table : j # i => t[j] = table[j]
             /\ t \in [DOMAIN t -> Row]
BY DEF Update, RowsTyped
-----------------------------------------------------------------------------
(***************************************************************************)
(* The steps of one download.                                              *)
(***************************************************************************)
\* The table stays as it is: a download goes on, or looks up its row, or is over
\* because there is none.
LEMMA StepKeeps ==
  ASSUME IInv, NEW d \in DOMAIN down, NEW r \in Download,
         down' = [down EXCEPT ![d] = r], UNCHANGED <<userId, undisturbed, asked, table>>,
         down[d].stage # "over", r.stage # "find", r.file = down[d].file,
         r.account = down[d].account \/ r.account = userId,
         \/ r.id = down[d].id /\ r.fileId = down[d].fileId
         \/ r.id \in RowsOf(d) /\ r.fileId = table[r.id].fileId,
         r.stage = "row" => /\ QueueFree /\ down[d].stage = "find"
                            /\ r.account = down[d].account
                            /\ RowsOf(d) = {} \/ r.id \in RowsOf(d),
         r.stage = "save" => r.id \in RowsOf(d),
         r.stage = "over" => RowsOf(d) = {}
  PROVE  IInv'
<1>1. /\ DOMAIN down' = DOMAIN down /\ down'[d] = r
      /\ \A e \in DOMAIN down : e # d => down'[e] = down[e]
  OBVIOUS
<1>2. RowsTyped'
  BY DEF IInv, RowsTyped
<1>3. /\ \A i \in RowsOf(d) : i \in DOMAIN table /\ table[i].file = down[d].file
      /\ 0 \notin RowsOf(d)
  BY DEF IInv, RowsTyped, RowsOf
<1>4. \A e \in DOMAIN down : down'[e].file = down[e].file
  BY <1>1
<1>5. FilesAgree'
  <2>1. \A i \in DOMAIN table : /\ table[i].fileId \in DOMAIN down
                                /\ table[i].file = down'[table[i].fileId].file
    BY <1>4 DEF IInv, FilesAgree
  <2>2. ASSUME NEW e \in DOMAIN down
        PROVE  /\ down'[e].fileId \in DOMAIN down
               /\ down'[e].file = down'[down'[e].fileId].file
    <3>1. CASE e # d
      BY <1>1, <1>4, <3>1 DEF IInv, FilesAgree
    <3>2. CASE e = d /\ r.fileId = down[d].fileId
      BY <1>1, <1>4, <3>2 DEF IInv, FilesAgree
    <3>3. CASE e = d /\ r.id \in RowsOf(d) /\ r.fileId = table[r.id].fileId
      BY <1>1, <1>3, <1>4, <3>3 DEF IInv, FilesAgree
    <3>. QED BY <3>1, <3>2, <3>3
  <2>. QED BY <1>1, <2>1, <2>2 DEF FilesAgree
<1>6. OneAccount'
  BY <1>1 DEF IInv, OneAccount
<1>7. OneRowEach'
  BY DEF IInv, OneRowEach
<1>8. ASSUME undisturbed, NEW i \in DOMAIN table, table[i].status = "running"
      PROVE  \E e \in DOMAIN down : Backs(e, i)'
  <2>1. PICK e \in DOMAIN down : Backs(e, i)
    BY <1>8 DEF IInv, Backed
  <2>2. CASE e # d
    BY <1>1, <2>1, <2>2 DEF Backs
  <2>3. CASE e = d
    <3>1. table[i].file = down[d].file /\ table[i].account = down[d].account
      BY <1>8, <2>1, <2>3 DEF Backs, IInv, OneAccount
    <3>2. i \in RowsOf(d)
      BY <3>1 DEF RowsOf
    <3>3. r.stage = "save" => r.id = i
      BY <1>3, <1>8, <3>1 DEF IInv, OneRowEach
    <3>. QED BY <1>1, <3>1, <3>2, <3>3 DEF Backs
  <2>. QED BY <2>2, <2>3
<1>9. Backed'
  BY <1>1, <1>8 DEF Backed
<1>10. ASSUME NEW e \in DOMAIN down
       PROVE  RowRead(e)'
  <2>1. CASE e # d
    <3>1. down'[e] = down[e] /\ RowRead(e) /\ RowsOf(e)' = RowsOf(e)
      BY <1>1, <2>1 DEF IInv, RowsOf
    <3>2. down[e].stage = "row" => r.stage # "row"
      BY <2>1 DEF QueueFree
    <3>. QED BY <1>1, <3>1, <3>2 DEF RowRead
  <2>2. CASE e = d /\ r.stage # "row"
    BY <1>1, <2>2 DEF RowRead
  <2>3. CASE e = d /\ r.stage = "row"
    <3>1. RowsOf(d)' = RowsOf(d)
      BY <1>1, <2>3 DEF RowsOf
    <3>2. \A g \in DOMAIN down : down'[g].stage = "row" => g = d
      BY <1>1, <2>3 DEF QueueFree
    <3>3. RowRead(d) /\ down[d].stage = "find"
      BY <2>3 DEF IInv
    <3>4. r.id = 0 => r.fileId = d /\ RowsOf(d) = {}
      BY <1>3, <2>3, <3>3 DEF RowRead
    <3>5. r.id \in DOMAIN table => /\ table[r.id].fileId = r.fileId
                                   /\ table[r.id].file = r.file
      <4>1. 0 \notin DOMAIN table
        BY DEF IInv, RowsTyped
      <4>. QED BY <1>3, <3>3, <4>1 DEF RowRead
    <3>. QED BY <1>1, <2>3, <3>1, <3>2, <3>4, <3>5 DEF RowRead
  <2>. QED BY <2>1, <2>2, <2>3
<1>. QED BY <1>1, <1>2, <1>5, <1>6, <1>7, <1>9, <1>10 DEF IInv

\* What EXCEPT on the stage keeps.
LEMMA StageFields ==
  ASSUME NEW r \in Download, NEW s \in Stages
  PROVE  LET q == [r EXCEPT !.stage = s]
         IN  /\ q \in Download /\ q.stage = s /\ q.file = r.file
             /\ q.account = r.account /\ q.id = r.id /\ q.fileId = r.fileId
BY DEF Download

\* The row of a new download is the file's only one.
LEMMA SaveRowKeeps ==
  ASSUME IInv, NEW d \in DOMAIN down, SaveRow(d)
  PROVE  IInv'
<1>. DEFINE r == [down[d] EXCEPT !.stage = "task"]
            row == [account |-> userId, file |-> down[d].file,
                    fileId |-> down[d].fileId, status |-> "running"]
            k == IF down[d].id = 0 THEN NewId ELSE down[d].id
<1>1. /\ down[d] \in Download /\ down[d].stage = "row"
      /\ down' = [down EXCEPT ![d] = r]
      /\ UNCHANGED <<userId, undisturbed, asked>>
  BY DEF SaveRow, Goes, IInv, RowsTyped
<1>2. /\ r \in Download /\ r.stage = "task" /\ r.file = down[d].file
      /\ r.account = down[d].account /\ r.id = down[d].id /\ r.fileId = down[d].fileId
  BY <1>1, StageFields DEF Stages
<1>3. /\ row \in Row /\ row.account = userId /\ row.file = down[d].file
      /\ row.fileId = down[d].fileId
  BY <1>1 DEF Row, Download, IInv, RowsTyped
<1>4. table' = IF down[d].id = 0 THEN Insert(NewId, row) ELSE Update(down[d].id, row)
  BY DEF SaveRow
<1>. HIDE DEF r, row
<1>5. /\ DOMAIN table \subseteq DOMAIN table' /\ table' \in [DOMAIN table' -> Row]
      /\ \A i \in DOMAIN table' : \/ i = k /\ table'[i] = row
                                  \/ i # k /\ i \in DOMAIN table /\ table'[i] = table[i]
      /\ \E n \in Nat : DOMAIN table' \subseteq 1 .. n
  <2>1. CASE down[d].id = 0
    BY <1>3, <1>4, <2>1, InsertFields, NewIdIsNew DEF IInv
  <2>2. CASE down[d].id # 0
    BY <1>3, <1>4, <2>2, UpdateFields DEF IInv, RowsTyped
  <2>. QED BY <2>1, <2>2
<1>6. RowRead(d)
  BY DEF IInv
<1>7. \A i \in DOMAIN table' : i = k /\ i \in DOMAIN table =>
        table[i].file = row.file /\ table[i].fileId = row.fileId
  <2>1. CASE down[d].id = 0
    BY <2>1, NewIdIsNew DEF IInv
  <2>2. CASE down[d].id # 0
    BY <1>1, <1>3, <1>6, <2>2 DEF RowRead
  <2>. QED BY <2>1, <2>2
<1>. HIDE DEF k
<1>8. /\ DOMAIN down' = DOMAIN down /\ down'[d] = r
      /\ \A e \in DOMAIN down : e # d => down'[e] = down[e]
      /\ \A e \in DOMAIN down : /\ down'[e].file = down[e].file
                                /\ down'[e].account = down[e].account
                                /\ down'[e].fileId = down[e].fileId
                                /\ down'[e].id = down[e].id
  BY <1>1, <1>2
<1>9. RowsTyped'
  BY <1>1, <1>2, <1>5 DEF IInv, RowsTyped
<1>10. FilesAgree'
  BY <1>3, <1>5, <1>8 DEF IInv, FilesAgree
<1>11. OneAccount'
  BY <1>1, <1>2, <1>3, <1>5, <1>8 DEF IInv, OneAccount
<1>12. OneRowEach'
  <2>. SUFFICES ASSUME undisturbed, NEW i \in DOMAIN table', NEW j \in DOMAIN table',
                       table'[i].file = table'[j].file, i = k, j # k
                PROVE  FALSE
    BY <1>1, <1>5 DEF IInv, OneRowEach
  <2>1. j \in DOMAIN table /\ table[j].file = down[d].file
    BY <1>3, <1>5
  <2>2. table[j].account = down[d].account
    BY <1>1, <2>1 DEF IInv, OneAccount
  <2>3. j \in RowsOf(d)
    BY <2>1, <2>2 DEF RowsOf
  <2>4. down[d].id # 0 /\ k = down[d].id
    BY <1>1, <1>6, <2>3 DEF RowRead, k
  <2>5. i \in DOMAIN table
    BY <1>4, <1>3, <2>4, UpdateFields DEF IInv
  <2>. QED BY <1>3, <1>7, <2>1, <2>5 DEF IInv, OneRowEach
<1>13. Backed'
  <2>. SUFFICES ASSUME undisturbed, NEW i \in DOMAIN table', table'[i].status = "running"
                PROVE  \E e \in DOMAIN down : Backs(e, i)'
    BY <1>1, <1>8 DEF Backed
  <2>1. CASE i = k
    BY <1>2, <1>3, <1>5, <1>8, <2>1 DEF Backs
  <2>2. CASE i # k
    <3>1. i \in DOMAIN table /\ table'[i] = table[i]
      BY <1>5, <2>2
    <3>2. PICK e \in DOMAIN down : Backs(e, i)
      BY <3>1 DEF IInv, Backed
    <3>. QED BY <1>2, <1>8, <3>1, <3>2 DEF Backs
  <2>. QED BY <2>1, <2>2
<1>14. ASSUME NEW e \in DOMAIN down
       PROVE  RowRead(e)'
  <2>1. CASE e = d
    BY <1>2, <1>8, <2>1 DEF RowRead
  <2>2. CASE e # d
    <3>1. down'[e] = down[e] /\ down[e].stage # "row" /\ RowRead(e)
      BY <1>1, <1>6, <1>8, <2>2 DEF RowRead, IInv
    <3>. QED BY <3>1 DEF RowRead
  <2>. QED BY <2>1, <2>2
<1>. QED BY <1>8, <1>9, <1>10, <1>11, <1>12, <1>13, <1>14 DEF IInv

\* An answer that is saved makes no row say "running", and disturbs nothing unless
\* it is saved over another row.
LEMMA SaveResultKeeps ==
  ASSUME IInv, NEW d \in DOMAIN down, SaveResult(d)
  PROVE  IInv'
<1>. DEFINE r == [down[d] EXCEPT !.stage = "over"]
            row == [account |-> down[d].account, file |-> down[d].file,
                    fileId |-> down[d].fileId, status |-> Saved(down[d].ok)]
            k == down[d].id
<1>1. /\ down[d] \in Download /\ down[d].stage = "save" /\ QueueFree
      /\ down' = [down EXCEPT ![d] = r]
      /\ UNCHANGED <<userId, asked>>
  BY DEF SaveResult, Goes, IInv, RowsTyped
<1>2. /\ r \in Download /\ r.stage = "over" /\ r.file = down[d].file
      /\ r.account = down[d].account /\ r.id = down[d].id /\ r.fileId = down[d].fileId
  BY <1>1, StageFields DEF Stages
<1>3. /\ row \in Row /\ row.account = down[d].account /\ row.file = down[d].file
      /\ row.fileId = down[d].fileId /\ row.status # "running"
  BY <1>1 DEF Row, Download, Saved
<1>4. table' = Update(k, row)
  BY DEF SaveResult
<1>5. /\ undisturbed' \in BOOLEAN /\ (undisturbed' => undisturbed)
      /\ undisturbed' /\ k \in DOMAIN table => table[k].fileId = row.fileId
  BY <1>3 DEF SaveResult
<1>. HIDE DEF r, row
<1>6. /\ DOMAIN table' = DOMAIN table /\ table' \in [DOMAIN table' -> Row]
      /\ \A i \in DOMAIN table : \/ i = k /\ table'[i] = row
                                 \/ i # k /\ table'[i] = table[i]
  BY <1>3, <1>4, UpdateFields DEF IInv
<1>7. \A i \in DOMAIN table : i = k /\ undisturbed' => table[i].file = row.file
  BY <1>3, <1>5 DEF IInv, FilesAgree
<1>. HIDE DEF k
<1>8. /\ DOMAIN down' = DOMAIN down /\ down'[d] = r
      /\ \A e \in DOMAIN down : e # d => down'[e] = down[e]
      /\ \A e \in DOMAIN down : /\ down'[e].file = down[e].file
                                /\ down'[e].account = down[e].account
                                /\ down'[e].fileId = down[e].fileId
                                /\ down'[e].id = down[e].id
  BY <1>1, <1>2
<1>9. RowsTyped'
  BY <1>1, <1>2, <1>5, <1>6 DEF IInv, RowsTyped
<1>10. FilesAgree'
  <2>1. FilesAgree
    BY DEF IInv
  <2>2. ASSUME NEW i \in DOMAIN table
        PROVE  /\ table'[i].fileId \in DOMAIN down
               /\ table'[i].file = down'[table'[i].fileId].file
    BY <1>3, <1>6, <1>8, <2>1 DEF FilesAgree
  <2>3. \A e \in DOMAIN down : /\ down'[e].fileId \in DOMAIN down
                               /\ down'[e].file = down'[down'[e].fileId].file
    BY <1>8, <2>1 DEF FilesAgree
  <2>. QED BY <1>6, <1>8, <2>2, <2>3 DEF FilesAgree
<1>11. OneAccount'
  BY <1>1, <1>2, <1>3, <1>5, <1>6, <1>8 DEF IInv, OneAccount
<1>12. OneRowEach'
  <2>. SUFFICES ASSUME undisturbed', NEW i \in DOMAIN table, NEW j \in DOMAIN table,
                       table'[i].file = table'[j].file
                PROVE  i = j
    BY <1>6 DEF OneRowEach
  <2>1. table'[i].file = table[i].file /\ table'[j].file = table[j].file
    BY <1>6, <1>7
  <2>. QED BY <1>5, <2>1 DEF IInv, OneRowEach
<1>13. Backed'
  <2>. SUFFICES ASSUME undisturbed', NEW i \in DOMAIN table, table'[i].status = "running"
                PROVE  \E e \in DOMAIN down : Backs(e, i)'
    BY <1>6, <1>8 DEF Backed
  <2>1. i # k /\ table'[i] = table[i]
    BY <1>3, <1>6
  <2>2. PICK e \in DOMAIN down : Backs(e, i)
    BY <1>5, <2>1 DEF IInv, Backed
  <2>3. e # d
    BY <1>1, <2>1, <2>2 DEF Backs, k
  <2>. QED BY <1>8, <2>1, <2>2, <2>3 DEF Backs
<1>14. ASSUME NEW e \in DOMAIN down
       PROVE  RowRead(e)'
  <2>1. CASE e = d
    BY <1>2, <1>8, <2>1 DEF RowRead
  <2>2. CASE e # d
    BY <1>1, <1>8, <2>2 DEF RowRead, IInv, QueueFree
  <2>. QED BY <2>1, <2>2
<1>. QED BY <1>8, <1>9, <1>10, <1>11, <1>12, <1>13, <1>14 DEF IInv

\* FindRow, Look: what is read.
LEMMA FindsFields ==
  ASSUME IInv, NEW d \in DOMAIN down, NEW s \in {"row", "save"}, Finds(d, s)
  PROVE  \E r \in Download :
           /\ down' = [down EXCEPT ![d] = r] /\ r.stage = s
           /\ r.file = down[d].file /\ r.account = down[d].account
           /\ r.id \in RowsOf(d) /\ r.fileId = table[r.id].fileId
<1>1. PICK i \in RowsOf(d) :
        down' = [down EXCEPT ![d] = [@ EXCEPT !.stage = s, !.id = i,
                                              !.fileId = table[i].fileId]]
  BY DEF Finds
<1>. DEFINE r == [down[d] EXCEPT !.stage = s, !.id = i, !.fileId = table[i].fileId]
<1>2. down[d] \in Download /\ i \in Nat /\ table[i].fileId \in Ids
  BY DEF IInv, RowsTyped, RowsOf, Row
<1>3. /\ r \in Download /\ r.stage = s /\ r.file = down[d].file
      /\ r.account = down[d].account /\ r.id = i /\ r.fileId = table[i].fileId
  BY <1>2 DEF Download, Stages
<1>4. down' = [down EXCEPT ![d] = r]
  BY <1>1
<1>. HIDE DEF r
<1>. QED BY <1>3, <1>4

LEMMA StepInv ==
  ASSUME IInv, NEW d, DownloadStep(d)
  PROVE  IInv'
<1>1. d \in DOMAIN down /\ down[d] \in Download
  BY DEF DownloadStep, FindRow, SaveRow, MakeTask, Answered, Report, Look, SaveResult,
         Goes, IInv, RowsTyped
<1>2. ASSUME NEW s \in Stages \ {"over", "save", "find", "row"}, Goes(d, down[d].stage, s),
             down[d].stage # "over",
             UNCHANGED <<userId, undisturbed, asked, table>>
      PROVE  IInv'
  <2>. DEFINE r == [down[d] EXCEPT !.stage = s]
  <2>1. down' = [down EXCEPT ![d] = r]
    BY <1>2 DEF Goes
  <2>2. /\ r \in Download /\ r.stage = s /\ r.file = down[d].file
        /\ r.account = down[d].account /\ r.id = down[d].id /\ r.fileId = down[d].fileId
    BY <1>1, <1>2, StageFields
  <2>. HIDE DEF r
  <2>. QED BY <1>1, <1>2, <2>1, <2>2, StepKeeps
<1>3. CASE FindRow(d)
  <2>1. UNCHANGED <<userId, undisturbed, asked, table>> /\ QueueFree
        /\ down[d].stage = "find"
    BY <1>3 DEF FindRow, Goes
  <2>2. CASE Goes(d, "find", "row") /\ RowsOf(d) = {}
    <3>. DEFINE r == [down[d] EXCEPT !.stage = "row"]
    <3>1. down' = [down EXCEPT ![d] = r]
      BY <2>2 DEF Goes
    <3>2. /\ r \in Download /\ r.stage = "row" /\ r.file = down[d].file
          /\ r.account = down[d].account /\ r.id = down[d].id /\ r.fileId = down[d].fileId
      BY <1>1, StageFields DEF Stages
    <3>. HIDE DEF r
    <3>. QED BY <1>1, <2>1, <2>2, <3>1, <3>2, StepKeeps
  <2>3. CASE Finds(d, "row")
    <3>1. PICK r \in Download :
            /\ down' = [down EXCEPT ![d] = r] /\ r.stage = "row"
            /\ r.file = down[d].file /\ r.account = down[d].account
            /\ r.id \in RowsOf(d) /\ r.fileId = table[r.id].fileId
      BY <1>1, <2>3, FindsFields
    <3>. QED BY <1>1, <2>1, <3>1, StepKeeps
  <2>. QED BY <1>3, <2>2, <2>3 DEF FindRow
<1>4. CASE SaveRow(d)
  BY <1>1, <1>4, SaveRowKeeps
<1>5. CASE MakeTask(d)
  BY <1>1, <1>2, <1>5 DEF MakeTask, Goes, Stages
<1>6. CASE Answered(d)
  <2>1. PICK ok \in BOOLEAN : down' = [down EXCEPT ![d].stage = "report", ![d].ok = ok]
    BY <1>6 DEF Answered
  <2>. DEFINE r == [down[d] EXCEPT !.stage = "report", !.ok = ok]
  <2>2. /\ r \in Download /\ r.stage = "report" /\ r.file = down[d].file
        /\ r.account = down[d].account /\ r.id = down[d].id /\ r.fileId = down[d].fileId
    BY <1>1 DEF Download, Stages
  <2>3. down' = [down EXCEPT ![d] = r]
    BY <1>1, <2>1 DEF IInv, RowsTyped
  <2>4. UNCHANGED <<userId, undisturbed, asked, table>> /\ down[d].stage # "over"
    BY <1>6 DEF Answered
  <2>. HIDE DEF r
  <2>. QED BY <1>1, <2>2, <2>3, <2>4, StepKeeps
<1>7. CASE Report(d)
  <2>. DEFINE r == [down[d] EXCEPT !.stage = "look", !.account = userId]
  <2>1. userId \in Accounts
    BY DEF IInv, RowsTyped
  <2>2. /\ r \in Download /\ r.stage = "look" /\ r.file = down[d].file
        /\ r.account = userId /\ r.id = down[d].id /\ r.fileId = down[d].fileId
    BY <1>1, <2>1 DEF Download, Stages
  <2>3. down' = [down EXCEPT ![d] = r]
    BY <1>1, <1>7 DEF Report, IInv, RowsTyped
  <2>4. UNCHANGED <<userId, undisturbed, asked, table>> /\ down[d].stage # "over"
    BY <1>7 DEF Report
  <2>. HIDE DEF r
  <2>. QED BY <1>1, <2>2, <2>3, <2>4, StepKeeps
<1>8. CASE Look(d)
  <2>1. UNCHANGED <<userId, undisturbed, asked, table>> /\ down[d].stage = "look"
    BY <1>8 DEF Look, Goes
  <2>2. CASE Goes(d, "look", "over") /\ RowsOf(d) = {}
    <3>. DEFINE r == [down[d] EXCEPT !.stage = "over"]
    <3>1. down' = [down EXCEPT ![d] = r]
      BY <2>2 DEF Goes
    <3>2. /\ r \in Download /\ r.stage = "over" /\ r.file = down[d].file
          /\ r.account = down[d].account /\ r.id = down[d].id /\ r.fileId = down[d].fileId
      BY <1>1, StageFields DEF Stages
    <3>. HIDE DEF r
    <3>. QED BY <1>1, <2>1, <2>2, <3>1, <3>2, StepKeeps
  <2>3. CASE Finds(d, "save")
    <3>1. PICK r \in Download :
            /\ down' = [down EXCEPT ![d] = r] /\ r.stage = "save"
            /\ r.file = down[d].file /\ r.account = down[d].account
            /\ r.id \in RowsOf(d) /\ r.fileId = table[r.id].fileId
      BY <1>1, <2>3, FindsFields
    <3>. QED BY <1>1, <2>1, <3>1, StepKeeps
  <2>. QED BY <1>8, <2>2, <2>3 DEF Look
<1>9. CASE SaveResult(d)
  BY <1>1, <1>9, SaveResultKeeps
<1>. QED BY <1>3, <1>4, <1>5, <1>6, <1>7, <1>8, <1>9 DEF DownloadStep
-----------------------------------------------------------------------------
(***************************************************************************)
(* The steps of the user.                                                  *)
(***************************************************************************)
\* A cancelled download keeps what it has; only a task that waits is cancelled.
LEMMA CancelledFields ==
  ASSUME RowsTyped, NEW ds
  PROVE  /\ Cancelled(ds) \in [1 .. asked -> Download]
         /\ DOMAIN Cancelled(ds) = DOMAIN down
         /\ \A d \in DOMAIN down : LET c == Cancelled(ds)[d]
              IN  /\ c.file = down[d].file /\ c.account = down[d].account
                  /\ c.id = down[d].id /\ c.fileId = down[d].fileId
                  /\ \/ c.stage = down[d].stage
                     \/ c.stage = "cancel" /\ down[d].stage = "answer"
<1>. DEFINE c == Cancelled(ds)
<1>1. DOMAIN c = DOMAIN down /\ DOMAIN down = 1 .. asked
  BY DEF Cancelled, RowsTyped
<1>2. ASSUME NEW d \in DOMAIN down
      PROVE  /\ c[d] \in Download
             /\ c[d].file = down[d].file /\ c[d].account = down[d].account
             /\ c[d].id = down[d].id /\ c[d].fileId = down[d].fileId
             /\ \/ c[d].stage = down[d].stage
                \/ c[d].stage = "cancel" /\ down[d].stage = "answer"
  <2>. DEFINE q == [down[d] EXCEPT !.stage = "cancel"]
  <2>1. down[d] \in Download
    BY DEF RowsTyped
  <2>2. /\ q \in Download /\ q.file = down[d].file /\ q.account = down[d].account
        /\ q.id = down[d].id /\ q.fileId = down[d].fileId /\ q.stage = "cancel"
    BY <2>1, StageFields DEF Stages
  <2>3. c[d] = IF d \in ds /\ down[d].stage = "answer" THEN q ELSE down[d]
    BY DEF Cancelled
  <2>. HIDE DEF q, c
  <2>. QED BY <2>1, <2>2, <2>3
<1>3. c = [d \in 1 .. asked |-> c[d]]
  BY <1>1 DEF Cancelled
<1>. HIDE DEF c
<1>4. c \in [1 .. asked -> Download]
  BY <1>1, <1>2, <1>3
<1>. QED BY <1>1, <1>2, <1>4 DEF c

\* Log-outs, deletions, cancels and log-ins leave the downloads with what they
\* read, and the rows that are left as they are.
LEMMA UserKeeps ==
  ASSUME IInv, NEW ds, down' = down \/ down' = Cancelled(ds), asked' = asked,
         DOMAIN table' \subseteq DOMAIN table, table' \in [DOMAIN table' -> Row],
         \A i \in DOMAIN table' : table'[i] = table[i],
         userId' \in Accounts, undisturbed' \in BOOLEAN,
         undisturbed' => undisturbed /\ userId' = userId
  PROVE  IInv'
<1>1. /\ down' \in [1 .. asked -> Download] /\ DOMAIN down' = DOMAIN down
      /\ \A d \in DOMAIN down :
           /\ down'[d].file = down[d].file /\ down'[d].account = down[d].account
           /\ down'[d].id = down[d].id /\ down'[d].fileId = down[d].fileId
           /\ \/ down'[d].stage = down[d].stage
              \/ down'[d].stage = "cancel" /\ down[d].stage = "answer"
  BY CancelledFields DEF IInv, RowsTyped
<1>2. RowsTyped'
  BY <1>1 DEF IInv, RowsTyped
<1>3. FilesAgree'
  BY <1>1 DEF IInv, FilesAgree
<1>4. OneAccount'
  BY <1>1 DEF IInv, OneAccount
<1>5. OneRowEach'
  BY DEF IInv, OneRowEach
<1>6. Backed'
  <2>. SUFFICES ASSUME undisturbed', NEW i \in DOMAIN table', table'[i].status = "running"
                PROVE  \E e \in DOMAIN down : Backs(e, i)'
    BY <1>1 DEF Backed
  <2>1. PICK e \in DOMAIN down : Backs(e, i)
    BY DEF IInv, Backed
  <2>. QED BY <1>1, <2>1 DEF Backs
<1>7. ASSUME NEW d \in DOMAIN down
      PROVE  RowRead(d)'
  <2>1. RowsOf(d)' \subseteq RowsOf(d)
    BY <1>1 DEF RowsOf
  <2>2. RowRead(d)
    BY DEF IInv
  <2>3. down'[d].stage \in {"find", "row"} => down'[d].stage = down[d].stage
    BY <1>1
  <2>4. \A e \in DOMAIN down : down'[e].stage = "row" => down[e].stage = "row"
    BY <1>1
  <2>5. down[d].stage = "row" /\ down[d].id = 0 => RowsOf(d)' = {}
    BY <2>1, <2>2 DEF RowRead
  <2>. QED BY <1>1, <2>2, <2>3, <2>4, <2>5 DEF RowRead
<1>. QED BY <1>1, <1>2, <1>3, <1>4, <1>5, <1>6, <1>7 DEF IInv

LEMMA DownFileKeeps ==
  ASSUME IInv, NEW f \in Files, DownFile(f)
  PROVE  IInv'
<1>. DEFINE n == asked + 1
            r == [file |-> f, account |-> userId, stage |-> "find",
                  ok |-> FALSE, id |-> 0, fileId |-> n]
<1>1. /\ down' = Append(down, r) /\ asked' = n /\ asked < MaxDownloads
      /\ UNCHANGED <<userId, table, undisturbed>>
  BY DEF DownFile
<1>2. /\ asked \in Nat /\ n \in 1 .. MaxDownloads /\ DOMAIN down = 1 .. asked
      /\ 1 .. n = (1 .. asked) \cup {n} /\ n \notin 1 .. asked
  BY <1>1, DownloadBounds DEF IInv, RowsTyped
<1>3. /\ r \in Download /\ r.stage = "find" /\ r.account = userId /\ r.id = 0
      /\ r.fileId = n
  BY <1>2 DEF IInv, RowsTyped, Download, Stages, Ids
<1>. HIDE DEF r
<1>4. down \in Seq(Download) /\ Len(down) = asked
  BY <1>2 DEF IInv, RowsTyped
<1>5. /\ down' \in Seq(Download) /\ Len(down') = n
      /\ down'[n] = r /\ \A d \in 1 .. asked : down'[d] = down[d]
  BY <1>1, <1>3, <1>4, AppendProperties
<1>6. down' \in [1 .. n -> Download] /\ DOMAIN down' = DOMAIN down \cup {n}
  <2>1. down' \in [1 .. Len(down') -> Download]
    BY <1>5, ElementOfSeq, LenProperties
  <2>2. down' \in [1 .. n -> Download]
    BY <1>5, <2>1
  <2>. QED BY <1>2, <2>2
<1>. HIDE DEF n
<1>7. RowsTyped'
  BY <1>1, <1>2, <1>6 DEF IInv, RowsTyped
<1>8. FilesAgree'
  BY <1>1, <1>2, <1>3, <1>5, <1>6 DEF IInv, FilesAgree
<1>9. OneAccount'
  BY <1>1, <1>2, <1>3, <1>5, <1>6 DEF IInv, OneAccount
<1>10. OneRowEach'
  BY <1>1 DEF IInv, OneRowEach
<1>11. Backed'
  BY <1>1, <1>2, <1>5, <1>6 DEF IInv, Backed, Backs
<1>12. ASSUME NEW d \in DOMAIN down'
       PROVE  RowRead(d)'
  <2>1. CASE d = n
    BY <1>3, <1>5, <2>1 DEF RowRead
  <2>2. CASE d # n
    <3>1. d \in DOMAIN down /\ down'[d] = down[d] /\ RowRead(d)
      BY <1>2, <1>5, <1>6, <2>2 DEF IInv
    <3>2. RowsOf(d)' = RowsOf(d)
      BY <1>1, <3>1 DEF RowsOf
    <3>3. \A e \in DOMAIN down' : down'[e].stage = "row" =>
                                    e \in DOMAIN down /\ down[e].stage = "row"
      BY <1>2, <1>3, <1>5, <1>6
    <3>. QED BY <1>1, <3>1, <3>2, <3>3 DEF RowRead
  <2>. QED BY <2>1, <2>2
<1>. QED BY <1>7, <1>8, <1>9, <1>10, <1>11, <1>12 DEF IInv

\* When the process ends, no download is left and nothing is said any more.
LEMMA RestartKeeps ==
  ASSUME IInv, Restart
  PROVE  IInv'
<1>1. /\ undisturbed' = FALSE /\ UNCHANGED <<userId, table, asked>>
      /\ down' = [d \in DOMAIN down |-> [down[d] EXCEPT !.stage = "over"]]
  BY DEF Restart
<1>2. DOMAIN down = 1 .. asked /\ \A d \in DOMAIN down : down[d] \in Download
  BY DEF IInv, RowsTyped
<1>3. ASSUME NEW d \in DOMAIN down
      PROVE  /\ down'[d] \in Download /\ down'[d].stage = "over"
             /\ down'[d].file = down[d].file /\ down'[d].fileId = down[d].fileId
  BY <1>1, <1>2, StageFields DEF Stages
<1>4. DOMAIN down' = DOMAIN down /\ down' \in [1 .. asked -> Download]
  BY <1>1, <1>2, <1>3
<1>5. RowsTyped'
  BY <1>1, <1>4 DEF IInv, RowsTyped
<1>6. FilesAgree'
  BY <1>1, <1>3, <1>4 DEF IInv, FilesAgree
<1>7. \A d \in DOMAIN down : RowRead(d)'
  BY <1>3 DEF RowRead
<1>. QED BY <1>1, <1>4, <1>5, <1>6, <1>7 DEF IInv, OneAccount, OneRowEach, Backed

LEMMA InitInv == Init => IInv
<1>. SUFFICES ASSUME Init PROVE IInv
  OBVIOUS
<1>1. /\ down = <<>> /\ table = <<>> /\ asked = 0
      /\ DOMAIN down = {} /\ DOMAIN table = {}
  BY DEF Init
<1>2. down \in [1 .. 0 -> Download] /\ table \in [{} -> Row]
  BY <1>1
<1>3. RowsTyped
  <2>1. 0 \in Nat /\ DOMAIN table \subseteq 1 .. 0
    BY <1>1
  <2>. QED BY <1>1, <1>2, <2>1, DownloadBounds DEF Init, RowsTyped
<1>. QED BY <1>1, <1>3 DEF IInv, FilesAgree, OneAccount, OneRowEach, Backed

LEMMA NextInv == IInv /\ [Next]_vars => IInv'
<1>. SUFFICES ASSUME IInv, [Next]_vars
              PROVE  IInv'
  OBVIOUS
<1>1. /\ table \in [DOMAIN table -> Row] /\ userId \in Accounts
      /\ undisturbed \in BOOLEAN
  BY DEF IInv, RowsTyped
<1>2. CASE UNCHANGED vars
  BY <1>1, <1>2, UserKeeps DEF vars
<1>3. ASSUME NEW f \in Files, DownFile(f)
      PROVE  IInv'
  BY <1>3, DownFileKeeps
<1>4. ASSUME NEW i, DeleteRow(i)
      PROVE  IInv'
  <2>1. /\ table' = [j \in DOMAIN table \ {i} |-> table[j]]
        /\ UNCHANGED <<userId, undisturbed, asked, down>>
    BY <1>4 DEF DeleteRow, Restrict
  <2>2. /\ DOMAIN table' \subseteq DOMAIN table /\ table' \in [DOMAIN table' -> Row]
        /\ \A j \in DOMAIN table' : table'[j] = table[j]
    BY <1>1, <2>1
  <2>. QED BY <1>1, <2>1, <2>2, UserKeeps
<1>5. ASSUME NEW d, DownloadStep(d)
      PROVE  IInv'
  BY <1>5, StepInv
<1>6. ASSUME NEW x, CancelDown(x)
      PROVE  IInv'
  BY <1>1, <1>6, UserKeeps DEF CancelDown
<1>7. CASE LogOut
  BY <1>1, <1>7, UserKeeps DEF LogOut
<1>8. CASE Restart
  BY <1>8, RestartKeeps
<1>9. ASSUME NEW a \in Accounts, LogIn(a)
      PROVE  IInv'
  <2>1. /\ userId' = a /\ UNCHANGED <<table, down, asked>>
        /\ undisturbed' = (undisturbed /\ a = userId)
    BY <1>9 DEF LogIn
  <2>2. undisturbed' \in BOOLEAN /\ (undisturbed' => undisturbed /\ userId' = userId)
    BY <2>1
  <2>. QED BY <1>1, <2>1, <2>2, UserKeeps
<1>. QED BY <1>2, <1>3, <1>4, <1>5, <1>6, <1>7, <1>8, <1>9 DEF Next
-----------------------------------------------------------------------------
\* A file has one row, however its downloads run together: the look-up of a new one
\* has the queue to itself until it has made its row.
THEOREM OneRow == Spec => []OneRowEach
<1>1. IInv => OneRowEach
  BY DEF IInv
<1>. QED BY <1>1, InitInv, NextInv, PTL DEF Spec

\* A row says that its file is being downloaded only while a download of it is
\* under way, whatever deletions, log-outs and other downloads came between.
THEOREM RunningBacked == Spec => []RunningIsBacked
<1>1. IInv => RunningIsBacked
  BY DEF IInv, Backed, Backs, RunningIsBacked, UnderWay
<1>. QED BY <1>1, InitInv, NextInv, PTL DEF Spec

\* A deleted row comes back only with an answer that found it before and is saved
\* where another row is now; a new row is that of a download that was asked for.
THEOREM DeletedStays == Spec => DeletedStaysDeleted
<1>. DEFINE Asked(x) == x \in DOMAIN down /\ down[x].stage = "row" /\ down[x].id = 0
            Over(x) == \E d \in DOMAIN down : /\ down[d].stage = "save"
                                              /\ down[d].fileId = x
                                              /\ down[d].id \in DOMAIN table
            Stays == \A x \in FileIds(table') \ FileIds(table) :
              \/ x \in DOMAIN down /\ down[x].stage = "row" /\ down[x].id = 0
              \/ \E d \in DOMAIN down : /\ down[d].stage = "save" /\ down[d].fileId = x
                                        /\ down[d].id \in DOMAIN table
<1>1. IInv /\ [Next]_vars => [Stays]_vars
  <2>. SUFFICES ASSUME IInv, Next, NEW i \in DOMAIN table',
                       table'[i].fileId \notin FileIds(table)
                PROVE  Asked(table'[i].fileId) \/ Over(table'[i].fileId)
    BY DEF FileIds
  <2>. HIDE DEF Asked, Over
  <2>1. i \in DOMAIN table => table'[i] # table[i]
    BY DEF FileIds
  <2>2. ~\E j \in Ids : DeleteRow(j)
    BY <2>1 DEF DeleteRow, Restrict
  <2>3. PICK d \in Ids : SaveRow(d) \/ SaveResult(d)
    BY <2>1, <2>2 DEF Next, DownFile, CancelDown, LogOut, Restart, LogIn, DownloadStep,
                      FindRow, MakeTask, Answered, Report, Look
  <2>4. d \in DOMAIN down /\ down[d] \in Download /\ RowRead(d)
    BY <2>3 DEF SaveRow, SaveResult, Goes, IInv, RowsTyped
  <2>5. CASE SaveRow(d)
    <3>. DEFINE row == [account |-> userId, file |-> down[d].file,
                        fileId |-> down[d].fileId, status |-> "running"]
    <3>1. /\ row \in Row /\ row.fileId = down[d].fileId
      BY <2>4 DEF Row, Download, IInv, RowsTyped
    <3>2. /\ down[d].stage = "row"
          /\ table' = IF down[d].id = 0 THEN Insert(NewId, row) ELSE Update(down[d].id, row)
      BY <2>5 DEF SaveRow, Goes
    <3>. HIDE DEF row
    <3>3. CASE down[d].id = 0
      <4>1. i \in DOMAIN table \/ table'[i] = row
        BY <3>1, <3>2, <3>3, InsertFields DEF IInv
      <4>2. i \notin DOMAIN table
        BY <2>1, <3>1, <3>2, <3>3, InsertFields DEF IInv
      <4>3. table'[i].fileId = d
        BY <2>4, <3>1, <3>2, <3>3, <4>1, <4>2 DEF RowRead
      <4>. QED BY <2>4, <3>2, <3>3, <4>3 DEF Asked
    <3>4. CASE down[d].id # 0
      <4>1. i \in DOMAIN table /\ i = down[d].id /\ table'[i] = row
        BY <2>1, <3>1, <3>2, <3>4, UpdateFields DEF IInv
      <4>2. table[i].fileId = row.fileId
        BY <2>4, <3>1, <3>2, <4>1 DEF RowRead
      <4>. QED BY <4>1, <4>2 DEF FileIds
    <3>. QED BY <3>3, <3>4
  <2>6. CASE SaveResult(d)
    <3>. DEFINE row == [account |-> down[d].account, file |-> down[d].file,
                        fileId |-> down[d].fileId, status |-> Saved(down[d].ok)]
    <3>1. /\ row \in Row /\ row.fileId = down[d].fileId
      BY <2>4 DEF Row, Download, Saved
    <3>2. down[d].stage = "save" /\ table' = Update(down[d].id, row)
      BY <2>6 DEF SaveResult, Goes
    <3>. HIDE DEF row
    <3>3. i \in DOMAIN table /\ i = down[d].id /\ table'[i] = row
      BY <2>1, <3>1, <3>2, UpdateFields DEF IInv
    <3>. QED BY <2>4, <3>1, <3>2, <3>3 DEF Over
  <2>. QED BY <2>3, <2>5, <2>6
<1>. QED BY <1>1, InitInv, NextInv, PTL DEF Spec, DeletedStaysDeleted
-----------------------------------------------------------------------------
(***************************************************************************)
(* taskArr and the stages of the downloads: a task is in the array from    *)
(* the moment it is made until its result is reported, once.               *)
(***************************************************************************)
\* RemoveAt closes the gap.
LEMMA RemoveAtProperties ==
  ASSUME NEW S, NEW s \in Seq(S), NEW i \in 1 .. Len(s)
  PROVE  /\ RemoveAt(s, i) \in Seq(S)
         /\ Len(RemoveAt(s, i)) = Len(s) - 1
         /\ \A j \in 1 .. Len(s) - 1 :
              RemoveAt(s, i)[j] = IF j < i THEN s[j] ELSE s[j + 1]
<1>. DEFINE a == SubSeq(s, 1, i - 1)
            b == SubSeq(s, i + 1, Len(s))
            n == Len(s)
<1>0. n \in Nat /\ i \in Nat /\ i >= 1 /\ i <= n
  BY LenProperties
<1>1. /\ a \in Seq(S) /\ Len(a) = i - 1
      /\ \A j \in 1 .. i - 1 : a[j] = s[j]
  <2>. \A j \in 1 .. i - 1 : s[j] \in S
    BY <1>0, ElementOfSeq
  <2>. QED BY <1>0, SubSeqProperties
<1>2. /\ b \in Seq(S) /\ Len(b) = n - i
      /\ \A j \in 1 .. n - i : b[j] = s[j + i]
  <2>. \A j \in i + 1 .. n : s[j] \in S
    BY <1>0, ElementOfSeq
  <2>1. /\ b \in Seq(S) /\ Len(b) = IF i + 1 <= n THEN n - (i + 1) + 1 ELSE 0
        /\ \A j \in 1 .. n - (i + 1) + 1 : b[j] = s[i + 1 + j - 1]
    BY <1>0, SubSeqProperties
  <2>2. Len(b) = n - i
    BY <1>0, <2>1
  <2>3. ASSUME NEW j \in 1 .. n - i PROVE b[j] = s[j + i]
    <3>1. j \in 1 .. n - (i + 1) + 1 /\ i + 1 + j - 1 = j + i
      BY <1>0
    <3>. QED BY <2>1, <3>1
  <2>. QED BY <2>1, <2>2, <2>3
<1>3. RemoveAt(s, i) = a \o b
  BY DEF RemoveAt
<1>. HIDE DEF a, b, n
<1>4. /\ a \o b \in Seq(S) /\ Len(a \o b) = (i - 1) + (n - i)
      /\ \A j \in 1 .. (i - 1) + (n - i) : (a \o b)[j] =
           IF j <= i - 1 THEN a[j] ELSE b[j - (i - 1)]
  <2>1. /\ a \o b \in Seq(S) /\ Len(a \o b) = Len(a) + Len(b)
        /\ \A j \in 1 .. Len(a) + Len(b) : (a \o b)[j] =
             IF j <= Len(a) THEN a[j] ELSE b[j - Len(a)]
    BY <1>1, <1>2, ConcatProperties
  <2>. QED BY <1>1, <1>2, <2>1
<1>5. ASSUME NEW j \in 1 .. n - 1
      PROVE  (a \o b)[j] = IF j < i THEN s[j] ELSE s[j + 1]
  <2>1. j \in 1 .. (i - 1) + (n - i)
    BY <1>0
  <2>2. CASE j < i
    BY <1>0, <1>1, <1>4, <2>1, <2>2
  <2>3. CASE ~(j < i)
    <3>1. j - (i - 1) \in 1 .. n - i /\ j - (i - 1) + i = j + 1
      BY <1>0, <2>3
    <3>. QED BY <1>0, <1>2, <1>4, <2>1, <2>3, <3>1
  <2>. QED BY <2>2, <2>3
<1>6. (i - 1) + (n - i) = n - 1
  BY <1>0
<1>. QED BY <1>3, <1>4, <1>5, <1>6 DEF n

\* What is left of an array without repetitions when one element is removed.
LEMMA RemoveFirstProperties ==
  ASSUME NEW S, NEW s \in Seq(S), IsInjective(s), NEW e \in Range(s)
  PROVE  /\ RemoveFirst(s, e) \in Seq(S)
         /\ IsInjective(RemoveFirst(s, e))
         /\ Range(RemoveFirst(s, e)) = Range(s) \ {e}
<1>0. Len(s) \in Nat /\ DOMAIN s = 1 .. Len(s)
  BY LenProperties
<1>1. PICK i \in 1 .. Len(s) : s[i] = e
  BY <1>0 DEF Range
<1>2. {j \in 1 .. Len(s) : s[j] = e} = {i}
  BY <1>0, <1>1 DEF IsInjective
<1>3. SelectInSeq(s, LAMBDA v : v = e) = i
  <2>1. Min({i}) = i
    BY <1>0 DEF Min
  <2>. QED BY <1>2, <2>1 DEF SelectInSeq
<1>. DEFINE t == RemoveAt(s, i)
<1>4. RemoveFirst(s, e) = t
  BY <1>1, <1>3 DEF RemoveFirst
<1>5. /\ t \in Seq(S) /\ Len(t) = Len(s) - 1
      /\ \A j \in 1 .. Len(s) - 1 : t[j] = IF j < i THEN s[j] ELSE s[j + 1]
  BY RemoveAtProperties
<1>6. DOMAIN t = 1 .. Len(s) - 1
  BY <1>5, LenProperties
<1>. HIDE DEF t
<1>7. IsInjective(t)
  <2>. SUFFICES ASSUME NEW j \in 1 .. Len(s) - 1, NEW k \in 1 .. Len(s) - 1, t[j] = t[k]
                PROVE  j = k
    BY <1>6 DEF IsInjective
  <2>. DEFINE J == IF j < i THEN j ELSE j + 1
              K == IF k < i THEN k ELSE k + 1
  <2>1. J \in DOMAIN s /\ K \in DOMAIN s
    BY <1>0
  <2>2. s[J] = s[K]
    BY <1>5
  <2>3. J = K
    BY <2>1, <2>2 DEF IsInjective
  <2>. QED BY <1>0, <2>3
<1>8. Range(t) = Range(s) \ {e}
  <2>1. ASSUME NEW j \in 1 .. Len(s) - 1
        PROVE  t[j] \in Range(s) \ {e}
    <3>. DEFINE J == IF j < i THEN j ELSE j + 1
    <3>1. J \in 1 .. Len(s) /\ J # i /\ t[j] = s[J]
      BY <1>0, <1>5
    <3>2. s[J] # e
      BY <1>2, <3>1
    <3>. QED BY <1>0, <3>1, <3>2 DEF Range
  <2>2. ASSUME NEW x \in Range(s) \ {e}
        PROVE  x \in Range(t)
    <3>1. PICK J \in 1 .. Len(s) : s[J] = x
      BY <1>0 DEF Range
    <3>2. J # i
      BY <1>1, <3>1
    <3>. DEFINE j == IF J < i THEN J ELSE J - 1
    <3>3. j \in 1 .. Len(s) - 1 /\ t[j] = s[J]
      BY <1>0, <1>5, <3>2
    <3>. QED BY <1>6, <3>1, <3>3 DEF Range
  <2>. QED BY <1>6, <2>1, <2>2 DEF Range
<1>. QED BY <1>4, <1>5, <1>7, <1>8

InTaskArr == {"answer", "cancel", "report"}

TasksTyped == /\ taskArr \in Seq(1 .. asked) /\ IsInjective(taskArr)
              /\ \A d \in 1 .. asked :
                   d \in Range(taskArr) <=> down[d].stage \in InTaskArr

TypeInv == /\ IInv /\ TasksTyped
           /\ session \in {"in", "out", "stopped"}
           /\ changes \in Nat /\ cancels \subseteq Ids

\* The array stays as it is, and so does what the stages say of it.
LEMMA TasksSame ==
  ASSUME TypeInv, UNCHANGED <<taskArr, asked>>,
         \A d \in 1 .. asked :
           down'[d].stage \in InTaskArr <=> down[d].stage \in InTaskArr
  PROVE  TasksTyped'
BY DEF TypeInv, TasksTyped

LEMMA StepTasks ==
  ASSUME TypeInv, NEW d \in Ids, DownloadStep(d)
  PROVE  TasksTyped' /\ UNCHANGED <<session, changes, asked, cancels>>
<1>0. UNCHANGED <<session, changes, asked, cancels>>
  BY DEF DownloadStep, FindRow, SaveRow, MakeTask, Answered, Report, Look, SaveResult
<1>1. /\ d \in 1 .. asked /\ DOMAIN down = 1 .. asked /\ asked \in Nat
      /\ \A e \in 1 .. asked : down[e] \in Download
  BY DEF DownloadStep, FindRow, SaveRow, MakeTask, Answered, Report, Look, SaveResult,
         Goes, TypeInv, IInv, RowsTyped
<1>2. \A e \in 1 .. asked : e # d => down'[e] = down[e]
  BY <1>1 DEF DownloadStep, FindRow, SaveRow, MakeTask, Answered, Report, Look,
              SaveResult, Goes, Finds
<1>3. CASE FindRow(d) \/ SaveRow(d) \/ Look(d) \/ SaveResult(d)
  <2>1. /\ down[d].stage \in {"find", "row", "look", "save"} /\ UNCHANGED taskArr
        /\ \E s \in {"row", "task", "over", "save"} :
             down' = [down EXCEPT ![d].stage = s] \/ Finds(d, s)
    BY <1>3 DEF FindRow, SaveRow, Look, SaveResult, Goes
  <2>2. PICK s \in {"row", "task", "over", "save"} :
          down' = [down EXCEPT ![d].stage = s] \/ Finds(d, s)
    BY <2>1
  <2>3. down'[d].stage = s
    BY <1>1, <2>2 DEF Finds, Download
  <2>4. down[d].stage \notin InTaskArr /\ down'[d].stage \notin InTaskArr
    BY <2>1, <2>2, <2>3 DEF InTaskArr
  <2>. QED BY <1>0, <1>2, <2>1, <2>4, TasksSame
<1>4. CASE Answered(d)
  <2>1. /\ down[d].stage \in InTaskArr /\ down'[d].stage \in InTaskArr
        /\ UNCHANGED taskArr
    BY <1>1, <1>4 DEF Answered, InTaskArr, Download
  <2>. QED BY <1>0, <1>2, <2>1, TasksSame
<1>5. CASE MakeTask(d)
  <2>1. /\ down[d].stage \notin InTaskArr /\ down'[d].stage \in InTaskArr
        /\ taskArr' = Append(taskArr, d)
    BY <1>1, <1>5 DEF MakeTask, Goes, InTaskArr, Download
  <2>2. taskArr \in Seq(1 .. asked) /\ IsInjective(taskArr) /\ d \notin Range(taskArr)
    BY <1>1, <2>1 DEF TypeInv, TasksTyped
  <2>3. /\ taskArr' \in Seq(1 .. asked) /\ Len(taskArr') = Len(taskArr) + 1
        /\ taskArr'[Len(taskArr) + 1] = d /\ Len(taskArr) \in Nat
        /\ \A i \in 1 .. Len(taskArr) : taskArr'[i] = taskArr[i]
    BY <1>1, <2>1, <2>2, AppendProperties, LenProperties
  <2>4. /\ DOMAIN taskArr' = 1 .. Len(taskArr) + 1
        /\ DOMAIN taskArr = 1 .. Len(taskArr)
    BY <2>2, <2>3, LenProperties
  <2>5. \A i \in DOMAIN taskArr' : i \in DOMAIN taskArr \/ i = Len(taskArr) + 1
    BY <2>3, <2>4
  <2>6. IsInjective(taskArr')
    BY <2>2, <2>3, <2>4, <2>5 DEF IsInjective, Range
  <2>7. Range(taskArr') = Range(taskArr) \cup {d}
    BY <2>3, <2>4, <2>5 DEF Range
  <2>. QED BY <1>0, <1>2, <2>1, <2>3, <2>6, <2>7 DEF TypeInv, TasksTyped
<1>6. CASE Report(d)
  <2>1. /\ down[d].stage \in InTaskArr /\ down'[d].stage \notin InTaskArr
        /\ taskArr' = RemoveFirst(taskArr, d)
    BY <1>1, <1>6 DEF Report, TasksBut, InTaskArr, Download
  <2>2. taskArr \in Seq(1 .. asked) /\ IsInjective(taskArr) /\ d \in Range(taskArr)
    BY <1>1, <2>1 DEF TypeInv, TasksTyped
  <2>3. /\ taskArr' \in Seq(1 .. asked) /\ IsInjective(taskArr')
        /\ Range(taskArr') = Range(taskArr) \ {d}
    BY <2>1, <2>2, RemoveFirstProperties
  <2>. QED BY <1>0, <1>2, <2>1, <2>3 DEF TypeInv, TasksTyped
<1>. QED BY <1>0, <1>3, <1>4, <1>5, <1>6 DEF DownloadStep

\* Cancelling keeps a task in the array.
LEMMA CancelledTasks ==
  ASSUME TypeInv, NEW ds, down' = down \/ down' = Cancelled(ds),
         UNCHANGED <<taskArr, asked>>
  PROVE  TasksTyped'
<1>. SUFFICES ASSUME NEW d \in 1 .. asked
              PROVE  down'[d].stage \in InTaskArr <=> down[d].stage \in InTaskArr
  BY TasksSame
<1>1. d \in DOMAIN down /\ down[d] \in Download
  BY DEF TypeInv, IInv, RowsTyped
<1>. DEFINE q == [down[d] EXCEPT !.stage = "cancel"]
<1>2. q.stage = "cancel"
  BY <1>1 DEF Download
<1>3. \/ down'[d] = down[d]
      \/ down[d].stage = "answer" /\ down'[d] = q
  BY <1>1 DEF Cancelled
<1>. HIDE DEF q
<1>. QED BY <1>2, <1>3 DEF InTaskArr

LEMMA DownFileTasks ==
  ASSUME TypeInv, NEW f \in Files, DownFile(f)
  PROVE  TasksTyped'
<1>. DEFINE r == [file |-> f, account |-> userId, stage |-> "find", ok |-> FALSE,
                  id |-> 0, fileId |-> asked']
<1>1. /\ r \in Download /\ r.stage \notin InTaskArr
      /\ down' = Append(down, r) /\ asked' = asked + 1 /\ taskArr' = taskArr
  <2>1. asked' \in Ids
    BY DownloadBounds DEF DownFile, TypeInv, IInv, RowsTyped, Ids
  <2>. QED BY <2>1 DEF DownFile, Download, Stages, InTaskArr, TypeInv, IInv, RowsTyped
<1>. HIDE DEF r
<1>2. /\ down \in Seq(Download) /\ Len(down) = asked /\ asked \in Nat
      /\ DOMAIN down = 1 .. asked
  BY DEF TypeInv, IInv, RowsTyped
<1>3. down'[asked + 1] = r /\ \A d \in 1 .. asked : down'[d] = down[d]
  BY <1>1, <1>2, AppendProperties
<1>4. \A d \in 1 .. asked' : d \in 1 .. asked \/ d = asked + 1
  BY <1>1, <1>2
<1>5. /\ taskArr \in Seq(1 .. asked) /\ IsInjective(taskArr)
      /\ asked + 1 \notin Range(taskArr)
  <2>1. taskArr \in Seq(1 .. asked)
    BY DEF TypeInv, TasksTyped
  <2>2. Range(taskArr) \subseteq 1 .. asked
    <3>1. taskArr \in [1 .. Len(taskArr) -> 1 .. asked]
      BY <2>1, LenProperties
    <3>. QED BY <3>1 DEF Range
  <2>. QED BY <1>2, <2>1, <2>2 DEF TypeInv, TasksTyped
<1>6. taskArr \in Seq(1 .. asked')
  <2>1. 1 .. asked \subseteq 1 .. asked'
    BY <1>1, <1>2
  <2>. QED BY <1>5, <2>1, SeqMonotonic
<1>7. ASSUME NEW d \in 1 .. asked'
      PROVE  d \in Range(taskArr) <=> down'[d].stage \in InTaskArr
  BY <1>1, <1>3, <1>4, <1>5 DEF TypeInv, TasksTyped
<1>. QED BY <1>1, <1>5, <1>6, <1>7 DEF TasksTyped

\* Type correctness: the account, the rows, the downloads, and FileDownUtil's
\* array, which holds each task from its start to its report, and no other.
THEOREM TypeCorrect == Spec => []TypeOK
<1>1. Init => TypeInv
  <2>. SUFFICES ASSUME Init PROVE TypeInv
    OBVIOUS
  <2>1. TasksTyped
    BY DEF Init, TasksTyped, IsInjective
  <2>. QED BY <2>1, InitInv, DownloadBounds DEF Init, TypeInv
<1>2. TypeInv /\ [Next]_vars => TypeInv'
  <2>. SUFFICES ASSUME TypeInv, [Next]_vars
                PROVE  TypeInv'
    OBVIOUS
  <2>1. IInv'
    BY NextInv DEF TypeInv
  <2>2. CASE UNCHANGED vars
    BY <2>1, <2>2, CancelledTasks DEF vars, TypeInv
  <2>3. ASSUME NEW f \in Files, DownFile(f)
        PROVE  TypeInv'
    BY <2>1, <2>3, DownFileTasks DEF DownFile, TypeInv
  <2>4. ASSUME NEW i \in Ids, DeleteRow(i)
        PROVE  TypeInv'
    <3>1. table[i].fileId \in Ids
      BY <2>4 DEF DeleteRow, Row, TypeInv, IInv, RowsTyped
    <3>. QED BY <2>1, <2>4, <3>1, CancelledTasks DEF DeleteRow, TypeInv
  <2>5. ASSUME NEW x, CancelDown(x)
        PROVE  TypeInv'
    BY <2>1, <2>5, CancelledTasks DEF CancelDown, TypeInv
  <2>6. ASSUME NEW d \in Ids, DownloadStep(d)
        PROVE  TypeInv'
    BY <2>1, <2>6, StepTasks DEF TypeInv
  <2>7. CASE LogOut
    BY <2>1, <2>7, CancelledTasks DEF LogOut, TypeInv
  <2>8. CASE Restart
    <3>1. /\ taskArr' = <<>> /\ UNCHANGED <<session, asked>>
          /\ changes' = changes + 1 /\ cancels' = {}
      BY <2>8 DEF Restart
    <3>2. \A d \in 1 .. asked : down'[d].stage = "over"
      <4>1. \A d \in 1 .. asked : d \in DOMAIN down /\ down[d] \in Download
        BY DEF TypeInv, IInv, RowsTyped
      <4>. QED BY <2>8, <4>1 DEF Restart, Download
    <3>3. TasksTyped'
      BY <3>1, <3>2 DEF TasksTyped, IsInjective, Range, InTaskArr
    <3>. QED BY <2>1, <3>1, <3>3 DEF TypeInv
  <2>9. ASSUME NEW a \in Accounts, LogIn(a)
        PROVE  TypeInv'
    BY <2>1, <2>9, CancelledTasks DEF LogIn, TypeInv
  <2>. QED BY <2>2, <2>3, <2>4, <2>5, <2>6, <2>7, <2>8, <2>9 DEF Next
<1>3. TypeInv => TypeOK
  <2>. SUFFICES ASSUME TypeInv PROVE TypeOK
    OBVIOUS
  <2>1. DOMAIN table \subseteq Nat \ {0}
    BY DEF TypeInv, IInv, RowsTyped
  <2>. QED BY <2>1 DEF TypeInv, IInv, RowsTyped, TasksTyped, InTaskArr, TypeOK
<1>. QED BY <1>1, <1>2, <1>3, PTL DEF Spec
=============================================================================
