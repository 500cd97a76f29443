---------------------------- MODULE SendCacheProofs ----------------------------
(***************************************************************************)
(* Proofs about SendCache for any set of messages and any bounds.          *)
(***************************************************************************)
EXTENDS SendCache, TLAPS

MessageStep(m) == \/ SendText(m) \/ SendFile(m) \/ Withdraw(m) \/ Schedule(m)
                  \/ ResendText(m) \/ ReadFile(m) \/ StartUpload(m)

LEMMA FaultType ==
  ASSUME TypeOK, faults' = faults \/ Fault
  PROVE  faults' \in Nat
BY DEF TypeOK, Fault

LEMMA MessageType ==
  ASSUME TypeOK, NEW m \in Msgs,
         MessageStep(m)
  PROVE  TypeOK'
<1>1. CASE SendText(m) \/ SendFile(m)
  BY <1>1 DEF SendText, SendFile, Saved, Written, TypeOK, Rows, router
<1>2. CASE Withdraw(m)
  BY <1>2 DEF Withdraw, CancelUpload, TypeOK, Rows, router
<1>3. CASE Schedule(m)
  BY <1>3 DEF Schedule, TypeOK, user, router
<1>4. CASE ResendText(m) \/ ReadFile(m)
  BY <1>4 DEF ResendText, ReadFile, Written, TypeOK, user, router
<1>5. CASE StartUpload(m)
  BY <1>5 DEF StartUpload, Update, TypeOK, Rows, user, router
<1>. QED BY <1>1, <1>2, <1>3, <1>4, <1>5 DEF MessageStep

LEMMA EndType ==
  ASSUME TypeOK, NEW m \in Msgs,
         Upload(m) \/ RouterTakes(m) \/ \E c \in {0, 1, 2} : OnReply(m, c)
  PROVE  TypeOK'
<1>1. CASE UploadSucceeds(m)
  BY <1>1 DEF UploadSucceeds, Written, TypeOK, Rows, user
<1>2. CASE UploadRefused(m)
  BY <1>2 DEF UploadRefused, TypeOK, Rows, user
<1>3. CASE UploadFails(m)
  <2>1. faults' \in Nat
    BY <1>3, FaultType DEF UploadFails
  <2>. QED BY <1>3, <2>1 DEF UploadFails, Failed, Update, TypeOK, Rows, user, router
<1>4. CASE RouterTakes(m)
  <2>1. faults' \in Nat
    BY <1>4, FaultType DEF RouterTakes
  <2>. QED BY <1>4, <2>1 DEF RouterTakes, TypeOK, user, router
<1>5. ASSUME NEW c \in {0, 1, 2}, OnReply(m, c)
      PROVE  TypeOK'
  <2>1. row' \in [Msgs -> Rows]
    BY <1>5 DEF OnReply, Failed, Update, TypeOK, Rows
  <2>. QED BY <1>5, <2>1 DEF OnReply, TypeOK, user, router
<1>. QED BY <1>1, <1>2, <1>3, <1>4, <1>5 DEF Upload

LEMMA AppType ==
  ASSUME TypeOK, Login \/ Disconnect \/ Crash \/ Launch
  PROVE  TypeOK'
<1>1. CASE Login
  BY <1>1 DEF Login, TypeOK, user, router
<1>2. CASE Disconnect
  <2>1. faults' \in Nat
    BY <1>2, FaultType DEF Disconnect
  <2>. QED BY <1>2, <2>1 DEF Disconnect, TypeOK, user, router
<1>3. CASE Crash
  <2>1. faults' \in Nat
    BY <1>3, FaultType DEF Crash
  <2>. QED BY <1>3, <2>1 DEF Crash, TypeOK, user, router
<1>4. CASE Launch
  BY <1>4 DEF Launch, TypeOK, Rows, user, router
<1>. QED BY <1>1, <1>2, <1>3, <1>4

\* Every variable keeps its type, whatever the interleaving of resends,
\* uploads, replies, disconnections and crashes.
THEOREM CacheTypeCorrect == Spec => []TypeOK
<1>1. Init => TypeOK
  BY DEF Init, TypeOK, Rows
<1>2. TypeOK /\ [Next]_vars => TypeOK'
  <2>1. ASSUME TypeOK, UNCHANGED vars
        PROVE  TypeOK'
    BY <2>1 DEF vars, TypeOK
  <2>. QED BY <2>1, MessageType, EndType, AppType DEF Next, MessageStep
<1>. QED BY <1>1, <1>2, PTL DEF Spec
-----------------------------------------------------------------------------
(***************************************************************************)
(* NeverLost is not inductive: a reply in flight deletes a row, so it must *)
(* tell the truth about what the router did.  Nothing is assumed of the    *)
(* kinds of messages: NeverLost itself names those that may be forgotten.  *)
(***************************************************************************)
RepliesTruthful ==
  \A m \in Msgs : /\ <<m, 0>> \in replies => m \in accepted
                  /\ <<m, 2>> \in replies => m \in refused

CacheInv == TypeOK /\ RepliesTruthful /\ NeverLost

LEMMA MessageInv ==
  ASSUME CacheInv, NEW m \in Msgs,
         MessageStep(m)
  PROVE  RepliesTruthful' /\ NeverLost'
<1>. USE DEF CacheInv, TypeOK, RepliesTruthful, NeverLost
<1>1. CASE SendText(m) \/ SendFile(m)
  BY <1>1 DEF SendText, SendFile, Saved, router
<1>2. CASE Withdraw(m)
  BY <1>2 DEF Withdraw, router
<1>3. CASE Schedule(m)
  BY <1>3 DEF Schedule, user, router
<1>4. CASE ResendText(m) \/ ReadFile(m)
  BY <1>4 DEF ResendText, ReadFile, user, router
<1>5. CASE StartUpload(m)
  BY <1>5 DEF StartUpload, Update, user, router
<1>. QED BY <1>1, <1>2, <1>3, <1>4, <1>5 DEF MessageStep

LEMMA EndInv ==
  ASSUME ConstantsOK, CacheInv, NEW m \in Msgs,
         Upload(m) \/ RouterTakes(m) \/ \E c \in {0, 1, 2} : OnReply(m, c)
  PROVE  RepliesTruthful' /\ NeverLost'
<1>. USE DEF CacheInv, TypeOK, RepliesTruthful, NeverLost
<1>1. CASE UploadSucceeds(m)
  BY <1>1 DEF UploadSucceeds, user
<1>2. CASE UploadRefused(m)
  BY <1>2 DEF UploadRefused, user
<1>3. CASE UploadFails(m)
  BY <1>3 DEF UploadFails, Failed, Update, user, router
<1>4. CASE RouterTakes(m)
  BY <1>4 DEF RouterTakes, user, router
<1>5. ASSUME NEW c \in {0, 1, 2}, OnReply(m, c)
      PROVE  RepliesTruthful' /\ NeverLost'
  <2>1. RepliesTruthful'
    BY <1>5 DEF OnReply, router
  <2>2. Deletes(m, c) => m \in accepted \cup refused \/ Forgettable(m)
    <3>1. Kind[m] \in {"text", "groupText", "file", "groupFile"}
      BY DEF ConstantsOK, Kinds
    <3>. QED BY <1>5, <3>1 DEF Deletes, DeletesText, DeletesGroupFile, IsFile, IsText,
                               OnReply, Forgettable
  <2>3. ASSUME NEW k \in sent, row'[k] = "none"
        PROVE  k \in accepted \cup refused \cup withdrawn \/ Forgettable(k)
    <3>1. CASE k # m \/ ~Deletes(m, c)
      BY <1>5, <2>3, <3>1 DEF OnReply, Failed, Update, IsFile, IsText
    <3>2. CASE k = m /\ Deletes(m, c)
      BY <2>2, <3>2
    <3>. QED BY <3>1, <3>2
  <2>. QED BY <1>5, <2>1, <2>3 DEF OnReply, user, router
<1>. QED BY <1>1, <1>2, <1>3, <1>4, <1>5 DEF Upload

LEMMA AppInv ==
  ASSUME CacheInv, Login \/ Disconnect \/ Crash \/ Launch
  PROVE  RepliesTruthful' /\ NeverLost'
<1>. USE DEF CacheInv, TypeOK, RepliesTruthful, NeverLost
<1>1. CASE Login
  BY <1>1 DEF Login, user, router
<1>2. CASE Disconnect
  BY <1>2 DEF Disconnect, user, router
<1>3. CASE Crash
  BY <1>3 DEF Crash, user, router
<1>4. CASE Launch
  <2>1. \A m \in Msgs : CleanedUp(m) => Forgettable(m)
    BY DEF CleanedUp, Forgettable
  <2>. QED BY <1>4, <2>1 DEF Launch, user, router
<1>. QED BY <1>1, <1>2, <1>3, <1>4

\* A message whose row is gone was accepted or refused by the router or
\* withdrawn by the user (handleSendMsg, handleGroupSendFilePre, onDisconnect,
\* sendFileWithTag), or is one of those the code may forget: a text to a group
\* (handleGroupSendMsg) or a message beside a photo (deleteCacheFileNollData).
THEOREM RowsAreNeverLost == Spec => []NeverLost
<1>1. Init => RepliesTruthful /\ NeverLost
  BY DEF Init, RepliesTruthful, NeverLost
<1>2. CacheInv /\ [Next]_vars => (RepliesTruthful /\ NeverLost)'
  <2>1. ASSUME CacheInv, UNCHANGED vars
        PROVE  (RepliesTruthful /\ NeverLost)'
    BY <2>1 DEF vars, CacheInv, RepliesTruthful, NeverLost
  <2>. QED BY <2>1, MessageInv, EndInv, AppInv, ConstantsOK DEF Next, MessageStep
<1>. QED BY <1>1, <1>2, CacheTypeCorrect, PTL DEF Spec, CacheInv
-----------------------------------------------------------------------------
LEMMA MessageStrands ==
  ASSUME TypeOK, NEW m \in Msgs, NEW k \in Msgs, Stranded(k)', ~Stranded(k),
         MessageStep(m)
  PROVE  FALSE
<1>. USE DEF TypeOK, Stranded
<1>1. CASE SendText(m) \/ SendFile(m)
  BY <1>1 DEF SendText, SendFile, Saved, IsFile, IsText
<1>2. CASE Withdraw(m)
  BY <1>2 DEF Withdraw, CancelUpload
<1>3. CASE Schedule(m)
  BY <1>3 DEF Schedule
<1>4. CASE ResendText(m) \/ ReadFile(m)
  BY <1>4 DEF ResendText, ReadFile
<1>5. CASE StartUpload(m)
  BY <1>5 DEF StartUpload, Update
<1>. QED BY <1>1, <1>2, <1>3, <1>4, <1>5 DEF MessageStep

LEMMA EndStrands ==
  ASSUME TypeOK, NEW m \in Msgs, NEW k \in Msgs, Stranded(k)', ~Stranded(k),
         Upload(m) \/ RouterTakes(m) \/ \E c \in {0, 1, 2} : OnReply(m, c)
  PROVE  FALSE
<1>. USE DEF TypeOK, Stranded
<1>1. CASE UploadSucceeds(m)
  BY <1>1 DEF UploadSucceeds
<1>2. CASE UploadRefused(m)
  BY <1>2 DEF UploadRefused
<1>3. CASE UploadFails(m)
  BY <1>3 DEF UploadFails, Failed, Update
<1>4. CASE RouterTakes(m)
  BY <1>4 DEF RouterTakes
<1>5. ASSUME NEW c \in {0, 1, 2}, OnReply(m, c)
      PROVE  FALSE
  BY <1>5 DEF OnReply, Failed, Update, IsFile, IsText
<1>. QED BY <1>1, <1>2, <1>3, <1>4, <1>5 DEF Upload

LEMMA AppStrands ==
  ASSUME TypeOK, NEW k \in Msgs, Stranded(k)', ~Stranded(k),
         Login \/ Disconnect \/ Crash \/ Launch
  PROVE  app' = "dead"
BY DEF TypeOK, Stranded, Login, Disconnect, Crash, Launch

\* Overlapping resends, failures, late replies and withdrawals never leave a
\* file "sending" without an upload (sendFileWithChatModel, onDisconnect,
\* sendFileWithTag, Withdraw): only a crash does.
THEOREM OnlyACrashStrands == Spec => OnlyCrashStrands
<1>. DEFINE Step == \A m \in Msgs : Stranded(m)' => Stranded(m) \/ app' = "dead"
<1>1. TypeOK /\ [Next]_vars => Step
  <2>1. ASSUME NEW k \in Msgs, UNCHANGED vars
        PROVE  Stranded(k)' => Stranded(k)
    BY <2>1 DEF vars, Stranded
  <2>. QED BY <2>1, MessageStrands, EndStrands, AppStrands DEF Next, MessageStep
<1>2. TypeOK /\ [Next]_vars => [Step]_vars
  BY <1>1
<1>. QED BY <1>2, CacheTypeCorrect, PTL DEF Spec, OnlyCrashStrands
=============================================================================
