---------------------------- MODULE MultiPartProofs ----------------------------
(***************************************************************************)
(* Proofs about MultiPart, for all messages, msgids and numbers of parts:  *)
(* what is kept is a prefix of the message, and the handlers see Inbox.    *)
(*                                                                         *)
(* The induction needs, besides KeptIsPrefix, that a message has its msgid *)
(* for itself while it is sent (Alone), and that one thing of it is under  *)
(* way, a part (OneFrame) or a request (OneRequest).                       *)
(***************************************************************************)
EXTENDS MultiPart, TLAPS

Sending(m) == status[m] = "sending"

Alone == \A m, n \in Msgs : Sending(m) /\ Sending(n) /\ Id[m] = Id[n] => m = n

OneFrame ==
  \A m \in Msgs, k \in Nat : <<m, k>> \in frames =>
    /\ Sending(m) /\ k \in 1 .. Parts[m]
    /\ \A j \in Nat : <<m, j>> \in frames => j = k
    /\ \A j \in Nat : <<Id[m], j>> \notin requests

OneRequest ==
  \A i \in Ids, k \in Nat : <<i, k>> \in requests =>
    /\ \E m \in Msgs : Id[m] = i /\ Sending(m) /\ k \in 2 .. Parts[m]
    /\ \A j \in Nat : <<i, j>> \in requests => j = k

IInv == TypeOK /\ Alone /\ OneFrame /\ OneRequest /\ KeptIsPrefix
-----------------------------------------------------------------------------
\* The parts of a message and the next one are the parts up to that one.
LEMMA UptoNext ==
  ASSUME NEW m, NEW k \in Nat \ {0}
  PROVE  /\ k = 1 => Append(<<>>, <<m, k>>) = Upto(m, k)
         /\ Append(Upto(m, k - 1), <<m, k>>) = Upto(m, k)
BY DEF Upto

\* The parts of a message are a sequence of parts.
LEMMA UptoType ==
  ASSUME NEW m \in Msgs, NEW k \in Nat
  PROVE  Upto(m, k) \in Seq(Msgs \X Nat)
BY DEF Upto

\* What is kept when a part has come is the message up to that part: the step
\* every receipt rests on.
LEMMA KeptUpto ==
  ASSUME IInv, NEW m \in Msgs, NEW k \in 1 .. Parts[m], <<m, k>> \in frames
  PROVE  Kept(m, k) = Upto(m, k)
<1>1. Sending(m)
  BY DEF IInv, OneFrame
<1>2. CASE k = 1
  BY <1>2, UptoNext DEF Kept
<1>3. CASE k # 1
  <2>1. k \in 2 .. Parts[m]
    BY <1>3, PartsOK
  <2>2. mutTempDic[Id[m]] = Upto(m, k - 1)
    BY <1>1, <2>1 DEF IInv, KeptIsPrefix, Sending
  <2> QED
    BY <1>3, <2>1, <2>2, UptoNext DEF Kept
<1> QED
  BY <1>2, <1>3

\* Nothing is under way at the start.
LEMMA InitIInv == Init => IInv
BY PartsOK DEF Init, IInv, TypeOK, Alone, OneFrame, OneRequest, KeptIsPrefix, Sending

\* The router starts a message: its msgid is free, and its first part is all
\* there is of it.
LEMMA SendFirstKeeps ==
  ASSUME IInv, NEW m \in Msgs, SendFirst(m)
  PROVE  IInv'
<1> USE DEF SendFirst, IInv
<1>1. /\ status' = [status EXCEPT ![m] = "sending"]
      /\ status[m] = "waiting"
      /\ frames' = frames \cup {<<m, 1>>}
      /\ UNCHANGED <<requests, mutTempDic, inbox, losses>>
      /\ \A n \in Msgs : Id[n] = Id[m] => status[n] # "sending"
  OBVIOUS
<1>2. TypeOK'
  BY <1>1, PartsOK DEF TypeOK
<1>3. Alone'
  BY <1>1 DEF Alone, Sending, TypeOK
<1>4. \A j \in Nat : <<Id[m], j>> \notin requests /\ <<m, j>> \notin frames
  BY <1>1, PartsOK DEF OneRequest, OneFrame, Sending
<1>5. OneFrame'
  <2> SUFFICES ASSUME NEW n \in Msgs, NEW k \in Nat, <<n, k>> \in frames'
               PROVE  /\ Sending(n)' /\ k \in 1 .. Parts[n]
                      /\ \A j \in Nat : <<n, j>> \in frames' => j = k
                      /\ \A j \in Nat : <<Id[n], j>> \notin requests'
    BY DEF OneFrame
  <2>1. CASE n = m
    <3>1. k = 1 /\ \A j \in Nat : <<m, j>> \in frames' => j = 1
      BY <1>1, <1>4, <2>1
    <3>2. Sending(m)'
      BY <1>1 DEF Sending, TypeOK
    <3>3. 1 \in 1 .. Parts[m]
      BY PartsOK
    <3> QED
      BY <1>1, <1>4, <2>1, <3>1, <3>2, <3>3
  <2>2. CASE n # m
    <3>1. <<n, k>> \in frames
      BY <1>1, <2>2
    <3>2. Sending(n)'
      BY <1>1, <2>2, <3>1 DEF OneFrame, Sending, TypeOK
    <3> QED
      BY <1>1, <2>2, <3>1, <3>2 DEF OneFrame
  <2> QED
    BY <2>1, <2>2
<1>6. OneRequest'
  BY <1>1 DEF OneRequest, Sending, TypeOK
<1>7. KeptIsPrefix'
  <2> SUFFICES ASSUME NEW n \in Msgs, status'[n] = "sending",
                      NEW k \in 2 .. Parts[n],
                      <<n, k>> \in frames' \/ <<Id[n], k>> \in requests'
               PROVE  mutTempDic'[Id[n]] = Upto(n, k - 1)
    BY DEF KeptIsPrefix, Upto
  <2>1. n # m
    BY <1>1, <1>4, PartsOK
  <2>2. status[n] = "sending" /\ (<<n, k>> \in frames \/ <<Id[n], k>> \in requests)
    BY <1>1, <2>1 DEF TypeOK
  <2> QED
    BY <1>1, <2>2 DEF KeptIsPrefix
<1> QED
  BY <1>2, <1>3, <1>5, <1>6, <1>7

\* The router answers: the request becomes a part.
LEMMA SendNextKeeps ==
  ASSUME IInv, NEW m \in Msgs, NEW k \in 1 .. Parts[m], SendNext(m, k)
  PROVE  IInv'
<1>1. /\ <<Id[m], k>> \in requests /\ Sending(m)
      /\ requests' = requests \ {<<Id[m], k>>}
      /\ frames' = frames \cup {<<m, k>>}
      /\ UNCHANGED <<status, mutTempDic, inbox, losses>>
  BY DEF SendNext, Sending
<1>2. k \in Nat /\ Id[m] \in Ids /\ Parts[m] \in Nat
  BY PartsOK
<1>3. \A j \in Nat : <<Id[m], j>> \in requests => j = k
  BY <1>1, <1>2 DEF IInv, OneRequest
<1>4. \A j \in Nat : <<m, j>> \notin frames
  BY <1>1, <1>2 DEF IInv, OneFrame
<1>5. TypeOK'
  BY <1>1, <1>2 DEF IInv, TypeOK
<1>6. Alone'
  BY <1>1 DEF IInv, Alone, Sending
<1>7. OneFrame'
  BY <1>1, <1>2, <1>3, <1>4 DEF IInv, OneFrame, Sending, Alone
<1>8. OneRequest'
  BY <1>1 DEF IInv, OneRequest, Sending
<1>9. KeptIsPrefix'
  <2> SUFFICES ASSUME NEW n \in Msgs, status[n] = "sending",
                      NEW j \in 2 .. Parts[n],
                      <<n, j>> \in frames' \/ <<Id[n], j>> \in requests'
               PROVE  mutTempDic[Id[n]] = Upto(n, j - 1)
    BY <1>1 DEF KeptIsPrefix, Upto
  <2>1. <<n, j>> \in frames \/ <<Id[n], j>> \in requests
    BY <1>1
  <2> QED
    BY <2>1 DEF IInv, KeptIsPrefix
<1> QED
  BY <1>5, <1>6, <1>7, <1>8, <1>9 DEF IInv

\* A part that is not the last is kept, and asks for the next one.
LEMMA ReceivePartKeeps ==
  ASSUME IInv, NEW m \in Msgs, NEW k \in 1 .. Parts[m], ReceivePart(m, k)
  PROVE  IInv'
<1>1. /\ <<m, k>> \in frames /\ k < Parts[m]
      /\ frames' = frames \ {<<m, k>>}
      /\ mutTempDic' = [mutTempDic EXCEPT ![Id[m]] = Upto(m, k)]
      /\ requests' = requests \cup {<<Id[m], k + 1>>}
      /\ UNCHANGED <<status, inbox, losses>>
  BY KeptUpto DEF ReceivePart, More, NextPart
<1>2. k \in Nat /\ Id[m] \in Ids /\ Parts[m] \in Nat /\ k + 1 \in 2 .. Parts[m]
  BY <1>1, PartsOK
<1>3. /\ Sending(m)
      /\ \A j \in Nat : <<m, j>> \in frames => j = k
      /\ \A j \in Nat : <<Id[m], j>> \notin requests
  BY <1>1, <1>2 DEF IInv, OneFrame
<1>4. \A n \in Msgs : Sending(n) /\ Id[n] = Id[m] => n = m
  BY <1>3 DEF IInv, Alone
<1>5. TypeOK'
  <2>1. mutTempDic' \in [Ids -> Seq(Msgs \X Nat)]
    BY <1>1, <1>2, UptoType DEF IInv, TypeOK
  <2>2. frames' \subseteq Msgs \X Nat /\ requests' \subseteq Ids \X Nat
    BY <1>1, <1>2 DEF IInv, TypeOK
  <2>3. ASSUME NEW r \in requests'
        PROVE  \E n \in Msgs : Id[n] = r[1] /\ r[2] \in 2 .. Parts[n]
    <3>1. CASE r \in requests
      BY <3>1 DEF IInv, TypeOK
    <3>2. CASE r = <<Id[m], k + 1>>
      BY <1>2, <3>2
    <3> QED
      BY <1>1, <3>1, <3>2
  <2>4. /\ status' \in [Msgs -> {"waiting", "sending", "over"}]
        /\ inbox' \in Seq(Seq(Msgs \X Nat)) /\ losses' \in Nat
    BY <1>1 DEF IInv, TypeOK
  <2> QED
    BY <2>1, <2>2, <2>3, <2>4 DEF TypeOK
<1>6. Alone'
  BY <1>1 DEF IInv, Alone, Sending
<1>7. OneFrame'
  <2> SUFFICES ASSUME NEW n \in Msgs, NEW i \in Nat, <<n, i>> \in frames'
               PROVE  /\ Sending(n)' /\ i \in 1 .. Parts[n]
                      /\ \A j \in Nat : <<n, j>> \in frames' => j = i
                      /\ \A j \in Nat : <<Id[n], j>> \notin requests'
    BY DEF OneFrame
  <2>1. <<n, i>> \in frames /\ n # m
    BY <1>1, <1>3
  <2>2. Sending(n) /\ Id[n] # Id[m]
    BY <1>4, <2>1 DEF IInv, OneFrame
  <2> QED
    BY <1>1, <2>1, <2>2 DEF IInv, OneFrame, Sending
<1>8. OneRequest'
  <2> SUFFICES ASSUME NEW i \in Ids, NEW j \in Nat, <<i, j>> \in requests'
               PROVE  /\ \E n \in Msgs : Id[n] = i /\ Sending(n) /\ j \in 2 .. Parts[n]
                      /\ \A l \in Nat : <<i, l>> \in requests' => l = j
    BY <1>1 DEF OneRequest, Sending
  <2>1. CASE i = Id[m]
    BY <1>1, <1>2, <1>3, <2>1
  <2>2. CASE i # Id[m]
    BY <1>1, <2>2 DEF IInv, OneRequest
  <2> QED
    BY <2>1, <2>2
<1>9. KeptIsPrefix'
  <2> SUFFICES ASSUME NEW n \in Msgs, Sending(n),
                      NEW j \in 2 .. Parts[n],
                      <<n, j>> \in frames' \/ <<Id[n], j>> \in requests'
               PROVE  mutTempDic'[Id[n]] = Upto(n, j - 1)
    BY <1>1 DEF KeptIsPrefix, Upto, Sending
  <2>0. j \in Nat /\ Id[n] \in Ids
    BY PartsOK
  <2>1. CASE n = m
    <3>1. j = k + 1
      BY <1>1, <1>2, <1>3, <2>0, <2>1
    <3>2. mutTempDic'[Id[m]] = Upto(m, k)
      BY <1>1, <1>2 DEF IInv, TypeOK
    <3> QED
      BY <1>2, <2>1, <3>1, <3>2
  <2>2. CASE n # m
    <3>1. Id[n] # Id[m]
      BY <1>4, <2>2
    <3>2. <<n, j>> \in frames \/ <<Id[n], j>> \in requests
      BY <1>1, <3>1
    <3>3. mutTempDic'[Id[n]] = mutTempDic[Id[n]]
      BY <1>1, <2>0, <3>1 DEF IInv, TypeOK
    <3> QED
      BY <3>2, <3>3 DEF IInv, KeptIsPrefix, Sending
  <2> QED
    BY <2>1, <2>2
<1> QED
  BY <1>5, <1>6, <1>7, <1>8, <1>9 DEF IInv

\* The last part: the message is handed over whole, and nothing of it is left
\* under way.
LEMMA ReceiveLastWhole ==
  ASSUME IInv, NEW m \in Msgs, NEW k \in 1 .. Parts[m], ReceiveLast(m, k)
  PROVE  /\ k = Parts[m] /\ Sending(m)
         /\ inbox' = Append(inbox, Whole(m))
<1>1. k = Parts[m] /\ <<m, k>> \in frames
  BY PartsOK DEF ReceiveLast, More
<1>2. Kept(m, k) = Upto(m, k)
  BY <1>1, KeptUpto
<1>3. Sending(m)
  BY <1>1 DEF IInv, OneFrame
<1> QED
  BY <1>1, <1>2, <1>3 DEF ReceiveLast, Whole

LEMMA ReceiveLastKeeps ==
  ASSUME IInv, NEW m \in Msgs, NEW k \in 1 .. Parts[m], ReceiveLast(m, k)
  PROVE  IInv'
<1>1. /\ <<m, k>> \in frames
      /\ frames' = frames \ {<<m, k>>}
      /\ mutTempDic' = [mutTempDic EXCEPT ![Id[m]] = Upto(m, k)]
      /\ inbox' = Append(inbox, Upto(m, k))
      /\ status' = [status EXCEPT ![m] = "over"]
      /\ UNCHANGED <<requests, losses>>
  BY KeptUpto DEF ReceiveLast
<1>2. k \in Nat /\ Id[m] \in Ids
  BY PartsOK
<1>3. /\ Sending(m)
      /\ \A j \in Nat : <<m, j>> \in frames => j = k
      /\ \A j \in Nat : <<Id[m], j>> \notin requests
  BY <1>1, <1>2 DEF IInv, OneFrame
<1>4. \A n \in Msgs : Sending(n) /\ Id[n] = Id[m] => n = m
  BY <1>3 DEF IInv, Alone
<1>5. TypeOK'
  <2>1. mutTempDic' \in [Ids -> Seq(Msgs \X Nat)]
    BY <1>1, <1>2, UptoType DEF IInv, TypeOK
  <2>2. inbox' \in Seq(Seq(Msgs \X Nat))
    BY <1>1, <1>2, UptoType DEF IInv, TypeOK
  <2>3. status' \in [Msgs -> {"waiting", "sending", "over"}]
    BY <1>1 DEF IInv, TypeOK
  <2>4. frames' \subseteq Msgs \X Nat
    BY <1>1 DEF IInv, TypeOK
  <2> QED
    BY <1>1, <2>1, <2>2, <2>3, <2>4 DEF IInv, TypeOK
<1>6. \A n \in Msgs : Sending(n)' <=> Sending(n) /\ n # m
  BY <1>1 DEF IInv, TypeOK, Sending
<1>7. Alone'
  BY <1>6 DEF IInv, Alone
<1>8. OneFrame'
  <2> SUFFICES ASSUME NEW n \in Msgs, NEW i \in Nat, <<n, i>> \in frames'
               PROVE  /\ Sending(n)' /\ i \in 1 .. Parts[n]
                      /\ \A j \in Nat : <<n, j>> \in frames' => j = i
                      /\ \A j \in Nat : <<Id[n], j>> \notin requests'
    BY DEF OneFrame
  <2>1. <<n, i>> \in frames /\ n # m
    BY <1>1, <1>3
  <2> QED
    BY <1>1, <1>6, <2>1 DEF IInv, OneFrame
<1>9. OneRequest'
  <2> SUFFICES ASSUME NEW i \in Ids, NEW j \in Nat, <<i, j>> \in requests
               PROVE  /\ \E n \in Msgs : Id[n] = i /\ Sending(n)' /\ j \in 2 .. Parts[n]
                      /\ \A l \in Nat : <<i, l>> \in requests => l = j
    BY <1>1 DEF OneRequest
  <2>1. PICK n \in Msgs : Id[n] = i /\ Sending(n) /\ j \in 2 .. Parts[n]
    BY DEF IInv, OneRequest
  <2>2. n # m
    BY <1>3, <2>1
  <2> QED
    BY <1>6, <2>1, <2>2 DEF IInv, OneRequest
<1>10. KeptIsPrefix'
  <2> SUFFICES ASSUME NEW n \in Msgs, Sending(n)',
                      NEW j \in 2 .. Parts[n],
                      <<n, j>> \in frames' \/ <<Id[n], j>> \in requests'
               PROVE  mutTempDic'[Id[n]] = Upto(n, j - 1)
    BY DEF KeptIsPrefix, Upto, Sending
  <2>0. Id[n] \in Ids
    BY PartsOK
  <2>1. Id[n] # Id[m] /\ Sending(n)
    BY <1>4, <1>6
  <2>2. <<n, j>> \in frames \/ <<Id[n], j>> \in requests
    BY <1>1
  <2>3. mutTempDic'[Id[n]] = mutTempDic[Id[n]]
    BY <1>1, <2>0, <2>1 DEF IInv, TypeOK
  <2> QED
    BY <2>1, <2>2, <2>3 DEF IInv, KeptIsPrefix, Sending
<1> QED
  BY <1>5, <1>7, <1>8, <1>9, <1>10 DEF IInv

\* A connection that is lost leaves nothing under way.
LEMMA LoseKeeps ==
  ASSUME IInv, Lose
  PROVE  IInv'
<1>1. /\ frames' = {} /\ requests' = {} /\ losses' = losses + 1
      /\ UNCHANGED <<mutTempDic, inbox>>
      /\ \A m \in Msgs : ~Sending(m)'
  BY DEF Lose, Sending, IInv, TypeOK
<1>2. status' \in [Msgs -> {"waiting", "sending", "over"}]
  BY DEF Lose, IInv, TypeOK
<1>3. TypeOK'
  BY <1>1, <1>2 DEF IInv, TypeOK
<1>4. Alone' /\ OneFrame' /\ OneRequest' /\ KeptIsPrefix'
  BY <1>1 DEF Alone, OneFrame, OneRequest, KeptIsPrefix, Sending
<1> QED
  BY <1>3, <1>4 DEF IInv

\* The inductive step.
LEMMA NextIInv == IInv /\ [Next]_vars => IInv'
<1> SUFFICES ASSUME IInv, [Next]_vars
             PROVE  IInv'
  OBVIOUS
<1>1. ASSUME NEW m \in Msgs, Step(m)
      PROVE  IInv'
  BY <1>1, SendFirstKeeps, SendNextKeeps, ReceivePartKeeps, ReceiveLastKeeps
     DEF Step
<1>2. CASE Lose
  BY <1>2, LoseKeeps
<1>3. CASE UNCHANGED vars
  <2>1. UNCHANGED <<status, frames, requests, mutTempDic, inbox, losses>>
    BY <1>3 DEF vars
  <2>2. TypeOK' /\ Alone'
    BY <2>1 DEF IInv, TypeOK, Alone, Sending
  <2>3. OneFrame' /\ OneRequest'
    BY <2>1 DEF IInv, OneFrame, OneRequest, Sending
  <2>4. KeptIsPrefix'
    BY <2>1 DEF IInv, KeptIsPrefix, Upto
  <2> QED
    BY <2>2, <2>3, <2>4 DEF IInv
<1> QED
  BY <1>1, <1>2, <1>3 DEF Next

LEMMA Inductive == Spec => []IInv
<1> QED
  BY InitIInv, NextIInv, PTL DEF Spec
-----------------------------------------------------------------------------
\* Every variable keeps its type, and no part beyond the last is asked for.
THEOREM TypeCorrect == Spec => []TypeOK
<1>1. IInv => TypeOK
  BY DEF IInv
<1> QED
  BY Inductive, <1>1, PTL

\* What receiveText keeps under a msgid is a prefix of the message that is being
\* sent under it, whatever was kept before and however many connections were lost.
THEOREM KeptCorrect == Spec => []KeptIsPrefix
<1>1. IInv => KeptIsPrefix
  BY DEF IInv
<1> QED
  BY Inductive, <1>1, PTL
-----------------------------------------------------------------------------
\* Nothing is handed over at the start.
LEMMA InitPromise == Init => Promise!Init
BY DEF Init, Promise!Init

\* The last part of a message is the step Deliver of Inbox; all others stutter.
LEMMA NextPromise ==
  IInv /\ [Next]_vars
    => [Promise!Next]_<<{m \in Msgs : status[m] # "over"}, inbox>>
<1> DEFINE coming == {m \in Msgs : status[m] # "over"}
<1> SUFFICES ASSUME IInv, [Next]_vars
             PROVE  [Promise!Next]_<<coming, inbox>>
  OBVIOUS
<1>1. status \in [Msgs -> {"waiting", "sending", "over"}]
  BY DEF IInv, TypeOK
<1>2. ASSUME NEW m \in Msgs, SendFirst(m)
      PROVE  UNCHANGED <<coming, inbox>>
  BY <1>1, <1>2 DEF SendFirst
<1>3. ASSUME NEW m \in Msgs, NEW k \in 1 .. Parts[m], SendNext(m, k) \/ ReceivePart(m, k)
      PROVE  UNCHANGED <<coming, inbox>>
  BY <1>3 DEF SendNext, ReceivePart
<1>4. ASSUME NEW m \in Msgs, NEW k \in 1 .. Parts[m], ReceiveLast(m, k)
      PROVE  Promise!Next
  <2>1. Sending(m) /\ inbox' = Append(inbox, Whole(m))
    BY <1>4, ReceiveLastWhole
  <2>2. status' = [status EXCEPT ![m] = "over"]
    BY <1>4 DEF ReceiveLast
  <2>3. m \in coming /\ coming' = coming \ {m}
    BY <1>1, <2>1, <2>2 DEF Sending
  <2> QED
    BY <2>1, <2>3 DEF Promise!Next, Promise!Deliver
<1>5. CASE Lose
  BY <1>1, <1>5 DEF Lose
<1>6. CASE UNCHANGED vars
  BY <1>6 DEF vars
<1> QED
  BY <1>2, <1>3, <1>4, <1>5, <1>6 DEF Next, Step

\* The handlers see each message once and whole: receiveText implements Inbox.
THEOREM InboxImplemented == Spec => ImplementsInbox
<1> QED
  BY Inductive, InitPromise, NextPromise, PTL DEF Spec, ImplementsInbox, Promise!Spec
=============================================================================
