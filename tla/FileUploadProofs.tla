--------------------------- MODULE FileUploadProofs ---------------------------
(***************************************************************************)
(* Proofs about FileUpload for any set of uploads, any files and any       *)
(* number of segments.  The lemmas are about one upload record r and the   *)
(* operators that transform it; the theorems lift them to the actions.     *)
(***************************************************************************)
EXTENDS FileUpload, SequenceTheorems, TLAPS

FrameSet == [seq : Nat, body : BOOLEAN]
EventSet == [kind : {"connect", "answer", "disconnect"}, seq : Nat, code : Codes]

(***************************************************************************)
(* Types: every operator on an upload record yields an upload record.      *)
(***************************************************************************)
LEMMA DisconnectType ==
  ASSUME NEW r \in UploadState
  PROVE  Disconnect(r) \in UploadState
BY DEF Disconnect, UploadState

LEMMA SendFileDataType ==
  ASSUME NEW r \in UploadState, NEW f \in FrameSet
  PROVE  SendFileData(r, f) \in UploadState
<1>1. Append(r.wire, f) \in Seq(FrameSet)
  BY DEF UploadState, FrameSet
<1>. QED BY <1>1 DEF SendFileData, UploadState, FrameSet

LEMMA ResendType ==
  ASSUME NEW r \in UploadState
  PROVE  Resend(r) \in UploadState
<1>1. Frame(r.cur, FALSE) \in FrameSet
  BY DEF Frame, FrameSet, UploadState
<1>. QED BY <1>1, SendFileDataType DEF Resend

LEMMA FinishType ==
  ASSUME NEW r \in UploadState
  PROVE  Finish(r) \in UploadState
<1>. DEFINE d == Disconnect(r)
<1>1. d \in UploadState
  BY DisconnectType
<1>2. r.code \in Codes \cup {2}
  BY DEF UploadState
<1>3. Append(d.posted, r.code) \in Seq(Codes \cup {2})
  BY <1>1, <1>2 DEF UploadState
<1>. QED BY <1>1, <1>3 DEF Finish, UploadState

LEMMA SendNextType ==
  ASSUME NEW r \in UploadState, NEW seq \in Nat, NEW n
  PROVE  SendNext(r, seq, n) \in UploadState
<1>. DEFINE q == [r EXCEPT !.cur = seq + 1]
<1>1. q \in UploadState
  BY DEF UploadState
<1>2. Frame(seq + 1, TRUE) \in FrameSet
  BY DEF Frame, FrameSet
<1>3. SendFileData(q, Frame(seq + 1, TRUE)) \in UploadState
  BY <1>1, <1>2, SendFileDataType
<1>. QED BY <1>3, FinishType DEF SendNext

LEMMA ReceiveType ==
  ASSUME NEW r0 \in UploadState, NEW m \in EventSet, NEW n
  PROVE  ReceiveFileData(r0, m, n) \in UploadState
<1>. DEFINE r == [r0 EXCEPT !.complete = TRUE, !.waiting = FALSE, !.code = m.code]
            d == [r EXCEPT !.deleted = @ \/ r.cur = n]
<1>1. r \in UploadState
  BY DEF UploadState, EventSet
<1>2. d \in UploadState
  <2>1. (r.deleted \/ r.cur = n) \in BOOLEAN
    OBVIOUS
  <2>. QED BY <1>1, <2>1 DEF UploadState
<1>3. m.seq \in Nat
  BY DEF EventSet
<1>. QED BY <1>1, <1>2, <1>3, DisconnectType, SendNextType, ResendType
         DEF ReceiveFileData

LEMMA ResendFileType ==
  ASSUME NEW r \in UploadState
  PROVE  ResendFile(r) \in UploadState
<1>1. r.cancel \in BOOLEAN /\ r.waiting \in BOOLEAN
  BY DEF UploadState
<1>. QED BY <1>1, DisconnectType, ResendType DEF ResendFile

LEMMA TakenType ==
  ASSUME NEW u \in Uploads, up[u] \in UploadState, up[u].inbox # <<>>
  PROVE  /\ Taken(u) \in UploadState
         /\ Head(up[u].inbox) \in EventSet
<1>1. up[u].inbox \in Seq(EventSet)
  BY DEF UploadState, EventSet
<1>2. Tail(up[u].inbox) \in Seq(EventSet) /\ Head(up[u].inbox) \in EventSet
  BY <1>1, HeadTailProperties
<1>. QED BY <1>2 DEF Taken, UploadState, EventSet

LEMMA LoseType ==
  ASSUME NEW r \in UploadState, NEW k \in 0..Len(r.inbox)
  PROVE  [r EXCEPT !.conn = "lost", !.wire = <<>>,
            !.inbox = Append(SubSeq(@, 1, k), OnDisconnectEvent)] \in UploadState
<1>1. r.inbox \in Seq(EventSet)
  BY DEF UploadState, EventSet
<1>2. SubSeq(r.inbox, 1, k) \in Seq(EventSet)
  BY <1>1, SubSeqProperties
<1>3. OnDisconnectEvent \in EventSet
  BY DEF OnDisconnectEvent, EventSet, Codes
<1>4. Append(SubSeq(r.inbox, 1, k), OnDisconnectEvent) \in Seq(EventSet)
  BY <1>2, <1>3
<1>5. <<>> \in Seq([seq : Nat, body : BOOLEAN])
  OBVIOUS
<1>. QED BY <1>4, <1>5 DEF UploadState, EventSet

LEMMA AnswerType ==
  ASSUME NEW r \in UploadState, r.wire # <<>>, NEW c \in Codes,
         NEW S \in SUBSET Nat
  PROVE  /\ Head(r.wire) \in FrameSet
         /\ [r EXCEPT !.wire = Tail(@), !.stored = S,
                !.inbox = Append(@, Answer(Head(r.wire).seq, c))] \in UploadState
<1>1. r.wire \in Seq(FrameSet) /\ r.inbox \in Seq(EventSet)
  BY DEF UploadState, FrameSet, EventSet
<1>2. Head(r.wire) \in FrameSet /\ Tail(r.wire) \in Seq(FrameSet)
  BY <1>1, HeadTailProperties
<1>3. Answer(Head(r.wire).seq, c) \in EventSet
  BY <1>2 DEF Answer, EventSet, FrameSet
<1>4. Append(r.inbox, Answer(Head(r.wire).seq, c)) \in Seq(EventSet)
  BY <1>1, <1>3
<1>. QED BY <1>2, <1>4 DEF UploadState, FrameSet, EventSet

(***************************************************************************)
(* What one action may do to the state, for the step lemmas of both        *)
(* invariants: it changes one upload record, or it disconnects some.       *)
(***************************************************************************)
LEMMA InitType == Init => TypeOK
<1>1. Fresh \in UploadState
  BY DEF Fresh, UploadState, Codes
<1>. QED BY <1>1 DEF Init, TypeOK

LEMMA UpdateType ==
  ASSUME NEW u \in Uploads, up \in [Uploads -> UploadState],
         NEW r \in UploadState, up' = [up EXCEPT ![u] = r]
  PROVE  up' \in [Uploads -> UploadState]
OBVIOUS

LEMMA ClearType ==
  ASSUME ClearDisConnectSocket, sockets \subseteq Uploads
  PROVE  sockets' \subseteq Uploads
BY DEF ClearDisConnectSocket

LEMMA NetworkType ==
  ASSUME TypeOK, NEW u \in Uploads, Network(u)
  PROVE  TypeOK'
<1>1. up[u] \in UploadState /\ up \in [Uploads -> UploadState]
  BY DEF TypeOK
<1>. SUFFICES ASSUME NEW r \in UploadState, up' = [up EXCEPT ![u] = r],
                     UNCHANGED <<sockets, withdrawn>>
              PROVE  TypeOK'
  <2>1. CASE Connect(u)
    <3>1. OnConnectEvent \in EventSet
      BY DEF OnConnectEvent, EventSet, Codes
    <3>2. <<OnConnectEvent>> \in Seq(EventSet)
      BY <3>1
    <3>3. [up[u] EXCEPT !.conn = "open", !.inbox = <<OnConnectEvent>>] \in UploadState
      BY <1>1, <3>2 DEF UploadState, EventSet
    <3>4. up' = [up EXCEPT ![u] =
                   [up[u] EXCEPT !.conn = "open", !.inbox = <<OnConnectEvent>>]]
      BY <1>1, <2>1 DEF Connect
    <3>. QED BY <3>3, <3>4, <2>1 DEF Connect
  <2>2. CASE Lose(u)
    <3>1. PICK k \in 0..Len(up[u].inbox) :
            up' = [up EXCEPT ![u].conn = "lost", ![u].wire = <<>>,
                     ![u].inbox = Append(SubSeq(@, 1, k), OnDisconnectEvent)]
      BY <2>2 DEF Lose
    <3>2. up' = [up EXCEPT ![u] =
                   [up[u] EXCEPT !.conn = "lost", !.wire = <<>>,
                      !.inbox = Append(SubSeq(@, 1, k), OnDisconnectEvent)]]
      BY <1>1, <3>1
    <3>. QED BY <3>2, <2>2, <1>1, LoseType DEF Lose
  <2>3. CASE RouterAnswers(u)
    <3>. DEFINE f == Head(up[u].wire)
    <3>1. PICK c \in (IF f.body THEN BodyCodes ELSE BareCodes) :
            up' = [up EXCEPT ![u].wire = Tail(@),
                     ![u].stored = IF f.body /\ c = 0 THEN @ \cup {f.seq} ELSE @,
                     ![u].inbox = Append(@, Answer(f.seq, c))]
      BY <2>3 DEF RouterAnswers
    <3>2. c \in Codes
      BY <3>1, ConstantsOK
    <3>3. up[u].wire # <<>>
      BY <2>3 DEF RouterAnswers
    <3>. DEFINE S == IF f.body /\ c = 0 THEN up[u].stored \cup {f.seq}
                                        ELSE up[u].stored
    <3>4. S \in SUBSET Nat
      <4>1. f \in FrameSet
        BY <1>1, <3>2, <3>3, AnswerType
      <4>. QED BY <1>1, <4>1 DEF UploadState, FrameSet
    <3>. DEFINE q == [up[u] EXCEPT !.wire = Tail(@), !.stored = S,
                        !.inbox = Append(@, Answer(f.seq, c))]
    <3>5. q \in UploadState
      BY <1>1, <3>2, <3>3, <3>4, AnswerType
    <3>6. up' = [up EXCEPT ![u] = q]
      BY <1>1, <3>1
    <3>. QED BY <3>5, <3>6, <2>3 DEF RouterAnswers
  <2>4. CASE RouterCloses(u)
    <3>. DEFINE q == [up[u] EXCEPT !.conn = "lost",
                        !.inbox = Append(@, OnDisconnectEvent)]
    <3>1. up[u].inbox \in Seq(EventSet) /\ OnDisconnectEvent \in EventSet
      BY <1>1 DEF UploadState, EventSet, OnDisconnectEvent, Codes
    <3>2. Append(up[u].inbox, OnDisconnectEvent) \in Seq(EventSet)
      BY <3>1
    <3>3. q \in UploadState
      BY <1>1, <3>2 DEF UploadState, EventSet
    <3>4. up' = [up EXCEPT ![u] = q]
      BY <1>1, <2>4 DEF RouterCloses
    <3>. QED BY <3>3, <3>4, <2>4 DEF RouterCloses
  <2>. QED BY <2>1, <2>2, <2>3, <2>4 DEF Network
<1>. QED BY <1>1, UpdateType DEF TypeOK

LEMMA CallbackType ==
  ASSUME TypeOK, NEW u \in Uploads, Callback(u)
  PROVE  TypeOK'
<1>1. up[u] \in UploadState /\ up \in [Uploads -> UploadState]
  BY DEF TypeOK
<1>2. CASE OnConnect(u)
  <2>1. Taken(u) \in UploadState
    BY <1>1, <1>2, TakenType DEF OnConnect, HasEvent
  <2>2. Frame(1, TRUE) \in FrameSet
    BY DEF Frame, FrameSet
  <2>3. SendFileData(Taken(u), Frame(1, TRUE)) \in UploadState
    BY <2>1, <2>2, SendFileDataType
  <2>. QED BY <1>1, <1>2, <2>3, UpdateType DEF OnConnect, TypeOK
<1>3. CASE OnData(u)
  <2>1. Taken(u) \in UploadState /\ Head(up[u].inbox) \in EventSet
    BY <1>1, <1>3, TakenType DEF OnData, HasEvent
  <2>2. ReceiveFileData(Taken(u), Head(up[u].inbox), N(u)) \in UploadState
    BY <2>1, ReceiveType
  <2>. QED BY <1>1, <1>3, <2>2, UpdateType DEF OnData, TypeOK
<1>4. CASE OnDisconnect(u)
  <2>. DEFINE r == [Taken(u) EXCEPT !.conn = "closed"]
              c == LostCode(r)
              q == [r EXCEPT !.code = c, !.posted = Append(@, c)]
  <2>1. Taken(u) \in UploadState
    BY <1>1, <1>4, TakenType DEF OnDisconnect, HasEvent
  <2>2. r \in UploadState
    BY <2>1 DEF UploadState
  <2>3. c \in Codes \cup {2}
    BY <2>2 DEF UploadState, LostCode
  <2>4. Append(r.posted, c) \in Seq(Codes \cup {2})
    BY <2>2, <2>3 DEF UploadState
  <2>5. q \in UploadState
    BY <2>2, <2>3, <2>4 DEF UploadState
  <2>6. up' = [up EXCEPT ![u] = r] \/ up' = [up EXCEPT ![u] = q]
    BY <1>4 DEF OnDisconnect
  <2>7. up' \in [Uploads -> UploadState]
    BY <1>1, <2>2, <2>5, <2>6, UpdateType
  <2>8. sockets' \subseteq Uploads
    BY <1>4, ClearType DEF OnDisconnect, TypeOK
  <2>. QED BY <1>4, <2>7, <2>8 DEF OnDisconnect, TypeOK
<1>5. CASE TimerFires(u)
  <2>1. [up[u] EXCEPT !.timer = FALSE] \in UploadState
    BY <1>1 DEF UploadState
  <2>2. ResendFile([up[u] EXCEPT !.timer = FALSE]) \in UploadState
    BY <2>1, ResendFileType
  <2>. QED BY <1>1, <1>5, <2>2, UpdateType DEF TimerFires, TypeOK
<1>. QED BY <1>2, <1>3, <1>4, <1>5 DEF Callback

LEMMA UserType ==
  ASSUME TypeOK, User
  PROVE  TypeOK'
<1>1. up \in [Uploads -> UploadState]
  BY DEF TypeOK
<1>2. ASSUME NEW u \in Uploads, Start(u)
      PROVE  TypeOK'
  <2>1. [up[u] EXCEPT !.conn = "connecting"] \in UploadState
    <3>1. up[u] \in UploadState
      BY <1>1
    <3>. QED BY <3>1 DEF UploadState
  <2>2. up' = [up EXCEPT ![u] = [up[u] EXCEPT !.conn = "connecting"]]
    BY <1>1, <1>2 DEF Start
  <2>. QED BY <1>1, <1>2, <2>1, <2>2, UpdateType DEF Start, TypeOK
<1>3. ASSUME NEW f \in ChatFiles, Withdraw(f)
      PROVE  TypeOK'
  <2>1. ASSUME NEW u \in Uploads
        PROVE  [up[u] EXCEPT !.cancel = TRUE] \in UploadState
    <3>1. up[u] \in UploadState
      BY <1>1
    <3>. QED BY <3>1 DEF UploadState
  <2>2. up' \in [Uploads -> UploadState]
    BY <1>1, <1>3, <2>1 DEF Withdraw
  <2>3. f \in Files
    BY ConstantsOK
  <2>. QED BY <1>3, <2>2, <2>3 DEF Withdraw, TypeOK
<1>4. ASSUME NEW f \in Files, CancelFileOption(f)
      PROVE  TypeOK'
  <2>1. \A u \in Uploads : Disconnect(up[u]) \in UploadState
    BY <1>1, DisconnectType
  <2>. QED BY <1>1, <1>4, <2>1 DEF CancelFileOption, TypeOK
<1>5. CASE ClearAllConnectSocket
  <2>1. \A u \in Uploads : Disconnect(up[u]) \in UploadState
    BY <1>1, DisconnectType
  <2>. QED BY <1>1, <1>5, <2>1 DEF ClearAllConnectSocket, TypeOK
<1>. QED BY <1>2, <1>3, <1>4, <1>5 DEF User

\* Type correctness of the upload objects, the array of live uploads and the
\* withdrawn files, whatever the number of uploads and segments.
THEOREM TypeCorrect == Spec => []TypeOK
<1>1. TypeOK /\ [Next]_vars => TypeOK'
  <2>. SUFFICES ASSUME TypeOK, [Next]_vars
                PROVE  TypeOK'
    OBVIOUS
  <2>1. CASE UNCHANGED vars
    BY <2>1 DEF vars, TypeOK
  <2>. QED BY <2>1, NetworkType, CallbackType, UserType DEF Next
<1>. QED BY InitType, <1>1, PTL DEF Spec
-----------------------------------------------------------------------------
(***************************************************************************)
(* Sequences.  Bodies and Goods are BodyFrames and GoodAnswers as sets of  *)
(* positions of a sequence; what Append and Tail do to them.               *)
(***************************************************************************)
Bodies(w) == {i \in 1..Len(w) : w[i].body}
Goods(b) == {i \in 1..Len(b) : b[i].kind = "answer" /\ b[i].code = 0}

LEMMA Positions ==
  ASSUME NEW r
  PROVE  BodyFrames(r) = Bodies(r.wire) /\ GoodAnswers(r) = Goods(r.inbox)
BY DEF BodyFrames, GoodAnswers, Bodies, Goods

LEMMA BodiesAppend ==
  ASSUME NEW w \in Seq(FrameSet), NEW f \in FrameSet
  PROVE  Bodies(Append(w, f)) =
           Bodies(w) \cup (IF f.body THEN {Len(w) + 1} ELSE {})
<1>1. /\ Len(Append(w, f)) = Len(w) + 1
      /\ Append(w, f)[Len(w) + 1] = f
      /\ \A i \in 1..Len(w) : Append(w, f)[i] = w[i]
  BY AppendProperties
<1>2. Len(w) \in Nat
  BY LenProperties
<1>3. 1..(Len(w) + 1) = 1..Len(w) \cup {Len(w) + 1}
  BY <1>2
<1>4. CASE f.body
  BY <1>1, <1>2, <1>3, <1>4 DEF Bodies
<1>5. CASE ~f.body
  BY <1>1, <1>2, <1>3, <1>5 DEF Bodies
<1>. QED BY <1>4, <1>5

LEMMA GoodsAppend ==
  ASSUME NEW b \in Seq(EventSet), NEW e \in EventSet
  PROVE  Goods(Append(b, e)) =
           Goods(b) \cup (IF e.kind = "answer" /\ e.code = 0
                            THEN {Len(b) + 1} ELSE {})
<1>1. /\ Len(Append(b, e)) = Len(b) + 1
      /\ Append(b, e)[Len(b) + 1] = e
      /\ \A i \in 1..Len(b) : Append(b, e)[i] = b[i]
  BY AppendProperties
<1>2. Len(b) \in Nat
  BY LenProperties
<1>3. 1..(Len(b) + 1) = 1..Len(b) \cup {Len(b) + 1}
  BY <1>2
<1>4. CASE e.kind = "answer" /\ e.code = 0
  BY <1>1, <1>2, <1>3, <1>4 DEF Goods
<1>5. CASE ~(e.kind = "answer" /\ e.code = 0)
  BY <1>1, <1>2, <1>3, <1>5 DEF Goods
<1>. QED BY <1>4, <1>5

LEMMA TailShift ==
  ASSUME NEW S, NEW s \in Seq(S), s # <<>>
  PROVE  /\ Tail(s) \in Seq(S)
         /\ Len(s) \in Nat \ {0}
         /\ Len(Tail(s)) = Len(s) - 1
         /\ Head(s) = s[1]
         /\ \A i \in 1..Len(Tail(s)) : i + 1 \in 1..Len(s) /\ Tail(s)[i] = s[i + 1]
<1>1. Len(s) \in Nat /\ Len(s) # 0
  BY LenProperties, EmptySeq
<1>2. /\ Tail(s) \in Seq(S)
      /\ Len(Tail(s)) = Len(s) - 1
      /\ \A i \in 1..Len(Tail(s)) : Tail(s)[i] = s[i + 1]
  BY HeadTailProperties
<1>. QED BY <1>1, <1>2

LEMMA BodiesTail ==
  ASSUME NEW w \in Seq(FrameSet), w # <<>>
  PROVE  /\ Head(w).body <=> 1 \in Bodies(w)
         /\ \A i \in Bodies(Tail(w)) : i \in Nat \ {0} /\ i + 1 \in Bodies(w)
BY TailShift DEF Bodies

LEMMA GoodsTail ==
  ASSUME NEW b \in Seq(EventSet), b # <<>>
  PROVE  /\ Head(b).kind = "answer" /\ Head(b).code = 0 <=> 1 \in Goods(b)
         /\ \A i \in Goods(Tail(b)) : i \in Nat \ {0} /\ i + 1 \in Goods(b)
BY TailShift DEF Goods

(***************************************************************************)
(* The invariant reads only these parts of an upload.                      *)
(***************************************************************************)
SameTransfer(r, q) ==
  /\ q.conn = r.conn
  /\ q.cur = r.cur
  /\ q.finish = r.finish
  /\ q.wire = r.wire
  /\ q.inbox = r.inbox
  /\ q.stored = r.stored
  /\ q.posted = r.posted

LEMMA SameTransferInv ==
  ASSUME NEW r, NEW q, NEW n, SameTransfer(r, q), UploadInv(r, n)
  PROVE  UploadInv(q, n)
<1>1. /\ BodyFrames(q) = BodyFrames(r)
      /\ GoodAnswers(q) = GoodAnswers(r)
  BY DEF SameTransfer, BodyFrames, GoodAnswers
<1>2. TokenInv(q) /\ SegmentInv(q, n)
  BY <1>1 DEF SameTransfer, UploadInv, TokenInv, SegmentInv, NoToken
<1>3. Unsent(q) <=> Unsent(r)
  BY <1>1 DEF SameTransfer, Unsent, NoToken
<1>4. ChannelInv(q) /\ PostedInv(q)
  BY <1>3 DEF SameTransfer, UploadInv, ChannelInv, PostedInv
<1>. QED BY <1>2, <1>4 DEF UploadInv

LEMMA DisconnectInv ==
  ASSUME NEW r \in UploadState, NEW n, UploadInv(r, n)
  PROVE  UploadInv(Disconnect(r), n)
<1>1. CASE r.conn # "open"
  BY <1>1 DEF Disconnect
<1>2. CASE r.conn = "open"
  <2>. DEFINE q == [r EXCEPT !.conn = "closing"]
  <2>1. q \in UploadState /\ Disconnect(r) = q
    BY <1>2 DEF UploadState, Disconnect
  <2>2. /\ q.conn = "closing" /\ q.cur = r.cur /\ q.finish = r.finish
        /\ q.wire = r.wire /\ q.inbox = r.inbox /\ q.stored = r.stored
        /\ q.posted = r.posted
    BY DEF UploadState
  <2>. HIDE DEF q
  <2>3. /\ BodyFrames(q) = BodyFrames(r)
        /\ GoodAnswers(q) = GoodAnswers(r)
    BY <2>2 DEF BodyFrames, GoodAnswers
  <2>4. TokenInv(q) /\ SegmentInv(q, n)
    BY <2>2, <2>3 DEF UploadInv, TokenInv, SegmentInv, NoToken
  <2>5. Unsent(q) <=> Unsent(r)
    BY <2>2, <2>3 DEF Unsent, NoToken
  <2>6. ChannelInv(q) /\ PostedInv(q)
    BY <1>2, <2>2, <2>5 DEF UploadInv, ChannelInv, PostedInv
  <2>. QED BY <2>1, <2>4, <2>6 DEF UploadInv
<1>. QED BY <1>1, <1>2

(***************************************************************************)
(* The sending operators.  A frame without its segment is no token; a      *)
(* frame with it may be sent only when there is no token.                  *)
(***************************************************************************)
LEMMA SendFields ==
  ASSUME NEW r \in UploadState, NEW f \in FrameSet
  PROVE  LET q == SendFileData(r, f) IN
           /\ q.conn = r.conn /\ q.cur = r.cur /\ q.finish = r.finish
           /\ q.inbox = r.inbox /\ q.stored = r.stored /\ q.posted = r.posted
           /\ q.wire = IF r.conn = "open" THEN Append(r.wire, f) ELSE r.wire
BY DEF SendFileData, UploadState

LEMMA ResendInv ==
  ASSUME NEW r \in UploadState, NEW n, UploadInv(r, n)
  PROVE  UploadInv(Resend(r), n)
<1>1. CASE ~IsConnected(r)
  BY <1>1 DEF Resend
<1>2. CASE IsConnected(r)
  <2>. DEFINE f == Frame(r.cur, FALSE)
              q == SendFileData(r, f)
  <2>1. f \in FrameSet /\ f.body = FALSE
    BY DEF Frame, FrameSet, UploadState
  <2>2. /\ q.conn = r.conn /\ q.cur = r.cur /\ q.finish = r.finish
        /\ q.inbox = r.inbox /\ q.stored = r.stored /\ q.posted = r.posted
        /\ q.wire = IF r.conn = "open" THEN Append(r.wire, f) ELSE r.wire
    BY <2>1, SendFields
  <2>3. r.wire \in Seq(FrameSet)
    BY DEF UploadState, FrameSet
  <2>4. Resend(r) = q
    BY <1>2 DEF Resend
  <2>. HIDE DEF q, f
  <2>5. BodyFrames(q) = BodyFrames(r)
    <3>1. Bodies(Append(r.wire, f)) = Bodies(r.wire)
      BY <2>1, <2>3, BodiesAppend
    <3>. QED BY <2>2, <3>1, Positions
  <2>6. \A i \in BodyFrames(q) : q.wire[i] = r.wire[i]
    <3>1. ASSUME NEW i \in 1..Len(r.wire)
          PROVE  Append(r.wire, f)[i] = r.wire[i]
      BY <2>1, <2>3, AppendProperties
    <3>. QED BY <2>2, <2>5, <3>1 DEF BodyFrames
  <2>7. GoodAnswers(q) = GoodAnswers(r)
    BY <2>2 DEF GoodAnswers
  <2>8. TokenInv(q) /\ SegmentInv(q, n)
    BY <2>2, <2>5, <2>6, <2>7 DEF UploadInv, TokenInv, SegmentInv, NoToken
  <2>9. Unsent(q) <=> Unsent(r)
    BY <2>2, <2>5, <2>7 DEF Unsent, NoToken
  <2>10. ChannelInv(q) /\ PostedInv(q)
    BY <1>2, <2>2, <2>9 DEF UploadInv, ChannelInv, PostedInv, IsConnected
  <2>. QED BY <2>4, <2>8, <2>10 DEF UploadInv
<1>. QED BY <1>1, <1>2

\* What holds of an upload that has the right to send the segment r.cur.
MaySend(r, n) ==
  /\ NoToken(r)
  /\ ~r.finish
  /\ r.cur \in 1..n
  /\ 1..(r.cur - 1) \subseteq r.stored
  /\ r.stored \subseteq 1..r.cur
  /\ r.conn \in {"open", "closing", "lost"}
  /\ r.conn = "lost" => r.wire = <<>>
  /\ \A i \in 1..Len(r.inbox) :
       /\ r.inbox[i].kind # "connect"
       /\ r.inbox[i].kind = "disconnect" => i = Len(r.inbox) /\ r.conn = "lost"
  /\ r.posted = <<>>

LEMMA SendSegmentInv ==
  ASSUME NEW r \in UploadState, NEW n, MaySend(r, n)
  PROVE  UploadInv(SendFileData(r, Frame(r.cur, TRUE)), n)
<1>. DEFINE f == Frame(r.cur, TRUE)
            q == SendFileData(r, f)
<1>1. f \in FrameSet /\ f.body = TRUE /\ f.seq = r.cur
  BY DEF Frame, FrameSet, UploadState
<1>2. /\ q.conn = r.conn /\ q.cur = r.cur /\ q.finish = r.finish
      /\ q.inbox = r.inbox /\ q.stored = r.stored /\ q.posted = r.posted
      /\ q.wire = IF r.conn = "open" THEN Append(r.wire, f) ELSE r.wire
  BY <1>1, SendFields
<1>3. r.wire \in Seq(FrameSet)
  BY DEF UploadState, FrameSet
<1>. HIDE DEF q, f
<1>4. GoodAnswers(q) = {}
  BY <1>2 DEF GoodAnswers, MaySend, NoToken
<1>5. BodyFrames(q) \subseteq {Len(r.wire) + 1}
  <2>1. Bodies(Append(r.wire, f)) = Bodies(r.wire) \cup {Len(r.wire) + 1}
    BY <1>1, <1>3, BodiesAppend
  <2>2. Bodies(r.wire) = {}
    BY Positions DEF MaySend, NoToken
  <2>. QED BY <1>2, <2>1, <2>2, Positions
<1>6. \A i \in BodyFrames(q) : q.wire[i].seq = q.cur
  <2>. SUFFICES ASSUME NEW i \in BodyFrames(q)
                PROVE  q.wire[i].seq = q.cur
    OBVIOUS
  <2>1. r.conn = "open"
    BY <1>2 DEF MaySend, NoToken, BodyFrames
  <2>2. Append(r.wire, f)[Len(r.wire) + 1] = f
    BY <1>1, <1>3, AppendProperties
  <2>. QED BY <1>1, <1>2, <1>5, <2>1, <2>2
<1>7. TokenInv(q)
  BY <1>4, <1>5, <1>6 DEF TokenInv
<1>8. SegmentInv(q, n)
  BY <1>2 DEF SegmentInv, MaySend
<1>9. ChannelInv(q)
  BY <1>2 DEF ChannelInv, MaySend
<1>10. PostedInv(q)
  BY <1>2 DEF PostedInv, MaySend
<1>. QED BY <1>7, <1>8, <1>9, <1>10 DEF UploadInv, q, f

\* An answer 0 to the last segment: the upload is finished and reports 0.
LEMMA FinishInv ==
  ASSUME NEW r \in UploadState, NEW n, MaySend(r, n), r.cur = n, r.cur \in r.stored,
         r.code = 0
  PROVE  UploadInv(Finish(r), n)
<1>. DEFINE d == Disconnect(r)
            q == Finish(r)
<1>1. d \in UploadState
  BY DisconnectType
<1>2. /\ d.conn = IF r.conn = "open" THEN "closing" ELSE r.conn
      /\ d.cur = r.cur /\ d.wire = r.wire /\ d.inbox = r.inbox
      /\ d.stored = r.stored /\ d.posted = r.posted
  BY DEF Disconnect, UploadState
<1>3. /\ q.conn = d.conn /\ q.cur = d.cur /\ q.wire = d.wire
      /\ q.inbox = d.inbox /\ q.stored = d.stored
      /\ q.finish = TRUE /\ q.posted = Append(d.posted, r.code)
  BY <1>1 DEF Finish, UploadState
<1>. HIDE DEF d, q
<1>4. NoToken(q)
  BY <1>2, <1>3 DEF MaySend, NoToken, BodyFrames, GoodAnswers
<1>5. TokenInv(q)
  BY <1>4 DEF TokenInv, NoToken
<1>6. q.stored = 1..n /\ q.cur = n /\ n \in Nat
  <2>1. r.cur \in Nat
    BY DEF UploadState
  <2>2. r.stored = 1..r.cur
    <3>1. 1..r.cur \subseteq 1..(r.cur - 1) \cup {r.cur}
      BY <2>1
    <3>. QED BY <3>1 DEF MaySend
  <2>. QED BY <1>2, <1>3, <2>1, <2>2
<1>7. SegmentInv(q, n)
  <2>1. 1..(n - 1) \subseteq 1..n /\ n \in 1..n
    BY <1>6, <1>2, <1>3 DEF MaySend
  <2>. QED BY <1>3, <1>4, <1>6, <2>1 DEF SegmentInv
<1>8. ChannelInv(q)
  BY <1>2, <1>3 DEF ChannelInv, MaySend
<1>9. PostedInv(q)
  <2>1. q.posted = <<0>>
    BY <1>2, <1>3 DEF MaySend
  <2>2. Len(q.posted) <= 1
    BY <2>1
  <2>3. q.finish <=> q.posted = <<0>>
    BY <1>3, <2>1
  <2>4. ~(~q.finish /\ q.conn # "closed")
    BY <1>3
  <2>. QED BY <2>2, <2>3, <2>4 DEF PostedInv
<1>. QED BY <1>5, <1>7, <1>8, <1>9 DEF UploadInv, q

(***************************************************************************)
(* Taking the first event of the inbox, and what each kind of event tells  *)
(* about the upload that takes it.                                         *)
(***************************************************************************)
TakenOf(r) == [r EXCEPT !.inbox = Tail(@)]

LEMMA TakeInv ==
  ASSUME NEW r \in UploadState, NEW n, UploadInv(r, n), r.inbox # <<>>
  PROVE  LET t == TakenOf(r)
             m == Head(r.inbox)
         IN  /\ t \in UploadState
             /\ m \in EventSet
             /\ UploadInv(t, n)
             /\ m.kind = "connect" => MaySend(t, n) /\ t.cur = 1
             /\ m.kind = "answer" /\ m.code = 0 =>
                  MaySend(t, n) /\ m.seq = t.cur /\ t.cur \in t.stored
             /\ m.kind = "disconnect" =>
                  t.inbox = <<>> /\ t.wire = <<>> /\ (~t.finish => t.posted = <<>>)
<1>. DEFINE t == TakenOf(r)
            m == Head(r.inbox)
<1>1. r.inbox \in Seq(EventSet)
  BY DEF UploadState, EventSet
<1>2. /\ t.inbox \in Seq(EventSet)
      /\ Len(r.inbox) \in Nat \ {0}
      /\ Len(t.inbox) = Len(r.inbox) - 1
      /\ m = r.inbox[1]
      /\ m \in EventSet
      /\ \A i \in 1..Len(t.inbox) :
           i + 1 \in 1..Len(r.inbox) /\ t.inbox[i] = r.inbox[i + 1]
  <2>1. t.inbox = Tail(r.inbox)
    BY DEF TakenOf, UploadState
  <2>2. m \in EventSet
    BY <1>1, HeadTailProperties
  <2>. QED BY <1>1, <2>1, <2>2, TailShift
<1>3. /\ t.conn = r.conn /\ t.cur = r.cur /\ t.finish = r.finish
      /\ t.wire = r.wire /\ t.stored = r.stored /\ t.posted = r.posted
  BY DEF TakenOf, UploadState
<1>4. t \in UploadState
  <2>1. t.inbox = Tail(r.inbox)
    BY DEF TakenOf, UploadState
  <2>. QED BY <1>2, <2>1 DEF TakenOf, UploadState, EventSet
<1>5. BodyFrames(t) = BodyFrames(r)
  BY <1>3 DEF BodyFrames
<1>6. \A i \in GoodAnswers(t) :
        /\ i \in Nat \ {0} /\ i + 1 \in GoodAnswers(r)
        /\ t.inbox[i] = r.inbox[i + 1]
  BY <1>2 DEF GoodAnswers
<1>. HIDE DEF t, m
<1>7. TokenInv(t)
  <2>1. \A i \in GoodAnswers(t) : t.inbox[i].seq = t.cur /\ t.cur \in t.stored
    BY <1>3, <1>6 DEF UploadInv, TokenInv
  <2>2. \A i, j \in GoodAnswers(t) : i = j
    <3>. SUFFICES ASSUME NEW i \in GoodAnswers(t), NEW j \in GoodAnswers(t)
                  PROVE  i = j
      OBVIOUS
    <3>1. i + 1 = j + 1
      BY <1>6 DEF UploadInv, TokenInv
    <3>. QED BY <1>6, <3>1
  <2>3. BodyFrames(t) = {} \/ GoodAnswers(t) = {}
    BY <1>5, <1>6 DEF UploadInv, TokenInv
  <2>. QED BY <1>3, <1>5, <2>1, <2>2, <2>3 DEF UploadInv, TokenInv
<1>8. NoToken(r) => NoToken(t)
  BY <1>5, <1>6 DEF NoToken
<1>9. SegmentInv(t, n)
  BY <1>3, <1>8 DEF UploadInv, SegmentInv
<1>10. Unsent(r) => Unsent(t)
  BY <1>3, <1>8 DEF Unsent
<1>11. r.conn \in {"open", "closing", "lost"}
  BY DEF UploadInv, ChannelInv, UploadState
<1>12. \A i \in 1..Len(t.inbox) :
         /\ t.inbox[i].kind # "connect"
         /\ t.inbox[i].kind = "disconnect" => i = Len(t.inbox) /\ t.conn = "lost"
  <2>. SUFFICES ASSUME NEW i \in 1..Len(t.inbox)
                PROVE  /\ t.inbox[i].kind # "connect"
                       /\ t.inbox[i].kind = "disconnect" =>
                            i = Len(t.inbox) /\ t.conn = "lost"
    OBVIOUS
  <2>1. i + 1 \in 1..Len(r.inbox) /\ t.inbox[i] = r.inbox[i + 1]
    BY <1>2
  <2>2. /\ r.inbox[i + 1].kind = "connect" => i + 1 = 1
        /\ r.inbox[i + 1].kind = "disconnect" =>
             i + 1 = Len(r.inbox) /\ r.conn = "lost"
    BY <2>1 DEF UploadInv, ChannelInv
  <2>. QED BY <1>2, <1>3, <2>1, <2>2
<1>13. ChannelInv(t)
  BY <1>3, <1>11, <1>12 DEF UploadInv, ChannelInv
<1>14. PostedInv(t)
  BY <1>3 DEF UploadInv, PostedInv
<1>15. UploadInv(t, n)
  BY <1>7, <1>9, <1>13, <1>14 DEF UploadInv
<1>16. NoToken(t) /\ ~t.finish => MaySend(t, n)
  BY <1>3, <1>9, <1>11, <1>12, <1>13, <1>14
     DEF MaySend, SegmentInv, ChannelInv, PostedInv
<1>17. m.kind = "connect" => MaySend(t, n) /\ t.cur = 1
  <2>1. m.kind = "connect" => Unsent(r)
    BY <1>2 DEF UploadInv, ChannelInv
  <2>. QED BY <1>10, <1>16, <2>1 DEF Unsent
<1>18. ASSUME m.kind = "answer", m.code = 0
       PROVE  MaySend(t, n) /\ m.seq = t.cur /\ t.cur \in t.stored
  <2>1. 1 \in GoodAnswers(r)
    BY <1>2, <1>18 DEF GoodAnswers
  <2>2. m.seq = t.cur /\ t.cur \in t.stored
    BY <1>2, <1>3, <2>1 DEF UploadInv, TokenInv
  <2>3. GoodAnswers(t) = {}
    <3>. SUFFICES ASSUME NEW i \in GoodAnswers(t) PROVE FALSE
      OBVIOUS
    <3>1. i + 1 = 1 /\ i \in Nat \ {0}
      BY <1>6, <2>1 DEF UploadInv, TokenInv
    <3>. QED BY <3>1
  <2>4. NoToken(t)
    BY <1>5, <2>1, <2>3 DEF UploadInv, TokenInv, NoToken
  <2>5. ~t.finish
    BY <1>3, <2>1 DEF UploadInv, SegmentInv, NoToken
  <2>. QED BY <1>16, <2>2, <2>4, <2>5
<1>19. ASSUME m.kind = "disconnect"
       PROVE  t.inbox = <<>> /\ t.wire = <<>> /\ (~t.finish => t.posted = <<>>)
  <2>1. 1 = Len(r.inbox) /\ r.conn = "lost"
    <3>1. 1 \in 1..Len(r.inbox) /\ r.inbox[1].kind = "disconnect"
      BY <1>2, <1>19
    <3>. QED BY <3>1 DEF UploadInv, ChannelInv
  <2>2. t.inbox = <<>>
    <3>1. Len(t.inbox) = 0
      BY <1>2, <2>1
    <3>. QED BY <1>2, <3>1
  <2>. QED BY <1>3, <1>13, <1>14, <2>1, <2>2 DEF ChannelInv, PostedInv
<1>. QED BY <1>2, <1>4, <1>15, <1>17, <1>18, <1>19 DEF t, m

(***************************************************************************)
(* One lemma per callback and per network step, on the record it changes.  *)
(***************************************************************************)
LEMMA ReceiveInv ==
  ASSUME NEW r0 \in UploadState, NEW n \in Nat \ {0}, UploadInv(r0, n),
         r0.inbox # <<>>, Head(r0.inbox).kind = "answer"
  PROVE  UploadInv(ReceiveFileData(TakenOf(r0), Head(r0.inbox), n), n)
<1>. DEFINE t == TakenOf(r0)
            m == Head(r0.inbox)
            r == [t EXCEPT !.complete = TRUE, !.waiting = FALSE, !.code = m.code]
            d == [r EXCEPT !.deleted = @ \/ r.cur = n]
<1>1. t \in UploadState /\ m \in EventSet /\ UploadInv(t, n)
  BY TakeInv
<1>2. m.code = 0 => MaySend(t, n) /\ m.seq = t.cur /\ t.cur \in t.stored
  BY TakeInv
<1>. HIDE DEF t, m
<1>3. r \in UploadState /\ SameTransfer(t, r) /\ r.code = m.code
      /\ r.cancel \in BOOLEAN
  BY <1>1 DEF UploadState, EventSet, SameTransfer
<1>4. UploadInv(r, n)
  BY <1>1, <1>3, SameTransferInv
<1>5. d \in UploadState /\ SameTransfer(r, d)
  <2>1. (r.deleted \/ r.cur = n) \in BOOLEAN
    OBVIOUS
  <2>. HIDE DEF r
  <2>. QED BY <1>3, <2>1 DEF UploadState, SameTransfer
<1>6. ReceiveFileData(t, m, n) =
        CASE r.cancel -> Disconnect(d)
          [] ~r.cancel /\ m.code = 0 -> SendNext(r, m.seq, n)
          [] ~r.cancel /\ m.code = 5 -> Disconnect(r)
          [] ~r.cancel /\ m.code \notin {0, 5} -> Resend(r)
  BY DEF ReceiveFileData
<1>. HIDE DEF r, d
<1>7. CASE r.cancel
  <2>1. UploadInv(Disconnect(d), n)
    BY <1>4, <1>5, SameTransferInv, DisconnectInv
  <2>. QED BY <1>6, <1>7, <2>1 DEF t, m
<1>8. CASE ~r.cancel /\ m.code = 5
  BY <1>3, <1>4, <1>6, <1>8, DisconnectInv DEF t, m
<1>9. CASE ~r.cancel /\ m.code \notin {0, 5}
  BY <1>3, <1>4, <1>6, <1>9, ResendInv DEF t, m
<1>10. CASE ~r.cancel /\ m.code = 0
  <2>1. m.seq = r.cur /\ r.cur \in r.stored /\ r.code = 0
    BY <1>2, <1>3, <1>10 DEF SameTransfer
  <2>2. BodyFrames(r) = BodyFrames(t) /\ GoodAnswers(r) = GoodAnswers(t)
    BY <1>3 DEF SameTransfer, BodyFrames, GoodAnswers
  <2>3. MaySend(r, n)
    BY <1>2, <1>3, <1>10, <2>2 DEF SameTransfer, MaySend, NoToken
  <2>4. UploadInv(SendNext(r, m.seq, n), n)
    <3>1. CASE r.cur = n
      BY <1>3, <2>1, <2>3, <3>1, FinishInv DEF SendNext
    <3>2. CASE r.cur # n /\ ~IsConnected(r)
      BY <1>4, <3>2 DEF SendNext
    <3>3. CASE r.cur # n /\ IsConnected(r)
      <4>. DEFINE q == [r EXCEPT !.cur = m.seq + 1]
      <4>1. q \in UploadState /\ r.cur \in Nat
        <5>1. r.cur \in Nat
          BY <1>3 DEF UploadState
        <5>2. m.seq + 1 \in Nat
          BY <2>1, <5>1
        <5>. QED BY <1>3, <5>1, <5>2 DEF UploadState
      <4>2. /\ q.cur = r.cur + 1 /\ q.conn = r.conn /\ q.finish = r.finish
            /\ q.wire = r.wire /\ q.inbox = r.inbox /\ q.stored = r.stored
            /\ q.posted = r.posted
        <5>1. /\ q.cur = m.seq + 1 /\ q.conn = r.conn /\ q.finish = r.finish
              /\ q.wire = r.wire /\ q.inbox = r.inbox /\ q.stored = r.stored
              /\ q.posted = r.posted
          BY <1>3 DEF UploadState
        <5>. HIDE DEF q
        <5>. QED BY <2>1, <5>1
      <4>. HIDE DEF q
      <4>3. NoToken(q)
        BY <2>3, <4>2 DEF MaySend, NoToken, BodyFrames, GoodAnswers
      <4>4. q.cur \in 1..n
        <5>1. r.cur \in 1..n
          BY <2>3 DEF MaySend
        <5>. QED BY <3>3, <4>2, <5>1
      <4>5. 1..(q.cur - 1) \subseteq q.stored /\ q.stored \subseteq 1..q.cur
        <5>1. /\ 1..(q.cur - 1) \subseteq 1..(r.cur - 1) \cup {r.cur}
              /\ 1..r.cur \subseteq 1..q.cur
          BY <4>1, <4>2
        <5>2. 1..(r.cur - 1) \subseteq r.stored /\ r.stored \subseteq 1..r.cur
          BY <2>3 DEF MaySend
        <5>. QED BY <2>1, <4>2, <5>1, <5>2
      <4>6. MaySend(q, n)
        BY <2>3, <4>2, <4>3, <4>4, <4>5 DEF MaySend
      <4>7. SendNext(r, m.seq, n) = SendFileData(q, Frame(q.cur, TRUE))
        BY <2>1, <3>3, <4>2 DEF SendNext, q
      <4>. QED BY <4>1, <4>6, <4>7, SendSegmentInv
    <3>. QED BY <3>1, <3>2, <3>3
  <2>. QED BY <1>6, <1>10, <2>4 DEF t, m
<1>. QED BY <1>3, <1>7, <1>8, <1>9, <1>10

LEMMA ResendFileInv ==
  ASSUME NEW r \in UploadState, NEW n, UploadInv(r, n)
  PROVE  UploadInv(ResendFile([r EXCEPT !.timer = FALSE]), n)
<1>. DEFINE q == [r EXCEPT !.timer = FALSE]
<1>1. q \in UploadState /\ SameTransfer(r, q)
  BY DEF UploadState, SameTransfer
<1>2. UploadInv(q, n)
  BY <1>1, SameTransferInv
<1>3. q.cancel \in BOOLEAN /\ q.waiting \in BOOLEAN
  BY <1>1 DEF UploadState
<1>. HIDE DEF q
<1>4. UploadInv(ResendFile(q), n)
  BY <1>1, <1>2, <1>3, DisconnectInv, ResendInv DEF ResendFile
<1>. QED BY <1>4 DEF q

LEMMA ClosedInv ==
  ASSUME NEW r \in UploadState, NEW n, UploadInv(r, n),
         r.inbox # <<>>, Head(r.inbox).kind = "disconnect"
  PROVE  LET t == [TakenOf(r) EXCEPT !.conn = "closed"]
             c == LostCode(t)
         IN  /\ UploadInv(t, n)
             /\ ~t.finish =>
                  UploadInv([t EXCEPT !.code = c, !.posted = Append(@, c)], n)
<1>. DEFINE k == TakenOf(r)
            t == [k EXCEPT !.conn = "closed"]
            c == LostCode(t)
            q == [t EXCEPT !.code = c, !.posted = Append(@, c)]
<1>1. /\ k \in UploadState /\ UploadInv(k, n)
      /\ k.inbox = <<>> /\ k.wire = <<>> /\ (~k.finish => k.posted = <<>>)
  BY TakeInv
<1>. HIDE DEF k
<1>2. /\ t.conn = "closed" /\ t.cur = k.cur /\ t.finish = k.finish
      /\ t.wire = k.wire /\ t.inbox = k.inbox /\ t.stored = k.stored
      /\ t.posted = k.posted
  BY <1>1 DEF UploadState
<1>3. /\ q.conn = t.conn /\ q.cur = t.cur /\ q.finish = t.finish
      /\ q.wire = t.wire /\ q.inbox = t.inbox /\ q.stored = t.stored
      /\ q.posted = Append(t.posted, c)
  BY <1>1 DEF UploadState
<1>4. c # 0
  BY DEF LostCode
<1>. HIDE DEF t, q, c
<1>5. ASSUME NEW x, x.conn = "closed", x.cur = k.cur, x.finish = k.finish,
             x.wire = <<>>, x.inbox = <<>>, x.stored = k.stored
      PROVE  TokenInv(x) /\ SegmentInv(x, n) /\ ChannelInv(x)
  <2>1. BodyFrames(x) = {} /\ GoodAnswers(x) = {}
    BY <1>5 DEF BodyFrames, GoodAnswers
  <2>. QED BY <1>1, <1>5, <2>1
           DEF UploadInv, TokenInv, SegmentInv, ChannelInv, NoToken
<1>6. UploadInv(t, n)
  <2>1. PostedInv(t)
    BY <1>1, <1>2 DEF UploadInv, PostedInv
  <2>. QED BY <1>1, <1>2, <1>5, <2>1 DEF UploadInv
<1>7. ASSUME ~t.finish
      PROVE  UploadInv(q, n)
  <2>1. q.posted = <<c>>
    <3>1. t.posted = <<>>
      BY <1>1, <1>2, <1>7
    <3>. QED BY <1>3, <3>1
  <2>2. Len(q.posted) <= 1 /\ q.posted # <<0>>
    BY <1>4, <2>1
  <2>3. PostedInv(q)
    BY <1>2, <1>3, <1>7, <2>2 DEF PostedInv
  <2>. QED BY <1>1, <1>2, <1>3, <1>5, <2>3 DEF UploadInv
<1>. QED BY <1>6, <1>7 DEF t, q, c, k

LEMMA ConnectInv ==
  ASSUME NEW r \in UploadState, NEW n, UploadInv(r, n), r.conn = "connecting"
  PROVE  UploadInv([r EXCEPT !.conn = "open", !.inbox = <<OnConnectEvent>>], n)
<1>. DEFINE q == [r EXCEPT !.conn = "open", !.inbox = <<OnConnectEvent>>]
<1>1. /\ q.conn = "open" /\ q.cur = r.cur /\ q.finish = r.finish
      /\ q.wire = r.wire /\ q.inbox = <<OnConnectEvent>>
      /\ q.stored = r.stored /\ q.posted = r.posted
  BY DEF UploadState
<1>. HIDE DEF q
<1>2. Len(q.inbox) = 1 /\ q.inbox[1] = OnConnectEvent
  BY <1>1
<1>3. OnConnectEvent.kind = "connect"
  BY DEF OnConnectEvent
<1>4. BodyFrames(q) = BodyFrames(r) /\ GoodAnswers(q) = {}
  <2>1. GoodAnswers(q) = {}
    BY <1>2, <1>3 DEF GoodAnswers
  <2>. QED BY <1>1, <2>1 DEF BodyFrames
<1>5. r.inbox = <<>> /\ Unsent(r)
  BY DEF UploadInv, ChannelInv
<1>6. Unsent(q)
  BY <1>1, <1>4, <1>5 DEF Unsent, NoToken
<1>7. TokenInv(q)
  BY <1>6 DEF TokenInv, Unsent, NoToken
<1>8. SegmentInv(q, n)
  BY <1>1, <1>6 DEF UploadInv, SegmentInv, Unsent
<1>9. ChannelInv(q)
  BY <1>1, <1>2, <1>3, <1>6 DEF ChannelInv
<1>10. PostedInv(q)
  BY <1>1 DEF UploadInv, PostedInv
<1>. QED BY <1>7, <1>8, <1>9, <1>10 DEF UploadInv, q

LEMMA LoseInv ==
  ASSUME NEW r \in UploadState, NEW n, UploadInv(r, n),
         r.conn \in {"connecting", "open", "closing"},
         NEW k \in 0..Len(r.inbox)
  PROVE  UploadInv([r EXCEPT !.conn = "lost", !.wire = <<>>,
                      !.inbox = Append(SubSeq(@, 1, k), OnDisconnectEvent)], n)
<1>. DEFINE e == OnDisconnectEvent
            b == SubSeq(r.inbox, 1, k)
            q == [r EXCEPT !.conn = "lost", !.wire = <<>>, !.inbox = Append(b, e)]
<1>1. r.inbox \in Seq(EventSet) /\ Len(r.inbox) \in Nat
  BY DEF UploadState, EventSet
<1>2. /\ b \in Seq(EventSet) /\ Len(b) = k /\ k \in Nat
      /\ \A i \in 1..k : i \in 1..Len(r.inbox) /\ b[i] = r.inbox[i]
  BY <1>1, SubSeqProperties
<1>3. e \in EventSet /\ e.kind = "disconnect"
  BY DEF OnDisconnectEvent, EventSet, Codes
<1>4. /\ q.conn = "lost" /\ q.cur = r.cur /\ q.finish = r.finish
      /\ q.wire = <<>> /\ q.inbox = Append(b, e)
      /\ q.stored = r.stored /\ q.posted = r.posted
  BY DEF UploadState
<1>5. UploadInv([r EXCEPT !.conn = "lost", !.wire = <<>>,
                   !.inbox = Append(SubSeq(@, 1, k), OnDisconnectEvent)], n)
        <=> UploadInv(q, n)
  OBVIOUS
<1>. HIDE DEF q, b, e
<1>6. /\ Len(q.inbox) = k + 1
      /\ q.inbox[k + 1] = e
      /\ \A i \in 1..k : i \in 1..Len(r.inbox) /\ q.inbox[i] = r.inbox[i]
  BY <1>2, <1>3, <1>4, AppendProperties
<1>7. \A i \in 1..Len(q.inbox) : i \in 1..k \/ i = k + 1
  BY <1>2, <1>6
<1>8. BodyFrames(q) = {}
  BY <1>4 DEF BodyFrames
<1>9. \A i \in GoodAnswers(q) : i \in GoodAnswers(r) /\ q.inbox[i] = r.inbox[i]
  BY <1>3, <1>6, <1>7 DEF GoodAnswers
<1>10. TokenInv(q)
  BY <1>4, <1>8, <1>9 DEF UploadInv, TokenInv
<1>11. NoToken(r) => NoToken(q)
  BY <1>8, <1>9 DEF NoToken
<1>12. SegmentInv(q, n)
  BY <1>4, <1>11 DEF UploadInv, SegmentInv
<1>13. Unsent(r) => Unsent(q)
  BY <1>4, <1>11 DEF Unsent
<1>14. ASSUME NEW i \in 1..Len(q.inbox)
       PROVE  /\ q.inbox[i].kind = "connect" => i = 1 /\ Unsent(q)
              /\ q.inbox[i].kind = "disconnect" => i = Len(q.inbox)
  <2>1. CASE i = k + 1
    BY <1>3, <1>6, <2>1
  <2>2. CASE i \in 1..k
    BY <1>6, <1>13, <2>2 DEF UploadInv, ChannelInv
  <2>. QED BY <1>7, <2>1, <2>2
<1>15. ChannelInv(q)
  BY <1>4, <1>14 DEF ChannelInv
<1>16. PostedInv(q)
  BY <1>4 DEF UploadInv, PostedInv
<1>. QED BY <1>5, <1>10, <1>12, <1>15, <1>16 DEF UploadInv

LEMMA ClosesInv ==
  ASSUME NEW r \in UploadState, NEW n, UploadInv(r, n),
         r.conn = "closing", r.wire = <<>>
  PROVE  UploadInv([r EXCEPT !.conn = "lost",
                      !.inbox = Append(@, OnDisconnectEvent)], n)
<1>1. r.inbox \in Seq(EventSet) /\ Len(r.inbox) \in 0..Len(r.inbox)
  BY DEF UploadState, EventSet
<1>2. SubSeq(r.inbox, 1, Len(r.inbox)) = r.inbox
  BY <1>1, SubSeqFull
<1>3. UploadInv([r EXCEPT !.conn = "lost", !.wire = <<>>,
           !.inbox = Append(SubSeq(@, 1, Len(r.inbox)), OnDisconnectEvent)], n)
  BY <1>1, LoseInv
<1>4. [r EXCEPT !.conn = "lost", !.wire = <<>>,
         !.inbox = Append(SubSeq(@, 1, Len(r.inbox)), OnDisconnectEvent)]
        = [r EXCEPT !.conn = "lost", !.inbox = Append(@, OnDisconnectEvent)]
  BY <1>2 DEF UploadState
<1>. QED BY <1>3, <1>4

\* The router takes the head of the wire: a segment it accepts becomes a good
\* answer, so the token moves and is not doubled.
LEMMA AnswerInv ==
  ASSUME NEW r \in UploadState, NEW n, UploadInv(r, n), r.wire # <<>>,
         NEW c \in Codes, ~Head(r.wire).body => c # 0
  PROVE  LET f == Head(r.wire) IN
         UploadInv([r EXCEPT !.wire = Tail(@),
                      !.stored = IF f.body /\ c = 0 THEN @ \cup {f.seq} ELSE @,
                      !.inbox = Append(@, Answer(f.seq, c))], n)
<1>. DEFINE f == Head(r.wire)
            a == Answer(f.seq, c)
            S == IF f.body /\ c = 0 THEN r.stored \cup {f.seq} ELSE r.stored
            q == [r EXCEPT !.wire = Tail(@), !.stored = S, !.inbox = Append(@, a)]
<1>1. r.wire \in Seq(FrameSet) /\ r.inbox \in Seq(EventSet)
  BY DEF UploadState, FrameSet, EventSet
<1>2. f \in FrameSet
  BY <1>1, HeadTailProperties
<1>3. a \in EventSet /\ a.kind = "answer" /\ a.seq = f.seq /\ a.code = c
  BY <1>2 DEF Answer, EventSet, FrameSet
<1>4. /\ q.conn = r.conn /\ q.cur = r.cur /\ q.finish = r.finish
      /\ q.wire = Tail(r.wire) /\ q.inbox = Append(r.inbox, a)
      /\ q.stored = S /\ q.posted = r.posted
  BY DEF UploadState
<1>6. /\ f.body <=> 1 \in BodyFrames(r)
      /\ \A i \in Bodies(Tail(r.wire)) :
           i \in Nat \ {0} /\ i + 1 \in BodyFrames(r)
      /\ f = r.wire[1]
  BY <1>1, BodiesTail, Positions, TailShift
<1>7. Goods(Append(r.inbox, a)) =
        GoodAnswers(r) \cup (IF c = 0 THEN {Len(r.inbox) + 1} ELSE {})
  BY <1>1, <1>3, GoodsAppend, Positions
<1>8. S = IF f.body /\ c = 0 THEN r.stored \cup {f.seq} ELSE r.stored
  OBVIOUS
<1>9. ~f.body => c # 0
  OBVIOUS
<1>. HIDE DEF q, a, f, S
<1>10. /\ Len(q.inbox) = Len(r.inbox) + 1
       /\ Len(r.inbox) \in Nat
       /\ q.inbox[Len(r.inbox) + 1] = a
       /\ \A i \in 1..Len(r.inbox) : q.inbox[i] = r.inbox[i]
  BY <1>1, <1>3, <1>4, AppendProperties, LenProperties
<1>11. \A i \in 1..Len(q.inbox) : i \in 1..Len(r.inbox) \/ i = Len(r.inbox) + 1
  BY <1>10
<1>12. /\ r.conn \in {"open", "closing"}
       /\ \A i \in 1..Len(r.inbox) : r.inbox[i].kind # "disconnect"
  BY DEF UploadInv, ChannelInv
<1>13. GoodAnswers(q) = GoodAnswers(r) \cup (IF c = 0 THEN {Len(r.inbox) + 1} ELSE {})
  BY <1>4, <1>7, Positions
<1>14. PostedInv(q)
  BY <1>4 DEF UploadInv, PostedInv
<1>15. ASSUME f.body
       PROVE  UploadInv(q, n)
  <2>1. 1 \in BodyFrames(r)
    BY <1>6, <1>15
  <2>2. GoodAnswers(r) = {} /\ f.seq = r.cur
    BY <1>6, <2>1 DEF UploadInv, TokenInv
  <2>3. BodyFrames(q) = {}
    <3>. SUFFICES ASSUME NEW i \in Bodies(Tail(r.wire)) PROVE FALSE
      BY <1>4, Positions
    <3>1. i + 1 = 1 /\ i \in Nat \ {0}
      BY <1>6, <2>1 DEF UploadInv, TokenInv
    <3>. QED BY <3>1
  <2>4. ~r.finish /\ ~Unsent(r)
    BY <2>1 DEF UploadInv, SegmentInv, NoToken, Unsent
  <2>5. c = 0 => r.cur \in q.stored
    BY <1>4, <1>8, <1>15, <2>2
  <2>6. q.stored = r.stored \/ q.stored = r.stored \cup {r.cur}
    BY <1>4, <1>8, <2>2
  <2>7. \A i \in GoodAnswers(q) : i = Len(r.inbox) + 1 /\ c = 0
    BY <1>13, <2>2
  <2>8. TokenInv(q)
    <3>1. \A i \in GoodAnswers(q) : q.inbox[i].seq = q.cur /\ q.cur \in q.stored
      BY <1>3, <1>4, <1>10, <2>2, <2>5, <2>7
    <3>. QED BY <2>3, <2>7, <3>1 DEF TokenInv
  <2>9. SegmentInv(q, n)
    <3>1. /\ r.cur \in 1..n /\ 1..(r.cur - 1) \subseteq r.stored
          /\ r.stored \subseteq 1..r.cur
      BY DEF UploadInv, SegmentInv
    <3>2. r.cur \in 1..r.cur
      BY <3>1
    <3>. QED BY <1>4, <2>4, <2>6, <3>1, <3>2 DEF SegmentInv
  <2>10. ChannelInv(q)
    <3>1. \A i \in 1..Len(r.inbox) : r.inbox[i].kind # "connect"
      BY <2>4 DEF UploadInv, ChannelInv
    <3>2. \A i \in 1..Len(q.inbox) : q.inbox[i].kind \notin {"connect", "disconnect"}
      BY <1>3, <1>10, <1>11, <1>12, <3>1
    <3>. QED BY <1>4, <1>12, <3>2 DEF ChannelInv
  <2>. QED BY <1>14, <2>8, <2>9, <2>10 DEF UploadInv
<1>16. ASSUME ~f.body
       PROVE  UploadInv(q, n)
  <2>1. c # 0
    BY <1>9, <1>16
  <2>2. GoodAnswers(q) = GoodAnswers(r) /\ q.stored = r.stored
    BY <1>4, <1>8, <1>13, <1>16, <2>1
  <2>3. \A i \in GoodAnswers(q) : q.inbox[i] = r.inbox[i]
    BY <1>10, <2>2 DEF GoodAnswers
  <2>4. \A i \in BodyFrames(q) :
          /\ i \in Nat \ {0} /\ i + 1 \in BodyFrames(r)
          /\ q.wire[i] = r.wire[i + 1]
    <3>1. BodyFrames(q) = Bodies(Tail(r.wire))
      BY <1>4, Positions
    <3>2. \A i \in 1..Len(Tail(r.wire)) : Tail(r.wire)[i] = r.wire[i + 1]
      BY <1>1, TailShift
    <3>. QED BY <1>4, <1>6, <3>1, <3>2 DEF Bodies
  <2>5. TokenInv(q)
    <3>1. \A i \in BodyFrames(q) : q.wire[i].seq = q.cur
      BY <1>4, <2>4 DEF UploadInv, TokenInv
    <3>2. \A i, j \in BodyFrames(q) : i = j
      <4>. SUFFICES ASSUME NEW i \in BodyFrames(q), NEW j \in BodyFrames(q)
                    PROVE  i = j
        OBVIOUS
      <4>1. i + 1 = j + 1
        BY <2>4 DEF UploadInv, TokenInv
      <4>. QED BY <2>4, <4>1
    <3>3. BodyFrames(q) = {} \/ GoodAnswers(q) = {}
      BY <2>2, <2>4 DEF UploadInv, TokenInv
    <3>. QED BY <1>4, <2>2, <2>3, <3>1, <3>2, <3>3 DEF UploadInv, TokenInv
  <2>6. NoToken(r) => NoToken(q)
    BY <2>2, <2>4 DEF NoToken
  <2>7. SegmentInv(q, n)
    BY <1>4, <2>2, <2>6 DEF UploadInv, SegmentInv
  <2>8. Unsent(r) => Unsent(q)
    BY <1>4, <2>6 DEF Unsent
  <2>9. ChannelInv(q)
    <3>1. ASSUME NEW i \in 1..Len(q.inbox)
          PROVE  /\ q.inbox[i].kind = "connect" => i = 1 /\ Unsent(q)
                 /\ q.inbox[i].kind # "disconnect"
      <4>1. CASE i = Len(r.inbox) + 1
        BY <1>3, <1>10, <4>1
      <4>2. CASE i \in 1..Len(r.inbox)
        BY <1>10, <1>12, <2>8, <4>2 DEF UploadInv, ChannelInv
      <4>. QED BY <1>11, <4>1, <4>2
    <3>. QED BY <1>4, <1>12, <3>1 DEF ChannelInv
  <2>. QED BY <1>14, <2>5, <2>7, <2>9 DEF UploadInv
<1>17. UploadInv(q, n)
  BY <1>15, <1>16
<1>. QED BY <1>17 DEF q, a, f, S
-----------------------------------------------------------------------------
(***************************************************************************)
(* The inductive invariant, action by action.                              *)
(***************************************************************************)
LEMMA InitInv == Init => IInv
<1>. SUFFICES ASSUME Init, NEW u \in Uploads
              PROVE  UploadInv(up[u], N(u))
  BY InitType DEF IInv
<1>1. N(u) \in Nat \ {0}
  BY ConstantsOK DEF N
<1>2. up[u] = Fresh
  BY DEF Init
<1>3. BodyFrames(Fresh) = {} /\ GoodAnswers(Fresh) = {}
  BY DEF Fresh, BodyFrames, GoodAnswers
<1>4. TokenInv(Fresh) /\ ChannelInv(Fresh) /\ PostedInv(Fresh)
  BY <1>3 DEF TokenInv, ChannelInv, PostedInv, Unsent, NoToken, Fresh
<1>5. SegmentInv(Fresh, N(u))
  BY <1>1 DEF SegmentInv, Fresh
<1>. QED BY <1>2, <1>4, <1>5 DEF UploadInv

LEMMA NumberOfSegments ==
  ASSUME NEW u \in Uploads
  PROVE  N(u) \in Nat \ {0}
BY ConstantsOK DEF N

\* It is enough that an action leaves every upload alone, or changes it to one
\* for which the invariant holds.
LEMMA Lift ==
  ASSUME IInv, TypeOK',
         \A u \in Uploads : up'[u] = up[u] \/ UploadInv(up'[u], N(u))
  PROVE  IInv'
<1>1. \A u \in Uploads : UploadInv(up'[u], N(u))
  BY DEF IInv
<1>. QED BY <1>1 DEF IInv, N, UploadInv, TokenInv, SegmentInv, ChannelInv,
            PostedInv, NoToken, Unsent, BodyFrames, GoodAnswers

LEMMA NetworkInv ==
  ASSUME 0 \notin BareCodes, IInv, NEW u \in Uploads, Network(u)
  PROVE  IInv'
<1>1. TypeOK /\ TypeOK' /\ up[u] \in UploadState /\ UploadInv(up[u], N(u))
  <2>1. TypeOK'
    BY NetworkType DEF IInv
  <2>. QED BY <2>1 DEF IInv, TypeOK
<1>. SUFFICES ASSUME NEW r, UploadInv(r, N(u)), up' = [up EXCEPT ![u] = r]
              PROVE  IInv'
  <2>1. CASE Connect(u)
    BY <1>1, <2>1, ConnectInv DEF Connect, TypeOK
  <2>2. CASE Lose(u)
    <3>1. PICK k \in 0..Len(up[u].inbox) :
            up' = [up EXCEPT ![u].conn = "lost", ![u].wire = <<>>,
                     ![u].inbox = Append(SubSeq(@, 1, k), OnDisconnectEvent)]
      BY <2>2 DEF Lose
    <3>2. up' = [up EXCEPT ![u] =
                   [up[u] EXCEPT !.conn = "lost", !.wire = <<>>,
                      !.inbox = Append(SubSeq(@, 1, k), OnDisconnectEvent)]]
      BY <1>1, <3>1 DEF TypeOK
    <3>. QED BY <1>1, <2>2, <3>2, LoseInv DEF Lose
  <2>3. CASE RouterAnswers(u)
    <3>. DEFINE f == Head(up[u].wire)
    <3>1. PICK c \in (IF f.body THEN BodyCodes ELSE BareCodes) :
            up' = [up EXCEPT ![u].wire = Tail(@),
                     ![u].stored = IF f.body /\ c = 0 THEN @ \cup {f.seq} ELSE @,
                     ![u].inbox = Append(@, Answer(f.seq, c))]
      BY <2>3 DEF RouterAnswers
    <3>2. c \in Codes /\ (~f.body => c # 0)
      BY <3>1, ConstantsOK
    <3>3. up' = [up EXCEPT ![u] =
            [up[u] EXCEPT !.wire = Tail(@),
               !.stored = IF f.body /\ c = 0 THEN @ \cup {f.seq} ELSE @,
               !.inbox = Append(@, Answer(f.seq, c))]]
      BY <1>1, <3>1 DEF TypeOK
    <3>. QED BY <1>1, <2>3, <3>2, <3>3, AnswerInv DEF RouterAnswers
  <2>4. CASE RouterCloses(u)
    BY <1>1, <2>4, ClosesInv DEF RouterCloses, TypeOK
  <2>. QED BY <2>1, <2>2, <2>3, <2>4 DEF Network
<1>. QED BY <1>1, Lift DEF TypeOK

LEMMA CallbackInv ==
  ASSUME IInv, NEW u \in Uploads, Callback(u)
  PROVE  IInv'
<1>1. TypeOK /\ TypeOK' /\ up[u] \in UploadState /\ UploadInv(up[u], N(u))
  <2>1. TypeOK'
    BY CallbackType DEF IInv
  <2>. QED BY <2>1 DEF IInv, TypeOK
<1>. SUFFICES ASSUME NEW r, UploadInv(r, N(u)), up' = [up EXCEPT ![u] = r]
              PROVE  IInv'
  <2>. DEFINE t == TakenOf(up[u])
  <2>1. Taken(u) = t
    BY DEF Taken, TakenOf
  <2>2. CASE OnConnect(u)
    <3>1. t \in UploadState /\ MaySend(t, N(u)) /\ t.cur = 1
      BY <1>1, <2>2, TakeInv DEF OnConnect, HasEvent
    <3>. HIDE DEF t
    <3>2. UploadInv(SendFileData(t, Frame(1, TRUE)), N(u))
      BY <3>1, SendSegmentInv
    <3>. QED BY <2>1, <2>2, <3>2 DEF OnConnect
  <2>3. CASE OnData(u)
    <3>1. UploadInv(ReceiveFileData(t, Head(up[u].inbox), N(u)), N(u))
      BY <1>1, <2>3, ReceiveInv, NumberOfSegments DEF OnData, HasEvent
    <3>. QED BY <2>1, <2>3, <3>1 DEF OnData
  <2>4. CASE OnDisconnect(u)
    <3>. DEFINE x == [t EXCEPT !.conn = "closed"]
                c == LostCode(x)
                y == [x EXCEPT !.code = c, !.posted = Append(@, c)]
    <3>1. UploadInv(x, N(u)) /\ (~x.finish => UploadInv(y, N(u)))
      BY <1>1, <2>4, ClosedInv DEF OnDisconnect, HasEvent
    <3>2. \/ up' = [up EXCEPT ![u] = x]
          \/ ~x.finish /\ up' = [up EXCEPT ![u] = y]
      BY <2>1, <2>4 DEF OnDisconnect
    <3>. QED BY <3>1, <3>2
  <2>5. CASE TimerFires(u)
    BY <1>1, <2>5, ResendFileInv DEF TimerFires
  <2>. QED BY <2>2, <2>3, <2>4, <2>5 DEF Callback
<1>. QED BY <1>1, Lift DEF TypeOK

LEMMA UserInv ==
  ASSUME IInv, User
  PROVE  IInv'
<1>1. TypeOK /\ TypeOK'
  BY UserType DEF IInv
<1>2. ASSUME NEW v \in Uploads
      PROVE  up[v] \in UploadState /\ UploadInv(up[v], N(v))
  BY DEF IInv, TypeOK
<1>. SUFFICES ASSUME NEW v \in Uploads
              PROVE  up'[v] = up[v] \/ UploadInv(up'[v], N(v))
  BY <1>1, Lift
<1>3. ASSUME NEW u \in Uploads, Start(u)
      PROVE  up'[v] = up[v] \/ UploadInv(up'[v], N(v))
  <2>1. CASE v # u
    BY <1>1, <1>3, <2>1 DEF Start, TypeOK
  <2>2. CASE v = u
    <3>. DEFINE r == up[u]
                q == [r EXCEPT !.conn = "connecting"]
    <3>1. up'[u] = q /\ r.conn = "none"
      BY <1>1, <1>3 DEF Start, TypeOK
    <3>2. /\ q.conn = "connecting" /\ q.cur = r.cur /\ q.finish = r.finish
          /\ q.wire = r.wire /\ q.inbox = r.inbox /\ q.stored = r.stored
          /\ q.posted = r.posted
      <4>1. r \in UploadState
        BY <1>2
      <4>. HIDE DEF r
      <4>. QED BY <4>1 DEF UploadState
    <3>3. UploadInv(r, N(u))
      BY <1>2
    <3>. HIDE DEF r, q
    <3>4. BodyFrames(q) = BodyFrames(r) /\ GoodAnswers(q) = GoodAnswers(r)
      BY <3>2 DEF BodyFrames, GoodAnswers
    <3>5. TokenInv(q) /\ SegmentInv(q, N(u)) /\ PostedInv(q)
      BY <3>1, <3>2, <3>3, <3>4
         DEF UploadInv, TokenInv, SegmentInv, PostedInv, NoToken
    <3>6. ChannelInv(q)
      BY <3>1, <3>2, <3>3, <3>4 DEF UploadInv, ChannelInv, Unsent, NoToken
    <3>. QED BY <2>2, <3>1, <3>5, <3>6 DEF UploadInv
  <2>. QED BY <2>1, <2>2
<1>4. ASSUME NEW f \in ChatFiles, Withdraw(f)
      PROVE  up'[v] = up[v] \/ UploadInv(up'[v], N(v))
  <2>. DEFINE q == [up[v] EXCEPT !.cancel = TRUE]
  <2>1. up'[v] = up[v] \/ up'[v] = q
    BY <1>1, <1>4 DEF Withdraw, TypeOK
  <2>2. SameTransfer(up[v], q)
    <3>1. up[v] \in UploadState
      BY <1>2
    <3>. QED BY <3>1 DEF UploadState, SameTransfer
  <2>. QED BY <1>2, <2>1, <2>2, SameTransferInv
<1>5. ASSUME NEW f \in Files, CancelFileOption(f)
      PROVE  up'[v] = up[v] \/ UploadInv(up'[v], N(v))
  <2>1. up'[v] = up[v] \/ up'[v] = Disconnect(up[v])
    BY <1>1, <1>5 DEF CancelFileOption, TypeOK
  <2>. QED BY <1>2, <2>1, DisconnectInv
<1>6. CASE ClearAllConnectSocket
  <2>1. up'[v] = up[v] \/ up'[v] = Disconnect(up[v])
    BY <1>1, <1>6 DEF ClearAllConnectSocket, TypeOK
  <2>. QED BY <1>2, <2>1, DisconnectInv
<1>. QED BY <1>3, <1>4, <1>5, <1>6 DEF User

\* The token discipline of the upload protocol is an invariant when the router
\* never accepts a frame that came without its segment.
THEOREM TokenDiscipline ==
  ASSUME 0 \notin BareCodes
  PROVE  Spec => []IInv
<1>1. IInv /\ [Next]_vars => IInv'
  <2>. SUFFICES ASSUME IInv, [Next]_vars
                PROVE  IInv'
    OBVIOUS
  <2>1. CASE UNCHANGED vars
    <3>1. up' = up /\ TypeOK'
      BY <2>1 DEF vars, IInv, TypeOK
    <3>. QED BY <3>1, Lift
  <2>. QED BY <2>1, NetworkInv, CallbackInv, UserInv DEF Next
<1>. QED BY InitInv, <1>1, PTL DEF Spec

\* A file reported as sent is complete at the router, whatever is cancelled,
\* resent, lost or late (receiveFileData, sendFileWithTag, onDisconnect).
THEOREM ReportsAreTruthful ==
  ASSUME 0 \notin BareCodes
  PROVE  Spec => []ReportTruthful
<1>1. IInv => ReportTruthful
  <2>. SUFFICES ASSUME IInv, NEW u \in Uploads, 0 \in Report(u)
                PROVE  up[u].stored = 1..N(u)
    BY DEF ReportTruthful
  <2>1. up[u].posted \in Seq(Codes \cup {2}) /\ UploadInv(up[u], N(u))
    <3>1. up[u] \in UploadState
      BY DEF IInv, TypeOK
    <3>2. up[u].posted \in Seq(Codes \cup {2})
      BY <3>1 DEF UploadState
    <3>. QED BY <3>2 DEF IInv
  <2>2. PICK i \in DOMAIN up[u].posted : up[u].posted[i] = 0
    BY DEF Report
  <2>. DEFINE L == Len(up[u].posted)
  <2>3. L \in Nat /\ L <= 1
    BY <2>1, LenProperties DEF UploadInv, PostedInv
  <2>4. i \in 1..L
    BY <2>1, <2>2, LenProperties
  <2>5. i = 1 /\ L = 1
    <3>. HIDE DEF L
    <3>. QED BY <2>3, <2>4
  <2>6. up[u].posted = <<0>>
    BY <2>1, <2>2, <2>5
  <2>. QED BY <2>1, <2>6 DEF UploadInv, PostedInv, SegmentInv
<1>. QED BY <1>1, TokenDiscipline, PTL

\* An upload posts one result notification at most.
THEOREM OneOutcome ==
  ASSUME 0 \notin BareCodes
  PROVE  Spec => []OutcomeOnce
<1>1. IInv => OutcomeOnce
  BY DEF IInv, UploadInv, PostedInv, OutcomeOnce
<1>. QED BY <1>1, TokenDiscipline, PTL

\* The bytes of the current segment, or their acceptance, are in flight at most
\* once, and all earlier segments are at the router.
THEOREM StopsAndWaits ==
  ASSUME 0 \notin BareCodes
  PROVE  Spec => []StopAndWait
<1>1. IInv => StopAndWait
  BY DEF IInv, UploadInv, TokenInv, SegmentInv, StopAndWait
<1>. QED BY <1>1, TokenDiscipline, PTL
-----------------------------------------------------------------------------
(***************************************************************************)
(* Which uploads are complete.  An upload that is connecting or open never *)
(* carries isComplete: the answer that sets it sends the next segment or   *)
(* closes the socket in the same callback.  Nothing is assumed about what  *)
(* the router answers.                                                     *)
(***************************************************************************)
QuietChannel(r) == /\ r.conn \in {"none", "connecting"} => r.inbox = <<>>
                   /\ r.conn \notin {"open", "closing"} => r.wire = <<>>
                   /\ \A i \in 1..Len(r.inbox) : r.inbox[i].kind = "disconnect" =>
                        i = Len(r.inbox) /\ r.conn = "lost"

LiveInv(r) == /\ QuietChannel(r)
              /\ r.complete => r.conn \notin {"none", "connecting", "open"}

Connected(r) == r.conn \notin {"none", "connecting"}

LEMMA SameChannel ==
  ASSUME NEW r, NEW q, QuietChannel(r),
         q.conn = r.conn, q.wire = r.wire, q.inbox = r.inbox
  PROVE  QuietChannel(q) /\ (Connected(q) <=> Connected(r))
BY DEF QuietChannel, Connected

LEMMA SendLive ==
  ASSUME NEW r \in UploadState, NEW f, QuietChannel(r)
  PROVE  LiveInv(SendFileData(r, f))
BY DEF SendFileData, UploadState, LiveInv, QuietChannel

LEMMA DisconnectLive ==
  ASSUME NEW r \in UploadState, QuietChannel(r), Connected(r) \/ LiveInv(r)
  PROVE  LiveInv(Disconnect(r))
BY DEF Disconnect, UploadState, LiveInv, QuietChannel, Connected

LEMMA ResendLive ==
  ASSUME NEW r \in UploadState, QuietChannel(r), Connected(r) \/ LiveInv(r)
  PROVE  LiveInv(Resend(r))
<1>1. CASE IsConnected(r)
  BY <1>1, SendLive DEF Resend
<1>2. CASE ~IsConnected(r)
  BY <1>2 DEF Resend, IsConnected, LiveInv, Connected
<1>. QED BY <1>1, <1>2

LEMMA SendNextLive ==
  ASSUME NEW r \in UploadState, NEW seq \in Nat, NEW n,
         QuietChannel(r), Connected(r)
  PROVE  LiveInv(SendNext(r, seq, n))
<1>1. LiveInv(Finish(r))
  <2>1. Disconnect(r) \in UploadState /\ LiveInv(Disconnect(r))
    BY DisconnectType, DisconnectLive
  <2>. HIDE DEF Disconnect
  <2>. QED BY <2>1 DEF Finish, UploadState, LiveInv, QuietChannel
<1>. DEFINE q == [r EXCEPT !.cur = seq + 1]
<1>2. q \in UploadState /\ QuietChannel(q)
  <2>1. /\ q \in UploadState
        /\ q.conn = r.conn /\ q.wire = r.wire /\ q.inbox = r.inbox
    BY DEF UploadState
  <2>. QED BY <2>1, SameChannel
<1>3. LiveInv(SendFileData(q, Frame(seq + 1, TRUE)))
  BY <1>2, SendLive
<1>4. ~IsConnected(r) => LiveInv(r)
  BY DEF IsConnected, LiveInv, Connected
<1>. QED BY <1>1, <1>3, <1>4 DEF SendNext

LEMMA ReceiveLive ==
  ASSUME NEW r0 \in UploadState, NEW m \in EventSet, NEW n,
         QuietChannel(r0), Connected(r0)
  PROVE  LiveInv(ReceiveFileData(r0, m, n))
<1>. DEFINE r == [r0 EXCEPT !.complete = TRUE, !.waiting = FALSE, !.code = m.code]
            d == [r EXCEPT !.deleted = @ \/ r.cur = n]
<1>1. r \in UploadState /\ QuietChannel(r) /\ Connected(r)
  BY DEF UploadState, EventSet, QuietChannel, Connected
<1>2. d \in UploadState /\ QuietChannel(d) /\ Connected(d)
  <2>1. (r.deleted \/ r.cur = n) \in BOOLEAN
    OBVIOUS
  <2>. HIDE DEF r
  <2>2. /\ d \in UploadState
        /\ d.conn = r.conn /\ d.wire = r.wire /\ d.inbox = r.inbox
    BY <1>1, <2>1 DEF UploadState
  <2>. QED BY <1>1, <2>2, SameChannel
<1>3. m.seq \in Nat
  BY DEF EventSet
<1>4. LiveInv(Disconnect(d)) /\ LiveInv(Disconnect(r)) /\ LiveInv(Resend(r))
  BY <1>1, <1>2, DisconnectLive, ResendLive
<1>5. LiveInv(SendNext(r, m.seq, n))
  BY <1>1, <1>3, SendNextLive
<1>. QED BY <1>4, <1>5 DEF ReceiveFileData

LEMMA ResendFileLive ==
  ASSUME NEW r \in UploadState, LiveInv(r)
  PROVE  LiveInv(ResendFile([r EXCEPT !.timer = FALSE]))
<1>. DEFINE q == [r EXCEPT !.timer = FALSE]
<1>1. q \in UploadState /\ LiveInv(q) /\ QuietChannel(q)
  BY DEF UploadState, LiveInv, QuietChannel
<1>2. LiveInv(Disconnect(q)) /\ LiveInv(Resend(q))
  BY <1>1, DisconnectLive, ResendLive
<1>3. q.cancel \in BOOLEAN /\ q.waiting \in BOOLEAN
  BY <1>1 DEF UploadState
<1>. QED BY <1>1, <1>2, <1>3 DEF ResendFile

\* An upload has events for the main thread only once it was connected, and
\* nothing comes behind onDisconnect.
LEMMA TakenLive ==
  ASSUME NEW u \in Uploads, up[u] \in UploadState, up[u].inbox # <<>>,
         LiveInv(up[u])
  PROVE  /\ QuietChannel(Taken(u)) /\ Connected(Taken(u))
         /\ Head(up[u].inbox).kind = "disconnect" =>
              /\ Taken(u).conn = "lost" /\ Taken(u).wire = <<>>
              /\ \A i \in 1..Len(Taken(u).inbox) :
                   Taken(u).inbox[i].kind # "disconnect"
<1>. DEFINE r == up[u]
            t == Taken(u)
<1>1. t.conn = r.conn /\ t.wire = r.wire /\ t.inbox = Tail(r.inbox)
  BY DEF Taken, UploadState
<1>2. r.inbox \in Seq(EventSet)
  BY DEF UploadState, EventSet
<1>3. LiveInv(r) /\ r.inbox # <<>>
  OBVIOUS
<1>4. /\ Len(r.inbox) \in Nat \ {0}
      /\ Len(t.inbox) = Len(r.inbox) - 1
      /\ Head(r.inbox) = r.inbox[1]
      /\ \A i \in 1..Len(t.inbox) :
           i + 1 \in 1..Len(r.inbox) /\ t.inbox[i] = r.inbox[i + 1]
  BY <1>1, <1>2, <1>3, TailShift
<1>. HIDE DEF r, t
<1>5. /\ Connected(t)
      /\ t.conn \notin {"open", "closing"} => t.wire = <<>>
  BY <1>1, <1>3 DEF LiveInv, QuietChannel, Connected
<1>6. \A i \in 1..Len(t.inbox) : t.inbox[i].kind = "disconnect" =>
        i = Len(t.inbox) /\ t.conn = "lost"
  <2>. SUFFICES ASSUME NEW i \in 1..Len(t.inbox),
                       t.inbox[i].kind = "disconnect"
                PROVE  i = Len(t.inbox) /\ t.conn = "lost"
    OBVIOUS
  <2>1. i + 1 = Len(r.inbox) /\ r.conn = "lost"
    BY <1>3, <1>4 DEF LiveInv, QuietChannel
  <2>. QED BY <1>1, <1>4, <2>1
<1>7. QuietChannel(t)
  BY <1>5, <1>6 DEF QuietChannel, Connected
<1>8. ASSUME Head(r.inbox).kind = "disconnect"
      PROVE  /\ t.conn = "lost" /\ t.wire = <<>>
             /\ \A i \in 1..Len(t.inbox) : t.inbox[i].kind # "disconnect"
  <2>1. 1 \in 1..Len(r.inbox) /\ r.inbox[1].kind = "disconnect"
    BY <1>4, <1>8
  <2>2. 1 = Len(r.inbox) /\ r.conn = "lost"
    BY <1>3, <2>1 DEF LiveInv, QuietChannel
  <2>. QED BY <1>1, <1>4, <1>5, <2>2
<1>. QED BY <1>5, <1>7, <1>8 DEF r, t

LiveIInv == TypeOK /\ \A u \in Uploads : LiveInv(up[u])

LEMMA LiftLive ==
  ASSUME LiveIInv, TypeOK',
         \A v \in Uploads : up'[v] = up[v] \/ LiveInv(up'[v])
  PROVE  LiveIInv'
<1>1. \A v \in Uploads : LiveInv(up'[v])
  BY DEF LiveIInv
<1>. QED BY <1>1 DEF LiveIInv, LiveInv, QuietChannel

LEMMA NetworkLive ==
  ASSUME LiveIInv, NEW u \in Uploads, Network(u)
  PROVE  LiveIInv'
<1>1. TypeOK /\ TypeOK' /\ up[u] \in UploadState /\ LiveInv(up[u])
  <2>1. TypeOK'
    BY NetworkType DEF LiveIInv
  <2>. QED BY <2>1 DEF LiveIInv, TypeOK
<1>2. \A v \in Uploads \ {u} : up'[v] = up[v]
  BY <1>1 DEF Network, Connect, Lose, RouterAnswers, RouterCloses, TypeOK
<1>3. LiveInv(up'[u])
  <2>. DEFINE r == up[u]
              q == up'[u]
  <2>1. r \in UploadState /\ r.inbox \in Seq(EventSet)
    BY <1>1 DEF UploadState, EventSet
  <2>2. CASE Connect(u)
    <3>1. q.conn = "open" /\ q.inbox = <<OnConnectEvent>> /\ ~q.complete
      BY <1>1, <2>1, <2>2 DEF Connect, TypeOK, UploadState, LiveInv
    <3>. QED BY <3>1 DEF LiveInv, QuietChannel, OnConnectEvent
  <2>3. CASE Lose(u)
    <3>1. PICK k \in 0..Len(r.inbox) :
            /\ q.conn = "lost" /\ q.wire = <<>>
            /\ q.inbox = Append(SubSeq(r.inbox, 1, k), OnDisconnectEvent)
      <4>1. PICK k \in 0..Len(up[u].inbox) :
              up' = [up EXCEPT ![u].conn = "lost", ![u].wire = <<>>,
                       ![u].inbox = Append(SubSeq(@, 1, k), OnDisconnectEvent)]
        BY <2>3 DEF Lose
      <4>2. q = [r EXCEPT !.conn = "lost", !.wire = <<>>,
                   !.inbox = Append(SubSeq(@, 1, k), OnDisconnectEvent)]
        BY <1>1, <4>1 DEF TypeOK
      <4>. HIDE DEF q, r
      <4>3. /\ q.conn = "lost" /\ q.wire = <<>>
            /\ q.inbox = Append(SubSeq(r.inbox, 1, k), OnDisconnectEvent)
        BY <2>1, <4>2 DEF UploadState
      <4>. QED BY <4>1, <4>3 DEF r
    <3>2. \A i \in 1..Len(r.inbox) : r.inbox[i].kind # "disconnect"
      BY <1>1, <2>3 DEF Lose, LiveInv, QuietChannel
    <3>3. /\ SubSeq(r.inbox, 1, k) \in Seq(EventSet)
          /\ Len(SubSeq(r.inbox, 1, k)) = k
          /\ \A i \in 1..k : SubSeq(r.inbox, 1, k)[i] = r.inbox[i]
      BY <2>1, SubSeqProperties, LenProperties
    <3>4. /\ Len(q.inbox) = k + 1
          /\ \A i \in 1..k : q.inbox[i] = r.inbox[i]
      BY <3>1, <3>3, AppendProperties
    <3>5. Len(r.inbox) \in Nat
      BY <2>1, LenProperties
    <3>6. \A i \in 1..Len(q.inbox) : q.inbox[i].kind = "disconnect" =>
            i = Len(q.inbox)
      <4>. HIDE DEF q, r
      <4>. QED BY <3>2, <3>4, <3>5
    <3>. QED BY <3>1, <3>6 DEF LiveInv, QuietChannel
  <2>4. CASE RouterAnswers(u)
    <3>1. PICK a : /\ a.kind = "answer"
                   /\ q.inbox = Append(r.inbox, a)
                   /\ q.conn = r.conn /\ q.complete = r.complete
                   /\ q.wire = Tail(r.wire)
      <4>1. PICK c, S : up' = [up EXCEPT ![u].wire = Tail(@), ![u].stored = S,
                ![u].inbox = Append(@, Answer(Head(up[u].wire).seq, c))]
        BY <2>4 DEF RouterAnswers
      <4>. DEFINE a == Answer(Head(r.wire).seq, c)
      <4>2. q = [r EXCEPT !.wire = Tail(@), !.stored = S, !.inbox = Append(@, a)]
        BY <1>1, <4>1 DEF TypeOK
      <4>3. a.kind = "answer"
        BY DEF Answer
      <4>. HIDE DEF q, r, a
      <4>4. /\ q.inbox = Append(r.inbox, a)
            /\ q.conn = r.conn /\ q.complete = r.complete
            /\ q.wire = Tail(r.wire)
        BY <2>1, <4>2 DEF UploadState
      <4>. QED BY <4>3, <4>4
    <3>2. r.conn \in {"open", "closing"}
      BY <1>1, <2>4 DEF RouterAnswers, LiveInv, QuietChannel
    <3>3. /\ Len(r.inbox) \in Nat
          /\ Len(q.inbox) = Len(r.inbox) + 1
          /\ q.inbox[Len(r.inbox) + 1] = a
          /\ \A i \in 1..Len(r.inbox) : q.inbox[i] = r.inbox[i]
      BY <2>1, <3>1, AppendProperties, LenProperties
    <3>4. \A i \in 1..Len(r.inbox) : r.inbox[i].kind # "disconnect"
      BY <1>1, <3>2 DEF LiveInv, QuietChannel
    <3>5. \A i \in 1..Len(q.inbox) : q.inbox[i].kind # "disconnect"
      <4>. HIDE DEF q, r
      <4>. QED BY <3>1, <3>3, <3>4
    <3>. QED BY <1>1, <3>1, <3>2, <3>5 DEF LiveInv, QuietChannel
  <2>5. CASE RouterCloses(u)
    <3>1. /\ q.conn = "lost" /\ q.wire = <<>>
          /\ q.inbox = Append(r.inbox, OnDisconnectEvent)
      BY <1>1, <2>1, <2>5 DEF RouterCloses, TypeOK, UploadState
    <3>2. \A i \in 1..Len(r.inbox) : r.inbox[i].kind # "disconnect"
      BY <1>1, <2>5 DEF RouterCloses, LiveInv, QuietChannel
    <3>3. /\ Len(r.inbox) \in Nat
          /\ Len(q.inbox) = Len(r.inbox) + 1
          /\ \A i \in 1..Len(r.inbox) : q.inbox[i] = r.inbox[i]
      <4>1. OnDisconnectEvent \in EventSet
        BY DEF OnDisconnectEvent, EventSet, Codes
      <4>. QED BY <2>1, <3>1, <4>1, AppendProperties, LenProperties
    <3>4. \A i \in 1..Len(q.inbox) : q.inbox[i].kind = "disconnect" =>
            i = Len(q.inbox)
      <4>. HIDE DEF q, r
      <4>. QED BY <3>2, <3>3
    <3>. QED BY <3>1, <3>4 DEF LiveInv, QuietChannel
  <2>. QED BY <2>2, <2>3, <2>4, <2>5 DEF Network
<1>. QED BY <1>1, <1>2, <1>3, LiftLive

LEMMA CallbackLive ==
  ASSUME LiveIInv, NEW u \in Uploads, Callback(u)
  PROVE  LiveIInv'
<1>1. TypeOK /\ TypeOK' /\ up[u] \in UploadState /\ LiveInv(up[u])
  <2>1. TypeOK'
    BY CallbackType DEF LiveIInv
  <2>. QED BY <2>1 DEF LiveIInv, TypeOK
<1>. SUFFICES ASSUME NEW r, LiveInv(r), up' = [up EXCEPT ![u] = r]
              PROVE  LiveIInv'
  <2>1. CASE OnConnect(u)
    <3>1. Taken(u) \in UploadState /\ QuietChannel(Taken(u))
      BY <1>1, <2>1, TakenType, TakenLive DEF OnConnect, HasEvent
    <3>2. LiveInv(SendFileData(Taken(u), Frame(1, TRUE)))
      BY <3>1, SendLive
    <3>. QED BY <2>1, <3>2 DEF OnConnect
  <2>2. CASE OnData(u)
    <3>1. /\ Taken(u) \in UploadState /\ QuietChannel(Taken(u))
          /\ Connected(Taken(u)) /\ Head(up[u].inbox) \in EventSet
      BY <1>1, <2>2, TakenType, TakenLive DEF OnData, HasEvent
    <3>2. LiveInv(ReceiveFileData(Taken(u), Head(up[u].inbox), N(u)))
      BY <3>1, ReceiveLive
    <3>. QED BY <2>2, <3>2 DEF OnData
  <2>3. CASE OnDisconnect(u)
    <3>. DEFINE t == Taken(u)
                x == [t EXCEPT !.conn = "closed"]
                c == LostCode(x)
                y == [x EXCEPT !.code = c, !.posted = Append(@, c)]
    <3>1. /\ t \in UploadState /\ t.wire = <<>>
          /\ \A i \in 1..Len(t.inbox) : t.inbox[i].kind # "disconnect"
      BY <1>1, <2>3, TakenType, TakenLive DEF OnDisconnect, HasEvent
    <3>. HIDE DEF t
    <3>2. x \in UploadState /\ LiveInv(x)
      BY <3>1 DEF UploadState, LiveInv, QuietChannel
    <3>. HIDE DEF x
    <3>3. LiveInv(y)
      BY <3>2 DEF UploadState, LiveInv, QuietChannel
    <3>4. up' = [up EXCEPT ![u] = x] \/ up' = [up EXCEPT ![u] = y]
      BY <2>3 DEF OnDisconnect, t, x
    <3>. QED BY <3>2, <3>3, <3>4
  <2>4. CASE TimerFires(u)
    BY <1>1, <2>4, ResendFileLive DEF TimerFires
  <2>. QED BY <2>1, <2>2, <2>3, <2>4 DEF Callback
<1>2. \A v \in Uploads : up'[v] = up[v] \/ LiveInv(up'[v])
  BY <1>1 DEF TypeOK
<1>. QED BY <1>1, <1>2, LiftLive

LEMMA UserLive ==
  ASSUME LiveIInv, User
  PROVE  LiveIInv'
<1>1. TypeOK /\ TypeOK' /\ up \in [Uploads -> UploadState]
  BY UserType DEF LiveIInv, TypeOK
<1>. SUFFICES ASSUME NEW v \in Uploads
              PROVE  up'[v] = up[v] \/ LiveInv(up'[v])
  BY <1>1, LiftLive
<1>2. up[v] \in UploadState /\ LiveInv(up[v])
  BY <1>1 DEF LiveIInv
<1>3. LiveInv(Disconnect(up[v]))
  BY <1>2, DisconnectLive DEF LiveInv
<1>4. LiveInv([up[v] EXCEPT !.cancel = TRUE])
  BY <1>2 DEF LiveInv, QuietChannel, UploadState
<1>5. up[v].conn = "none" => LiveInv([up[v] EXCEPT !.conn = "connecting"])
  BY <1>2 DEF LiveInv, QuietChannel, UploadState
<1>6. ASSUME NEW u \in Uploads, Start(u)
      PROVE  up'[v] = up[v] \/ LiveInv(up'[v])
  BY <1>1, <1>5, <1>6 DEF Start
<1>7. ASSUME NEW f \in ChatFiles, Withdraw(f)
      PROVE  up'[v] = up[v] \/ LiveInv(up'[v])
  BY <1>1, <1>4, <1>7 DEF Withdraw
<1>8. ASSUME NEW f \in Files, CancelFileOption(f)
      PROVE  up'[v] = up[v] \/ LiveInv(up'[v])
  BY <1>1, <1>3, <1>8 DEF CancelFileOption
<1>9. CASE ClearAllConnectSocket
  BY <1>1, <1>3, <1>9 DEF ClearAllConnectSocket
<1>. QED BY <1>6, <1>7, <1>8, <1>9 DEF User

LEMMA LiveInductive == Spec => []LiveIInv
<1>1. Init => LiveIInv
  <2>1. LiveInv(Fresh)
    BY DEF Fresh, LiveInv, QuietChannel
  <2>. QED BY <2>1, InitType DEF Init, LiveIInv
<1>2. LiveIInv /\ [Next]_vars => LiveIInv'
  <2>. SUFFICES ASSUME LiveIInv, [Next]_vars
                PROVE  LiveIInv'
    OBVIOUS
  <2>1. CASE UNCHANGED vars
    BY <2>1 DEF vars, LiveIInv, TypeOK, LiveInv, QuietChannel
  <2>. QED BY <2>1, NetworkLive, CallbackLive, UserLive DEF Next
<1>. QED BY <1>1, <1>2, PTL DEF Spec

\* When one upload ends, clearDisConnectSocket takes no other upload out of
\* socketArray that is still connecting or transferring, whatever the router
\* answers and whichever elements the enumeration skips.
THEOREM ClearingSparesLive == Spec => ClearSparesLive
<1>1. LiveIInv /\ LiveIInv' /\ [Next]_vars =>
        [\A u \in Uploads : OnDisconnect(u) =>
           \A v \in sockets \ sockets' :
             up[v].conn \notin {"connecting", "open"}]_vars
  <2>. SUFFICES ASSUME LiveIInv, NEW u \in Uploads, OnDisconnect(u),
                       NEW v \in sockets \ sockets'
                PROVE  up[v].conn \notin {"connecting", "open"}
    OBVIOUS
  <2>1. v \in Uploads /\ up[v].complete
    BY DEF OnDisconnect, ClearDisConnectSocket, LiveIInv, TypeOK
  <2>. QED BY <2>1 DEF LiveIInv, LiveInv
<1>. QED BY <1>1, LiveInductive, PTL DEF Spec, ClearSparesLive
-----------------------------------------------------------------------------
(***************************************************************************)
(* No upload hangs.  Whatever a callback finds on an open connection, it   *)
(* writes a frame or closes; onDisconnect is the last event of a           *)
(* connection, so that the callbacks before it leave it in place.          *)
(***************************************************************************)
EndComes(r) == r.conn = "lost" => /\ r.inbox # <<>>
                                  /\ r.inbox[Len(r.inbox)].kind = "disconnect"
GoesOn(r) == /\ EndComes(r)
             /\ r.conn = "open" => r.wire # <<>> \/ r.inbox # <<>>

LEMMA SameGoesOn ==
  ASSUME NEW r, NEW q, q.conn = r.conn, q.wire = r.wire, q.inbox = r.inbox
  PROVE  /\ EndComes(r) => EndComes(q)
         /\ GoesOn(r) => GoesOn(q)
BY DEF EndComes, GoesOn

LEMMA SendGoesOn ==
  ASSUME NEW r \in UploadState, NEW f \in FrameSet, EndComes(r)
  PROVE  GoesOn(SendFileData(r, f))
<1>1. r.wire \in Seq(FrameSet)
  BY DEF UploadState, FrameSet
<1>2. Append(r.wire, f) # <<>>
  BY <1>1, AppendProperties
<1>3. LET q == SendFileData(r, f)
      IN  /\ q.conn = r.conn /\ q.inbox = r.inbox
          /\ r.conn = "open" => q.wire = Append(r.wire, f)
  BY DEF SendFileData, UploadState
<1>. QED BY <1>2, <1>3 DEF EndComes, GoesOn

LEMMA DisconnectGoesOn ==
  ASSUME NEW r \in UploadState, EndComes(r)
  PROVE  GoesOn(Disconnect(r))
BY DEF Disconnect, UploadState, EndComes, GoesOn

LEMMA ResendGoesOn ==
  ASSUME NEW r \in UploadState, EndComes(r)
  PROVE  GoesOn(Resend(r))
<1>1. Frame(r.cur, FALSE) \in FrameSet
  BY DEF Frame, FrameSet, UploadState
<1>2. CASE IsConnected(r)
  BY <1>1, <1>2, SendGoesOn DEF Resend
<1>3. CASE ~IsConnected(r)
  BY <1>3 DEF Resend, IsConnected, GoesOn
<1>. QED BY <1>2, <1>3

LEMMA SendNextGoesOn ==
  ASSUME NEW r \in UploadState, NEW seq \in Nat, NEW n, EndComes(r)
  PROVE  GoesOn(SendNext(r, seq, n))
<1>1. GoesOn(Finish(r))
  <2>. DEFINE d == Disconnect(r)
  <2>1. d \in UploadState /\ GoesOn(d)
    BY DisconnectType, DisconnectGoesOn
  <2>. HIDE DEF d
  <2>2. LET q == [d EXCEPT !.finish = TRUE, !.posted = Append(@, r.code)]
        IN  q.conn = d.conn /\ q.wire = d.wire /\ q.inbox = d.inbox
    BY <2>1 DEF UploadState
  <2>3. GoesOn([d EXCEPT !.finish = TRUE, !.posted = Append(@, r.code)])
    BY <2>1, <2>2, SameGoesOn
  <2>. QED BY <2>3 DEF Finish, d
<1>. DEFINE q == [r EXCEPT !.cur = seq + 1]
<1>2. q \in UploadState /\ EndComes(q)
  <2>1. /\ q \in UploadState
        /\ q.conn = r.conn /\ q.wire = r.wire /\ q.inbox = r.inbox
    BY DEF UploadState
  <2>. QED BY <2>1, SameGoesOn
<1>3. Frame(seq + 1, TRUE) \in FrameSet
  BY DEF Frame, FrameSet
<1>4. GoesOn(SendFileData(q, Frame(seq + 1, TRUE)))
  BY <1>2, <1>3, SendGoesOn
<1>5. ~IsConnected(r) => GoesOn(r)
  BY DEF IsConnected, GoesOn
<1>. QED BY <1>1, <1>4, <1>5 DEF SendNext

LEMMA ReceiveGoesOn ==
  ASSUME NEW r0 \in UploadState, NEW m \in EventSet, NEW n, EndComes(r0)
  PROVE  GoesOn(ReceiveFileData(r0, m, n))
<1>. DEFINE r == [r0 EXCEPT !.complete = TRUE, !.waiting = FALSE, !.code = m.code]
            d == [r EXCEPT !.deleted = @ \/ r.cur = n]
<1>1. r \in UploadState /\ EndComes(r)
  BY DEF UploadState, EventSet, EndComes
<1>2. d \in UploadState /\ EndComes(d)
  <2>1. (r.deleted \/ r.cur = n) \in BOOLEAN
    OBVIOUS
  <2>. HIDE DEF r
  <2>2. /\ d \in UploadState
        /\ d.conn = r.conn /\ d.wire = r.wire /\ d.inbox = r.inbox
    BY <1>1, <2>1 DEF UploadState
  <2>. QED BY <1>1, <2>2, SameGoesOn
<1>3. m.seq \in Nat
  BY DEF EventSet
<1>4. GoesOn(Disconnect(d)) /\ GoesOn(Disconnect(r)) /\ GoesOn(Resend(r))
  BY <1>1, <1>2, DisconnectGoesOn, ResendGoesOn
<1>5. GoesOn(SendNext(r, m.seq, n))
  BY <1>1, <1>3, SendNextGoesOn
<1>. QED BY <1>4, <1>5 DEF ReceiveFileData

LEMMA ResendFileGoesOn ==
  ASSUME NEW r \in UploadState, GoesOn(r)
  PROVE  GoesOn(ResendFile([r EXCEPT !.timer = FALSE]))
<1>. DEFINE q == [r EXCEPT !.timer = FALSE]
<1>1. /\ q \in UploadState
      /\ q.conn = r.conn /\ q.wire = r.wire /\ q.inbox = r.inbox
  BY DEF UploadState
<1>. HIDE DEF q
<1>2. GoesOn(q) /\ EndComes(q)
  BY <1>1, SameGoesOn DEF GoesOn
<1>3. GoesOn(Disconnect(q)) /\ GoesOn(Resend(q))
  BY <1>1, <1>2, DisconnectGoesOn, ResendGoesOn
<1>4. q.cancel \in BOOLEAN /\ q.waiting \in BOOLEAN
  BY <1>1 DEF UploadState
<1>5. GoesOn(ResendFile(q))
  BY <1>2, <1>3, <1>4 DEF ResendFile
<1>. QED BY <1>5 DEF q

\* The event that is taken is not the last one, unless it is onDisconnect.
LEMMA TakenGoesOn ==
  ASSUME NEW u \in Uploads, up[u] \in UploadState, up[u].inbox # <<>>,
         EndComes(up[u]), Head(up[u].inbox).kind # "disconnect"
  PROVE  EndComes(Taken(u))
<1>. DEFINE r == up[u]
            t == Taken(u)
<1>1. t.conn = r.conn /\ t.inbox = Tail(r.inbox)
  BY DEF Taken, UploadState
<1>2. r.inbox \in Seq(EventSet) /\ r.inbox # <<>>
  BY DEF UploadState, EventSet
<1>3. /\ Len(r.inbox) \in Nat \ {0}
      /\ Len(t.inbox) = Len(r.inbox) - 1
      /\ Head(r.inbox) = r.inbox[1]
      /\ \A i \in 1..Len(t.inbox) :
           i + 1 \in 1..Len(r.inbox) /\ t.inbox[i] = r.inbox[i + 1]
  BY <1>1, <1>2, TailShift
<1>. HIDE DEF r, t
<1>4. ASSUME t.conn = "lost"
      PROVE  t.inbox # <<>> /\ t.inbox[Len(t.inbox)].kind = "disconnect"
  <2>1. r.inbox[Len(r.inbox)].kind = "disconnect"
    BY <1>1, <1>4 DEF EndComes, r
  <2>2. Len(r.inbox) # 1
    BY <1>3, <2>1 DEF r
  <2>3. Len(t.inbox) \in 1..Len(t.inbox) /\ Len(t.inbox) + 1 = Len(r.inbox)
    <3>1. \A a \in Nat \ {0} : a # 1 => a - 1 \in 1..(a - 1) /\ (a - 1) + 1 = a
      OBVIOUS
    <3>. QED BY <1>3, <2>2, <3>1
  <2>4. t.inbox[Len(t.inbox)] = r.inbox[Len(r.inbox)]
    BY <1>3, <2>3
  <2>5. t.inbox # <<>>
    BY <2>3
  <2>. QED BY <2>1, <2>4, <2>5
<1>. QED BY <1>4 DEF EndComes, t

HangInv == \A u \in Uploads : GoesOn(up[u])

LEMMA NetworkGoesOn ==
  ASSUME LiveIInv, HangInv, NEW u \in Uploads, Network(u)
  PROVE  HangInv'
<1>1. TypeOK /\ up[u] \in UploadState /\ LiveInv(up[u]) /\ GoesOn(up[u])
  BY DEF LiveIInv, HangInv, TypeOK
<1>. DEFINE r == up[u]
            q == up'[u]
<1>2. r.inbox \in Seq(EventSet)
  BY <1>1 DEF UploadState, EventSet
<1>3. CASE Connect(u)
  <2>1. q.conn = "open" /\ q.inbox = <<OnConnectEvent>>
    BY <1>1, <1>3 DEF Connect, TypeOK, UploadState
  <2>2. GoesOn(q)
    BY <2>1 DEF GoesOn, EndComes
  <2>. QED BY <1>1, <1>3, <2>2 DEF Connect, HangInv, GoesOn, EndComes, TypeOK
<1>4. CASE Lose(u) \/ RouterCloses(u)
  <2>1. PICK s \in Seq(EventSet) :
          q.conn = "lost" /\ q.inbox = Append(s, OnDisconnectEvent)
    <3>1. CASE Lose(u)
      <4>1. PICK k \in 0..Len(r.inbox) :
              up' = [up EXCEPT ![u].conn = "lost", ![u].wire = <<>>,
                       ![u].inbox = Append(SubSeq(@, 1, k), OnDisconnectEvent)]
        BY <3>1 DEF Lose
      <4>2. q = [r EXCEPT !.conn = "lost", !.wire = <<>>,
                   !.inbox = Append(SubSeq(@, 1, k), OnDisconnectEvent)]
        BY <1>1, <4>1 DEF TypeOK
      <4>3. SubSeq(r.inbox, 1, k) \in Seq(EventSet)
        BY <1>2, SubSeqProperties
      <4>4. r \in UploadState
        BY <1>1
      <4>. HIDE DEF q, r
      <4>5. q.conn = "lost" /\ q.inbox = Append(SubSeq(r.inbox, 1, k), OnDisconnectEvent)
        BY <4>2, <4>4 DEF UploadState
      <4>. QED BY <4>3, <4>5
    <3>2. CASE RouterCloses(u)
      <4>1. q.conn = "lost" /\ q.inbox = Append(r.inbox, OnDisconnectEvent)
        BY <1>1, <3>2 DEF RouterCloses, TypeOK, UploadState
      <4>. QED BY <1>2, <4>1
    <3>. QED BY <1>4, <3>1, <3>2
  <2>2. /\ q.inbox # <<>> /\ q.inbox[Len(q.inbox)] = OnDisconnectEvent
    <3>1. OnDisconnectEvent \in EventSet
      BY DEF OnDisconnectEvent, EventSet, Codes
    <3>. QED BY <2>1, <3>1, AppendProperties
  <2>3. GoesOn(q)
    BY <2>1, <2>2 DEF GoesOn, EndComes, OnDisconnectEvent
  <2>4. \A v \in Uploads \ {u} : up'[v] = up[v]
    BY <1>1, <1>4 DEF Lose, RouterCloses, TypeOK
  <2>. QED BY <2>3, <2>4 DEF HangInv, GoesOn, EndComes
<1>5. CASE RouterAnswers(u)
  <2>1. PICK c, S : up' = [up EXCEPT ![u].wire = Tail(@), ![u].stored = S,
            ![u].inbox = Append(@, Answer(Head(up[u].wire).seq, c))]
    BY <1>5 DEF RouterAnswers
  <2>. DEFINE a == Answer(Head(r.wire).seq, c)
  <2>2. q = [r EXCEPT !.wire = Tail(@), !.stored = S, !.inbox = Append(@, a)]
    BY <1>1, <2>1 DEF TypeOK
  <2>3. r \in UploadState
    BY <1>1
  <2>4. r.conn \in {"open", "closing"}
    BY <1>1, <1>5 DEF RouterAnswers, LiveInv, QuietChannel
  <2>5. \A v \in Uploads \ {u} : up'[v] = up[v]
    BY <1>1, <2>1 DEF TypeOK
  <2>. HIDE DEF q, r, a
  <2>6. q.inbox = Append(r.inbox, a) /\ q.conn = r.conn
    BY <2>2, <2>3 DEF UploadState
  <2>7. q.inbox # <<>>
    BY <1>2, <2>6, AppendProperties
  <2>8. GoesOn(q)
    BY <2>4, <2>6, <2>7 DEF GoesOn, EndComes
  <2>. QED BY <2>5, <2>8 DEF HangInv, GoesOn, EndComes, q
<1>. QED BY <1>3, <1>4, <1>5 DEF Network

LEMMA CallbackGoesOn ==
  ASSUME LiveIInv, HangInv, NEW u \in Uploads, Callback(u)
  PROVE  HangInv'
<1>1. TypeOK /\ up[u] \in UploadState /\ LiveInv(up[u]) /\ GoesOn(up[u]) /\ EndComes(up[u])
  BY DEF LiveIInv, HangInv, TypeOK, GoesOn
<1>. SUFFICES ASSUME NEW r, GoesOn(r), up' = [up EXCEPT ![u] = r]
              PROVE  HangInv'
  <2>1. CASE OnConnect(u)
    <3>1. Taken(u) \in UploadState /\ EndComes(Taken(u))
      BY <1>1, <2>1, TakenType, TakenGoesOn DEF OnConnect, HasEvent
    <3>2. Frame(1, TRUE) \in FrameSet
      BY DEF Frame, FrameSet
    <3>3. GoesOn(SendFileData(Taken(u), Frame(1, TRUE)))
      BY <3>1, <3>2, SendGoesOn
    <3>. QED BY <2>1, <3>3 DEF OnConnect
  <2>2. CASE OnData(u)
    <3>1. /\ Taken(u) \in UploadState /\ EndComes(Taken(u))
          /\ Head(up[u].inbox) \in EventSet
      BY <1>1, <2>2, TakenType, TakenGoesOn DEF OnData, HasEvent
    <3>2. GoesOn(ReceiveFileData(Taken(u), Head(up[u].inbox), N(u)))
      BY <3>1, ReceiveGoesOn
    <3>. QED BY <2>2, <3>2 DEF OnData
  <2>3. CASE OnDisconnect(u)
    <3>. DEFINE x == [Taken(u) EXCEPT !.conn = "closed"]
                c == LostCode(x)
                y == [x EXCEPT !.code = c, !.posted = Append(@, c)]
    <3>1. Taken(u) \in UploadState
      BY <1>1, <2>3, TakenType DEF OnDisconnect, HasEvent
    <3>2. x.conn = "closed" /\ x \in UploadState
      BY <3>1 DEF UploadState
    <3>3. up' = [up EXCEPT ![u] = x] \/ up' = [up EXCEPT ![u] = y]
      BY <2>3 DEF OnDisconnect
    <3>. HIDE DEF x
    <3>4. y.conn = "closed"
      BY <3>2 DEF UploadState
    <3>. HIDE DEF y
    <3>5. GoesOn(x) /\ GoesOn(y)
      BY <3>2, <3>4 DEF GoesOn, EndComes
    <3>. QED BY <3>3, <3>5
  <2>4. CASE TimerFires(u)
    BY <1>1, <2>4, ResendFileGoesOn DEF TimerFires
  <2>. QED BY <2>1, <2>2, <2>3, <2>4 DEF Callback
<1>2. \A v \in Uploads : up'[v] = up[v] \/ up'[v] = r
  BY <1>1 DEF TypeOK
<1>. QED BY <1>2 DEF HangInv, GoesOn, EndComes

LEMMA UserGoesOn ==
  ASSUME TypeOK, HangInv, User
  PROVE  HangInv'
<1>1. up \in [Uploads -> UploadState]
  BY DEF TypeOK
<1>. SUFFICES ASSUME NEW v \in Uploads
              PROVE  up'[v] = up[v] \/ GoesOn(up'[v])
  BY DEF HangInv, GoesOn, EndComes
<1>2. up[v] \in UploadState /\ GoesOn(up[v]) /\ EndComes(up[v])
  BY <1>1 DEF HangInv, GoesOn
<1>3. GoesOn(Disconnect(up[v]))
  BY <1>2, DisconnectGoesOn
<1>4. GoesOn([up[v] EXCEPT !.cancel = TRUE])
  BY <1>2 DEF GoesOn, EndComes, UploadState
<1>5. GoesOn([up[v] EXCEPT !.conn = "connecting"])
  BY <1>2 DEF GoesOn, EndComes, UploadState
<1>6. ASSUME NEW u \in Uploads, Start(u)
      PROVE  up'[v] = up[v] \/ GoesOn(up'[v])
  BY <1>1, <1>5, <1>6 DEF Start
<1>7. ASSUME NEW f \in ChatFiles, Withdraw(f)
      PROVE  up'[v] = up[v] \/ GoesOn(up'[v])
  BY <1>1, <1>4, <1>7 DEF Withdraw
<1>8. ASSUME NEW f \in Files, CancelFileOption(f)
      PROVE  up'[v] = up[v] \/ GoesOn(up'[v])
  BY <1>1, <1>3, <1>8 DEF CancelFileOption
<1>9. CASE ClearAllConnectSocket
  BY <1>1, <1>3, <1>9 DEF ClearAllConnectSocket
<1>. QED BY <1>6, <1>7, <1>8, <1>9 DEF User

\* Nobody waits for an answer to nothing: on an open connection a frame or an event
\* is under way, and a lost connection still reports its end, whatever the router
\* answers, to a bare header included (sendFileWithTag, receiveFileData, resendFile,
\* withdrawal and log-out).
THEOREM UploadsNeverHang == Spec => []NeverHangs
<1>1. Init => HangInv
  <2>1. GoesOn(Fresh)
    BY DEF Fresh, GoesOn, EndComes
  <2>2. Init => \A u \in Uploads : up[u] = Fresh
    BY DEF Init
  <2>. QED BY <2>1, <2>2 DEF HangInv
<1>2. LiveIInv /\ HangInv /\ [Next]_vars => HangInv'
  <2>. SUFFICES ASSUME LiveIInv, HangInv, [Next]_vars
                PROVE  HangInv'
    OBVIOUS
  <2>1. CASE UNCHANGED vars
    BY <2>1 DEF vars, HangInv, GoesOn, EndComes
  <2>2. CASE Next
    BY <2>2, NetworkGoesOn, CallbackGoesOn, UserGoesOn DEF Next, LiveIInv
  <2>. QED BY <2>1, <2>2
<1>3. LiveIInv /\ HangInv => NeverHangs
  <2>. SUFFICES ASSUME LiveIInv, HangInv, NEW u \in Uploads
                PROVE  LET r == up[u] IN
                         /\ r.conn = "open" => r.wire # <<>> \/ r.inbox # <<>>
                         /\ r.conn = "lost" =>
                              \E i \in 1..Len(r.inbox) : r.inbox[i].kind = "disconnect"
    BY DEF NeverHangs
  <2>1. up[u].inbox \in Seq(EventSet) /\ GoesOn(up[u])
    BY DEF LiveIInv, HangInv, TypeOK, UploadState, EventSet
  <2>2. up[u].inbox # <<>> => Len(up[u].inbox) \in 1..Len(up[u].inbox)
    BY <2>1, LenProperties, EmptySeq
  <2>. QED BY <2>1, <2>2 DEF GoesOn, EndComes
<1>. QED BY <1>1, <1>2, <1>3, LiveInductive, PTL DEF Spec
=============================================================================
