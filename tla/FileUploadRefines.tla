--------------------------- MODULE FileUploadRefines ---------------------------
(***************************************************************************)
(* FileUpload implements Transfer, for any uploads, files and numbers of   *)
(* segments: a callback moves what Transfer sees of one upload by one step *)
(* of Transfer at most.  The lemmas are about the record of that upload    *)
(* before (r) and after (q).                                               *)
(***************************************************************************)
EXTENDS FileUploadProofs

Silent(r, q) == q.stored = r.stored /\ q.posted = r.posted /\ q.cancel = r.cancel

Stores(r, q, n) == /\ r.posted = <<>> /\ q.posted = r.posted
                   /\ q.cancel = r.cancel
                   /\ \E k \in 1..n : r.stored = 1..(k - 1) /\ q.stored = 1..k

Reports(r, q, n) == /\ r.posted = <<>> /\ ~r.cancel
                    /\ q.cancel = r.cancel /\ q.stored = r.stored
                    /\ \E c \in {0, 1, 2, 5} : /\ q.posted = <<c>>
                                               /\ c = 0 => r.stored = 1..n

Cancels(r, q) == q.stored = r.stored /\ q.posted = r.posted /\ q.cancel = TRUE

Moves(r, q, n) == Silent(r, q) \/ Stores(r, q, n) \/ Reports(r, q, n) \/ Cancels(r, q)

-----------------------------------------------------------------------------
(***************************************************************************)
(* From one record to the variables of Transfer.                           *)
(***************************************************************************)
LEMMA SilentStutters ==
  ASSUME \A v \in Uploads : Silent(up[v], up'[v])
  PROVE  UNCHANGED Promise!vars
<1>1. [u \in Uploads |-> up'[u].stored] = [u \in Uploads |-> up[u].stored]
  BY DEF Silent
<1>2. [u \in Uploads |-> up'[u].posted] = [u \in Uploads |-> up[u].posted]
  BY DEF Silent
<1>3. {u \in Uploads : up'[u].cancel} = {u \in Uploads : up[u].cancel}
  BY DEF Silent
<1>. QED BY <1>1, <1>2, <1>3 DEF Promise!vars

LEMMA MovesImplement ==
  ASSUME NEW u \in Uploads, NEW q, up \in [Uploads -> UploadState],
         up' = [up EXCEPT ![u] = q], Moves(up[u], q, N(u))
  PROVE  [Promise!Next]_(Promise!vars)
<1>. DEFINE r == up[u]
            got == [v \in Uploads |-> up[v].stored]
            result == [v \in Uploads |-> up[v].posted]
            cancelled == {v \in Uploads : up[v].cancel}
<1>1. up'[u] = q /\ \A v \in Uploads : v # u => up'[v] = up[v]
  OBVIOUS
<1>2. q.stored = r.stored =>
        [v \in Uploads |-> up'[v].stored] = got
  BY <1>1
<1>3. q.posted = r.posted =>
        [v \in Uploads |-> up'[v].posted] = result
  BY <1>1
<1>4. q.cancel = r.cancel =>
        {v \in Uploads : up'[v].cancel} = cancelled
  BY <1>1
<1>5. CASE Silent(r, q)
  BY <1>1, <1>5, SilentStutters DEF Silent
<1>6. CASE Stores(r, q, N(u))
  <2>1. PICK k \in 1..N(u) : r.stored = 1..(k - 1) /\ q.stored = 1..k
    BY <1>6 DEF Stores
  <2>2. [v \in Uploads |-> up'[v].stored] = [got EXCEPT ![u] = 1..k]
    BY <1>1, <2>1
  <2>3. got[u] = 1..(k - 1) /\ result[u] = <<>>
    BY <1>6, <2>1 DEF Stores
  <2>4. [v \in Uploads |-> N(v)][u] = N(u)
    OBVIOUS
  <2>5. Promise!Store(u)
    BY <1>3, <1>4, <1>6, <2>1, <2>2, <2>3, <2>4 DEF Promise!Store, Stores
  <2>. QED BY <2>5 DEF Promise!Next
<1>7. CASE Reports(r, q, N(u))
  <2>1. PICK c \in {0, 1, 2, 5} : q.posted = <<c>> /\ (c = 0 => r.stored = 1..N(u))
    BY <1>7 DEF Reports
  <2>2. [v \in Uploads |-> up'[v].posted] = [result EXCEPT ![u] = <<c>>]
    BY <1>1, <2>1
  <2>3. /\ result[u] = <<>> /\ u \notin cancelled
        /\ c = 0 => got[u] = 1..([v \in Uploads |-> N(v)][u])
    BY <1>7, <2>1 DEF Reports
  <2>4. Promise!ReportOf(u, c)
    BY <1>2, <1>4, <1>7, <2>2, <2>3 DEF Promise!ReportOf, Reports
  <2>. QED BY <2>1, <2>4 DEF Promise!Next
<1>8. CASE Cancels(r, q)
  <2>1. {v \in Uploads : up'[v].cancel} = cancelled \cup {u}
    BY <1>1, <1>8 DEF Cancels
  <2>2. Promise!Cancel(u)
    BY <1>2, <1>3, <1>8, <2>1 DEF Promise!Cancel, Cancels
  <2>. QED BY <2>2 DEF Promise!Next
<1>. QED BY <1>5, <1>6, <1>7, <1>8 DEF Moves
-----------------------------------------------------------------------------
(***************************************************************************)
(* What each operator on an upload record does to what Transfer sees.      *)
(***************************************************************************)
LEMMA DisconnectSilent ==
  ASSUME NEW r \in UploadState
  PROVE  Silent(r, Disconnect(r))
BY DEF Silent, Disconnect, UploadState

LEMMA SendSilent ==
  ASSUME NEW r \in UploadState, NEW f
  PROVE  Silent(r, SendFileData(r, f))
BY DEF Silent, SendFileData, UploadState

LEMMA ResendSilent ==
  ASSUME NEW r \in UploadState
  PROVE  Silent(r, Resend(r))
BY SendSilent DEF Resend, Silent

\* The last acceptance is reported, an earlier one sends the next segment.
LEMMA SendNextMoves ==
  ASSUME NEW r \in UploadState, NEW n, NEW seq \in Nat, MaySend(r, n),
         r.posted = <<>>, ~r.cancel, r.code = 0, r.cur \in r.stored
  PROVE  Moves(r, SendNext(r, seq, n), n)
<1>1. CASE r.cur = n
  <2>. DEFINE d == Disconnect(r)
  <2>1. d \in UploadState /\ Silent(r, d)
    BY DisconnectType, DisconnectSilent
  <2>. HIDE DEF d
  <2>2. Finish(r) = [d EXCEPT !.finish = TRUE, !.posted = Append(@, r.code)]
    BY DEF Finish, d
  <2>3. d.posted = <<>>
    BY <2>1 DEF Silent
  <2>4. Append(d.posted, r.code) = <<0>>
    BY <2>3
  <2>5. /\ Finish(r).posted = <<0>> /\ Finish(r).stored = r.stored
        /\ Finish(r).cancel = r.cancel
    BY <2>1, <2>2, <2>4 DEF UploadState, Silent
  <2>6. r.stored = 1..n
    <3>1. /\ 1..(r.cur - 1) \subseteq r.stored /\ r.stored \subseteq 1..r.cur
          /\ r.cur \in Nat
      BY DEF MaySend, UploadState
    <3>2. 1..r.cur \subseteq 1..(r.cur - 1) \cup {r.cur}
      BY <3>1
    <3>. QED BY <1>1, <3>1, <3>2
  <2>7. SendNext(r, seq, n) = Finish(r)
    BY <1>1 DEF SendNext
  <2>. QED BY <2>5, <2>6, <2>7 DEF Moves, Reports
<1>2. CASE r.cur # n /\ ~IsConnected(r)
  BY <1>2 DEF SendNext, Moves, Silent
<1>3. CASE r.cur # n /\ IsConnected(r)
  <2>. DEFINE q == [r EXCEPT !.cur = seq + 1]
  <2>1. q \in UploadState /\ Silent(r, q)
    <3>1. seq + 1 \in Nat
      OBVIOUS
    <3>. QED BY <3>1 DEF UploadState, Silent
  <2>2. SendNext(r, seq, n) = SendFileData(q, Frame(seq + 1, TRUE))
    BY <1>3 DEF SendNext
  <2>. HIDE DEF q
  <2>3. Silent(q, SendFileData(q, Frame(seq + 1, TRUE)))
    BY <2>1, SendSilent
  <2>. QED BY <2>1, <2>2, <2>3 DEF Moves, Silent
<1>. QED BY <1>1, <1>2, <1>3

LEMMA ReceiveMoves ==
  ASSUME NEW r0 \in UploadState, NEW n, UploadInv(r0, n),
         r0.inbox # <<>>, Head(r0.inbox).kind = "answer"
  PROVE  Moves(r0, ReceiveFileData(TakenOf(r0), Head(r0.inbox), n), n)
<1>. DEFINE t == TakenOf(r0)
            m == Head(r0.inbox)
            r == [t EXCEPT !.complete = TRUE, !.waiting = FALSE, !.code = m.code]
            d == [r EXCEPT !.deleted = @ \/ r.cur = n]
            q == ReceiveFileData(t, m, n)
<1>1. t \in UploadState /\ m \in EventSet /\ UploadInv(t, n)
  BY TakeInv
<1>2. m.code = 0 => MaySend(t, n) /\ m.seq = t.cur /\ t.cur \in t.stored
  BY TakeInv
<1>3. Silent(r0, t)
  BY DEF TakenOf, Silent, UploadState
<1>. HIDE DEF t, m
<1>4. /\ r \in UploadState /\ SameTransfer(t, r) /\ r.code = m.code
      /\ r.cancel \in BOOLEAN /\ Silent(t, r)
  BY <1>1 DEF UploadState, EventSet, SameTransfer, Silent
<1>5. d \in UploadState /\ Silent(r, d)
  <2>1. (r.deleted \/ r.cur = n) \in BOOLEAN
    OBVIOUS
  <2>. HIDE DEF r
  <2>. QED BY <1>4, <2>1 DEF UploadState, Silent
<1>6. q = CASE r.cancel -> Disconnect(d)
            [] ~r.cancel /\ m.code = 0 -> SendNext(r, m.seq, n)
            [] ~r.cancel /\ m.code = 5 -> Disconnect(r)
            [] ~r.cancel /\ m.code \notin {0, 5} -> Resend(r)
  BY DEF ReceiveFileData
<1>. HIDE DEF r, d, q
<1>7. Moves(r, q, n)
  <2>1. CASE r.cancel
    <3>1. Silent(d, Disconnect(d))
      BY <1>5, DisconnectSilent
    <3>2. q = Disconnect(d)
      BY <1>6, <2>1
    <3>. QED BY <1>5, <3>1, <3>2 DEF Moves, Silent
  <2>2. CASE ~r.cancel /\ m.code = 5
    BY <1>4, <1>6, <2>2, DisconnectSilent DEF Moves
  <2>3. CASE ~r.cancel /\ m.code \notin {0, 5}
    BY <1>4, <1>6, <2>3, ResendSilent DEF Moves
  <2>4. CASE ~r.cancel /\ m.code = 0
    <3>1. BodyFrames(r) = BodyFrames(t) /\ GoodAnswers(r) = GoodAnswers(t)
      BY <1>4 DEF SameTransfer, BodyFrames, GoodAnswers
    <3>2. MaySend(r, n) /\ r.cur \in r.stored
      BY <1>2, <1>4, <2>4, <3>1 DEF SameTransfer, MaySend, NoToken
    <3>3. r.posted = <<>>
      BY <1>1, <1>4, <3>2 DEF UploadInv, PostedInv, MaySend, SameTransfer
    <3>4. m.seq \in Nat
      BY <1>1 DEF EventSet
    <3>5. q = SendNext(r, m.seq, n)
      BY <1>6, <2>4
    <3>. QED BY <1>4, <2>4, <3>2, <3>3, <3>4, <3>5, SendNextMoves
  <2>. QED BY <1>4, <2>1, <2>2, <2>3, <2>4
<1>8. Moves(r0, q, n)
  BY <1>3, <1>4, <1>7 DEF Moves, Silent, Stores, Reports, Cancels
<1>. QED BY <1>8 DEF q, t, m

LEMMA ClosedMoves ==
  ASSUME NEW r \in UploadState, NEW n, UploadInv(r, n),
         r.inbox # <<>>, Head(r.inbox).kind = "disconnect"
  PROVE  LET t == [TakenOf(r) EXCEPT !.conn = "closed"]
             c == LostCode(t)
         IN  /\ t.cancel = r.cancel /\ t.finish = r.finish
             /\ Silent(r, t)
             /\ ~t.cancel /\ ~t.finish =>
                  Moves(r, [t EXCEPT !.code = c, !.posted = Append(@, c)], n)
<1>. DEFINE k == TakenOf(r)
            t == [k EXCEPT !.conn = "closed"]
            c == LostCode(t)
            q == [t EXCEPT !.code = c, !.posted = Append(@, c)]
<1>1. k \in UploadState /\ (~k.finish => k.posted = <<>>)
  BY TakeInv
<1>2. Silent(r, k) /\ k.finish = r.finish
  BY DEF TakenOf, Silent, UploadState
<1>. HIDE DEF k
<1>3. t \in UploadState /\ Silent(k, t) /\ t.finish = k.finish
  BY <1>1 DEF UploadState, Silent
<1>. HIDE DEF t
<1>4. c \in {1, 2, 5}
  BY <1>3 DEF LostCode, UploadState, Codes
<1>. HIDE DEF c
<1>5. q.posted = Append(t.posted, c) /\ q.stored = t.stored /\ q.cancel = t.cancel
  BY <1>3 DEF UploadState
<1>. HIDE DEF q
<1>6. ~t.finish => q.posted = <<c>>
  <2>1. ~t.finish => t.posted = <<>>
    BY <1>1, <1>3 DEF Silent
  <2>2. Append(<<>>, c) = <<c>>
    OBVIOUS
  <2>. QED BY <1>5, <2>1, <2>2
<1>7. ~t.cancel /\ ~t.finish => Reports(r, q, n)
  BY <1>1, <1>2, <1>3, <1>4, <1>5, <1>6 DEF Silent, Reports
<1>8. Silent(r, t) /\ t.cancel = r.cancel /\ t.finish = r.finish
  BY <1>2, <1>3 DEF Silent
<1>. QED BY <1>7, <1>8 DEF Moves, q, c, t, k

\* An acceptance of the bytes of the current segment stores it.
LEMMA AnswerMoves ==
  ASSUME NEW r \in UploadState, NEW n, UploadInv(r, n), r.wire # <<>>,
         NEW c \in Codes
  PROVE  LET f == Head(r.wire) IN
         Moves(r, [r EXCEPT !.wire = Tail(@),
                     !.stored = IF f.body /\ c = 0 THEN @ \cup {f.seq} ELSE @,
                     !.inbox = Append(@, Answer(f.seq, c))], n)
<1>. DEFINE f == Head(r.wire)
            q == [r EXCEPT !.wire = Tail(@),
                     !.stored = IF f.body /\ c = 0 THEN @ \cup {f.seq} ELSE @,
                     !.inbox = Append(@, Answer(f.seq, c))]
<1>1. r.wire \in Seq(FrameSet)
  BY DEF UploadState, FrameSet
<1>2. f = r.wire[1] /\ (f.body <=> 1 \in BodyFrames(r))
  BY <1>1, BodiesTail, TailShift, Positions
<1>3. /\ q.stored = IF f.body /\ c = 0 THEN r.stored \cup {f.seq} ELSE r.stored
      /\ q.posted = r.posted /\ q.cancel = r.cancel
  BY DEF UploadState
<1>. HIDE DEF q, f
<1>4. ASSUME ~(f.body /\ c = 0)
      PROVE  Moves(r, q, n)
  BY <1>3, <1>4 DEF Moves, Silent
<1>5. ASSUME f.body, c = 0
      PROVE  Moves(r, q, n)
  <2>1. f.seq = r.cur /\ 1 \in BodyFrames(r)
    BY <1>2, <1>5 DEF UploadInv, TokenInv
  <2>2. r.posted = <<>>
    <3>1. ~r.finish
      BY <2>1 DEF UploadInv, SegmentInv, NoToken
    <3>2. r.conn # "closed"
      BY DEF UploadInv, ChannelInv
    <3>. QED BY <3>1, <3>2 DEF UploadInv, PostedInv
  <2>3. /\ r.cur \in 1..n /\ 1..(r.cur - 1) \subseteq r.stored
        /\ r.stored \subseteq 1..r.cur /\ r.cur \in Nat
    BY DEF UploadInv, SegmentInv, UploadState
  <2>4. /\ 1..(r.cur - 1) \cup {r.cur} = 1..r.cur
        /\ r.cur \notin 1..(r.cur - 1)
    BY <2>3
  <2>5. q.stored = 1..r.cur
    BY <1>3, <1>5, <2>1, <2>3, <2>4
  <2>6. CASE r.cur \in r.stored
    <3>1. q.stored = r.stored
      BY <1>3, <1>5, <2>1, <2>6
    <3>. QED BY <1>3, <3>1 DEF Moves, Silent
  <2>7. CASE r.cur \notin r.stored
    <3>1. r.stored = 1..(r.cur - 1)
      BY <2>3, <2>4, <2>7
    <3>. QED BY <1>3, <2>2, <2>3, <2>5, <3>1 DEF Moves, Stores
  <2>. QED BY <2>6, <2>7
<1>6. Moves(r, q, n)
  BY <1>4, <1>5
<1>. QED BY <1>6 DEF q, f
-----------------------------------------------------------------------------
(***************************************************************************)
(* The refinement, action by action.                                       *)
(***************************************************************************)
LEMMA InitImplements == Init => Promise!Init
BY DEF Init, Fresh, Promise!Init

LEMMA NetworkImplements ==
  ASSUME IInv, NEW u \in Uploads, Network(u)
  PROVE  [Promise!Next]_(Promise!vars)
<1>1. /\ up \in [Uploads -> UploadState] /\ up[u] \in UploadState
      /\ UploadInv(up[u], N(u))
  BY DEF IInv, TypeOK
<1>. SUFFICES ASSUME NEW q, up' = [up EXCEPT ![u] = q], Moves(up[u], q, N(u))
              PROVE  [Promise!Next]_(Promise!vars)
  <2>1. CASE Connect(u)
    <3>. DEFINE q == [up[u] EXCEPT !.conn = "open", !.inbox = <<OnConnectEvent>>]
    <3>1. up' = [up EXCEPT ![u] = q]
      BY <1>1, <2>1 DEF Connect
    <3>2. Silent(up[u], q)
      BY <1>1 DEF UploadState, Silent
    <3>. QED BY <3>1, <3>2 DEF Moves
  <2>2. CASE Lose(u)
    <3>1. PICK k \in 0..Len(up[u].inbox) :
            up' = [up EXCEPT ![u].conn = "lost", ![u].wire = <<>>,
                     ![u].inbox = Append(SubSeq(@, 1, k), OnDisconnectEvent)]
      BY <2>2 DEF Lose
    <3>. DEFINE q == [up[u] EXCEPT !.conn = "lost", !.wire = <<>>,
                        !.inbox = Append(SubSeq(@, 1, k), OnDisconnectEvent)]
    <3>2. up' = [up EXCEPT ![u] = q]
      BY <1>1, <3>1
    <3>3. Silent(up[u], q)
      BY <1>1 DEF UploadState, Silent
    <3>. QED BY <3>2, <3>3 DEF Moves
  <2>3. CASE RouterAnswers(u)
    <3>. DEFINE f == Head(up[u].wire)
    <3>1. PICK c \in (IF f.body THEN BodyCodes ELSE BareCodes) :
            up' = [up EXCEPT ![u].wire = Tail(@),
                     ![u].stored = IF f.body /\ c = 0 THEN @ \cup {f.seq} ELSE @,
                     ![u].inbox = Append(@, Answer(f.seq, c))]
      BY <2>3 DEF RouterAnswers
    <3>2. c \in Codes
      BY <3>1, ConstantsOK
    <3>. DEFINE q == [up[u] EXCEPT !.wire = Tail(@),
                        !.stored = IF f.body /\ c = 0 THEN @ \cup {f.seq} ELSE @,
                        !.inbox = Append(@, Answer(f.seq, c))]
    <3>3. up' = [up EXCEPT ![u] = q]
      BY <1>1, <3>1
    <3>4. Moves(up[u], q, N(u))
      BY <1>1, <2>3, <3>2, AnswerMoves DEF RouterAnswers
    <3>. QED BY <3>3, <3>4
  <2>4. CASE RouterCloses(u)
    <3>. DEFINE q == [up[u] EXCEPT !.conn = "lost",
                        !.inbox = Append(@, OnDisconnectEvent)]
    <3>1. up' = [up EXCEPT ![u] = q]
      BY <1>1, <2>4 DEF RouterCloses
    <3>2. Silent(up[u], q)
      BY <1>1 DEF UploadState, Silent
    <3>. QED BY <3>1, <3>2 DEF Moves
  <2>. QED BY <2>1, <2>2, <2>3, <2>4 DEF Network
<1>. QED BY <1>1, MovesImplement

LEMMA CallbackImplements ==
  ASSUME IInv, NEW u \in Uploads, Callback(u)
  PROVE  [Promise!Next]_(Promise!vars)
<1>1. /\ up \in [Uploads -> UploadState] /\ up[u] \in UploadState
      /\ UploadInv(up[u], N(u))
  BY DEF IInv, TypeOK
<1>. SUFFICES ASSUME NEW q, up' = [up EXCEPT ![u] = q], Moves(up[u], q, N(u))
              PROVE  [Promise!Next]_(Promise!vars)
  <2>. DEFINE t == TakenOf(up[u])
  <2>1. Taken(u) = t /\ Silent(up[u], t)
    BY <1>1 DEF Taken, TakenOf, Silent, UploadState
  <2>2. CASE OnConnect(u)
    <3>. DEFINE q == SendFileData(t, Frame(1, TRUE))
    <3>1. t \in UploadState
      BY <1>1, <2>2, TakeInv DEF OnConnect, HasEvent
    <3>2. up' = [up EXCEPT ![u] = q]
      BY <2>1, <2>2 DEF OnConnect
    <3>. HIDE DEF t
    <3>3. Silent(t, q)
      BY <3>1, SendSilent
    <3>. QED BY <2>1, <3>2, <3>3 DEF Moves, Silent
  <2>3. CASE OnData(u)
    <3>1. Moves(up[u], ReceiveFileData(t, Head(up[u].inbox), N(u)), N(u))
      BY <1>1, <2>3, ReceiveMoves DEF OnData, HasEvent
    <3>. QED BY <2>1, <2>3, <3>1 DEF OnData
  <2>4. CASE OnDisconnect(u)
    <3>. DEFINE x == [t EXCEPT !.conn = "closed"]
                c == LostCode(x)
                y == [x EXCEPT !.code = c, !.posted = Append(@, c)]
    <3>1. /\ Silent(up[u], x)
          /\ ~x.cancel /\ ~x.finish => Moves(up[u], y, N(u))
      BY <1>1, <2>4, ClosedMoves DEF OnDisconnect, HasEvent
    <3>2. \/ up' = [up EXCEPT ![u] = x]
          \/ ~x.cancel /\ ~x.finish /\ up' = [up EXCEPT ![u] = y]
      BY <2>1, <2>4 DEF OnDisconnect
    <3>3. Moves(up[u], x, N(u))
      BY <3>1 DEF Moves
    <3>. QED BY <3>1, <3>2, <3>3
  <2>5. CASE TimerFires(u)
    <3>. DEFINE x == [up[u] EXCEPT !.timer = FALSE]
    <3>1. x \in UploadState /\ Silent(up[u], x)
      BY <1>1 DEF UploadState, Silent
    <3>2. up' = [up EXCEPT ![u] = ResendFile(x)]
      BY <2>5 DEF TimerFires
    <3>3. x.cancel \in BOOLEAN /\ x.waiting \in BOOLEAN
      BY <3>1 DEF UploadState
    <3>. HIDE DEF x
    <3>4. Silent(x, ResendFile(x))
      BY <3>1, <3>3, DisconnectSilent, ResendSilent DEF ResendFile, Silent
    <3>. QED BY <3>1, <3>2, <3>4 DEF Moves, Silent
  <2>. QED BY <2>2, <2>3, <2>4, <2>5 DEF Callback
<1>. QED BY <1>1, MovesImplement

LEMMA UserImplements ==
  ASSUME IInv, User
  PROVE  [Promise!Next]_(Promise!vars)
<1>1. up \in [Uploads -> UploadState] /\ sockets \subseteq Uploads
  BY DEF IInv, TypeOK
<1>2. ASSUME NEW v \in Uploads
      PROVE  Silent(up[v], Disconnect(up[v])) /\ Silent(up[v], up[v])
  BY <1>1, DisconnectSilent DEF Silent
<1>3. ASSUME NEW u \in Uploads, Start(u)
      PROVE  [Promise!Next]_(Promise!vars)
  <2>. DEFINE q == [up[u] EXCEPT !.conn = "connecting"]
  <2>1. up' = [up EXCEPT ![u] = q]
    BY <1>1, <1>3 DEF Start
  <2>2. Silent(up[u], q)
    <3>1. up[u] \in UploadState
      BY <1>1
    <3>. QED BY <3>1 DEF UploadState, Silent
  <2>3. Moves(up[u], q, N(u))
    BY <2>2 DEF Moves
  <2>. HIDE DEF q
  <2>. QED BY <1>1, <2>1, <2>3, MovesImplement
<1>4. ASSUME NEW f \in ChatFiles, Withdraw(f)
      PROVE  [Promise!Next]_(Promise!vars)
  <2>1. CASE Matching(f) = {}
    <3>1. \A v \in Uploads : Silent(up[v], up'[v])
      BY <1>4, <2>1 DEF Withdraw, Silent
    <3>. QED BY <3>1, SilentStutters
  <2>2. CASE Matching(f) # {}
    <3>. DEFINE u == First(Matching(f))
                q == [up[u] EXCEPT !.cancel = TRUE]
    <3>1. up' = [up EXCEPT ![u] = q]
      BY <1>1, <1>4, <2>2 DEF Withdraw
    <3>2. CASE u \in Uploads
      <4>1. up[u] \in UploadState
        BY <1>1, <3>2
      <4>2. Cancels(up[u], q)
        BY <4>1 DEF UploadState, Cancels
      <4>. HIDE DEF u, q
      <4>. QED BY <1>1, <3>1, <3>2, <4>2, MovesImplement DEF Moves
    <3>3. CASE u \notin Uploads
      <4>1. \A v \in Uploads : Silent(up[v], up'[v])
        BY <1>1, <3>1, <3>3 DEF Silent
      <4>. QED BY <4>1, SilentStutters
    <3>. QED BY <3>2, <3>3
  <2>. QED BY <2>1, <2>2
<1>5. ASSUME NEW f \in Files, CancelFileOption(f)
      PROVE  [Promise!Next]_(Promise!vars)
  <2>1. \A v \in Uploads : up'[v] = up[v] \/ up'[v] = Disconnect(up[v])
    BY <1>1, <1>5 DEF CancelFileOption
  <2>2. \A v \in Uploads : Silent(up[v], up'[v])
    BY <1>2, <2>1
  <2>. QED BY <2>2, SilentStutters
<1>6. CASE ClearAllConnectSocket
  <2>1. \A v \in Uploads : up'[v] = up[v] \/ up'[v] = Disconnect(up[v])
    BY <1>1, <1>6 DEF ClearAllConnectSocket
  <2>2. \A v \in Uploads : Silent(up[v], up'[v])
    BY <1>2, <2>1
  <2>. QED BY <2>2, SilentStutters
<1>. QED BY <1>3, <1>4, <1>5, <1>6 DEF User

\* Whatever answers, losses, timers, cancels and clears come in whatever order,
\* the upload protocol is the transfer it promises, if the router never accepts
\* a frame that came without its segment.
THEOREM TransferImplemented ==
  ASSUME 0 \notin BareCodes
  PROVE  Spec => ImplementsTransfer
<1>1. IInv /\ [Next]_vars => [Promise!Next]_(Promise!vars)
  <2>. SUFFICES ASSUME IInv, [Next]_vars
                PROVE  [Promise!Next]_(Promise!vars)
    OBVIOUS
  <2>1. CASE UNCHANGED vars
    <3>1. \A v \in Uploads : Silent(up[v], up'[v])
      BY <2>1 DEF vars, Silent
    <3>. QED BY <3>1, SilentStutters
  <2>. QED BY <2>1, NetworkImplements, CallbackImplements, UserImplements DEF Next
<1>. QED BY InitImplements, <1>1, TokenDiscipline, PTL
         DEF Spec, ImplementsTransfer, Promise!Spec
=============================================================================
