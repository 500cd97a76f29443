------------------------------- MODULE MultiPart -------------------------------
(***************************************************************************)
(* Messages of the router that come in parts (receiveText, the field       *)
(* "more").  A part that is not the last is appended to what was kept      *)
(* under its msgid and answered by a request for the next offset; the last *)
(* one is appended too, and the whole is handed over.  Nothing is ever     *)
(* removed but by a first part, and no offset is compared: that a message  *)
(* is whole rests on one request at a time, and on one message per msgid.  *)
(*                                                                         *)
(* The router is known from what the code expects of it: it answers        *)
(* requests, uses a msgid for one message at a time, and sends a message   *)
(* that was cut off by the loss of the connection again, from the start.   *)
(* Parts and requests of one message never overtake each other; the        *)
(* messages are independent, so the two directions are sets.               *)
(***************************************************************************)
EXTENDS Naturals, Sequences

CONSTANTS
  Msgs,       \* the messages the router sends
  Ids,        \* msgids
  Id,         \* the msgid of each message
  Parts,      \* the number of parts of each
  MaxLosses   \* bound: connections lost

ASSUME PartsOK == /\ Id \in [Msgs -> Ids]
                  /\ Parts \in [Msgs -> Nat \ {0}]
                  /\ MaxLosses \in Nat

VARIABLES
  status,       \* of a message at the router: "waiting", "sending", "over"
  frames,       \* <<message, part>> on its way to the app
  requests,     \* <<msgid, part>> on its way to the router
  mutTempDic,   \* the parts kept under each msgid
  inbox,        \* what was handed over
  losses

vars == <<status, frames, requests, mutTempDic, inbox, losses>>

\* The first k parts of m.
Upto(m, k) == [i \in 1 .. k |-> <<m, i>>]
Whole(m) == Upto(m, Parts[m])

TypeOK == /\ status \in [Msgs -> {"waiting", "sending", "over"}]
          /\ frames \subseteq Msgs \X Nat
          /\ requests \subseteq Ids \X Nat
          /\ \A r \in requests : \E m \in Msgs : Id[m] = r[1] /\ r[2] \in 2 .. Parts[m]
          /\ mutTempDic \in [Ids -> Seq(Msgs \X Nat)]
          /\ inbox \in Seq(Seq(Msgs \X Nat))
          /\ losses \in Nat

Init == /\ status = [m \in Msgs |-> "waiting"]
        /\ frames = {} /\ requests = {}
        /\ mutTempDic = [i \in Ids |-> <<>>]
        /\ inbox = <<>>
        /\ losses = 0

\* The router sends the first part.
SendFirst(m) ==
  /\ status[m] = "waiting"
  /\ \A n \in Msgs : Id[n] = Id[m] => status[n] # "sending"
  /\ status' = [status EXCEPT ![m] = "sending"]
  /\ frames' = frames \cup {<<m, 1>>}
  /\ UNCHANGED <<requests, mutTempDic, inbox, losses>>

\* The router answers a request with that part of the message.
SendNext(m, k) ==
  /\ <<Id[m], k>> \in requests
  /\ status[m] = "sending"
  /\ requests' = requests \ {<<Id[m], k>>}
  /\ frames' = frames \cup {<<m, k>>}
  /\ UNCHANGED <<status, mutTempDic, inbox, losses>>

\* Mutant: a first part is appended like the others.
KeptAlways(m, k) == Append(mutTempDic[Id[m]], <<m, k>>)

\* What is kept once part k of m has come: a first part clears what was there.
Kept(m, k) == Append(IF k = 1 THEN <<>> ELSE mutTempDic[Id[m]], <<m, k>>)

\* Mutants: the same offset is asked for again; the part before the last passes
\* for the last; more is asked for after the last.
SamePart(k) == k
MoreButOne(m, k) == k + 1 < Parts[m]
MoreThanLast(m, k) == k <= Parts[m]

\* offset + 1100, and the field "more".
NextPart(k) == k + 1
More(m, k) == k < Parts[m]

\* receiveText, more = 1: the part is kept and the next one asked for.
ReceivePart(m, k) ==
  /\ <<m, k>> \in frames
  /\ More(m, k)
  /\ frames' = frames \ {<<m, k>>}
  /\ mutTempDic' = [mutTempDic EXCEPT ![Id[m]] = Kept(m, k)]
  /\ requests' = requests \cup {<<Id[m], NextPart(k)>>}
  /\ UNCHANGED <<status, inbox, losses>>

\* receiveText, more = 0: what was kept and this part are handed over, and stay.
ReceiveLast(m, k) ==
  /\ <<m, k>> \in frames
  /\ ~More(m, k)
  /\ frames' = frames \ {<<m, k>>}
  /\ mutTempDic' = [mutTempDic EXCEPT ![Id[m]] = Kept(m, k)]
  /\ inbox' = Append(inbox, Kept(m, k))
  /\ status' = [status EXCEPT ![m] = "over"]
  /\ UNCHANGED <<requests, losses>>

\* The connection is lost with what is on it, not with what was kept.
Lose ==
  /\ losses < MaxLosses
  /\ losses' = losses + 1
  /\ frames' = {} /\ requests' = {}
  /\ status' = [m \in Msgs |-> IF status[m] = "sending" THEN "waiting"
                               ELSE status[m]]
  /\ UNCHANGED <<mutTempDic, inbox>>

Step(m) == \/ SendFirst(m)
           \/ \E k \in 1 .. Parts[m] :
                SendNext(m, k) \/ ReceivePart(m, k) \/ ReceiveLast(m, k)

Next == (\E m \in Msgs : Step(m)) \/ Lose

Spec == Init /\ [][Next]_vars

\* The router sends what it has and answers; the app reads what it is sent.
FairSpec == Spec /\ \A m \in Msgs : WF_vars(Step(m))
-----------------------------------------------------------------------------
\* What is kept under the msgid of a message that is being sent is, when its
\* next part is on its way or asked for, exactly the parts before that one, and
\* nothing of an earlier message or of an attempt that was cut off: only then
\* is what the last part completes the message.
KeptIsPrefix ==
  \A m \in Msgs : status[m] = "sending" =>
    \A k \in 2 .. Parts[m] :
      <<m, k>> \in frames \/ <<Id[m], k>> \in requests
        => mutTempDic[Id[m]] = Upto(m, k - 1)

\* A message is handed over whole, once, whatever connections were lost: the
\* handlers see what Inbox describes.
Promise == INSTANCE Inbox WITH coming <- {m \in Msgs : status[m] # "over"}
ImplementsInbox == Promise!Spec

\* Every message arrives, once connections are not lost any more: each part but
\* the last asks for the one after it.
EveryMessageArrives == \A m \in Msgs : <>(status[m] = "over")
=============================================================================
