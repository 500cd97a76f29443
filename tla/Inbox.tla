--------------------------------- MODULE Inbox ---------------------------------
(***************************************************************************)
(* What receiveText promises to the handlers of messages: each message of  *)
(* the router is handed over once and whole, however many parts it was     *)
(* sent in, on how many connections.                                       *)
(***************************************************************************)
EXTENDS Naturals, Sequences

CONSTANTS
  Msgs,      \* the messages of the router
  Whole(_)   \* their contents

VARIABLES
  coming,    \* the messages not handed over yet
  inbox      \* the contents handed over, in order

Init == coming = Msgs /\ inbox = <<>>

Deliver(m) == /\ m \in coming
              /\ coming' = coming \ {m}
              /\ inbox' = Append(inbox, Whole(m))

Next == \E m \in Msgs : Deliver(m)

Spec == Init /\ [][Next]_<<coming, inbox>>
=============================================================================
