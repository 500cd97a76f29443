------------------------------- MODULE Transfer -------------------------------
(***************************************************************************)
(* What an upload promises, whatever the protocol below it: the router     *)
(* gets the segments of the file in order, one result at most is reported, *)
(* success only for a file that is there completely, nothing is stored     *)
(* once a result is reported, and nothing is reported of an upload that    *)
(* was cancelled.                                                          *)
(***************************************************************************)
EXTENDS Naturals

CONSTANTS Uploads, Total   \* Total[u]: number of segments of the file

VARIABLES got,        \* got[u]: the segments of the file the router has
          result,     \* result[u]: <<>>, or <<code>> once reported
          cancelled   \* uploads that were cancelled

vars == <<got, result, cancelled>>

Init == /\ got = [u \in Uploads |-> {}]
        /\ result = [u \in Uploads |-> <<>>]
        /\ cancelled = {}

Store(u) == /\ result[u] = <<>>
            /\ \E k \in 1..Total[u] : /\ got[u] = 1..(k - 1)
                                      /\ got' = [got EXCEPT ![u] = 1..k]
            /\ UNCHANGED <<result, cancelled>>

ReportOf(u, c) == /\ result[u] = <<>>
                  /\ u \notin cancelled
                  /\ c = 0 => got[u] = 1..Total[u]
                  /\ result' = [result EXCEPT ![u] = <<c>>]
                  /\ UNCHANGED <<got, cancelled>>

Cancel(u) == /\ cancelled' = cancelled \cup {u}
             /\ UNCHANGED <<got, result>>

Next == \E u \in Uploads : \/ Store(u)
                           \/ \E c \in {0, 1, 2, 5} : ReportOf(u, c)
                           \/ Cancel(u)

Spec == Init /\ [][Next]_vars
=============================================================================
