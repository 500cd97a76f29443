------------------------------ MODULE MultiPartMC ------------------------------
(***************************************************************************)
(* Instances of MultiPart for TLC: lists in three parts, a text in two     *)
(* that comes under the same msgid, a notice in one.                       *)
(***************************************************************************)
EXTENDS MultiPart

SharedId == [m \in Msgs |-> IF m = "notice" THEN 1 ELSE 2]
PartCount == [m \in Msgs |-> CASE m \in {"list", "log"} -> 3 [] m = "text" -> 2
                               [] OTHER -> 1]
=============================================================================
