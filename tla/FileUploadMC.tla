----------------------------- MODULE FileUploadMC -----------------------------
(***************************************************************************)
(* Instance of FileUpload for TLC: a chat file of two segments and a       *)
(* task-list file of one, sent side by side.                               *)
(***************************************************************************)
EXTENDS FileUpload

TwoFiles == <<"photo", "note">>
TwoSegments == [f \in {"photo", "note"} |-> IF f = "photo" THEN 2 ELSE 1]
=============================================================================
