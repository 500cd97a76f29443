------------------------------ MODULE SegmentsMC ------------------------------
(***************************************************************************)
(* Instance of Segments for TLC: every length up to 53 and every segment   *)
(* size up to 10, with a word of 64 in place of 2^32 (53 + 10 < 64).        *)
(***************************************************************************)
EXTENDS Segments

Up53 == 0..53
Up10 == 1..10
=============================================================================
