------------------------------- MODULE DownloadsMC -------------------------------
(***************************************************************************)
(* What a comment says of log-outs and the code does not keep.             *)
(***************************************************************************)
EXTENDS Downloads

\* AppDelegate.m:363: a log-out removes all files that are being downloaded.  A
\* download whose task is not made yet starts afterwards.
LogOutStopsDownloads ==
  session = "stopped" => \A d \in DOMAIN down : down[d].stage # "answer"
=============================================================================
