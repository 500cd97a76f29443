------------------------------ MODULE SendCacheMC ------------------------------
(***************************************************************************)
(* Instances of SendCache for TLC: a text and a file to a friend, a file   *)
(* to a group, a photo whose row holds "name,WxH".                         *)
(***************************************************************************)
EXTENDS SendCache

Kinds4 == [m \in {"text", "file", "photo", "groupFile"} |->
             IF m = "photo" THEN "file" ELSE m]
KindOf == [m \in Msgs |-> Kinds4[m]]
PeerOf == [m \in Msgs |-> IF Kinds4[m] = "groupFile" THEN "group" ELSE "friend"]

\* SendCacheChatUtil.m:69, AppDelegate.m:126: the clean-up at launch deletes the
\* rows whose file is gone.  It deletes the others of the same conversation.
CleansMissingFiles ==
  [][app = "dead" => \A m \in Msgs : row[m] # "none" /\ row'[m] = "none"
                                     => m \in SizedMedia]_vars
=============================================================================
