------------------------------- MODULE ContactsMC -------------------------------
(***************************************************************************)
(* What comments say of friend requests and the code does not keep.        *)
(***************************************************************************)
EXTENDS Contacts

\* SocketMessageUtil.m:456: the user chooses whether another may add him.  A
\* request that comes twice is agreed to by the app.
ConsentIsTheUsers ==
  [][AppTakes => \A u \in Users : <<"agree", u>> \in Range(toRouter')
       => <<"agree", u>> \in Range(toRouter) \/ u \in friendArray]_vars
=============================================================================
