------------------------------- MODULE SessionMC -------------------------------
(***************************************************************************)
(* Instances of Session for TLC, and what a comment says of the time-outs  *)
(* of a switch and the code does not keep.                                 *)
(***************************************************************************)
EXTENDS Session

\* CircleOutUtil.m:322: the timer checks whether the log-in request of a switch
\* was answered within ten seconds.  One left over by a switch that failed takes
\* the router away from the session that followed.
TimersEndSwitchesOnly ==
  [][LoginTimeout \/ FindTimeout =>
       (HasSession /\ ~circle.isSwitchCircle => HasSession')]_vars
=============================================================================
