-------------------------- MODULE NetworkActivityMC -------------------------
(***************************************************************************)
(* Instances of NetworkActivity for TLC.                                   *)
(***************************************************************************)
EXTENDS NetworkActivity
=============================================================================
