----------------------------- MODULE ReportingMC ----------------------------
(***************************************************************************)
(* Instances of Reporting for TLC, with its abstract difference checked    *)
(* against those that the plugins build.                                   *)
(***************************************************************************)
EXTENDS Reporting

D == INSTANCE DiffsMC

\* All there is to see is there at the start.
MCInit == Init /\ world = [p \in Plugins |-> Facts]

MCSpec == MCInit /\ [][Next]_vars

MCFairSpec == MCSpec /\ Fairness

\* The server can rebuild the new sample from the old one and the message, which
\* names all of a change and nothing else, whatever it is: the members of a group
\* that is new, a user deleted from a group that stays, a process whose pid is
\* used again (buildUsersDiff and diffProcesses).  Of a process the percent-cpu
\* may be out of date.  Diff, which stands for it in Reporting, is the same.
DiffsRebuild ==
  /\ D!UsersDiffsRebuild /\ D!ProcessDiffsRebuild
  /\ \A p \in Diffed :
       D!IsTheDiff(Diff(p, Base(p), world[p]), Base(p), world[p])
=============================================================================
