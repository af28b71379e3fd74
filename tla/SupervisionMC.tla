---------------------------- MODULE SupervisionMC ---------------------------
(***************************************************************************)
(* Instances of Supervision.  A backoff can pass MinThreshold, the first is*)
(* below an interval, and one interval has 3 times as its threshold.       *)
(***************************************************************************)
EXTENDS Supervision

\* In units of 30 s: one that works before its first tick, as computer-info does,
\* and may hang; and one that does neither.
MCPlugins == {"computer-info", "cpu-usage"}
MCInterval == [p \in MCPlugins |-> IF p = "computer-info" THEN 2 ELSE 1]
MCWork == [p \in MCPlugins |-> IF p = "computer-info" THEN 1 ELSE 0]
MCStagger == [p \in MCPlugins |-> 0]
MCSilentFirst == {"computer-info"}
MCHanging == {"computer-info"}

\* One that is restarted before it counts as healthy, as memory-info with its 15
\* seconds, which are the unit here.
MCShort == {"memory-info"}
MCShortInterval == [p \in MCShort |-> 1]
MCShortWork == [p \in MCShort |-> 0]
MCShortStagger == [p \in MCShort |-> 0]
MCNone == {}
=============================================================================
