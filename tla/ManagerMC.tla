------------------------------ MODULE ManagerMC -----------------------------
(***************************************************************************)
(* Instances of Manager for TLC: what the server sends.                    *)
(***************************************************************************)
EXTENDS Manager

CONSTANTS a, b

Msg(kind, form) ==
  [kind |-> kind, form |-> form, snaps |-> <<>>, limited |-> FALSE, target |-> 0]

Complete(kind) == Msg(kind, "complete")

Snap(kind, snaps) == [Complete(kind) EXCEPT !.snaps = snaps]

Script(limited) == [Complete("execute-script") EXCEPT !.limited = limited]

CancelOf(op) == [Complete("cancel-operation") EXCEPT !.target = op]

MCPlans ==
  { \* snap operations that meet at snapd and in the list that is sent
    <<Snap("install-snaps", <<a, b>>), Snap("remove-snaps", <<a>>)>>,
    <<Snap("install-snaps", <<a>>), CancelOf(1), Snap("refresh-snaps", <<b, NoName>>)>>,
    \* scripts, limited and not, cancelled in time, too early and too late
    <<Script(FALSE), CancelOf(1), Complete("start-snap-service")>>,
    <<Script(FALSE), Script(FALSE), CancelOf(1)>>,
    <<Script(TRUE), Complete("shutdown"), Complete("stop-snap-service")>>,
    \* commands that lack something
    <<Msg("install-snaps", "no argument"), Msg("remove-snaps", "no operation-id"),
      Complete("restart-snap-service")>>,
    <<Msg("start-snap-service", "no argument"), Msg("execute-script", "no argument"),
      Msg("cancel-operation", "no operation-id")>>,
    <<Msg("shutdown", "no operation-id"), Msg("execute-script", "no operation-id"),
      Snap("refresh-snaps", <<b>>)>> }
=============================================================================
