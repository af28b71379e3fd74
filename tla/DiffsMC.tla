------------------------------- MODULE DiffsMC ------------------------------
(***************************************************************************)
(* Checks the differences of Diffs over every pair of small samples.       *)
(***************************************************************************)
EXTENDS Diffs, Naturals

\* The tables with some of these names and these entries.
Tables(names, entries) == UNION {[s -> entries] : s \in SUBSET names}

\* Two users and a group; a number stands for the record of a user.
UsersStates ==
  {[users |-> us, groups |-> ParsedGroups(gs, us)] :
     us \in Tables({"ann", "bob"}, 1..2),
     gs \in Tables({"adm"}, [gid : 1..2, members : SUBSET {"ann", "bob"}])}

ProcessTables == Tables({1, 2}, [rest : 1..2, cpu : 1..2])

UsersDiffsRebuild ==
  \A was, now \in UsersStates :
    LET msg == BuildUsersDiff(was, now) IN
    /\ ApplyUsers(msg, was) = now
    /\ IsNil(msg) <=> was = now

\* The server may have an older percent-cpu than the plugin.
ProcessDiffsRebuild ==
  \A was, now, s \in ProcessTables :
    Alike(s, was) => Alike(ApplyProcesses(DiffProcesses(was, now), s), now)

\* Facts as users that come and go and never change.
AsUsers(facts) == [users |-> [f \in facts |-> 1], groups |-> <<>>]

\* The difference of two sets of facts is the one of the tables of users.
IsTheDiff(diff, before, after) ==
  LET msg == BuildUsersDiff(AsUsers(before), AsUsers(after)) IN
  diff.add = DOMAIN msg.createUsers /\ diff.del = msg.deleteUsers
=============================================================================
