---------------------------- MODULE DiffsProofs ----------------------------
(***************************************************************************)
(* The differences of Diffs rebuild the new sample, whatever the samples   *)
(* are: the theorems that DiffsRebuild of ReportingMC shows for small      *)
(* ones.                                                                   *)
(***************************************************************************)
EXTENDS ReportingMC, TLAPS

\* A table is a function.
IsTable(t) == t = [k \in DOMAIN t |-> t[k]]

\* A server that creates, updates and deletes has the new table.
LEMMA TableRebuilt ==
  ASSUME NEW was, NEW now, IsTable(now)
  PROVE  D!Over(D!Created(was, now),
                D!Over(D!Updated(was, now), D!Without(was, D!Deleted(was, now))))
           = now
<1> DEFINE Rebuilt ==
             D!Over(D!Created(was, now),
                    D!Over(D!Updated(was, now), D!Without(was, D!Deleted(was, now))))
<1>1. DOMAIN Rebuilt = DOMAIN now
  BY DEF D!Over, D!Created, D!Updated, D!Deleted, D!Without, D!Only
<1>2. \A k \in DOMAIN now : Rebuilt[k] = now[k]
  BY DEF D!Over, D!Created, D!Updated, D!Deleted, D!Without, D!Only
<1>3. Rebuilt = [k \in DOMAIN Rebuilt |-> Rebuilt[k]] BY DEF D!Over
<1> QED BY <1>1, <1>2, <1>3 DEF IsTable

\* No difference of two tables is empty unless they are the same.
LEMMA NothingToTell ==
  ASSUME NEW was, NEW now, IsTable(was), IsTable(now)
  PROVE  was = now <=> /\ DOMAIN D!Created(was, now) = {}
                       /\ DOMAIN D!Updated(was, now) = {}
                       /\ D!Deleted(was, now) = {}
<1>1. ASSUME DOMAIN D!Created(was, now) = {}, DOMAIN D!Updated(was, now) = {},
             D!Deleted(was, now) = {}
      PROVE  was = now
  <2>1. DOMAIN was = DOMAIN now
    BY <1>1 DEF D!Created, D!Deleted, D!Without, D!Only
  <2>2. \A k \in DOMAIN now : was[k] = now[k]
    BY <1>1, <2>1 DEF D!Updated, D!Only
  <2> QED BY <2>1, <2>2 DEF IsTable
<1>2. was = now => /\ DOMAIN D!Created(was, now) = {}
                   /\ DOMAIN D!Updated(was, now) = {}
                   /\ D!Deleted(was, now) = {}
  BY DEF D!Created, D!Updated, D!Deleted, D!Without, D!Only
<1> QED BY <1>1, <1>2
-----------------------------------------------------------------------------
(***************************************************************************)
(* users.                                                                  *)
(***************************************************************************)

\* What parsePasswd and parseGroup return: two tables, of groups with a gid and members.
IsSample(s) ==
  /\ s = [users |-> s.users, groups |-> s.groups]
  /\ IsTable(s.users)
  /\ IsTable(s.groups)
  /\ \A g \in DOMAIN s.groups :
       s.groups[g] = [gid |-> s.groups[g].gid, members |-> s.groups[g].members]

\* A group that is new has its members added, one that stays those that are new.
LEMMA MembersRebuilt ==
  ASSUME NEW was, NEW now, NEW g \in DOMAIN now
  PROVE  now[g].members
           = ((IF g \in DOMAIN was THEN was[g].members ELSE {})
                \ D!At(D!RemovedMembers(was, now), g))
             \cup D!At(D!AddedMembers(was, now), g)
<1>1. D!At(D!RemovedMembers(was, now), g)
        = IF g \in DOMAIN was THEN was[g].members \ now[g].members ELSE {}
  BY DEF D!At, D!RemovedMembers, D!NonEmpty, D!Only
<1>2. D!At(D!AddedMembers(was, now), g)
        = now[g].members \ (IF g \in DOMAIN was THEN was[g].members ELSE {})
  BY DEF D!At, D!AddedMembers, D!NonEmpty, D!Only
<1> QED BY <1>1, <1>2

LEMMA GidsAreTables ==
  ASSUME NEW groups
  PROVE  IsTable(D!Gids(groups)) /\ DOMAIN D!Gids(groups) = DOMAIN groups
BY DEF IsTable, D!Gids

LEMMA UsersRebuilt ==
  ASSUME NEW was, NEW now, IsSample(now)
  PROVE  D!ApplyUsers(D!BuildUsersDiff(was, now), was) = now
<1> DEFINE msg  == D!BuildUsersDiff(was, now)
           gids == D!Over(msg.createGroups,
                     D!Over(msg.updateGroups,
                            D!Without(D!Gids(was.groups), msg.deleteGroups)))
           made == D!ApplyUsers(msg, was)
<1>1. gids = D!Gids(now.groups)
  <2>1. D!Deleted(was.groups, now.groups)
          = D!Deleted(D!Gids(was.groups), D!Gids(now.groups))
    BY GidsAreTables DEF D!Deleted
  <2>2. gids = D!Over(D!Created(D!Gids(was.groups), D!Gids(now.groups)),
                 D!Over(D!Updated(D!Gids(was.groups), D!Gids(now.groups)),
                        D!Without(D!Gids(was.groups),
                                  D!Deleted(D!Gids(was.groups), D!Gids(now.groups)))))
    BY <2>1 DEF D!BuildUsersDiff
  <2> QED BY <2>2, GidsAreTables, TableRebuilt
<1>2. D!Over(msg.createUsers,
             D!Over(msg.updateUsers, D!Without(was.users, msg.deleteUsers)))
        = now.users
  BY TableRebuilt DEF D!BuildUsersDiff, IsSample
<1>3. \A g \in DOMAIN now.groups :
        ((IF g \in DOMAIN was.groups THEN was.groups[g].members ELSE {})
           \ D!At(msg.deleteGroupMembers, g)) \cup D!At(msg.createGroupMembers, g)
          = now.groups[g].members
  BY MembersRebuilt DEF D!BuildUsersDiff
<1>4. made = [users  |-> now.users,
              groups |-> [g \in DOMAIN now.groups |->
                            [gid     |-> now.groups[g].gid,
                             members |-> now.groups[g].members]]]
  <2>1. made = [users  |-> now.users,
                groups |-> [g \in DOMAIN gids |->
                  [gid     |-> gids[g],
                   members |->
                     ((IF g \in DOMAIN was.groups THEN was.groups[g].members ELSE {})
                       \ D!At(msg.deleteGroupMembers, g))
                       \cup D!At(msg.createGroupMembers, g)]]]
    <3> HIDE DEF msg
    <3> QED BY <1>2 DEF D!ApplyUsers
  <2> HIDE DEF gids, msg, made
  <2>2. DOMAIN gids = DOMAIN now.groups
        /\ \A g \in DOMAIN now.groups : gids[g] = now.groups[g].gid
    BY <1>1 DEF D!Gids
  <2> QED BY <2>1, <2>2, <1>3
<1>5. [g \in DOMAIN now.groups |-> [gid     |-> now.groups[g].gid,
                                    members |-> now.groups[g].members]]
        = now.groups
  BY DEF IsSample, IsTable
<1> QED BY <1>4, <1>5 DEF IsSample

LEMMA EmptyUnion ==
  ASSUME NEW S PROVE UNION S = {} <=> \A s \in S : s = {}
<1>1. \A s : s = {} <=> \A e : e \notin s OBVIOUS
<1>2. ASSUME NEW s \in S, NEW e \in s PROVE e \in UNION S OBVIOUS
<1>3. ASSUME NEW e \in UNION S PROVE \E s \in S : e \in s OBVIOUS
<1> QED BY <1>1, <1>2, <1>3

LEMMA NilMeansSame ==
  ASSUME NEW was, NEW now, IsSample(was), IsSample(now)
  PROVE  D!IsNil(D!BuildUsersDiff(was, now)) <=> was = now
<1> DEFINE msg == D!BuildUsersDiff(was, now)
<1>1. D!IsNil(msg) <=>
        /\ DOMAIN D!Created(was.users, now.users) = {}
        /\ DOMAIN D!Updated(was.users, now.users) = {}
        /\ D!Deleted(was.users, now.users) = {}
        /\ DOMAIN D!Created(D!Gids(was.groups), D!Gids(now.groups)) = {}
        /\ DOMAIN D!Updated(D!Gids(was.groups), D!Gids(now.groups)) = {}
        /\ D!Deleted(was.groups, now.groups) = {}
        /\ DOMAIN D!AddedMembers(was.groups, now.groups) = {}
        /\ DOMAIN D!RemovedMembers(was.groups, now.groups) = {}
  <2>1. D!IsNil(msg) <=>
          /\ DOMAIN msg.createUsers = {} /\ DOMAIN msg.updateUsers = {}
          /\ msg.deleteUsers = {}
          /\ DOMAIN msg.createGroups = {} /\ DOMAIN msg.updateGroups = {}
          /\ msg.deleteGroups = {}
          /\ DOMAIN msg.createGroupMembers = {}
          /\ DOMAIN msg.deleteGroupMembers = {}
    <3> HIDE DEF msg
    <3> QED BY EmptyUnion DEF D!IsNil
  <2> QED BY <2>1 DEF D!BuildUsersDiff
<1>2. D!Deleted(was.groups, now.groups)
        = D!Deleted(D!Gids(was.groups), D!Gids(now.groups))
  BY GidsAreTables DEF D!Deleted
<1>3. D!IsNil(msg) <=>
        /\ was.users = now.users
        /\ D!Gids(was.groups) = D!Gids(now.groups)
        /\ DOMAIN D!AddedMembers(was.groups, now.groups) = {}
        /\ DOMAIN D!RemovedMembers(was.groups, now.groups) = {}
  <2>1. IsTable(was.users) /\ IsTable(now.users) BY DEF IsSample
  <2>2. /\ IsTable(D!Gids(was.groups)) /\ IsTable(D!Gids(now.groups))
    BY GidsAreTables
  <2> QED BY <1>1, <1>2, <2>1, <2>2, NothingToTell
<1>4. ASSUME D!Gids(was.groups) = D!Gids(now.groups),
             DOMAIN D!AddedMembers(was.groups, now.groups) = {},
             DOMAIN D!RemovedMembers(was.groups, now.groups) = {}
      PROVE  was.groups = now.groups
  <2>1. DOMAIN was.groups = DOMAIN now.groups BY <1>4, GidsAreTables
  <2>2. \A g \in DOMAIN now.groups : was.groups[g].gid = now.groups[g].gid
    BY <1>4, <2>1 DEF D!Gids
  <2>3. \A g \in DOMAIN now.groups : was.groups[g].members = now.groups[g].members
    <3> SUFFICES ASSUME NEW g \in DOMAIN now.groups
                 PROVE  was.groups[g].members = now.groups[g].members
      OBVIOUS
    <3>1. now.groups[g].members \ was.groups[g].members = {}
      BY <1>4, <2>1 DEF D!AddedMembers, D!NonEmpty, D!Only
    <3>2. was.groups[g].members \ now.groups[g].members = {}
      BY <1>4, <2>1 DEF D!RemovedMembers, D!NonEmpty, D!Only
    <3> QED BY <3>1, <3>2
  <2>4. \A g \in DOMAIN now.groups : was.groups[g] = now.groups[g]
    BY <2>1, <2>2, <2>3 DEF IsSample
  <2> QED BY <2>1, <2>4 DEF IsSample, IsTable
<1>5. was.groups = now.groups =>
        /\ D!Gids(was.groups) = D!Gids(now.groups)
        /\ DOMAIN D!AddedMembers(was.groups, now.groups) = {}
        /\ DOMAIN D!RemovedMembers(was.groups, now.groups) = {}
  BY DEF D!AddedMembers, D!RemovedMembers, D!NonEmpty, D!Only
<1>6. was.users = now.users /\ was.groups = now.groups <=> was = now BY DEF IsSample
<1> QED BY <1>3, <1>4, <1>5, <1>6

\* buildUsersDiff, for any two samples: a server that has the old one and carries out
\* the message has the new one, and there is no message when nothing changed and only
\* then. Groups that come with their members, and users that go from groups that stay,
\* are part of it.
THEOREM UsersDiffIsComplete ==
  ASSUME NEW was, NEW now, IsSample(was), IsSample(now)
  PROVE  /\ D!ApplyUsers(D!BuildUsersDiff(was, now), was) = now
         /\ D!IsNil(D!BuildUsersDiff(was, now)) <=> was = now
BY UsersRebuilt, NilMeansSame
-----------------------------------------------------------------------------
\* diffProcesses, for any two samples: a server that had the old processes, up to their
\* percent-cpu, has the new ones, also when a pid was used again for another process.
THEOREM ProcessDiffIsComplete ==
  ASSUME NEW was, NEW now, NEW s, D!Alike(s, was)
  PROVE  D!Alike(D!ApplyProcesses(D!DiffProcesses(was, now), s), now)
<1> DEFINE made == D!ApplyProcesses(D!DiffProcesses(was, now), s)
<1>1. DOMAIN made = DOMAIN now
  BY DEF D!Alike, D!ApplyProcesses, D!DiffProcesses, D!Over, D!Created, D!Deleted,
     D!Without, D!Only
<1>2. ASSUME NEW p \in DOMAIN now PROVE made[p].rest = now[p].rest
  BY DEF D!Alike, D!ApplyProcesses, D!DiffProcesses, D!Over, D!Created, D!Deleted,
     D!Without, D!Only, D!ProcessChanged
<1> QED BY <1>1, <1>2 DEF D!Alike
-----------------------------------------------------------------------------
LEMMA TablesAreTables ==
  ASSUME NEW names, NEW entries, NEW t \in D!Tables(names, entries)
  PROVE  IsTable(t) /\ \A k \in DOMAIN t : t[k] \in entries
<1>1. PICK s \in SUBSET names : t \in [s -> entries] BY DEF D!Tables
<1> QED BY <1>1 DEF IsTable

\* What DiffsRebuild says of small samples, and that the difference Reporting uses is
\* one of them (buildUsersDiff, diffProcesses).
THEOREM DiffsAreRebuilt == Spec => []DiffsRebuild
<1>1. DiffsRebuild
  <2>1. D!UsersDiffsRebuild
    <3>1. \A s \in D!UsersStates : IsSample(s)
      <4> SUFFICES ASSUME NEW s \in D!UsersStates PROVE IsSample(s) OBVIOUS
      <4>1. PICK us \in D!Tables({"ann", "bob"}, 1..2),
                 gs \in D!Tables({"adm"},
                                [gid : 1..2, members : SUBSET {"ann", "bob"}]) :
              s = [users |-> us, groups |-> D!ParsedGroups(gs, us)]
        BY DEF D!UsersStates
      <4>2. IsTable(us) BY TablesAreTables
      <4>3. \A g \in DOMAIN gs : gs[g] \in [gid : 1..2, members : SUBSET {"ann", "bob"}]
        BY TablesAreTables
      <4>4. IsTable(s.groups) BY <4>1 DEF D!ParsedGroups, IsTable
      <4>5. \A g \in DOMAIN s.groups :
              s.groups[g] = [gid |-> s.groups[g].gid, members |-> s.groups[g].members]
        BY <4>1, <4>3 DEF D!ParsedGroups
      <4> QED BY <4>1, <4>2, <4>4, <4>5 DEF IsSample
    <3> QED BY <3>1, UsersDiffIsComplete DEF D!UsersDiffsRebuild
  <2>2. D!ProcessDiffsRebuild BY ProcessDiffIsComplete DEF D!ProcessDiffsRebuild
  <2>3. ASSUME NEW p \in Diffed
        PROVE  D!IsTheDiff(Diff(p, Base(p), world[p]), Base(p), world[p])
    BY DEF D!IsTheDiff, D!AsUsers, D!BuildUsersDiff, D!Created, D!Deleted, D!Without,
       D!Only, Diff
  <2> QED BY <2>1, <2>2, <2>3 DEF DiffsRebuild
<1> QED BY <1>1, PTL
=============================================================================
