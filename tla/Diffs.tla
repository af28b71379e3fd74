-------------------------------- MODULE Diffs -------------------------------
(***************************************************************************)
(* The differences that the plugins users and active-process-info send, for*)
(* any two samples: buildUsersDiff and diffProcesses.  Reporting has the   *)
(* same as a difference of sets of facts.                                  *)
(*                                                                         *)
(* A table is a function from names (or pids) to records.  The order of the*)
(* lists in a message, which the server does not heed, is left out.        *)
(***************************************************************************)

Only(table, keys) == [k \in keys |-> table[k]]

\* The first table, with what only the second has.
Over(first, second) ==
  [k \in DOMAIN first \cup DOMAIN second |->
     IF k \in DOMAIN first THEN first[k] ELSE second[k]]

Without(table, keys) == Only(table, DOMAIN table \ keys)

Created(was, now) == Without(now, DOMAIN was)

Deleted(was, now) == DOMAIN was \ DOMAIN now

Updated(was, now) ==
  Only(now, {k \in DOMAIN was \cap DOMAIN now : was[k] # now[k]})

-----------------------------------------------------------------------------
(***************************************************************************)
(* users: a state is a table of users and a table of groups, with the gid  *)
(* and the set of members of each.                                         *)
(***************************************************************************)
Gids(groups) == [g \in DOMAIN groups |-> groups[g].gid]

\* parseGroup keeps the members that passwd has.
ParsedGroups(groups, users) ==
  [g \in DOMAIN groups |->
     [groups[g] EXCEPT !.members = @ \cap DOMAIN users]]

NonEmpty(sets) == Only(sets, {g \in DOMAIN sets : sets[g] # {}})

\* Mutation: the members of a new group are forgotten.
AddedToOld(was, now) ==
  NonEmpty([g \in DOMAIN was \cap DOMAIN now |-> now[g].members \ was[g].members])

AddedMembers(was, now) ==
  NonEmpty([g \in DOMAIN now |->
              now[g].members \ (IF g \in DOMAIN was THEN was[g].members ELSE {})])

RemovedMembers(was, now) ==
  NonEmpty([g \in DOMAIN was \cap DOMAIN now |-> was[g].members \ now[g].members])

BuildUsersDiff(was, now) ==
  [createUsers        |-> Created(was.users, now.users),
   updateUsers        |-> Updated(was.users, now.users),
   deleteUsers        |-> Deleted(was.users, now.users),
   createGroups       |-> Created(Gids(was.groups), Gids(now.groups)),
   updateGroups       |-> Updated(Gids(was.groups), Gids(now.groups)),
   deleteGroups       |-> Deleted(was.groups, now.groups),
   createGroupMembers |-> AddedMembers(was.groups, now.groups),
   deleteGroupMembers |-> RemovedMembers(was.groups, now.groups)]

\* buildUsersDiff returns nil: no message is sent.
IsNil(msg) ==
  UNION {msg.deleteUsers, msg.deleteGroups,
         DOMAIN msg.createUsers, DOMAIN msg.updateUsers,
         DOMAIN msg.createGroups, DOMAIN msg.updateGroups,
         DOMAIN msg.createGroupMembers, DOMAIN msg.deleteGroupMembers} = {}

\* The server carries out such a message.
At(sets, g) == IF g \in DOMAIN sets THEN sets[g] ELSE {}

ApplyUsers(msg, s) ==
  LET gids == Over(msg.createGroups,
                   Over(msg.updateGroups, Without(Gids(s.groups), msg.deleteGroups)))
      Members(g) == IF g \in DOMAIN s.groups THEN s.groups[g].members ELSE {}
  IN  [users  |-> Over(msg.createUsers,
                       Over(msg.updateUsers, Without(s.users, msg.deleteUsers))),
       groups |-> [g \in DOMAIN gids |->
                     [gid     |-> gids[g],
                      members |-> (Members(g) \ At(msg.deleteGroupMembers, g))
                                    \cup At(msg.createGroupMembers, g)]]]

-----------------------------------------------------------------------------
(***************************************************************************)
(* active-process-info: of a process, its percent-cpu and the rest.        *)
(***************************************************************************)

\* percent-cpu alone is no change worth a message.
ProcessChanged(was, updated) == was.rest # updated.rest

DiffProcesses(was, current) ==
  [creates |-> Created(was, current),
   updates |-> Only(current, {p \in DOMAIN was \cap DOMAIN current :
                                    ProcessChanged(was[p], current[p])}),
   deletes |-> Deleted(was, current)]

ApplyProcesses(diff, s) ==
  Over(diff.creates, Over(diff.updates, Without(s, diff.deletes)))

\* The same processes, but for their percent-cpu.
Alike(s, t) ==
  /\ DOMAIN s = DOMAIN t
  /\ \A p \in DOMAIN s : s[p].rest = t[p].rest
=============================================================================
