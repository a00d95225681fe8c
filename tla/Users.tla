-------------------------------- MODULE Users --------------------------------
(***************************************************************************)
(* UserService (internal/service/user_service.go).  Every operation is one *)
(* critical section.  Lists of groups and roles are sets: the code looks   *)
(* values up, appends absent ones and removes all occurrences.  Display    *)
(* names, external ids, Status and the instants are abstracted; nothing    *)
(* decides on them, except that DeletedAt is nil or not.                   *)
(***************************************************************************)
EXTENDS FiniteSets, Stores, RoleNaming

CONSTANTS UserIds, Emails, Groups,
          SeedUser, SeedEmail, SeedGroups

ASSUME SeedUserAssumption == /\ SeedUser \in UserIds
                             /\ SeedEmail \in Emails
                             /\ SeedGroups \subseteq Groups

VARIABLE users   \* UserService.users

UserRecord == [email : Emails, groups : SUBSET Groups,
               roles : SUBSET (RoleNames \cup {SuperAdmin}), deleted : BOOLEAN]

Live == {u \in DOMAIN users : ~users[u].deleted}
Members(g) == {u \in Live : g \in users[u].groups}

UsersInit ==
  users = [u \in {SeedUser} |-> [email |-> SeedEmail, groups |-> SeedGroups,
                                 roles |-> {SuperAdmin}, deleted |-> FALSE]]

\* Mutant of Free: deleted users only are looked at.
Free_Deleted(email) == \A v \in DOMAIN users \ Live : users[v].email # email

\* Deleted users do not occupy their e-mail address.
Free(email) == \A v \in Live : users[v].email # email

CreateUser(u, email, groups) ==
  /\ u \notin DOMAIN users
  /\ Free(email)
  /\ users' = Put(users, u, [email |-> email, groups |-> groups,
                             roles |-> {}, deleted |-> FALSE])

\* Roles are not touched; the e-mail address cannot be changed.
UpdateUser(u, groups) == /\ u \in Live
                         /\ users' = [users EXCEPT ![u].groups = groups]

SoftDeleteUser(u) == /\ u \in Live
                     /\ users' = [users EXCEPT ![u].deleted = TRUE]

RestoreUser(u) == /\ u \in DOMAIN users \ Live
                  /\ users' = [users EXCEPT ![u].deleted = FALSE]

\* The members become exactly the given users; unknown ids are ignored.
ReconcileGroupMembership(g, members) ==
  users' = [u \in DOMAIN users |->
              IF u \in Live
              THEN [users[u] EXCEPT !.groups = IF u \in members THEN @ \cup {g}
                                                               ELSE @ \ {g}]
              ELSE users[u]]

\* Mutant of Touched: roles are applied to deleted users too.
Touched_All == DOMAIN users

Touched == Live

\* Members of the group receive all the roles, everybody else loses them.
ApplyRoleMapping(g, names) ==
  users' = [u \in DOMAIN users |->
              IF u \in Touched
              THEN [users[u] EXCEPT !.roles = IF g \in users[u].groups
                                              THEN @ \cup names ELSE @ \ names]
              ELSE users[u]]
=============================================================================
