-------------------------- MODULE GroupRolesProofs --------------------------
(***************************************************************************)
(* Safety of GroupRoles for every set of users, groups, roles and names,   *)
(* and every number of mapping requests served at the same time.           *)
(***************************************************************************)
EXTENDS GroupRoles, StoreTheorems

-----------------------------------------------------------------------------
(* What the operations on users do *)

UsersTyped == IsStore(users, UserIds, UserRecord)

\* The same users with the same addresses, each well formed.
SameUsers == /\ IsStore(users', UserIds, UserRecord)
             /\ DOMAIN users' = DOMAIN users
             /\ \A u \in DOMAIN users : users'[u].email = users[u].email

\* The users whose groups or deletion mark may change are those of S.
OnlyChanges(S) == \A u \in DOMAIN users \ S : users'[u] = users[u]

RolesKept == \A u \in DOMAIN users : users'[u].roles = users[u].roles

LEMMA UserFields ==
  ASSUME UsersTyped, NEW u \in DOMAIN users
  PROVE  /\ u \in UserIds
         /\ users[u] \in UserRecord
         /\ users[u].email \in Emails /\ users[u].groups \subseteq Groups
         /\ users[u].roles \subseteq RoleNames \cup {SuperAdmin}
         /\ users[u].deleted \in BOOLEAN
BY DEF UsersTyped, IsStore, UserRecord

LEMMA CreateUserEffect ==
  ASSUME UsersTyped, NEW u \in UserIds, NEW email \in Emails, NEW groups \in SUBSET Groups,
         CreateUser(u, email, groups)
  PROVE  /\ IsStore(users', UserIds, UserRecord)
         /\ u \notin DOMAIN users
         /\ DOMAIN users' = DOMAIN users \cup {u}
         /\ users'[u].roles = {} /\ users'[u].email = email /\ users'[u].deleted = FALSE
         /\ \A v \in DOMAIN users : users'[v] = users[v]
<1> DEFINE user == [email |-> email, groups |-> groups, roles |-> {}, deleted |-> FALSE]
<1>1. u \notin DOMAIN users /\ users' = Put(users, u, user)
  BY DEF CreateUser
<1>2. user \in UserRecord
  BY DEF UserRecord
<1>3. IsStore(users', UserIds, UserRecord)
  BY <1>1, <1>2, PutStore DEF UsersTyped
<1> QED  BY <1>1, <1>3 DEF Put

LEMMA UpdateUserEffect ==
  ASSUME UsersTyped, NEW u \in UserIds, NEW groups \in SUBSET Groups, UpdateUser(u, groups)
  PROVE  /\ SameUsers /\ OnlyChanges({u}) /\ RolesKept /\ u \in Live
         /\ users'[u].deleted = FALSE
<1>1. users \in [DOMAIN users -> UserRecord] /\ u \in DOMAIN users /\ u \in Live
      /\ DOMAIN users \subseteq UserIds /\ users[u].deleted = FALSE
  BY DEF UsersTyped, IsStore, UpdateUser, Live, UserRecord
<1>2. users' = [users EXCEPT ![u] = [users[u] EXCEPT !.groups = groups]]
  BY <1>1 DEF UpdateUser
<1>3. [users[u] EXCEPT !.groups = groups] \in UserRecord
  BY <1>1 DEF UserRecord
<1> QED  BY <1>1, <1>2, <1>3 DEF SameUsers, OnlyChanges, RolesKept, IsStore, UserRecord

LEMMA MarkEffect ==
  ASSUME UsersTyped, NEW u \in DOMAIN users, NEW mark \in BOOLEAN,
         users' = [users EXCEPT ![u].deleted = mark]
  PROVE  /\ SameUsers /\ OnlyChanges({u}) /\ RolesKept
         /\ users'[u].deleted = mark
         /\ users'[u].groups = users[u].groups
<1>1. users \in [DOMAIN users -> UserRecord] /\ DOMAIN users \subseteq UserIds
  BY DEF UsersTyped, IsStore
<1>2. users' = [users EXCEPT ![u] = [users[u] EXCEPT !.deleted = mark]]
  BY <1>1
<1>3. [users[u] EXCEPT !.deleted = mark] \in UserRecord
  BY <1>1 DEF UserRecord
<1> QED  BY <1>1, <1>2, <1>3 DEF SameUsers, OnlyChanges, RolesKept, IsStore, UserRecord

\* Only live users change, and only their membership in g.
LEMMA MembersEffect ==
  ASSUME UsersTyped, NEW g \in Groups, NEW members, ReconcileGroupMembership(g, members)
  PROVE  /\ SameUsers /\ RolesKept /\ OnlyChanges(Live) /\ Live' = Live
         /\ \A u \in DOMAIN users, f \in Groups \ {g} :
              f \in users'[u].groups <=> f \in users[u].groups
<1> DEFINE Regrouped(u) == [users[u] EXCEPT !.groups = IF u \in members THEN @ \cup {g} ELSE @ \ {g}]
<1>1. \A u \in DOMAIN users : users[u] \in UserRecord
  BY DEF UsersTyped, IsStore
<1>2. DOMAIN users' = DOMAIN users
  BY DEF ReconcileGroupMembership
<1>3. ASSUME NEW u \in DOMAIN users
      PROVE  /\ users'[u] \in UserRecord
             /\ users'[u].email = users[u].email /\ users'[u].roles = users[u].roles
             /\ users'[u].deleted = users[u].deleted
             /\ u \notin Live => users'[u] = users[u]
             /\ \A f \in Groups \ {g} : f \in users'[u].groups <=> f \in users[u].groups
  <2>1. users'[u] = IF u \in Live THEN Regrouped(u) ELSE users[u]
    BY DEF ReconcileGroupMembership
  <2>2. /\ Regrouped(u) \in UserRecord
        /\ Regrouped(u).email = users[u].email /\ Regrouped(u).roles = users[u].roles
        /\ Regrouped(u).deleted = users[u].deleted
        /\ Regrouped(u).groups = IF u \in members THEN users[u].groups \cup {g}
                                                  ELSE users[u].groups \ {g}
    BY <1>1 DEF UserRecord
  <2> HIDE DEF Regrouped
  <2>3. CASE u \in Live
    BY <2>1, <2>2, <2>3
  <2>4. CASE u \notin Live
    BY <1>1, <2>1, <2>4
  <2> QED  BY <2>3, <2>4
<1>4. Live' = Live
  BY <1>2, <1>3 DEF Live
<1>5. users' \in [DOMAIN users' -> UserRecord]
  BY <1>2, <1>3 DEF ReconcileGroupMembership
<1>6. SameUsers
  BY <1>2, <1>3, <1>5 DEF SameUsers, UsersTyped, IsStore
<1> QED  BY <1>3, <1>4, <1>6 DEF RolesKept, OnlyChanges

\* Only live users change, and only in the roles that are applied.
LEMMA ApplyEffect ==
  ASSUME UsersTyped, NEW g \in Groups, NEW names \in SUBSET RoleNames, ApplyRoleMapping(g, names)
  PROVE  /\ SameUsers /\ OnlyChanges(Live) /\ Live' = Live
         /\ \A u \in DOMAIN users : users'[u].groups = users[u].groups
         /\ \A u \in Live : users'[u].roles = IF g \in users[u].groups THEN users[u].roles \cup names
                                                                    ELSE users[u].roles \ names
<1> DEFINE Remapped(u) == [users[u] EXCEPT !.roles = IF g \in users[u].groups
                                                     THEN @ \cup names ELSE @ \ names]
<1>1. \A u \in DOMAIN users : users[u] \in UserRecord
  BY DEF UsersTyped, IsStore
<1>2. DOMAIN users' = DOMAIN users
  BY DEF ApplyRoleMapping
<1>3. ASSUME NEW u \in DOMAIN users
      PROVE  /\ users'[u] \in UserRecord
             /\ users'[u].email = users[u].email /\ users'[u].groups = users[u].groups
             /\ users'[u].deleted = users[u].deleted
             /\ u \notin Live => users'[u] = users[u]
             /\ u \in Live => users'[u].roles = IF g \in users[u].groups
                                                THEN users[u].roles \cup names
                                                ELSE users[u].roles \ names
  <2>1. users'[u] = IF u \in Live THEN Remapped(u) ELSE users[u]
    BY DEF ApplyRoleMapping, Touched
  <2>2. /\ Remapped(u) \in UserRecord
        /\ Remapped(u).email = users[u].email /\ Remapped(u).groups = users[u].groups
        /\ Remapped(u).deleted = users[u].deleted
        /\ Remapped(u).roles = IF g \in users[u].groups THEN users[u].roles \cup names
                                                        ELSE users[u].roles \ names
    BY <1>1 DEF UserRecord
  <2> HIDE DEF Remapped
  <2>3. CASE u \in Live
    BY <2>1, <2>2, <2>3
  <2>4. CASE u \notin Live
    BY <1>1, <2>1, <2>4
  <2> QED  BY <2>3, <2>4
<1>4. Live' = Live
  BY <1>2, <1>3 DEF Live
<1>5. users' \in [DOMAIN users' -> UserRecord]
  BY <1>2, <1>3 DEF ApplyRoleMapping
<1>6. SameUsers
  BY <1>2, <1>3, <1>5 DEF SameUsers, UsersTyped, IsStore
<1>7. Live \subseteq DOMAIN users
  BY DEF Live
<1> QED  BY <1>3, <1>4, <1>6, <1>7 DEF OnlyChanges

-----------------------------------------------------------------------------
(* What the operations on roles do *)

RolesTyped == /\ IsStore(roles, RoleIds, RoleRecord)
              /\ retired \subseteq RoleIds \ DOMAIN roles

LEMMA NameTyped == ASSUME RolesTyped, NEW i PROVE NameOf(i) \subseteq RoleNames
BY DEF RolesTyped, IsStore, RoleRecord, NameOf

LEMMA CreateRoleEffect ==
  ASSUME RolesTyped, NEW i \in RoleIds, NEW name \in RoleNames \cup {SuperAdmin},
         NEW system \in BOOLEAN, CreateRole(i, name, system)
  PROVE  /\ RolesTyped' /\ retired' = retired
         /\ i \notin DOMAIN roles \cup retired
         /\ DOMAIN roles' = DOMAIN roles \cup {i}
         /\ \A j \in DOMAIN roles : roles'[j] = roles[j]
<1> DEFINE role == [name |-> ToLower(name), system |-> system]
<1>1. /\ i \notin DOMAIN roles \cup retired
      /\ roles' = Put(roles, i, role)
      /\ retired' = retired
  BY DEF CreateRole
<1>2. ToLower(name) \in RoleNames
  BY RoleNamesAssumption DEF ToLower
<1>3. role \in RoleRecord
  BY <1>2 DEF RoleRecord
<1>4. IsStore(roles', RoleIds, RoleRecord)
  BY <1>1, <1>3, PutStore DEF RolesTyped
<1>5. DOMAIN roles' = DOMAIN roles \cup {i} /\ \A j \in DOMAIN roles : roles'[j] = roles[j]
  BY <1>1 DEF Put
<1> QED  BY <1>1, <1>4, <1>5 DEF RolesTyped

LEMMA DeleteRoleEffect ==
  ASSUME RolesTyped, NEW i \in RoleIds, DeleteRole(i)
  PROVE  /\ RolesTyped' /\ retired' = retired \cup {i} /\ i \in DOMAIN roles
         /\ DOMAIN roles' = DOMAIN roles \ {i}
         /\ \A j \in DOMAIN roles' : roles'[j] = roles[j]
<1>1. i \in DOMAIN roles /\ roles' = Without(roles, {i}) /\ retired' = retired \cup {i}
  BY DEF DeleteRole
<1>2. IsStore(roles', RoleIds, RoleRecord)
  BY <1>1, WithoutStore DEF RolesTyped
<1>3. DOMAIN roles' = DOMAIN roles \ {i} /\ \A j \in DOMAIN roles' : roles'[j] = roles[j]
  BY <1>1 DEF Without, Restrict
<1> QED  BY <1>1, <1>2, <1>3 DEF RolesTyped

\* The identifiers that are, or once were, those of a role.
Known == DOMAIN roles \cup retired

\* What any step may do to the roles: they stay, one comes, or one goes.
LEMMA RolesStep ==
  ASSUME RolesTyped, [Next]_vars
  PROVE  /\ RolesTyped' /\ Known \subseteq Known' /\ retired \subseteq retired'
         /\ \A i \in DOMAIN roles' :
              (i \in DOMAIN roles /\ roles'[i] = roles[i]) \/ i \notin Known
<1> DEFINE Goal == /\ RolesTyped' /\ Known \subseteq Known' /\ retired \subseteq retired'
                   /\ \A i \in DOMAIN roles' :
                        (i \in DOMAIN roles /\ roles'[i] = roles[i]) \/ i \notin Known
<1>1. CASE UNCHANGED <<roles, retired>>
  BY <1>1 DEF RolesTyped, Known
<1>2. ASSUME NEW i \in RoleIds, EditRole(i) PROVE Goal
  <2>1. ASSUME NEW name \in RoleNames \cup {SuperAdmin}, NEW system \in BOOLEAN,
               CreateRole(i, name, system)
        PROVE  Goal
    BY <2>1, CreateRoleEffect DEF Known
  <2>2. ASSUME DeleteRole(i) PROVE Goal
    <3>1. /\ RolesTyped' /\ retired' = retired \cup {i} /\ i \in DOMAIN roles
          /\ DOMAIN roles' = DOMAIN roles \ {i}
          /\ \A j \in DOMAIN roles' : roles'[j] = roles[j]
      BY <2>2, DeleteRoleEffect
    <3> QED  BY <3>1 DEF Known
  <2> QED  BY <1>2, <2>1, <2>2 DEF EditRole
<1>3. UNCHANGED <<roles, retired>> \/ \E i \in RoleIds : EditRole(i)
  BY DEF Next, vars, EditUser, Edited, DeleteUser, AssignRole, MapRole, UnassignRole,
         ReconcileGroupMembers, SnapshotMapping, ResolveRole, ApplyNames
<1> QED  BY <1>1, <1>2, <1>3

-----------------------------------------------------------------------------
(* Mapping requests *)

CallsTyped == calls \in [Requests -> {Idle} \cup Mapping \cup Snapshotting \cup Resolving]

LEMMA CallFields ==
  ASSUME CallsTyped, NEW h \in Requests
  PROVE  /\ calls[h].pc \in {"idle", "map", "snapshot", "resolve"}
         /\ calls[h].pc # "idle" => calls[h].group \in Groups
         /\ calls[h].pc = "map" => calls[h].role \in RoleIds
         /\ calls[h].pc = "resolve" => /\ calls[h] \in Resolving
                                       /\ calls[h].todo \subseteq RoleIds
                                       /\ calls[h].names \subseteq RoleNames
BY DEF CallsTyped, Idle, Mapping, Snapshotting, Resolving

\* Only h moves.
OthersWait(h) == \A k \in Requests : k # h => calls'[k] = calls[k]

\* h holds a copy of a mapping, none of which is resolved.
Copied(h, g, mapping) ==
  /\ OthersWait(h)
  /\ calls'[h].pc = "resolve" /\ calls'[h].group = g
  /\ calls'[h].todo = mapping /\ calls'[h].names = {}

LEMMA SnapshotEffect ==
  ASSUME CallsTyped, NEW h \in Requests, NEW g \in Groups, NEW mapping \in SUBSET RoleIds,
         Snapshot(h, g, mapping)
  PROVE  CallsTyped' /\ Copied(h, g, mapping)
<1> DEFINE call == [pc |-> "resolve", group |-> g, todo |-> mapping, names |-> {}]
<1>1. call \in Resolving
  BY DEF Resolving
<1>2. calls' = [calls EXCEPT ![h] = call]
  BY DEF Snapshot
<1>3. calls'[h] = call /\ CallsTyped' /\ OthersWait(h)
  BY <1>1, <1>2 DEF CallsTyped, OthersWait
<1> QED  BY <1>3 DEF Copied

LEMMA AssignEffect ==
  ASSUME CallsTyped, NEW h \in Requests, NEW g \in Groups, NEW i \in RoleIds, AssignRole(h, g, i)
  PROVE  /\ CallsTyped' /\ OthersWait(h)
         /\ calls[h].pc = "idle" /\ i \in DOMAIN roles
         /\ calls'[h].pc = "map" /\ calls'[h].role = i
<1> DEFINE call == [pc |-> "map", group |-> g, role |-> i]
<1>1. call \in Mapping
  BY DEF Mapping
<1>2. calls' = [calls EXCEPT ![h] = call] /\ calls[h] = Idle /\ i \in DOMAIN roles
  BY DEF AssignRole
<1>3. calls'[h] = call /\ CallsTyped' /\ OthersWait(h)
  BY <1>1, <1>2 DEF CallsTyped, OthersWait
<1> QED  BY <1>2, <1>3 DEF Idle

LEMMA ReconcileEffect ==
  ASSUME CallsTyped, NEW h \in Requests, NEW g \in Groups, NEW members,
         ReconcileGroupMembers(h, g, members)
  PROVE  /\ CallsTyped' /\ OthersWait(h)
         /\ calls[h].pc = "idle" /\ calls'[h].pc = "snapshot" /\ calls'[h].group = g
<1> DEFINE call == [pc |-> "snapshot", group |-> g]
<1>1. call \in Snapshotting
  BY DEF Snapshotting
<1>2. calls' = [calls EXCEPT ![h] = call] /\ calls[h] = Idle
  BY DEF ReconcileGroupMembers
<1>3. calls'[h] = call /\ CallsTyped' /\ OthersWait(h)
  BY <1>1, <1>2 DEF CallsTyped, OthersWait
<1> QED  BY <1>2, <1>3 DEF Idle

LEMMA ResolveEffect ==
  ASSUME CallsTyped, RolesTyped, NEW h \in Requests, NEW i \in RoleIds, ResolveRole(h, i)
  PROVE  /\ CallsTyped' /\ OthersWait(h)
         /\ calls[h].pc = "resolve" /\ calls'[h].pc = "resolve"
         /\ calls'[h].group = calls[h].group /\ i \in calls[h].todo
         /\ calls'[h].todo = calls[h].todo \ {i}
         /\ calls'[h].names = calls[h].names \cup NameOf(i)
<1> DEFINE call == [calls[h] EXCEPT !.todo = @ \ {i}, !.names = @ \cup NameOf(i)]
<1>1. calls[h].pc = "resolve" /\ i \in calls[h].todo
  BY DEF ResolveRole
<1>2. calls[h] \in Resolving /\ NameOf(i) \subseteq RoleNames
  BY <1>1, CallFields, NameTyped
<1>3. /\ call \in Resolving
      /\ call.pc = "resolve" /\ call.group = calls[h].group
      /\ call.todo = calls[h].todo \ {i} /\ call.names = calls[h].names \cup NameOf(i)
  BY <1>2 DEF Resolving
<1>4. calls' = [calls EXCEPT ![h] = call]
  BY DEF ResolveRole
<1> HIDE DEF call
<1>5. calls'[h] = call /\ CallsTyped' /\ OthersWait(h)
  BY <1>3, <1>4 DEF CallsTyped, OthersWait
<1> QED  BY <1>1, <1>3, <1>5

LEMMA ApplyNamesEffect ==
  ASSUME CallsTyped, NEW h \in Requests, ApplyNames(h)
  PROVE  /\ CallsTyped' /\ OthersWait(h)
         /\ calls[h].pc = "resolve" /\ calls[h].todo = {} /\ calls'[h].pc = "idle"
         /\ calls[h].group \in Groups /\ calls[h].names \subseteq RoleNames
<1>1. /\ calls[h].pc = "resolve" /\ calls[h].todo = {}
      /\ calls' = [calls EXCEPT ![h] = Idle]
  BY DEF ApplyNames
<1>2. calls'[h] = Idle /\ CallsTyped' /\ OthersWait(h)
  BY <1>1 DEF CallsTyped, OthersWait
<1> QED  BY <1>1, <1>2, CallFields DEF Idle

-----------------------------------------------------------------------------
(* Type correctness *)

LEMMA TypeParts ==
  TypeOK <=> /\ UsersTyped /\ RolesTyped /\ CallsTyped
             /\ mappings \in [Groups -> SUBSET Known]
             /\ granted \in [Groups -> SUBSET RoleNames]
             /\ stale \subseteq UserIds \X Groups
BY DEF TypeOK, UsersTyped, RolesTyped, CallsTyped, Known

\* A request that adds a role to a mapping names one that exists or existed.
RolesToMapKnown == \A h \in Requests : calls[h].pc = "map" => calls[h].role \in Known

LEMMA MappingTyped ==
  ASSUME TypeOK, NEW g \in Groups PROVE mappings[g] \subseteq RoleIds
BY DEF TypeOK, IsStore

LEMMA MapEffect ==
  ASSUME TypeOK, RolesToMapKnown, NEW h \in Requests, MapRole(h)
  PROVE  /\ calls[h].pc = "map" /\ calls[h].group \in Groups
         /\ calls[h].role \in Known /\ calls[h].role \in RoleIds
         /\ mappings' = [mappings EXCEPT ![calls[h].group] = @ \cup {calls[h].role}]
         /\ granted' = [granted EXCEPT ![calls[h].group] = @ \cup NameOf(calls[h].role)]
         /\ CallsTyped'
         /\ Copied(h, calls[h].group, mappings[calls[h].group] \cup {calls[h].role})
         /\ UNCHANGED <<users, roles, retired, stale>>
<1>1. CallsTyped
  BY TypeParts
<1>2. /\ calls[h].pc = "map"
      /\ mappings' = [mappings EXCEPT ![calls[h].group] = @ \cup {calls[h].role}]
      /\ granted' = [granted EXCEPT ![calls[h].group] = @ \cup NameOf(calls[h].role)]
      /\ Snapshot(h, calls[h].group, mappings[calls[h].group] \cup {calls[h].role})
      /\ UNCHANGED <<users, roles, retired, stale>>
  BY DEF MapRole, SnapshotAfter
<1>3. calls[h].group \in Groups /\ calls[h].role \in RoleIds
  BY <1>1, <1>2, CallFields
<1>4. mappings[calls[h].group] \cup {calls[h].role} \in SUBSET RoleIds
  BY <1>3, MappingTyped
<1>5. CallsTyped' /\ Copied(h, calls[h].group, mappings[calls[h].group] \cup {calls[h].role})
  BY <1>1, <1>2, <1>3, <1>4, SnapshotEffect
<1> QED  BY <1>2, <1>3, <1>5 DEF RolesToMapKnown

LEMMA UnassignEffect ==
  ASSUME TypeOK, NEW h \in Requests, NEW g \in Groups, NEW i \in RoleIds, UnassignRole(h, g, i)
  PROVE  /\ calls[h].pc = "idle" /\ CallsTyped'
         /\ Copied(h, g, mappings[g] \ {i})
         /\ mappings' = [mappings EXCEPT ![g] = @ \ {i}]
         /\ UNCHANGED <<users, roles, retired, granted, stale>>
<1>1. CallsTyped
  BY TypeParts
<1>2. mappings[g] \ {i} \in SUBSET RoleIds
  BY MappingTyped
<1>3. /\ calls[h] = Idle /\ Snapshot(h, g, mappings[g] \ {i})
      /\ mappings' = [mappings EXCEPT ![g] = @ \ {i}]
      /\ UNCHANGED <<users, roles, retired, granted, stale>>
  BY DEF UnassignRole
<1> QED  BY <1>1, <1>2, <1>3, SnapshotEffect DEF Idle

LEMMA SnapshotMappingEffect ==
  ASSUME TypeOK, NEW h \in Requests, SnapshotMapping(h)
  PROVE  /\ calls[h].pc = "snapshot" /\ calls[h].group \in Groups /\ CallsTyped'
         /\ Copied(h, calls[h].group, mappings[calls[h].group])
         /\ UNCHANGED <<users, roles, retired, mappings, granted, stale>>
<1>1. CallsTyped
  BY TypeParts
<1>2. /\ calls[h].pc = "snapshot"
      /\ Snapshot(h, calls[h].group, mappings[calls[h].group])
      /\ UNCHANGED <<users, roles, retired, mappings, granted, stale>>
  BY DEF SnapshotMapping
<1>3. calls[h].group \in Groups
  BY <1>1, <1>2, CallFields
<1>4. mappings[calls[h].group] \in SUBSET RoleIds
  BY <1>3, MappingTyped
<1> QED  BY <1>1, <1>2, <1>3, <1>4, SnapshotEffect

-----------------------------------------------------------------------------
(* What any step does to the users *)

\* The names some request is about to apply.
Applied == UNION {calls[h].names : h \in {k \in Requests : calls[k].pc = "resolve"}}

Persists(u) ==
  /\ u \in DOMAIN users'
  /\ users'[u].email = users[u].email
  /\ users'[u].roles \subseteq users[u].roles \cup Applied
  /\ SuperAdmin \in users'[u].roles <=> SuperAdmin \in users[u].roles
  /\ u \notin Live => users'[u].groups = users[u].groups /\ users'[u].roles = users[u].roles

Added(u) == /\ DOMAIN users' = DOMAIN users \cup {u}
            /\ users'[u].roles = {}
            /\ \A v \in Live : users[v].email # users'[u].email

UsersEvolve == /\ IsStore(users', UserIds, UserRecord)
               /\ \A u \in DOMAIN users : Persists(u)
               /\ \A u \in DOMAIN users' \ DOMAIN users : Added(u)

LEMMA UsersStep ==
  ASSUME UsersTyped, CallsTyped, [Next]_vars PROVE UsersEvolve
<1>1. CASE UNCHANGED users
  BY <1>1 DEF UsersTyped, UsersEvolve, Persists
<1>2. ASSUME NEW u \in UserIds, EditUser(u) PROVE UsersEvolve
  <2>1. ASSUME NEW email \in Emails, NEW groups \in SUBSET Groups, CreateUser(u, email, groups)
        PROVE  UsersEvolve
    <3>1. /\ IsStore(users', UserIds, UserRecord)
          /\ u \notin DOMAIN users
          /\ DOMAIN users' = DOMAIN users \cup {u}
          /\ users'[u].roles = {} /\ users'[u].email = email /\ users'[u].deleted = FALSE
          /\ \A v \in DOMAIN users : users'[v] = users[v]
      BY <2>1, CreateUserEffect
    <3>2. \A v \in Live : users[v].email # email
      BY <2>1 DEF CreateUser, Free
    <3> QED  BY <3>1, <3>2 DEF UsersEvolve, Persists, Added
  <2>2. ASSUME NEW groups \in SUBSET Groups, UpdateUser(u, groups) PROVE UsersEvolve
    <3>1. SameUsers /\ OnlyChanges({u}) /\ RolesKept /\ u \in Live
      BY <2>2, UpdateUserEffect
    <3> QED  BY <3>1 DEF SameUsers, OnlyChanges, RolesKept, UsersEvolve, Persists
  <2>3. ASSUME RestoreUser(u) PROVE UsersEvolve
    <3>1. u \in DOMAIN users /\ users' = [users EXCEPT ![u].deleted = FALSE]
      BY <2>3 DEF RestoreUser
    <3>2. /\ SameUsers /\ OnlyChanges({u}) /\ RolesKept
          /\ users'[u].groups = users[u].groups
      BY <3>1, MarkEffect
    <3> QED  BY <3>2 DEF SameUsers, OnlyChanges, RolesKept, UsersEvolve, Persists
  <2> QED  BY <1>2, <2>1, <2>2, <2>3 DEF EditUser
<1>3. ASSUME NEW u \in UserIds, DeleteUser(u) PROVE UsersEvolve
  <2>1. u \in DOMAIN users /\ users' = [users EXCEPT ![u].deleted = TRUE]
    BY <1>3 DEF DeleteUser, SoftDeleteUser, Live
  <2>2. /\ SameUsers /\ OnlyChanges({u}) /\ RolesKept
        /\ users'[u].groups = users[u].groups
    BY <2>1, MarkEffect
  <2> QED  BY <2>2 DEF SameUsers, OnlyChanges, RolesKept, UsersEvolve, Persists
<1>4. ASSUME NEW h \in Requests, NEW g \in Groups, NEW members \in SUBSET UserIds,
             ReconcileGroupMembers(h, g, members)
      PROVE  UsersEvolve
  <2>1. SameUsers /\ RolesKept /\ OnlyChanges(Live)
    BY <1>4, MembersEffect DEF ReconcileGroupMembers
  <2> QED  BY <2>1 DEF SameUsers, OnlyChanges, RolesKept, UsersEvolve, Persists
<1>5. ASSUME NEW h \in Requests, ApplyNames(h) PROVE UsersEvolve
  <2>1. calls[h].group \in Groups /\ calls[h].names \in SUBSET RoleNames
    BY <1>5, ApplyNamesEffect
  <2>2. /\ SameUsers /\ OnlyChanges(Live)
        /\ \A u \in Live : users'[u].roles = IF calls[h].group \in users[u].groups
                                             THEN users[u].roles \cup calls[h].names
                                             ELSE users[u].roles \ calls[h].names
    BY <1>5, <2>1, ApplyEffect DEF ApplyNames
  <2>3. SuperAdmin \notin calls[h].names
    BY <2>1, RoleNamesAssumption
  <2>4. calls[h].names \subseteq Applied
    BY <1>5, ApplyNamesEffect DEF Applied
  <2>5. \A u \in DOMAIN users : Persists(u)
    BY <2>2, <2>3, <2>4 DEF SameUsers, OnlyChanges, Persists
  <2> QED  BY <2>2, <2>5 DEF SameUsers, UsersEvolve
<1>6. \/ UNCHANGED users
      \/ \E u \in UserIds : EditUser(u) \/ DeleteUser(u)
      \/ \E h \in Requests : ApplyNames(h)
      \/ \E h \in Requests, g \in Groups, members \in SUBSET UserIds :
           ReconcileGroupMembers(h, g, members)
  BY DEF Next, vars, EditRole, AssignRole, MapRole, UnassignRole, SnapshotMapping, ResolveRole
<1> QED  BY <1>1, <1>2, <1>3, <1>4, <1>5, <1>6

-----------------------------------------------------------------------------
(* Type correctness is inductive *)

Mappings == /\ mappings \in [Groups -> SUBSET Known]
            /\ granted \in [Groups -> SUBSET RoleNames]
            /\ stale \subseteq UserIds \X Groups

LEMMA CallsStep ==
  ASSUME TypeOK, RolesToMapKnown, [Next]_vars PROVE CallsTyped' /\ RolesToMapKnown'
<1> DEFINE Goal == CallsTyped' /\ RolesToMapKnown'
<1>1. CallsTyped /\ RolesTyped
  BY TypeParts
<1>2. Known \subseteq Known'
  BY <1>1, RolesStep
<1>3. CASE UNCHANGED calls
  BY <1>1, <1>2, <1>3 DEF CallsTyped, RolesToMapKnown
<1>4. ASSUME NEW h \in Requests, OthersWait(h), CallsTyped',
             calls'[h].pc = "map" => calls'[h].role \in Known'
      PROVE  Goal
  BY <1>2, <1>4 DEF OthersWait, RolesToMapKnown
<1>5. ASSUME NEW h \in Requests, NEW g \in Groups, NEW i \in RoleIds, AssignRole(h, g, i)
      PROVE  Goal
  <2>1. CallsTyped' /\ OthersWait(h) /\ i \in DOMAIN roles /\ calls'[h].role = i
    BY <1>1, <1>5, AssignEffect
  <2>2. i \in Known
    BY <2>1 DEF Known
  <2> QED  BY <1>2, <1>4, <2>1, <2>2
<1>6. ASSUME NEW h \in Requests, NEW g \in Groups, NEW i \in RoleIds, UnassignRole(h, g, i)
      PROVE  Goal
  BY <1>4, <1>6, UnassignEffect DEF Copied
<1>7. ASSUME NEW h \in Requests, NEW g \in Groups, NEW members, ReconcileGroupMembers(h, g, members)
      PROVE  Goal
  BY <1>1, <1>4, <1>7, ReconcileEffect
<1>8. ASSUME NEW h \in Requests, MapRole(h) PROVE Goal
  BY <1>4, <1>8, MapEffect DEF Copied
<1>9. ASSUME NEW h \in Requests, SnapshotMapping(h) PROVE Goal
  BY <1>4, <1>9, SnapshotMappingEffect DEF Copied
<1>10. ASSUME NEW h \in Requests, NEW i \in RoleIds, ResolveRole(h, i) PROVE Goal
  BY <1>1, <1>4, <1>10, ResolveEffect
<1>11. ASSUME NEW h \in Requests, ApplyNames(h) PROVE Goal
  BY <1>1, <1>4, <1>11, ApplyNamesEffect
<1>12. UNCHANGED calls \/ \E h \in Requests :
         \/ \E g \in Groups, i \in RoleIds : AssignRole(h, g, i) \/ UnassignRole(h, g, i)
         \/ \E g \in Groups, members \in SUBSET UserIds : ReconcileGroupMembers(h, g, members)
         \/ MapRole(h) \/ SnapshotMapping(h) \/ ApplyNames(h)
         \/ \E i \in RoleIds : ResolveRole(h, i)
  BY DEF Next, vars, EditUser, Edited, DeleteUser, EditRole
<1> QED  BY <1>3, <1>5, <1>6, <1>7, <1>8, <1>9, <1>10, <1>11, <1>12

LEMMA MappingsStep ==
  ASSUME TypeOK, RolesToMapKnown, [Next]_vars PROVE Mappings'
<1>1. Mappings /\ RolesTyped /\ CallsTyped
  BY TypeParts DEF Mappings
<1>2. Known \subseteq Known'
  BY <1>1, RolesStep
<1>3. CASE UNCHANGED <<mappings, granted, stale>>
  BY <1>1, <1>2, <1>3 DEF Mappings
<1>4. ASSUME NEW u \in UserIds, EditUser(u) PROVE Mappings'
  BY <1>1, <1>2, <1>4 DEF Mappings, EditUser, Edited
<1>5. ASSUME NEW h \in Requests, NEW g \in Groups, NEW i \in RoleIds, UnassignRole(h, g, i)
      PROVE  Mappings'
  BY <1>1, <1>2, <1>5 DEF Mappings, UnassignRole
<1>6. ASSUME NEW h \in Requests, MapRole(h) PROVE Mappings'
  <2>1. /\ calls[h].group \in Groups
        /\ calls[h].role \in Known
        /\ mappings' = [mappings EXCEPT ![calls[h].group] = @ \cup {calls[h].role}]
        /\ granted' = [granted EXCEPT ![calls[h].group] = @ \cup NameOf(calls[h].role)]
        /\ stale' = stale
    BY <1>6, MapEffect
  <2>2. NameOf(calls[h].role) \subseteq RoleNames
    BY <1>1, NameTyped
  <2> QED  BY <1>1, <1>2, <2>1, <2>2 DEF Mappings
<1>7. ASSUME NEW h \in Requests, ApplyNames(h) PROVE Mappings'
  BY <1>1, <1>2, <1>7 DEF Mappings, ApplyNames
<1>8. \/ UNCHANGED <<mappings, granted, stale>>
      \/ \E u \in UserIds : EditUser(u)
      \/ \E h \in Requests : MapRole(h) \/ ApplyNames(h)
      \/ \E h \in Requests, g \in Groups, i \in RoleIds : UnassignRole(h, g, i)
  BY DEF Next, vars, DeleteUser, EditRole, AssignRole, ReconcileGroupMembers,
         SnapshotMapping, ResolveRole
<1> QED  BY <1>3, <1>4, <1>5, <1>6, <1>7, <1>8

LEMMA NextTyped ==
  ASSUME TypeOK, RolesToMapKnown, [Next]_vars PROVE TypeOK' /\ RolesToMapKnown'
<1>1. UsersTyped /\ RolesTyped /\ CallsTyped
  BY TypeParts
<1>2. IsStore(users', UserIds, UserRecord)
  BY <1>1, UsersStep DEF UsersEvolve
<1>3. RolesTyped' /\ CallsTyped' /\ RolesToMapKnown' /\ Mappings'
  BY <1>1, RolesStep, CallsStep, MappingsStep
<1>4. TypeOK'
  BY <1>2, <1>3 DEF TypeOK, RolesTyped, CallsTyped, Mappings, Known
<1> QED  BY <1>3, <1>4

LEMMA InitTyped == Init => TypeOK /\ RolesToMapKnown
<1> SUFFICES ASSUME Init PROVE TypeOK /\ RolesToMapKnown
  OBVIOUS
<1>1. RolesTyped
  BY EmptyIsStore DEF Init, RolesInit, RolesTyped
<1>2. CallsTyped /\ RolesToMapKnown
  BY DEF Init, CallsTyped, RolesToMapKnown, Idle
<1>3. IsStore(users, UserIds, UserRecord)
  BY SeedUserAssumption DEF Init, UsersInit, IsStore, UserRecord
<1>4. Mappings
  BY DEF Init, Mappings
<1> QED  BY <1>1, <1>2, <1>3, <1>4 DEF TypeOK, RolesTyped, CallsTyped, Mappings, Known

\* Users, roles, mappings and requests stay well formed, whatever is created,
\* deleted, mapped and applied in between.
THEOREM TypeCorrect == Spec => [](TypeOK /\ RolesToMapKnown)
<1>1. TypeOK /\ RolesToMapKnown /\ [Next]_vars => (TypeOK /\ RolesToMapKnown)'
  BY NextTyped
<1> QED  BY <1>1, InitTyped, PTL DEF Spec

-----------------------------------------------------------------------------
(* The seed administrator, deleted users, e-mail addresses *)

LEMMA SeedStep ==
  ASSUME UsersTyped, CallsTyped, SuperAdminIsSeed, [Next]_vars PROVE SuperAdminIsSeed'
<1>1. UsersEvolve
  BY UsersStep
<1>2. DOMAIN users \subseteq DOMAIN users'
      /\ \A u \in DOMAIN users : SuperAdmin \in users'[u].roles <=> SuperAdmin \in users[u].roles
  BY <1>1 DEF UsersEvolve, Persists
<1>3. \A u \in DOMAIN users' \ DOMAIN users : SuperAdmin \notin users'[u].roles
  BY <1>1 DEF UsersEvolve, Added
<1> QED  BY <1>2, <1>3 DEF SuperAdminIsSeed

\* Whatever roles are created, mapped and applied: the seed administrator,
\* and nobody else, has the role SuperAdmin.
THEOREM SeedKeepsSuperAdmin == Spec => []SuperAdminIsSeed
<1>1. Init => SuperAdminIsSeed
  BY DEF Init, UsersInit, SuperAdminIsSeed
<1>2. TypeOK /\ SuperAdminIsSeed /\ [Next]_vars => SuperAdminIsSeed'
  BY SeedStep, TypeParts
<1>3. TypeOK /\ RolesToMapKnown => TypeOK
  OBVIOUS
<1> QED  BY <1>1, <1>2, <1>3, TypeCorrect, PTL DEF Spec

\* No request in flight and no operation but its restoration changes what a
\* deleted user comes back with.
THEOREM DeletedFrozen == Spec => DeletedUsersFrozen
<1> DEFINE Frozen == \A u \in DOMAIN users : users[u].deleted =>
                       [users'[u] EXCEPT !.deleted = TRUE] = users[u]
<1>1. ASSUME TypeOK, [Next]_vars PROVE Frozen
  <2> SUFFICES ASSUME NEW u \in DOMAIN users, users[u].deleted
               PROVE  [users'[u] EXCEPT !.deleted = TRUE] = users[u]
    OBVIOUS
  <2>1. UsersEvolve /\ UsersTyped
    BY <1>1, TypeParts, UsersStep
  <2>2. Persists(u) /\ u \notin Live
    BY <2>1 DEF UsersEvolve, Live
  <2>3. users[u] \in UserRecord /\ users'[u] \in UserRecord
    BY <2>1, <2>2 DEF UsersEvolve, UsersTyped, IsStore, Persists
  <2>4. users'[u].email = users[u].email /\ users'[u].groups = users[u].groups
        /\ users'[u].roles = users[u].roles
    BY <2>2 DEF Persists
  <2> QED  BY <2>3, <2>4 DEF UserRecord
<1>2. TypeOK /\ [Next]_vars => [Frozen]_vars
  BY <1>1
<1>3. TypeOK /\ RolesToMapKnown => TypeOK
  OBVIOUS
<1> QED  BY <1>2, <1>3, TypeCorrect, PTL DEF Spec, DeletedUsersFrozen

\* Two live users with one address: one of them has just been restored, or
\* both were live already.
THEOREM AddressesShared == Spec => AddressesSharedByRestoring
<1> DEFINE Restored == \A u, v \in Live' : Namesakes(u, v)' =>
                         \/ {u, v} \subseteq Live
                         \/ \E w \in {u, v} : w \in DOMAIN users \ Live
<1>1. ASSUME TypeOK, [Next]_vars PROVE Restored
  <2> SUFFICES ASSUME NEW u \in Live', NEW v \in Live', Namesakes(u, v)',
                      u \notin DOMAIN users \ Live, v \notin DOMAIN users \ Live
               PROVE  u \in Live /\ v \in Live
    OBVIOUS
  <2>1. UsersEvolve
    BY <1>1, TypeParts, UsersStep
  <2>2. u # v /\ users'[u].email = users'[v].email
        /\ u \in DOMAIN users' /\ v \in DOMAIN users'
    BY DEF Namesakes, Live
  <2>3. ASSUME NEW x \in DOMAIN users', NEW y \in DOMAIN users', x # y,
               users'[x].email = users'[y].email, y \notin DOMAIN users \ Live, x \notin DOMAIN users
        PROVE  FALSE
    <3>1. Added(x)
      BY <2>1, <2>3 DEF UsersEvolve
    <3>2. y \in Live /\ y \in DOMAIN users
      BY <2>3, <3>1 DEF Added, Live
    <3>3. users'[y].email = users[y].email
      BY <2>1, <3>2 DEF UsersEvolve, Persists
    <3> QED  BY <2>3, <3>1, <3>2, <3>3 DEF Added
  <2>4. u \in DOMAIN users /\ v \in DOMAIN users
    BY <2>2, <2>3
  <2> QED  BY <2>4
<1>2. TypeOK /\ [Next]_vars => [Restored]_vars
  BY <1>1
<1>3. TypeOK /\ RolesToMapKnown => TypeOK
  OBVIOUS
<1> QED  BY <1>2, <1>3, TypeCorrect, PTL DEF Spec, AddressesSharedByRestoring

-----------------------------------------------------------------------------
(* Roles are held through grants only *)

\* What a request is to apply, or has still to resolve, was granted to its
\* group; the identifiers it has still to resolve were used already, so that
\* no role made later answers to them.
CallGranted(h) ==
  /\ calls[h].names \subseteq granted[calls[h].group]
  /\ calls[h].todo \subseteq Known
  /\ \A i \in calls[h].todo : NameOf(i) \subseteq granted[calls[h].group]

MappedGranted == \A g \in Groups : \A i \in mappings[g] : NameOf(i) \subseteq granted[g]

Grants == /\ MappedGranted
          /\ \A h \in Requests : calls[h].pc = "resolve" => CallGranted(h)

LEMMA GrantedGrows ==
  ASSUME TypeOK, RolesToMapKnown, [Next]_vars
  PROVE  \A g \in Groups : granted[g] \subseteq granted'[g]
<1>1. granted \in [Groups -> SUBSET RoleNames]
  BY DEF TypeOK
<1>2. CASE UNCHANGED granted
  BY <1>2
<1>3. ASSUME NEW h \in Requests, MapRole(h) PROVE \A g \in Groups : granted[g] \subseteq granted'[g]
  <2>1. granted' = [granted EXCEPT ![calls[h].group] = @ \cup NameOf(calls[h].role)]
    BY <1>3, MapEffect
  <2> QED  BY <1>1, <2>1
<1>4. UNCHANGED granted \/ \E h \in Requests : MapRole(h)
  BY DEF Next, vars, EditUser, Edited, DeleteUser, EditRole, AssignRole, UnassignRole,
         ReconcileGroupMembers, SnapshotMapping, ResolveRole, ApplyNames
<1> QED  BY <1>2, <1>3, <1>4

LEMMA NamesShrink ==
  ASSUME RolesTyped, [Next]_vars, NEW i \in Known PROVE NameOf(i)' \subseteq NameOf(i)
<1>1. i \in DOMAIN roles' => i \in DOMAIN roles /\ roles'[i] = roles[i]
  BY RolesStep
<1> QED  BY <1>1 DEF NameOf

LEMMA GrantsMapped ==
  ASSUME TypeOK, RolesToMapKnown, Grants, [Next]_vars PROVE MappedGranted'
<1>1. RolesTyped /\ mappings \in [Groups -> SUBSET Known] /\ granted \in [Groups -> SUBSET RoleNames]
  BY TypeParts
<1>2. \A i \in Known : NameOf(i)' \subseteq NameOf(i)
  BY <1>1, NamesShrink
<1>3. \A g \in Groups : granted[g] \subseteq granted'[g]
  BY GrantedGrows
<1>4. CASE \A g \in Groups : mappings'[g] \subseteq mappings[g]
  BY <1>1, <1>2, <1>3, <1>4 DEF Grants, MappedGranted
<1>5. ASSUME NEW h \in Requests, MapRole(h) PROVE MappedGranted'
  <2>1. /\ calls[h].group \in Groups /\ calls[h].role \in Known
        /\ mappings' = [mappings EXCEPT ![calls[h].group] = @ \cup {calls[h].role}]
        /\ granted' = [granted EXCEPT ![calls[h].group] = @ \cup NameOf(calls[h].role)]
    BY <1>5, MapEffect
  <2>2. ASSUME NEW g \in Groups, NEW i \in mappings'[g] PROVE NameOf(i)' \subseteq granted'[g]
    <3>1. CASE i \in mappings[g]
      BY <1>1, <1>2, <1>3, <3>1 DEF Grants, MappedGranted
    <3>2. CASE i \notin mappings[g]
      <4>1. g = calls[h].group /\ i = calls[h].role
        BY <1>1, <2>1, <2>2, <3>2
      <4>2. NameOf(i) \subseteq granted'[g] /\ i \in Known
        BY <1>1, <2>1, <4>1
      <4> QED  BY <1>2, <4>2
    <3> QED  BY <3>1, <3>2
  <2> QED  BY <2>2 DEF MappedGranted
<1>6. ASSUME NEW h \in Requests, NEW g \in Groups, NEW i \in RoleIds, UnassignRole(h, g, i)
      PROVE  \A f \in Groups : mappings'[f] \subseteq mappings[f]
  BY <1>1, <1>6 DEF UnassignRole
<1>7. \/ UNCHANGED mappings
      \/ \E h \in Requests : MapRole(h)
      \/ \E h \in Requests, g \in Groups, i \in RoleIds : UnassignRole(h, g, i)
  BY DEF Next, vars, EditUser, Edited, DeleteUser, EditRole, AssignRole,
         ReconcileGroupMembers, SnapshotMapping, ResolveRole, ApplyNames
<1> QED  BY <1>4, <1>5, <1>6, <1>7

\* A copy of a group's mapping is granted to the group.
LEMMA CopyGranted ==
  ASSUME TypeOK', MappedGranted', NEW h \in Requests, NEW g \in Groups, Copied(h, g, mappings'[g])
  PROVE  CallGranted(h)'
<1>1. mappings'[g] \subseteq Known'
  BY DEF TypeOK, Known
<1> QED  BY <1>1 DEF Copied, CallGranted, MappedGranted

LEMMA GrantsCalls ==
  ASSUME TypeOK, RolesToMapKnown, Grants, [Next]_vars
  PROVE  \A h \in Requests : calls'[h].pc = "resolve" => CallGranted(h)'
<1> DEFINE Goal == \A h \in Requests : calls'[h].pc = "resolve" => CallGranted(h)'
<1>1. /\ UsersTyped /\ RolesTyped /\ CallsTyped /\ mappings \in [Groups -> SUBSET Known]
      /\ granted \in [Groups -> SUBSET RoleNames]
  BY TypeParts
<1>2. \A i \in Known : NameOf(i)' \subseteq NameOf(i)
  BY <1>1, NamesShrink
<1>3. (\A g \in Groups : granted[g] \subseteq granted'[g]) /\ Known \subseteq Known'
  BY <1>1, GrantedGrows, RolesStep
<1>4. TypeOK' /\ MappedGranted'
  BY NextTyped, GrantsMapped
<1>5. ASSUME NEW k \in Requests, calls'[k] = calls[k], calls[k].pc = "resolve"
      PROVE  CallGranted(k)'
  <2>1. CallGranted(k) /\ calls[k].group \in Groups
    BY <1>1, <1>5, CallFields DEF Grants
  <2> QED  BY <1>2, <1>3, <1>5, <2>1 DEF CallGranted
<1>6. CASE UNCHANGED calls
  BY <1>5, <1>6
<1>7. ASSUME NEW h \in Requests, OthersWait(h), calls'[h].pc = "resolve" => CallGranted(h)'
      PROVE  Goal
  BY <1>5, <1>7 DEF OthersWait
<1>8. ASSUME NEW h \in Requests, NEW g \in Groups, NEW i \in RoleIds, AssignRole(h, g, i)
      PROVE  Goal
  BY <1>1, <1>7, <1>8, AssignEffect
<1>9. ASSUME NEW h \in Requests, NEW g \in Groups, NEW i \in RoleIds, UnassignRole(h, g, i)
      PROVE  Goal
  <2>1. Copied(h, g, mappings[g] \ {i}) /\ mappings' = [mappings EXCEPT ![g] = @ \ {i}]
    BY <1>9, UnassignEffect
  <2>2. Copied(h, g, mappings'[g])
    BY <1>1, <2>1
  <2> QED  BY <1>4, <1>7, <2>2, CopyGranted DEF Copied
<1>10. ASSUME NEW h \in Requests, NEW g \in Groups, NEW members, ReconcileGroupMembers(h, g, members)
      PROVE  Goal
  BY <1>1, <1>7, <1>10, ReconcileEffect
<1>11. ASSUME NEW h \in Requests, MapRole(h) PROVE Goal
  <2>1. /\ calls[h].group \in Groups
        /\ Copied(h, calls[h].group, mappings[calls[h].group] \cup {calls[h].role})
        /\ mappings' = [mappings EXCEPT ![calls[h].group] = @ \cup {calls[h].role}]
    BY <1>11, MapEffect
  <2>2. Copied(h, calls[h].group, mappings'[calls[h].group])
    BY <1>1, <2>1
  <2> QED  BY <1>4, <1>7, <2>1, <2>2, CopyGranted DEF Copied
<1>12. ASSUME NEW h \in Requests, SnapshotMapping(h) PROVE Goal
  <2>1. /\ calls[h].group \in Groups /\ mappings' = mappings
        /\ Copied(h, calls[h].group, mappings[calls[h].group])
    BY <1>12, SnapshotMappingEffect
  <2>2. Copied(h, calls[h].group, mappings'[calls[h].group])
    BY <2>1
  <2> QED  BY <1>4, <1>7, <2>1, <2>2, CopyGranted DEF Copied
<1>13. ASSUME NEW h \in Requests, NEW i \in RoleIds, ResolveRole(h, i) PROVE Goal
  <2>1. /\ OthersWait(h) /\ calls[h].pc = "resolve" /\ calls'[h].group = calls[h].group
        /\ i \in calls[h].todo /\ calls'[h].todo = calls[h].todo \ {i}
        /\ calls'[h].names = calls[h].names \cup NameOf(i)
    BY <1>1, <1>13, ResolveEffect
  <2>2. CallGranted(h) /\ calls[h].group \in Groups
    BY <1>1, <2>1, CallFields DEF Grants
  <2>3. CallGranted(h)'
    BY <1>2, <1>3, <2>1, <2>2 DEF CallGranted
  <2> QED  BY <1>7, <2>1, <2>3
<1>14. ASSUME NEW h \in Requests, ApplyNames(h) PROVE Goal
  BY <1>1, <1>7, <1>14, ApplyNamesEffect
<1>15. UNCHANGED calls \/ \E h \in Requests :
         \/ \E g \in Groups, i \in RoleIds : AssignRole(h, g, i) \/ UnassignRole(h, g, i)
         \/ \E g \in Groups, members \in SUBSET UserIds : ReconcileGroupMembers(h, g, members)
         \/ MapRole(h) \/ SnapshotMapping(h) \/ ApplyNames(h)
         \/ \E i \in RoleIds : ResolveRole(h, i)
  BY DEF Next, vars, EditUser, Edited, DeleteUser, EditRole
<1> QED  BY <1>6, <1>8, <1>9, <1>10, <1>11, <1>12, <1>13, <1>14, <1>15

LEMMA HeldStep ==
  ASSUME TypeOK, RolesToMapKnown, Grants, HeldRolesWereGranted, [Next]_vars
  PROVE  HeldRolesWereGranted'
<1> DEFINE Ever == UNION {granted[g] : g \in Groups}
<1>1. UsersTyped /\ CallsTyped
  BY TypeParts
<1>2. Applied \subseteq Ever
  <2>1. ASSUME NEW h \in Requests, calls[h].pc = "resolve"
        PROVE  calls[h].group \in Groups /\ calls[h].names \subseteq granted[calls[h].group]
    BY <1>1, <2>1, CallFields DEF Grants, CallGranted
  <2> QED  BY <2>1 DEF Applied
<1>3. \A g \in Groups : granted[g] \subseteq granted'[g]
  BY GrantedGrows
<1>4. Ever \subseteq UNION {granted'[g] : g \in Groups}
  BY <1>3
<1>5. UsersEvolve
  BY <1>1, UsersStep
<1>6. ASSUME NEW u \in DOMAIN users'
      PROVE  users'[u].roles \ {SuperAdmin} \subseteq UNION {granted'[g] : g \in Groups}
  <2>1. CASE u \in DOMAIN users
    <3>1. users'[u].roles \subseteq users[u].roles \cup Applied
      BY <1>5, <2>1 DEF UsersEvolve, Persists
    <3>2. users[u].roles \ {SuperAdmin} \subseteq Ever
      BY <2>1 DEF HeldRolesWereGranted
    <3> HIDE DEF Ever
    <3> QED  BY <1>2, <1>4, <3>1, <3>2
  <2>2. CASE u \notin DOMAIN users
    BY <1>5, <1>6, <2>2 DEF UsersEvolve, Added
  <2> QED  BY <2>1, <2>2
<1> QED  BY <1>6 DEF HeldRolesWereGranted

\* The part of the invariant that the properties of mappings rest on.
Granting == TypeOK /\ RolesToMapKnown /\ Grants /\ HeldRolesWereGranted

LEMMA InitGranting == Init => Granting
<1> SUFFICES ASSUME Init PROVE Granting
  OBVIOUS
<1>1. Grants
  BY DEF Init, Grants, MappedGranted, Idle
<1>2. HeldRolesWereGranted
  BY DEF Init, UsersInit, HeldRolesWereGranted
<1> QED  BY <1>1, <1>2, InitTyped DEF Granting

LEMMA NextGranting == ASSUME Granting, [Next]_vars PROVE Granting'
<1>1. TypeOK' /\ RolesToMapKnown' /\ HeldRolesWereGranted'
  BY NextTyped, HeldStep DEF Granting
<1>2. Grants'
  BY GrantsMapped, GrantsCalls DEF Granting, Grants
<1> QED  BY <1>1, <1>2 DEF Granting

THEOREM AlwaysGranting == Spec => []Granting
BY InitGranting, NextGranting, PTL DEF Spec

\* A role that outlived, or preceded, every mapping of its name reaches
\* nobody: what users hold was mapped to some group.
THEOREM HeldWereGranted == Spec => []HeldRolesWereGranted
<1>1. Granting => HeldRolesWereGranted
  BY DEF Granting
<1> QED  BY <1>1, AlwaysGranting, PTL

-----------------------------------------------------------------------------
(* Memberships and roles agree *)

PendingBy(h, g, i) ==
  /\ calls[h].pc \in {"snapshot", "resolve"}
  /\ calls[h].group = g
  /\ calls[h].pc = "resolve" => \/ i \in calls[h].todo
                                \/ roles[i].name \in calls[h].names

LEMMA PendingWitness ==
  ASSUME NEW g, NEW i PROVE Pending(g, i) <=> \E h \in Requests : PendingBy(h, g, i)
BY DEF Pending, PendingBy

\* What MappingReflected asks of one group, role and user, and when.
Due(g, i, u) == Exclusive(g, roles[i].name) /\ <<u, g>> \notin stale /\ ~Pending(g, i)
Agrees(g, i, u) == roles[i].name \in users[u].roles <=> g \in users[u].groups

\* A request that is not the only one to see to a role may move on.
LEMMA PendingStays ==
  ASSUME NEW h \in Requests, OthersWait(h), NEW g, NEW i, roles'[i] = roles[i],
         PendingBy(h, g, i) => PendingBy(h, g, i)', Pending(g, i)
  PROVE  Pending(g, i)'
<1>1. PICK k \in Requests : PendingBy(k, g, i)
  BY PendingWitness
<1>2. k # h => PendingBy(k, g, i)'
  BY <1>1 DEF OthersWait, PendingBy
<1>3. \E l \in Requests : PendingBy(l, g, i)'
  BY <1>1, <1>2
<1> QED  BY <1>3 DEF Pending, PendingBy

\* The mapping that has just been copied is pending.
LEMMA CopyPending ==
  ASSUME NEW h \in Requests, NEW g, Copied(h, g, mappings'[g]), NEW i \in mappings'[g]
  PROVE  Pending(g, i)'
BY DEF Copied, Pending

\* Where nothing happened to what is due, it still holds.
LEMMA StillAgrees ==
  ASSUME TypeOK, RolesToMapKnown, [Next]_vars, MappingReflected,
         NEW g \in Groups, NEW i \in mappings[g] \cap DOMAIN roles, NEW u \in Live,
         roles'[i] = roles[i], Due(g, i, u)', <<u, g>> \notin stale, ~Pending(g, i),
         roles[i].name \in users'[u].roles <=> roles[i].name \in users[u].roles,
         g \in users'[u].groups <=> g \in users[u].groups
  PROVE  Agrees(g, i, u)'
<1>1. \A f \in Groups : granted[f] \subseteq granted'[f]
  BY GrantedGrows
<1>2. Exclusive(g, roles[i].name)
  BY <1>1 DEF Due, Exclusive
<1>3. Agrees(g, i, u)
  BY <1>2 DEF MappingReflected, Agrees
<1> QED  BY <1>3 DEF Agrees

LEMMA ReflectedStep ==
  ASSUME Granting, MappingReflected, [Next]_vars PROVE MappingReflected'
<1> SUFFICES ASSUME NEW g \in Groups, NEW i \in mappings'[g] \cap DOMAIN roles',
                    NEW u \in Live', Due(g, i, u)'
             PROVE  Agrees(g, i, u)'
  BY DEF MappingReflected, Due, Agrees
<1> DEFINE Goal == Agrees(g, i, u)'
           Before == i \in mappings[g] \cap DOMAIN roles /\ roles'[i] = roles[i]
           Same == /\ roles[i].name \in users'[u].roles <=> roles[i].name \in users[u].roles
                   /\ g \in users'[u].groups <=> g \in users[u].groups
<1>1. TypeOK /\ RolesToMapKnown /\ Grants
  BY DEF Granting
<1>2. /\ UsersTyped /\ RolesTyped /\ CallsTyped /\ mappings \in [Groups -> SUBSET Known]
      /\ granted \in [Groups -> SUBSET RoleNames]
  BY <1>1, TypeParts
<1>3. <<u, g>> \notin stale' /\ ~Pending(g, i)'
  BY DEF Due
<1>4. i \in mappings[g] => Before
  <2>1. i \in mappings[g] => i \in Known
    BY <1>2
  <2>2. (i \in DOMAIN roles /\ roles'[i] = roles[i]) \/ i \notin Known
    BY <1>2, RolesStep
  <2> QED  BY <2>1, <2>2
<1>5. ASSUME i \in mappings[g], u \in Live, <<u, g>> \notin stale, ~Pending(g, i), Same
      PROVE  Goal
  BY <1>1, <1>4, <1>5, StillAgrees
\* Nothing but users change.
<1>6. ASSUME NEW v \in UserIds, EditUser(v) PROVE Goal
  <2>1. /\ mappings' = mappings /\ roles' = roles /\ calls' = calls
        /\ stale' = stale \cup ({v} \X Groups)
    BY <1>6 DEF EditUser, Edited
  <2>2. u # v /\ <<u, g>> \notin stale /\ ~Pending(g, i)
    BY <1>3, <2>1 DEF Pending
  <2>3. u \in DOMAIN users' /\ ~users'[u].deleted
    BY DEF Live
  <2>4. u \in DOMAIN users /\ users'[u] = users[u]
    <3>1. ASSUME NEW email \in Emails, NEW groups \in SUBSET Groups, CreateUser(v, email, groups)
          PROVE  u \in DOMAIN users /\ users'[u] = users[u]
      <4>1. DOMAIN users' = DOMAIN users \cup {v} /\ \A w \in DOMAIN users : users'[w] = users[w]
        BY <1>2, <3>1, CreateUserEffect
      <4> QED  BY <2>2, <2>3, <4>1
    <3>2. ASSUME NEW groups \in SUBSET Groups, UpdateUser(v, groups)
          PROVE  u \in DOMAIN users /\ users'[u] = users[u]
      <4>1. SameUsers /\ OnlyChanges({v})
        BY <1>2, <3>2, UpdateUserEffect
      <4> QED  BY <2>2, <2>3, <4>1 DEF SameUsers, OnlyChanges
    <3>3. ASSUME RestoreUser(v) PROVE u \in DOMAIN users /\ users'[u] = users[u]
      <4>1. v \in DOMAIN users /\ users' = [users EXCEPT ![v].deleted = FALSE]
        BY <3>3 DEF RestoreUser
      <4>2. SameUsers /\ OnlyChanges({v})
        BY <1>2, <4>1, MarkEffect
      <4> QED  BY <2>2, <2>3, <4>2 DEF SameUsers, OnlyChanges
    <3> QED  BY <1>6, <3>1, <3>2, <3>3 DEF EditUser
  <2> QED  BY <1>5, <2>1, <2>2, <2>3, <2>4 DEF Live
<1>7. ASSUME NEW v \in UserIds, DeleteUser(v) PROVE Goal
  <2>1. /\ mappings' = mappings /\ roles' = roles /\ calls' = calls /\ stale' = stale
        /\ v \in DOMAIN users /\ users' = [users EXCEPT ![v].deleted = TRUE]
    BY <1>7 DEF DeleteUser, SoftDeleteUser, Live
  <2>2. SameUsers /\ OnlyChanges({v}) /\ users'[v].deleted = TRUE
    BY <1>2, <2>1, MarkEffect
  <2>3. u # v /\ u \in DOMAIN users /\ users'[u] = users[u] /\ u \in Live
    BY <2>2 DEF SameUsers, OnlyChanges, Live
  <2>4. ~Pending(g, i)
    BY <1>3, <2>1 DEF Pending
  <2> QED  BY <1>3, <1>5, <2>1, <2>3, <2>4
<1>8. ASSUME NEW j \in RoleIds, EditRole(j) PROVE Goal
  <2>1. /\ mappings' = mappings /\ calls' = calls /\ stale' = stale /\ users' = users
    BY <1>8 DEF EditRole
  <2>2. ~Pending(g, i)
    BY <1>3, <1>4, <2>1 DEF Pending
  <2> QED  BY <1>3, <1>5, <2>1, <2>2 DEF Live
\* A request moves on, users stay.
<1>9. ASSUME NEW h \in Requests, OthersWait(h), UNCHANGED <<users, stale>>, i \in mappings[g],
             PendingBy(h, g, i) => PendingBy(h, g, i)'
      PROVE  Goal
  <2>1. ~Pending(g, i)
    BY <1>3, <1>4, <1>9, PendingStays
  <2> QED  BY <1>3, <1>5, <1>9, <2>1 DEF Live
<1>10. ASSUME NEW h \in Requests, NEW f \in Groups, NEW j \in RoleIds, AssignRole(h, f, j)
       PROVE  Goal
  <2>1. OthersWait(h) /\ calls[h].pc = "idle"
    BY <1>2, <1>10, AssignEffect
  <2>2. UNCHANGED <<users, stale, mappings>> /\ ~PendingBy(h, g, i)
    BY <1>10, <2>1 DEF AssignRole, PendingBy
  <2> QED  BY <1>9, <2>1, <2>2
<1>11. ASSUME NEW h \in Requests, NEW f \in Groups, NEW j \in RoleIds, UnassignRole(h, f, j)
       PROVE  Goal
  <2>1. /\ calls[h].pc = "idle" /\ Copied(h, f, mappings[f] \ {j})
        /\ mappings' = [mappings EXCEPT ![f] = @ \ {j}] /\ UNCHANGED <<users, stale>>
    BY <1>1, <1>11, UnassignEffect
  <2>2. Copied(h, f, mappings'[f])
    BY <1>2, <2>1
  <2>3. f # g
    BY <1>3, <2>2, CopyPending
  <2>4. i \in mappings[g] /\ OthersWait(h) /\ ~PendingBy(h, g, i)
    BY <1>2, <2>1, <2>3 DEF Copied, PendingBy
  <2> QED  BY <1>9, <2>1, <2>4
<1>12. ASSUME NEW h \in Requests, MapRole(h) PROVE Goal
  <2> DEFINE f == calls[h].group
  <2>1. /\ calls[h].pc = "map" /\ f \in Groups
        /\ mappings' = [mappings EXCEPT ![f] = @ \cup {calls[h].role}]
        /\ Copied(h, f, mappings[f] \cup {calls[h].role})
        /\ UNCHANGED <<users, stale>>
    BY <1>1, <1>12, MapEffect
  <2>2. Copied(h, f, mappings'[f])
    BY <1>2, <2>1
  <2>3. f # g
    BY <1>3, <2>2, CopyPending
  <2>4. i \in mappings[g] /\ OthersWait(h) /\ ~PendingBy(h, g, i)
    BY <1>2, <2>1, <2>3 DEF Copied, PendingBy
  <2> QED  BY <1>9, <2>1, <2>4
<1>13. ASSUME NEW h \in Requests, SnapshotMapping(h) PROVE Goal
  <2> DEFINE f == calls[h].group
  <2>1. /\ f \in Groups /\ Copied(h, f, mappings[f])
        /\ UNCHANGED <<users, mappings, stale>>
    BY <1>1, <1>13, SnapshotMappingEffect
  <2>2. f # g
    BY <1>3, <2>1, CopyPending
  <2>3. i \in mappings[g] /\ OthersWait(h) /\ ~PendingBy(h, g, i)
    BY <2>1, <2>2 DEF Copied, PendingBy
  <2> QED  BY <1>9, <2>1, <2>3
<1>14. ASSUME NEW h \in Requests, NEW j \in RoleIds, ResolveRole(h, j) PROVE Goal
  <2>1. /\ OthersWait(h)
        /\ calls[h].pc = "resolve" /\ calls'[h].pc = "resolve"
        /\ calls'[h].group = calls[h].group
        /\ calls'[h].todo = calls[h].todo \ {j}
        /\ calls'[h].names = calls[h].names \cup NameOf(j)
    BY <1>2, <1>14, ResolveEffect
  <2>2. UNCHANGED <<users, stale, mappings, roles>>
    BY <1>14 DEF ResolveRole
  <2>3. i \in mappings[g] /\ NameOf(i) = {roles[i].name}
    BY <2>2 DEF NameOf
  <2>4. PendingBy(h, g, i) => PendingBy(h, g, i)'
    BY <2>1, <2>2, <2>3 DEF PendingBy
  <2> QED  BY <1>9, <2>1, <2>2, <2>3, <2>4
\* The users change.
<1>15. ASSUME NEW h \in Requests, NEW f \in Groups, NEW members \in SUBSET UserIds,
              ReconcileGroupMembers(h, f, members)
       PROVE  Goal
  <2>1. /\ OthersWait(h) /\ calls[h].pc = "idle"
        /\ calls'[h].pc = "snapshot" /\ calls'[h].group = f
    BY <1>2, <1>15, ReconcileEffect
  <2>2. UNCHANGED <<mappings, roles, stale>> /\ ReconcileGroupMembership(f, members)
    BY <1>15 DEF ReconcileGroupMembers
  <2>3. f # g
    BY <1>3, <2>1 DEF Pending
  <2>4. ~Pending(g, i)
    BY <1>3, <2>1, <2>2, PendingStays DEF PendingBy
  <2>5. /\ RolesKept /\ Live' = Live
        /\ \A v \in DOMAIN users, e \in Groups \ {f} :
             e \in users'[v].groups <=> e \in users[v].groups
    BY <1>2, <2>2, MembersEffect
  <2>6. u \in Live /\ u \in DOMAIN users /\ Same
    BY <2>3, <2>5 DEF Live, RolesKept
  <2> QED  BY <1>3, <1>5, <2>2, <2>4, <2>6
<1>16. ASSUME NEW h \in Requests, ApplyNames(h) PROVE Goal
  <2> DEFINE f == calls[h].group
             names == calls[h].names
  <2>1. OthersWait(h) /\ calls[h].pc = "resolve" /\ calls[h].todo = {}
        /\ f \in Groups /\ names \in SUBSET RoleNames
    BY <1>2, <1>16, ApplyNamesEffect
  <2>2. /\ UNCHANGED <<mappings, roles, granted>> /\ stale' = stale \ Settled(f, names)
        /\ ApplyRoleMapping(f, names)
    BY <1>16 DEF ApplyNames
  <2>3. /\ Live' = Live
        /\ \A v \in DOMAIN users : users'[v].groups = users[v].groups
        /\ \A v \in Live : users'[v].roles = IF f \in users[v].groups
                                             THEN users[v].roles \cup names
                                             ELSE users[v].roles \ names
    BY <1>2, <2>1, <2>2, ApplyEffect
  <2>4. u \in Live /\ u \in DOMAIN users /\ Before
    BY <1>4, <2>2, <2>3 DEF Live
  <2>5. users'[u].groups = users[u].groups
        /\ users'[u].roles = IF f \in users[u].groups THEN users[u].roles \cup names
                                                      ELSE users[u].roles \ names
    BY <2>3, <2>4
  <2>6. ASSUME roles[i].name \notin names, <<u, g>> \notin stale PROVE Goal
    <3>1. ~PendingBy(h, g, i)
      BY <2>1, <2>6 DEF PendingBy
    <3>2. ~Pending(g, i)
      BY <1>3, <2>1, <2>4, <3>1, PendingStays
    <3>3. Same
      BY <2>5, <2>6
    <3> QED  BY <1>5, <2>4, <2>6, <3>2, <3>3
  <2>7. CASE f = g /\ roles[i].name \in names
    BY <2>4, <2>5, <2>7 DEF Agrees
  <2>8. CASE f = g /\ roles[i].name \notin names
    <3>1. ~(NamesOf(mappings[g]) \subseteq names)
      BY <2>4, <2>8 DEF NamesOf, NameOf
    <3>2. <<u, g>> \notin stale
      BY <1>3, <2>2, <2>8, <3>1 DEF Settled
    <3> QED  BY <2>6, <2>8, <3>2
  <2>9. CASE f # g
    <3>1. names \subseteq granted[f]
      BY <1>1, <2>1 DEF Grants, CallGranted
    <3>2. roles[i].name \notin granted[f]
      BY <2>1, <2>2, <2>9 DEF Due, Exclusive
    <3>3. <<u, g>> \notin stale
      BY <1>3, <2>2, <2>9 DEF Settled
    <3> QED  BY <2>6, <3>1, <3>2, <3>3
  <2> QED  BY <2>7, <2>8, <2>9
<1>17. CASE UNCHANGED vars
  BY <1>3, <1>5, <1>17 DEF vars, Live, Pending
<1>18. CASE Next
  BY <1>6, <1>7, <1>8, <1>10, <1>11, <1>12, <1>13, <1>14, <1>15, <1>16, <1>18 DEF Next
<1> QED  BY <1>17, <1>18

\* However assignments, removals, reconciliations and deletions overlap: a
\* role that only one group ever granted is held by the group's members and
\* by nobody else, or a request is still going to see to it.
THEOREM MembersHoldMapped == Spec => []MappingReflected
<1>1. Init => MappingReflected
  BY DEF Init, MappingReflected
<1>2. Granting /\ MappingReflected /\ [Next]_vars => MappingReflected'
  BY ReflectedStep
<1> QED  BY <1>1, <1>2, AlwaysGranting, PTL DEF Spec
=============================================================================
