----------------------------- MODULE GroupRoles -----------------------------
(***************************************************************************)
(* GroupMappingService (internal/service/group_mapping_service.go) with    *)
(* the two services it calls.                                              *)
(*                                                                         *)
(* Each service has a mutex of its own.  AssignRole, UnassignRole and      *)
(* ReconcileGroupMembers take several of them in turn: a snapshot of the   *)
(* group's mapping is resolved to role names one identifier at a time, and *)
(* the names are applied to the users at the end.  calls keeps what each   *)
(* request holds in between.                                               *)
(***************************************************************************)
EXTENDS Users, Roles

CONSTANT Requests   \* mapping requests served at the same time

VARIABLES mappings,  \* GroupMappingService.mappings; an absent group has none
          calls,     \* the mapping requests being served
          \* History of the service, which the code does not keep:
          granted,   \* names ever mapped, per group
          stale      \* memberships set otherwise than by reconciliation

vars == <<users, roles, retired, mappings, calls, granted, stale>>

-----------------------------------------------------------------------------
(* Types *)

Idle == [pc |-> "idle"]
Mapping == [pc : {"map"}, group : Groups, role : RoleIds]
Snapshotting == [pc : {"snapshot"}, group : Groups]
Resolving == [pc : {"resolve"}, group : Groups, todo : SUBSET RoleIds,
              names : SUBSET RoleNames]

\* Users, roles, mappings and requests are well formed.
TypeOK == /\ IsStore(users, UserIds, UserRecord)
          /\ IsStore(roles, RoleIds, RoleRecord)
          /\ retired \subseteq RoleIds \ DOMAIN roles
          /\ mappings \in [Groups -> SUBSET (DOMAIN roles \cup retired)]
          /\ calls \in [Requests -> {Idle} \cup Mapping \cup Snapshotting \cup Resolving]
          /\ granted \in [Groups -> SUBSET RoleNames]
          /\ stale \subseteq UserIds \X Groups

-----------------------------------------------------------------------------
Init == /\ UsersInit
        /\ RolesInit
        /\ mappings = [g \in Groups |-> {}]
        /\ calls = [h \in Requests |-> Idle]
        /\ granted = [g \in Groups |-> {}]
        /\ stale = {}

-----------------------------------------------------------------------------
(* Direct operations on users and roles *)

\* The memberships of u no longer come from a reconciliation.
Edited(u) == /\ stale' = stale \cup ({u} \X Groups)
             /\ UNCHANGED <<roles, retired, mappings, calls, granted>>

EditUser(u) == /\ \/ \E email \in Emails, groups \in SUBSET Groups :
                       CreateUser(u, email, groups)
                  \/ \E groups \in SUBSET Groups : UpdateUser(u, groups)
                  \/ RestoreUser(u)
               /\ Edited(u)

DeleteUser(u) == /\ SoftDeleteUser(u)
                 /\ UNCHANGED <<roles, retired, mappings, calls, granted, stale>>

EditRole(i) == /\ \/ \E name \in RoleNames \cup {SuperAdmin}, system \in BOOLEAN :
                       CreateRole(i, name, system)
                  \/ DeleteRole(i)
               /\ UNCHANGED <<users, mappings, calls, granted, stale>>

-----------------------------------------------------------------------------
(* Mapping requests *)

\* The request leaves the mutex with the group's mapping as it is then.
Snapshot(h, g, mapping) ==
  calls' = [calls EXCEPT ![h] = [pc |-> "resolve", group |-> g,
                                 todo |-> mapping, names |-> {}]]

\* AssignRole: the role exists when it is looked up...
AssignRole(h, g, i) ==
  /\ calls[h] = Idle
  /\ i \in DOMAIN roles
  /\ calls' = [calls EXCEPT ![h] = [pc |-> "map", group |-> g, role |-> i]]
  /\ UNCHANGED <<users, roles, retired, mappings, granted, stale>>

\* Mutant of SnapshotAfter: the mapping is listed before the role is added.
SnapshotAfter_Before(mapping, i) == mapping

SnapshotAfter(mapping, i) == mapping \cup {i}

\* ... and is mapped in a second critical section.
MapRole(h) ==
  /\ calls[h].pc = "map"
  /\ LET g == calls[h].group
         i == calls[h].role
     IN  /\ mappings' = [mappings EXCEPT ![g] = @ \cup {i}]
         /\ Snapshot(h, g, SnapshotAfter(mappings[g], i))
         /\ granted' = [granted EXCEPT ![g] = @ \cup NameOf(i)]
  /\ UNCHANGED <<users, roles, retired, stale>>

\* The names that remain are applied; the one taken away is not among them.
UnassignRole(h, g, i) ==
  /\ calls[h] = Idle
  /\ mappings[g] # {}
  /\ mappings' = [mappings EXCEPT ![g] = @ \ {i}]
  /\ Snapshot(h, g, mappings[g] \ {i})
  /\ UNCHANGED <<users, roles, retired, granted, stale>>

ReconcileGroupMembers(h, g, members) ==
  /\ calls[h] = Idle
  /\ ReconcileGroupMembership(g, members)
  /\ calls' = [calls EXCEPT ![h] = [pc |-> "snapshot", group |-> g]]
  /\ UNCHANGED <<roles, retired, mappings, granted, stale>>

SnapshotMapping(h) == /\ calls[h].pc = "snapshot"
                      /\ Snapshot(h, calls[h].group, mappings[calls[h].group])
                      /\ UNCHANGED <<users, roles, retired, mappings, granted, stale>>

\* roleNamesForIDs: one GetRole at a time; roles that are gone are skipped.
ResolveRole(h, i) ==
  /\ calls[h].pc = "resolve"
  /\ i \in calls[h].todo
  /\ calls' = [calls EXCEPT ![h].todo = @ \ {i}, ![h].names = @ \cup NameOf(i)]
  /\ UNCHANGED <<users, roles, retired, mappings, granted, stale>>

\* Every role the group maps now is among the names applied: the roles of
\* all live users agree with their membership again.
Settled(g, names) == IF NamesOf(mappings[g]) \subseteq names THEN Live \X {g} ELSE {}

ApplyNames(h) ==
  /\ calls[h].pc = "resolve"
  /\ calls[h].todo = {}
  /\ ApplyRoleMapping(calls[h].group, calls[h].names)
  /\ calls' = [calls EXCEPT ![h] = Idle]
  /\ stale' = stale \ Settled(calls[h].group, calls[h].names)
  /\ UNCHANGED <<roles, retired, mappings, granted>>

-----------------------------------------------------------------------------
Next == \/ \E u \in UserIds : EditUser(u) \/ DeleteUser(u)
        \/ \E i \in RoleIds : EditRole(i)
        \/ \E h \in Requests :
             \/ \E g \in Groups, i \in RoleIds : AssignRole(h, g, i) \/ UnassignRole(h, g, i)
             \/ \E g \in Groups, members \in SUBSET UserIds :
                  ReconcileGroupMembers(h, g, members)
             \/ MapRole(h) \/ SnapshotMapping(h) \/ ApplyNames(h)
             \/ \E i \in RoleIds : ResolveRole(h, i)

Spec == Init /\ [][Next]_vars

-----------------------------------------------------------------------------
(* Safety *)

\* No other group was ever mapped to a role of this name.
Exclusive(g, name) == \A f \in Groups \ {g} : name \notin granted[f]

\* A request for g is still going to apply role i.
Pending(g, i) ==
  \E h \in Requests :
    /\ calls[h].pc \in {"snapshot", "resolve"}
    /\ calls[h].group = g
    /\ calls[h].pc = "resolve" => \/ i \in calls[h].todo
                                  \/ roles[i].name \in calls[h].names

\* However assignments, removals and reconciliations of a group overlap,
\* a role that only this group grants is held by exactly its members, or
\* some request is still going to see to it.  Memberships set directly
\* count from the next application of the whole mapping on.
MappingReflected ==
  \A g \in Groups : \A i \in mappings[g] \cap DOMAIN roles, u \in Live :
    Exclusive(g, roles[i].name) /\ <<u, g>> \notin stale /\ ~Pending(g, i)
      => (roles[i].name \in users[u].roles <=> g \in users[u].groups)

\* The seed administrator's role has capitals and role names have none: no
\* sequence of roles, mappings and reconciliations gives it to anybody else
\* or takes it away.
SuperAdminIsSeed ==
  {u \in DOMAIN users : SuperAdmin \in users[u].roles} = {SeedUser}

\* No sequence of creations, deletions, mappings and stale requests gives a
\* user a role that no group was ever mapped to: a mapping that outlives its
\* role stays without effect.
HeldRolesWereGranted ==
  \A u \in DOMAIN users :
    users[u].roles \ {SuperAdmin} \subseteq UNION {granted[g] : g \in Groups}

Namesakes(u, v) == u # v /\ users[u].email = users[v].email

\* Only restoring a user makes two live users share an e-mail address: the
\* address of a deleted user may have been given away in the meantime.
AddressesSharedByRestoring ==
  [][\A u, v \in Live' : Namesakes(u, v)' =>
       \/ {u, v} \subseteq Live
       \/ \E w \in {u, v} : w \in DOMAIN users \ Live]_vars

\* A deleted user comes back with the groups and roles it had: requests in
\* flight skip it.
DeletedUsersFrozen ==
  [][\A u \in DOMAIN users : users[u].deleted =>
       [users'[u] EXCEPT !.deleted = TRUE] = users[u]]_vars

Quiescent == \A h \in Requests : calls[h] = Idle
Reconciled(u) == \A g \in Groups : <<u, g>> \notin stale

\* The members of a group hold the roles mapped to it...
MembersHoldRoles ==
  \A g \in Groups : \A u \in Members(g), i \in mappings[g] \cap DOMAIN roles :
    Reconciled(u) => roles[i].name \in users[u].roles

\* ... and a user holds an existing role only through a group that maps it.
RolesComeFromGroups ==
  \A u \in Live, i \in DOMAIN roles :
    Reconciled(u) /\ roles[i].name \in users[u].roles
      => \E g \in users[u].groups : i \in mappings[g]

\* "Support assigning roles to external groups and reconcile membership
\* changes": when no request is being served, the memberships that are
\* reconciled decide who holds the roles that are mapped.
MembershipDecidesRoles == Quiescent => MembersHoldRoles /\ RolesComeFromGroups
=============================================================================
