-------------------------------- MODULE Roles --------------------------------
(***************************************************************************)
(* RoleService (internal/service/role_service.go).  A role's identifier    *)
(* is never reused, its name never changes, and its description and        *)
(* permissions, the only things UpdateRole changes, are abstracted.        *)
(***************************************************************************)
EXTENDS FiniteSets, Stores, RoleNaming

CONSTANT RoleIds

VARIABLES roles,     \* RoleService.roles
          retired    \* history: the identifiers of deleted roles

RoleRecord == [name : RoleNames, system : BOOLEAN]

RolesInit == roles = EmptyStore /\ retired = {}

NameTaken(name) == \E i \in DOMAIN roles : roles[i].name = name

\* Mutant of CreateRole: the identifier of a deleted role is used again.
CreateRole_Reused(i, name, system) ==
  /\ i \notin DOMAIN roles
  /\ ~NameTaken(ToLower(name))
  /\ roles' = Put(roles, i, [name |-> ToLower(name), system |-> system])
  /\ retired' = retired \ {i}

CreateRole(i, name, system) ==
  /\ i \notin DOMAIN roles \cup retired
  /\ ~NameTaken(ToLower(name))
  /\ roles' = Put(roles, i, [name |-> ToLower(name), system |-> system])
  /\ UNCHANGED retired

\* Group mappings may still hold the identifier.
DeleteRole(i) == /\ i \in DOMAIN roles
                 /\ ~roles[i].system
                 /\ roles' = Without(roles, {i})
                 /\ retired' = retired \cup {i}

\* GetRole: the name of i, if there is one.
NameOf(i) == IF i \in DOMAIN roles THEN {roles[i].name} ELSE {}
NamesOf(S) == UNION {NameOf(i) : i \in S}
=============================================================================
