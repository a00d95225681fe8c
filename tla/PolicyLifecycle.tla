--------------------------- MODULE PolicyLifecycle ---------------------------
(***************************************************************************)
(* PolicyService (internal/service/policy_service.go): drafts, versions,   *)
(* publication and rollback.  Every operation is one critical section;     *)
(* validation and parsing change nothing, and a definition that does not   *)
(* conform to the schema is refused before anything is stored.             *)
(*                                                                         *)
(* Names stand for the spellings EqualFold identifies.  A definition is    *)
(* one of the valid ones; CreatedBy and the instants are abstracted        *)
(* (PublishedAt is nil exactly while the status is draft).                 *)
(***************************************************************************)
EXTENDS Integers, FiniteSets, FiniteSetsExt, Stores

CONSTANTS Policies,     \* random identifiers
          Names,
          Definitions,  \* the definitions that conform to the schema
          MaxVersion    \* bound: a policy is not changed beyond this version

ASSUME MaxVersionAssumption == MaxVersion \in Nat \ {0}

VARIABLES policies,   \* PolicyService.policies
          versions,   \* PolicyService.versions
          published   \* PolicyService.published

vars == <<policies, versions, published>>

PolicyRecord == [name : Names, version : Nat \ {0}, definition : Definitions,
                 status : {"draft", "published"}]

\* The three maps are well formed.
TypeOK == /\ IsStore(policies, Policies, PolicyRecord)
          /\ DOMAIN versions = DOMAIN policies
          /\ \A p \in DOMAIN policies : IsStore(versions[p], Nat \ {0}, Definitions)
          /\ IsStore(published, DOMAIN policies, Nat \ {0})

Init == /\ policies = EmptyStore
        /\ versions = EmptyStore
        /\ published = EmptyStore

-----------------------------------------------------------------------------
NameFree(p, name) == \A q \in DOMAIN policies \ {p} : policies[q].name # name

\* Mutant of CreatePolicy: the first version is not kept.
CreatePolicy_NoHistory(p, name, definition) ==
  /\ p \notin DOMAIN policies
  /\ NameFree(p, name)
  /\ policies' = Put(policies, p, [name |-> name, version |-> 1, status |-> "draft",
                                   definition |-> definition])
  /\ UNCHANGED <<versions, published>>

CreatePolicy(p, name, definition) ==
  /\ p \notin DOMAIN policies
  /\ NameFree(p, name)
  /\ policies' = Put(policies, p, [name |-> name, version |-> 1, status |-> "draft",
                                   definition |-> definition])
  /\ versions' = Put(versions, p, [v \in {1} |-> definition])
  /\ UNCHANGED published

RenamePolicy(p, name) == /\ p \in DOMAIN policies
                         /\ NameFree(p, name)
                         /\ policies' = [policies EXCEPT ![p].name = name]
                         /\ UNCHANGED <<versions, published>>

\* The policy continues as version v with this definition.
NewVersion(p, name, v, definition, status) ==
  /\ v <= MaxVersion
  /\ policies' = [policies EXCEPT ![p] = [name |-> name, version |-> v,
                                          definition |-> definition, status |-> status]]
  /\ versions' = [versions EXCEPT ![p] = Put(@, v, definition)]

\* Mutant of UpdatedStatus: an edited policy stays published.
UpdatedStatus_Kept(p) == policies[p].status

UpdatedStatus(p) == "draft"

\* A new definition is a draft again, but published still names the version
\* that was published.
UpdatePolicy(p, name, definition) ==
  /\ p \in DOMAIN policies
  /\ NameFree(p, name)
  /\ NewVersion(p, name, policies[p].version + 1, definition, UpdatedStatus(p))
  /\ UNCHANGED published

PublishPolicy(p) == /\ p \in DOMAIN policies
                    /\ policies' = [policies EXCEPT ![p].status = "published"]
                    /\ published' = Put(published, p, policies[p].version)
                    /\ UNCHANGED versions

\* previousVersion: 0 if there is none.
PreviousVersion(p) == Max({v \in DOMAIN versions[p] : v < policies[p].version} \cup {0})

\* Mutant of RolledBackVersion: the number of the target is reused.
RolledBackVersion_Target(p, target) == target

RolledBackVersion(p, target) == policies[p].version + 1

\* Rolling back appends a version and publishes it.  No target, or one that
\* is not positive, means the previous version.
RollbackPolicy(p, target) ==
  /\ p \in DOMAIN policies
  /\ LET v == IF target <= 0 THEN PreviousVersion(p) ELSE target
         n == RolledBackVersion(p, v)
     IN  /\ v \in DOMAIN versions[p]
         /\ NewVersion(p, policies[p].name, n, versions[p][v], "published")
         /\ published' = Put(published, p, n)

Next ==
  \E p \in Policies :
    \/ \E name \in Names : RenamePolicy(p, name)
    \/ \E name \in Names, definition \in Definitions :
         CreatePolicy(p, name, definition) \/ UpdatePolicy(p, name, definition)
    \/ PublishPolicy(p)
    \/ \E target \in 0..MaxVersion : RollbackPolicy(p, target)

Spec == Init /\ [][Next]_vars

-----------------------------------------------------------------------------
(* Safety *)

\* policies and versions are written side by side: the versions of a policy
\* are numbered without gaps up to the current one, whose definition is the
\* policy's, through every sequence of edits and rollbacks.
HistoryComplete ==
  \A p \in DOMAIN policies : /\ DOMAIN versions[p] = 1..policies[p].version
                             /\ versions[p][policies[p].version] = policies[p].definition

\* No edit and no rollback ever changes a version that exists, so rolling
\* back to a version number means the same for ever.
HistoryImmutable ==
  [][\A p \in DOMAIN versions : \A v \in DOMAIN versions[p] :
       versions'[p][v] = versions[p][v]]_vars

\* A policy has the status published exactly when the version published is
\* the current one: an edit or a rollback never leaves an unpublished
\* definition marked as published.
PublishedIsCurrent ==
  \A p \in DOMAIN policies :
    policies[p].status = "published" <=> p \in DOMAIN published
                                           /\ published[p] = policies[p].version

\* What EvaluatePolicy takes the rules from.
EvaluatedDefinition(p) == policies[p].definition

\* "Add draft, publish, rollback mechanics for policy deployment": once a
\* policy has been published, decisions are taken by its published version.
DraftsDoNotDecide ==
  \A p \in DOMAIN published : EvaluatedDefinition(p) = versions[p][published[p]]

-----------------------------------------------------------------------------
(* Refinement *)

Log == INSTANCE VersionLog
         WITH log <- versions, live <- published,
              shown <- [p \in DOMAIN policies |-> [version |-> policies[p].version,
                                                  definition |-> policies[p].definition,
                                                  status |-> policies[p].status]]

\* The three maps are one append-only log per policy with a live entry: the
\* policy record, which every operation writes by hand, never says anything
\* else than the log does, and a rollback adds an entry equal to its target.
ImplementsLog == Log!LogSpec
=============================================================================
