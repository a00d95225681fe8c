---------------------------- MODULE VaultRotation ----------------------------
(***************************************************************************)
(* VaultService (internal/service/vault_service.go): credential leases and *)
(* the rotation policies that issue them.                                  *)
(*                                                                         *)
(* TriggerRotation copies the policy under the lock, issues a lease under  *)
(* another, and writes the copy back under a third; RunDueRotations does   *)
(* that for every policy it found due.  Requests between two critical      *)
(* sections are kept in calls.  Where the clock is read before the lock is *)
(* taken, the instant may be any earlier one.                              *)
(*                                                                         *)
(* A target or a role stands for all the spellings that TrimSpace and      *)
(* EqualFold identify; a role here is a target type and a role.  User      *)
(* names, passwords and metadata are abstracted.  Enabled is always true,  *)
(* and LastRotatedAt, which nothing reads, is NextRotationAt less the      *)
(* interval once a rotation is recorded.                                   *)
(***************************************************************************)
EXTENDS Integers, FiniteSets, Stores

CONSTANTS Targets, Roles,
          Requests,          \* requests served at the same time
          Leases, Policies,  \* random identifiers
          Never,             \* the nil RevokedAt
          Intervals, TTLs,   \* values asked for, the refused ones included
          MinSeconds, MaxSeconds, DefaultTTL,
          MaxTime            \* bound: the clock stops here

ASSUME RequestsAssumption == IsFiniteSet(Requests)
ASSUME NeverAssumption == Never \notin Nat
ASSUME TimeAssumption == /\ Intervals \subseteq Nat
                         /\ TTLs \subseteq Nat
                         /\ MinSeconds \in Nat \ {0}
                         /\ MaxSeconds \in Nat
                         /\ DefaultTTL \in MinSeconds..MaxSeconds
                         /\ MaxTime \in Nat

VARIABLES now,       \* time.Now()
          leases,    \* VaultService.leases
          policies,  \* VaultService.rotationPolicies
          calls,     \* the requests being served
          \* History of the service, which the code does not keep:
          rotated,   \* leases issued by rotations, per policy
          stamps     \* rotations recorded, per policy

vars == <<now, leases, policies, calls, rotated, stamps>>

-----------------------------------------------------------------------------
(* Types *)

Scope == [target : Targets, role : Roles]

Idle == [pc |-> "idle"]

LeaseRecord == [scope : Scope, expires : Nat, revokedAt : Nat \cup {Never}]
PolicyRecord == [scope : Scope, interval : Nat, ttl : Nat, next : Nat]
\* A sweep with policies left to rotate.
Sweeping == [pc : {"sweep"}, due : SUBSET Policies]
\* A rotation, with the copy of its policy and the rest of its sweep.
Rotating == [pc : {"issue", "stamp"}, policy : Policies, copy : PolicyRecord,
             due : SUBSET Policies, at : Nat]

\* Leases, policies and requests are well formed; the history covers the
\* policies that exist.
TypeOK == /\ now \in Nat
          /\ IsStore(leases, Leases, LeaseRecord)
          /\ IsStore(policies, Policies, PolicyRecord)
          /\ calls \in [Requests -> {Idle} \cup Sweeping \cup Rotating]
          /\ rotated \in [DOMAIN policies -> SUBSET DOMAIN leases]
          /\ stamps \in [DOMAIN policies -> Nat]

-----------------------------------------------------------------------------
Init == /\ now = 0
        /\ leases = EmptyStore
        /\ policies = EmptyStore
        /\ calls = [h \in Requests |-> Idle]
        /\ rotated = EmptyStore
        /\ stamps = EmptyStore

Tick == /\ now < MaxTime
        /\ now' = now + 1
        /\ UNCHANGED <<leases, policies, calls, rotated, stamps>>

-----------------------------------------------------------------------------
(* Leases *)

Admissible(ttl) == MinSeconds <= ttl /\ ttl <= MaxSeconds

\* What IssueCredential makes of the ttl it is asked for.
LeaseTTL(ttl) == IF ttl = 0 THEN DefaultTTL ELSE ttl

StoreLease(l, scope, ttl, issuedAt) ==
  /\ l \notin DOMAIN leases
  /\ Admissible(LeaseTTL(ttl))
  /\ leases' = Put(leases, l, [scope |-> scope, revokedAt |-> Never,
                               expires |-> issuedAt + LeaseTTL(ttl)])

IssueCredential(l, scope, ttl, issuedAt) ==
  /\ StoreLease(l, scope, ttl, issuedAt)
  /\ UNCHANGED <<now, policies, calls, rotated, stamps>>

\* Mutant of RevokeLease: the lease is deleted, not marked.
RevokeLease_Deletes(l) == /\ l \in DOMAIN leases
                          /\ leases' = Without(leases, {l})
                          /\ UNCHANGED <<now, policies, calls, rotated, stamps>>

\* The clock is read under the lock.
RevokeLease(l) == /\ l \in DOMAIN leases
                  /\ leases[l].revokedAt = Never
                  /\ leases' = [leases EXCEPT ![l].revokedAt = now]
                  /\ UNCHANGED <<now, policies, calls, rotated, stamps>>

\* Mutant of BulkRevoked: leases already revoked are stamped again.
BulkRevoked_All(target) == {l \in DOMAIN leases : leases[l].scope.target = target}

\* Expired leases are revoked too, and those issued after the clock was read.
BulkRevoked(target) == {l \in DOMAIN leases : /\ leases[l].scope.target = target
                                              /\ leases[l].revokedAt = Never}

RevokeLeasesByTarget(target, at) ==
  /\ leases' = [l \in DOMAIN leases |->
                  IF l \in BulkRevoked(target)
                  THEN [leases[l] EXCEPT !.revokedAt = at] ELSE leases[l]]
  /\ UNCHANGED <<now, policies, calls, rotated, stamps>>

-----------------------------------------------------------------------------
(* Rotation policies *)

\* Without a ttl of its own a policy takes its interval.
PolicyTTL(interval, ttl) == IF ttl = 0 THEN interval ELSE ttl

\* Mutant of Acceptable: the bounds are checked before the default is taken.
Acceptable_Asked(interval, ttl) == /\ interval >= MinSeconds
                                   /\ ttl = 0 \/ Admissible(ttl)

Acceptable(interval, ttl) == /\ interval >= MinSeconds
                             /\ Admissible(PolicyTTL(interval, ttl))

\* Mutant of Vacant: policies of other targets only.
Vacant_ByRole(scope) == TRUE

Vacant(scope) == \A p \in DOMAIN policies : policies[p].scope # scope

CreateRotationPolicy(p, scope, interval, ttl, createdAt) ==
  /\ p \notin DOMAIN policies
  /\ Acceptable(interval, ttl)
  /\ Vacant(scope)
  /\ policies' = Put(policies, p, [scope |-> scope, interval |-> interval,
                                   ttl |-> PolicyTTL(interval, ttl),
                                   next |-> createdAt + interval])
  /\ rotated' = Put(rotated, p, {})
  /\ stamps' = Put(stamps, p, 0)
  /\ UNCHANGED <<now, leases, calls>>

-----------------------------------------------------------------------------
(* Rotation *)

\* The policy is copied and the lock given back.
BeginRotation(h, p, due) ==
  /\ calls' = [calls EXCEPT ![h] = [pc |-> "issue", policy |-> p,
                                    copy |-> policies[p], due |-> due,
                                    at |-> now]]
  /\ UNCHANGED <<now, leases, policies, rotated, stamps>>

TriggerRotation(h, p) == /\ calls[h] = Idle
                         /\ p \in DOMAIN policies
                         /\ BeginRotation(h, p, {})

Due(p) == now > policies[p].next
DuePolicies == {p \in DOMAIN policies : Due(p)}

\* The identifiers of the due policies are collected under the read lock.
RunDueRotations(h) ==
  /\ calls[h] = Idle
  /\ DuePolicies # {}
  /\ calls' = [calls EXCEPT ![h] = [pc |-> "sweep", due |-> DuePolicies]]
  /\ UNCHANGED <<now, leases, policies, rotated, stamps>>

\* Mutant of Rest: the sweep starts again from its full list.
Rest_Kept(due, p) == due

Rest(due, p) == due \ {p}

\* The sweep takes the policies in the order of a Go map: in any order.
RotateNext(h, p) == /\ calls[h].pc = "sweep"
                    /\ p \in calls[h].due
                    /\ BeginRotation(h, p, Rest(calls[h].due, p))

\* Back in RunDueRotations, or done.
Return(h) ==
  calls' = [calls EXCEPT ![h] = IF calls[h].due = {} THEN Idle
                                ELSE [pc |-> "sweep", due |-> calls[h].due]]

\* The request goes on to record its rotation.
GoStamp(h) == calls' = [calls EXCEPT ![h].pc = "stamp", ![h].at = now]

IssueRotated(h, l, issuedAt) ==
  /\ calls[h].pc = "issue"
  /\ issuedAt >= calls[h].at
  /\ StoreLease(l, calls[h].copy.scope, calls[h].copy.ttl, issuedAt)
  /\ rotated' = [rotated EXCEPT ![calls[h].policy] = @ \cup {l}]
  /\ GoStamp(h)
  /\ UNCHANGED <<now, policies, stamps>>

\* Mutant of IssueFails: the rotation is recorded all the same.
IssueFails_Stamped(h) == /\ calls[h].pc = "issue"
                         /\ GoStamp(h)
                         /\ UNCHANGED <<now, leases, policies, rotated, stamps>>

\* No password could be drawn: the policy stays due, the sweep goes on.
IssueFails(h) == /\ calls[h].pc = "issue"
                 /\ Return(h)
                 /\ UNCHANGED <<now, leases, policies, rotated, stamps>>

\* Mutant of RecordRotation: the clock may have been read before the policy
\* was copied.
RecordRotation_OldClock(h, at) ==
  /\ calls[h].pc = "stamp"
  /\ policies' = [policies EXCEPT ![calls[h].policy] =
                    [calls[h].copy EXCEPT !.next = at + calls[h].copy.interval]]
  /\ stamps' = [stamps EXCEPT ![calls[h].policy] = @ + 1]
  /\ Return(h)
  /\ UNCHANGED <<now, leases, rotated>>

\* The copy is written back with the clock read after the lease was stored.
RecordRotation(h, at) ==
  /\ calls[h].pc = "stamp"
  /\ at >= calls[h].at
  /\ policies' = [policies EXCEPT ![calls[h].policy] =
                    [calls[h].copy EXCEPT !.next = at + calls[h].copy.interval]]
  /\ stamps' = [stamps EXCEPT ![calls[h].policy] = @ + 1]
  /\ Return(h)
  /\ UNCHANGED <<now, leases, rotated>>

\* The steps of a request that is being served.
Proceed(h) == \/ \E p \in Policies : RotateNext(h, p)
              \/ \E l \in Leases, at \in 0..now : IssueRotated(h, l, at)
              \/ IssueFails(h)
              \/ \E at \in 0..now : RecordRotation(h, at)

-----------------------------------------------------------------------------
Next == \/ Tick
        \/ \E l \in Leases, scope \in Scope, ttl \in TTLs, at \in 0..now :
             IssueCredential(l, scope, ttl, at)
        \/ \E l \in Leases : RevokeLease(l)
        \/ \E target \in Targets, at \in 0..now : RevokeLeasesByTarget(target, at)
        \/ \E p \in Policies, scope \in Scope, interval \in Intervals, ttl \in TTLs, at \in 0..now :
             CreateRotationPolicy(p, scope, interval, ttl, at)
        \/ \E h \in Requests : \/ \E p \in Policies : TriggerRotation(h, p)
                               \/ RunDueRotations(h)
                               \/ Proceed(h)

Spec == Init /\ [][Next]_vars

-----------------------------------------------------------------------------
(* Safety *)

\* CreateRotationPolicy tests for a policy of the same scope and inserts in
\* one critical section, and no stale copy written back by a rotation moves
\* a policy onto another's scope.
OnePolicyPerScope ==
  \A p, q \in DOMAIN policies : policies[p].scope = policies[q].scope => p = q

\* CreateRotationPolicy and IssueCredential bound a ttl independently, with
\* different defaults.  Whatever the first accepts the second accepts: no
\* policy exists whose rotations are all refused, and a rotation leases for
\* the ttl its policy states.
RotationsIssuable ==
  \A p \in DOMAIN policies : /\ Admissible(LeaseTTL(policies[p].ttl))
                             /\ LeaseTTL(policies[p].ttl) = policies[p].ttl

\* A rotation is recorded for every lease issued by rotating p, and for
\* nothing else; only the requests between the two are unaccounted for.
Unrecorded(p) == {h \in Requests : calls[h].pc = "stamp" /\ calls[h].policy = p}
RotationsAccounted ==
  \A p \in DOMAIN policies :
    Cardinality(rotated[p]) = stamps[p] + Cardinality(Unrecorded(p))

\* Two rotations of p may write their copies back in the opposite order of
\* their clocks, and then the due date goes back.  But never to before the
\* date the rotation found when it copied p: only a rotation that overlapped
\* another undoes it, and what one sweep has done the next one keeps.
DueDatesKeepOrder ==
  [][\A p \in DOMAIN policies : \A h \in Unrecorded(p) :
       h \notin Unrecorded(p)' => policies'[p].next >= calls[h].copy.next]_vars

\* A revoked lease stays revoked, with the instant of its first revocation,
\* whether single and bulk revocations overlap or not.
RevocationsAreFinal ==
  [][\A l \in DOMAIN leases :
       leases[l].revokedAt # Never => leases'[l] = leases[l]]_vars

-----------------------------------------------------------------------------
(* Refinement *)

\* The requests that have leased for a policy and not yet recorded it.
OwedRecords == {[by |-> h, policy |-> calls[h].policy, since |-> calls[h].at] :
                  h \in {k \in Requests : calls[k].pc = "stamp"}}

Book == INSTANCE RotationBook WITH clock <- now, owed <- OwedRecords

\* Copying a policy, leasing for the copy and writing the copy back, under
\* three locks and overlapping with anything, is as good as a lease for the
\* policy's own terms and an update of its due date in place.
ImplementsBook == Book!BookSpec

-----------------------------------------------------------------------------
(* Liveness *)

\* Every rotation and every sweep comes to an end, whatever fails in it, if
\* the goroutines are treated fairly as in Vault.
RequestsEnd == \A h \in Requests : calls[h] # Idle ~> calls[h] = Idle
=============================================================================
