------------------------- MODULE VaultRotationProofs -------------------------
(***************************************************************************)
(* Safety of VaultRotation for every set of targets, roles, requests,      *)
(* leases and policies, and every choice of the bounds on a ttl; and of    *)
(* VaultSecrets for every key-encryption key.                              *)
(***************************************************************************)
EXTENDS Vault, StoreTheorems, FiniteSetTheorems

\* The copy that a rotation holds differs from its policy at most in the
\* instant of the next rotation, and a sweep holds policies that exist.
InRotation(h) == calls[h].pc \in {"issue", "stamp"}

SameTerms(r, s) == r.scope = s.scope /\ r.interval = s.interval /\ r.ttl = s.ttl

CopiesAgree ==
  \A h \in Requests :
    /\ InRotation(h) => /\ calls[h].policy \in DOMAIN policies
                        /\ SameTerms(calls[h].copy, policies[calls[h].policy])
    /\ InRotation(h) \/ calls[h].pc = "sweep" => calls[h].due \subseteq DOMAIN policies

IInv == TypeOK /\ CopiesAgree /\ OnePolicyPerScope /\ RotationsIssuable

LEMMA InitInv == Init => IInv
BY EmptyIsStore DEF Init, IInv, TypeOK, CopiesAgree, OnePolicyPerScope,
                    RotationsIssuable, InRotation, Idle, EmptyStore

-----------------------------------------------------------------------------
(* Type correctness *)

LEMMA StoreLeaseTyped ==
  ASSUME TypeOK, NEW l \in Leases, NEW scope \in Scope, NEW ttl \in Nat,
         NEW issuedAt \in Nat, StoreLease(l, scope, ttl, issuedAt)
  PROVE  /\ IsStore(leases', Leases, LeaseRecord)
         /\ DOMAIN leases' = DOMAIN leases \cup {l}
<1>1. LeaseTTL(ttl) \in Nat
  BY TimeAssumption DEF LeaseTTL
<1>2. [scope |-> scope, revokedAt |-> Never, expires |-> issuedAt + LeaseTTL(ttl)]
        \in LeaseRecord
  BY <1>1 DEF LeaseRecord
<1> QED  BY <1>2, PutStore, PutEffect DEF StoreLease, TypeOK

\* The steps that only move a request.
CallsTyped == calls' \in [Requests -> {Idle} \cup Sweeping \cup Rotating]

LEMMA BeginTyped ==
  ASSUME TypeOK, NEW h \in Requests, NEW p \in DOMAIN policies,
         NEW due \in SUBSET Policies, BeginRotation(h, p, due)
  PROVE  CallsTyped
<1>1. p \in Policies /\ policies[p] \in PolicyRecord
  BY DEF TypeOK, IsStore
<1>2. [pc |-> "issue", policy |-> p, copy |-> policies[p], due |-> due, at |-> now] \in Rotating
  BY <1>1 DEF Rotating, TypeOK
<1> QED  BY <1>2 DEF BeginRotation, TypeOK, CallsTyped

LEMMA ReturnTyped ==
  ASSUME TypeOK, NEW h \in Requests, calls[h] \in Rotating, Return(h)
  PROVE  CallsTyped
<1>1. [pc |-> "sweep", due |-> calls[h].due] \in Sweeping
  BY DEF Sweeping, Rotating
<1> QED  BY <1>1 DEF Return, TypeOK, CallsTyped

LEMMA GoStampTyped ==
  ASSUME TypeOK, NEW h \in Requests, calls[h] \in Rotating, GoStamp(h)
  PROVE  CallsTyped
<1>1. [calls[h] EXCEPT !.pc = "stamp", !.at = now] \in Rotating
  BY DEF Rotating, TypeOK
<1> QED  BY <1>1 DEF GoStamp, TypeOK, CallsTyped

LEMMA RotatingCalls ==
  ASSUME TypeOK, NEW h \in Requests, InRotation(h)
  PROVE  calls[h] \in Rotating
BY DEF TypeOK, InRotation, Idle, Sweeping

LEMMA NextTyped == TypeOK /\ CopiesAgree /\ [Next]_vars => TypeOK'
<1> SUFFICES ASSUME TypeOK, CopiesAgree, [Next]_vars PROVE TypeOK'
  OBVIOUS
<1> USE TimeAssumption
<1>1. CASE Tick
  BY <1>1 DEF Tick, TypeOK
<1>2. ASSUME NEW l \in Leases, NEW scope \in Scope, NEW ttl \in TTLs, NEW at \in 0..now,
             IssueCredential(l, scope, ttl, at)
      PROVE  TypeOK'
  <2>1. ttl \in Nat /\ at \in Nat
    BY DEF TypeOK
  <2>2. /\ IsStore(leases', Leases, LeaseRecord)
        /\ DOMAIN leases' = DOMAIN leases \cup {l}
    BY <1>2, <2>1, StoreLeaseTyped DEF IssueCredential
  <2> QED  BY <1>2, <2>2 DEF IssueCredential, TypeOK
<1>3. ASSUME NEW l \in Leases, RevokeLease(l)
      PROVE  TypeOK'
  <2>1. IsStore(leases', Leases, LeaseRecord) /\ DOMAIN leases' = DOMAIN leases
    BY <1>3 DEF RevokeLease, TypeOK, IsStore, LeaseRecord
  <2> QED  BY <1>3, <2>1 DEF RevokeLease, TypeOK
<1>4. ASSUME NEW target \in Targets, NEW at \in 0..now, RevokeLeasesByTarget(target, at)
      PROVE  TypeOK'
  <2>0. at \in Nat
    BY DEF TypeOK
  <2>1. IsStore(leases', Leases, LeaseRecord) /\ DOMAIN leases' = DOMAIN leases
    BY <1>4, <2>0 DEF RevokeLeasesByTarget, TypeOK, IsStore, LeaseRecord
  <2> QED  BY <1>4, <2>1 DEF RevokeLeasesByTarget, TypeOK
<1>5. ASSUME NEW p \in Policies, NEW scope \in Scope, NEW interval \in Intervals,
             NEW ttl \in TTLs, NEW at \in 0..now,
             CreateRotationPolicy(p, scope, interval, ttl, at)
      PROVE  TypeOK'
  <2>1. [scope |-> scope, interval |-> interval, ttl |-> PolicyTTL(interval, ttl),
         next |-> at + interval] \in PolicyRecord
    BY DEF PolicyRecord, PolicyTTL, TypeOK
  <2>2. /\ IsStore(policies', Policies, PolicyRecord)
        /\ DOMAIN policies' = DOMAIN policies \cup {p}
    BY <1>5, <2>1, PutStore, PutEffect DEF CreateRotationPolicy, TypeOK
  <2>3. rotated' \in [DOMAIN policies' -> SUBSET DOMAIN leases']
    BY <1>5, <2>2 DEF CreateRotationPolicy, TypeOK, Put
  <2>4. stamps' \in [DOMAIN policies' -> Nat]
    BY <1>5, <2>2 DEF CreateRotationPolicy, TypeOK, Put
  <2> QED  BY <1>5, <2>2, <2>3, <2>4 DEF CreateRotationPolicy, TypeOK
<1>6. ASSUME NEW h \in Requests, NEW p \in Policies, TriggerRotation(h, p)
      PROVE  TypeOK'
  <2>1. CallsTyped
    BY <1>6, BeginTyped DEF TriggerRotation
  <2> QED  BY <1>6, <2>1 DEF TriggerRotation, BeginRotation, CallsTyped, TypeOK
<1>7. ASSUME NEW h \in Requests, RunDueRotations(h)
      PROVE  TypeOK'
  <2>1. [pc |-> "sweep", due |-> DuePolicies] \in Sweeping
    BY DEF Sweeping, DuePolicies, TypeOK, IsStore
  <2> QED  BY <1>7, <2>1 DEF RunDueRotations, TypeOK
<1>8. ASSUME NEW h \in Requests, NEW p \in Policies, RotateNext(h, p)
      PROVE  TypeOK'
  <2>1. p \in DOMAIN policies
    BY <1>8 DEF RotateNext, CopiesAgree
  <2>2. Rest(calls[h].due, p) \in SUBSET Policies
    BY <1>8 DEF RotateNext, Rest, TypeOK, Idle, Sweeping, Rotating
  <2>3. CallsTyped
    BY <1>8, <2>1, <2>2, BeginTyped DEF RotateNext
  <2> QED  BY <1>8, <2>3 DEF RotateNext, BeginRotation, CallsTyped, TypeOK
<1>9. ASSUME NEW h \in Requests, NEW l \in Leases, NEW at \in 0..now, IssueRotated(h, l, at)
      PROVE  TypeOK'
  <2>1. InRotation(h)
    BY <1>9 DEF IssueRotated, InRotation
  <2>2. /\ calls[h] \in Rotating
        /\ calls[h].policy \in DOMAIN policies
    BY <2>1, RotatingCalls DEF CopiesAgree
  <2>3. calls[h].copy.scope \in Scope /\ calls[h].copy.ttl \in Nat /\ at \in Nat
    BY <2>2 DEF Rotating, PolicyRecord, TypeOK
  <2>4. /\ IsStore(leases', Leases, LeaseRecord)
        /\ DOMAIN leases' = DOMAIN leases \cup {l}
    BY <1>9, <2>3, StoreLeaseTyped DEF IssueRotated
  <2>5. rotated' \in [DOMAIN policies -> SUBSET DOMAIN leases']
    BY <1>9, <2>2, <2>4 DEF IssueRotated, TypeOK
  <2>6. CallsTyped
    BY <1>9, <2>2, GoStampTyped DEF IssueRotated
  <2> QED  BY <1>9, <2>4, <2>5, <2>6 DEF IssueRotated, CallsTyped, TypeOK
<1>10. ASSUME NEW h \in Requests, IssueFails(h)
       PROVE  TypeOK'
  <2>1. CallsTyped
    BY <1>10, RotatingCalls, ReturnTyped DEF IssueFails, InRotation
  <2> QED  BY <1>10, <2>1 DEF IssueFails, CallsTyped, TypeOK
<1>11. ASSUME NEW h \in Requests, NEW at \in 0..now, RecordRotation(h, at)
       PROVE  TypeOK'
  <2>1. InRotation(h)
    BY <1>11 DEF RecordRotation, InRotation
  <2>2. /\ calls[h] \in Rotating
        /\ calls[h].policy \in DOMAIN policies
    BY <2>1, RotatingCalls DEF CopiesAgree
  <2>3. [calls[h].copy EXCEPT !.next = at + calls[h].copy.interval] \in PolicyRecord
    BY <2>2 DEF Rotating, PolicyRecord, TypeOK
  <2>4. /\ IsStore(policies', Policies, PolicyRecord)
        /\ DOMAIN policies' = DOMAIN policies
    BY <1>11, <2>2, <2>3 DEF RecordRotation, TypeOK, IsStore
  <2>5. stamps' \in [DOMAIN policies -> Nat]
    BY <1>11, <2>2 DEF RecordRotation, TypeOK
  <2>6. CallsTyped
    BY <1>11, <2>2, ReturnTyped DEF RecordRotation
  <2> QED  BY <1>11, <2>4, <2>5, <2>6 DEF RecordRotation, CallsTyped, TypeOK
<1>12. CASE UNCHANGED vars
  BY <1>12 DEF vars, TypeOK
<1> QED
  BY <1>1, <1>2, <1>3, <1>4, <1>5, <1>6, <1>7, <1>8, <1>9, <1>10, <1>11, <1>12
     DEF Next, Proceed
-----------------------------------------------------------------------------
(* The terms of a policy never change *)

TermsKept == \A p \in DOMAIN policies : p \in DOMAIN policies' /\ SameTerms(policies'[p], policies[p])

\* A copy written back changes only the instant of the next rotation.
LEMMA RecordKeepsTerms ==
  ASSUME TypeOK, CopiesAgree, NEW h \in Requests, NEW at \in 0..now, RecordRotation(h, at)
  PROVE  TermsKept /\ DOMAIN policies' = DOMAIN policies
<1>1. /\ calls[h].policy \in DOMAIN policies
      /\ SameTerms(calls[h].copy, policies[calls[h].policy])
  BY DEF RecordRotation, InRotation, CopiesAgree
<1>2. calls[h].copy \in PolicyRecord
  BY RotatingCalls DEF RecordRotation, InRotation, Rotating
<1>3. SameTerms([calls[h].copy EXCEPT !.next = at + calls[h].copy.interval],
                policies[calls[h].policy])
  BY <1>1, <1>2 DEF PolicyRecord, SameTerms
<1> QED  BY <1>1, <1>3 DEF RecordRotation, TermsKept, TypeOK, IsStore, SameTerms

LEMMA CreateKeepsTerms ==
  ASSUME TypeOK, NEW p \in Policies, NEW scope, NEW interval, NEW ttl, NEW at,
         CreateRotationPolicy(p, scope, interval, ttl, at)
  PROVE  TermsKept
BY DEF CreateRotationPolicy, Put, TermsKept, SameTerms

\* The steps by what they do to the policies.
LEMMA PolicySteps ==
  ASSUME TypeOK, CopiesAgree, [Next]_vars
  PROVE  \/ UNCHANGED policies
         \/ \E p \in Policies, scope \in Scope, interval \in Intervals, ttl \in TTLs, at \in 0..now :
              CreateRotationPolicy(p, scope, interval, ttl, at)
         \/ \E h \in Requests, at \in 0..now : RecordRotation(h, at)
BY DEF Next, Proceed, vars, Tick, IssueCredential, RevokeLease, RevokeLeasesByTarget,
       TriggerRotation, RunDueRotations, RotateNext, BeginRotation, IssueRotated, IssueFails

LEMMA NextKeepsTerms == TypeOK /\ CopiesAgree /\ [Next]_vars => TermsKept
<1> SUFFICES ASSUME TypeOK, CopiesAgree, [Next]_vars PROVE TermsKept
  OBVIOUS
<1>1. CASE UNCHANGED policies
  BY <1>1 DEF TermsKept, SameTerms
<1> QED  BY <1>1, PolicySteps, RecordKeepsTerms, CreateKeepsTerms

LEMMA NextOnePolicy == IInv /\ [Next]_vars => OnePolicyPerScope' /\ RotationsIssuable'
<1> SUFFICES ASSUME TypeOK, CopiesAgree, OnePolicyPerScope, RotationsIssuable, [Next]_vars
             PROVE  OnePolicyPerScope' /\ RotationsIssuable'
  BY DEF IInv
<1>0. TermsKept
  BY NextKeepsTerms
<1>1. CASE DOMAIN policies' = DOMAIN policies
  BY <1>0, <1>1 DEF TermsKept, SameTerms, OnePolicyPerScope, RotationsIssuable, LeaseTTL
<1>2. ASSUME NEW p \in Policies, NEW scope \in Scope, NEW interval \in Intervals,
             NEW ttl \in TTLs, NEW at \in 0..now,
             CreateRotationPolicy(p, scope, interval, ttl, at)
      PROVE  OnePolicyPerScope' /\ RotationsIssuable'
  <2>1. /\ p \notin DOMAIN policies
        /\ DOMAIN policies' = DOMAIN policies \cup {p}
        /\ policies'[p].scope = scope
        /\ policies'[p].ttl = PolicyTTL(interval, ttl)
    BY <1>2 DEF CreateRotationPolicy, Put
  <2>2. OnePolicyPerScope'
    BY <1>0, <1>2, <2>1 DEF CreateRotationPolicy, Vacant, OnePolicyPerScope, TermsKept, SameTerms
  <2>3. Admissible(PolicyTTL(interval, ttl)) /\ PolicyTTL(interval, ttl) \in Nat
    BY <1>2, TimeAssumption DEF CreateRotationPolicy, Acceptable, PolicyTTL
  <2>4. LeaseTTL(PolicyTTL(interval, ttl)) = PolicyTTL(interval, ttl)
    BY <2>3, TimeAssumption DEF LeaseTTL, Admissible
  <2> QED  BY <1>0, <2>1, <2>2, <2>3, <2>4 DEF RotationsIssuable, TermsKept, SameTerms
<1> QED  BY <1>1, <1>2, PolicySteps, RecordKeepsTerms

-----------------------------------------------------------------------------
(* Copies agree with their policies *)

\* One request goes on, with a copy of a policy as it is or as it had it.
LEMMA NextCopies == IInv /\ [Next]_vars => CopiesAgree'
<1> SUFFICES ASSUME TypeOK, CopiesAgree, [Next]_vars PROVE CopiesAgree'
  BY DEF IInv
<1>0. TermsKept /\ DOMAIN policies \subseteq DOMAIN policies'
  BY NextKeepsTerms DEF TermsKept
\* The request k is as it was, up to the program counter within a rotation.
<1> DEFINE Agrees(k) ==
      /\ calls'[k].pc \in {"issue", "stamp"} =>
           /\ calls'[k].policy \in DOMAIN policies'
           /\ SameTerms(calls'[k].copy, policies'[calls'[k].policy])
      /\ calls'[k].pc \in {"issue", "stamp", "sweep"} => calls'[k].due \subseteq DOMAIN policies'
<1>a. ASSUME NEW k \in Requests, calls'[k] = calls[k]
      PROVE  Agrees(k)
  BY <1>0, <1>a DEF CopiesAgree, InRotation, TermsKept, SameTerms
<1>b. SUFFICES \A k \in Requests : Agrees(k)
  BY DEF CopiesAgree, InRotation
<1>1. CASE UNCHANGED calls
  BY <1>a, <1>1
<1>2. ASSUME NEW h \in Requests, NEW p \in Policies, TriggerRotation(h, p)
      PROVE  \A k \in Requests : Agrees(k)
  <2>1. Agrees(h)
    BY <1>2 DEF TriggerRotation, BeginRotation, SameTerms, TypeOK
  <2>2. \A k \in Requests \ {h} : calls'[k] = calls[k]
    BY <1>2 DEF TriggerRotation, BeginRotation, TypeOK
  <2> QED  BY <1>a, <2>1, <2>2
<1>3. ASSUME NEW h \in Requests, RunDueRotations(h)
      PROVE  \A k \in Requests : Agrees(k)
  <2>1. Agrees(h)
    BY <1>3 DEF RunDueRotations, DuePolicies, TypeOK
  <2>2. \A k \in Requests \ {h} : calls'[k] = calls[k]
    BY <1>3 DEF RunDueRotations, TypeOK
  <2> QED  BY <1>a, <2>1, <2>2
<1>4. ASSUME NEW h \in Requests, NEW p \in Policies, RotateNext(h, p)
      PROVE  \A k \in Requests : Agrees(k)
  <2>0. p \in DOMAIN policies /\ calls[h].due \subseteq DOMAIN policies
    BY <1>4 DEF RotateNext, CopiesAgree
  <2>1. Agrees(h)
    BY <1>4, <2>0 DEF RotateNext, BeginRotation, Rest, SameTerms, TypeOK
  <2>2. \A k \in Requests \ {h} : calls'[k] = calls[k]
    BY <1>4 DEF RotateNext, BeginRotation, TypeOK
  <2> QED  BY <1>a, <2>1, <2>2
<1>5. ASSUME NEW h \in Requests, NEW l \in Leases, NEW at \in 0..now, IssueRotated(h, l, at)
      PROVE  \A k \in Requests : Agrees(k)
  <2>0. /\ calls[h] \in Rotating
        /\ calls[h].policy \in DOMAIN policies
        /\ SameTerms(calls[h].copy, policies[calls[h].policy])
        /\ calls[h].due \subseteq DOMAIN policies
    BY <1>5, RotatingCalls DEF IssueRotated, InRotation, CopiesAgree
  <2>1. /\ calls'[h].policy = calls[h].policy
        /\ calls'[h].copy = calls[h].copy
        /\ calls'[h].due = calls[h].due
    BY <1>5, <2>0 DEF IssueRotated, GoStamp, Rotating, TypeOK
  <2>2. \A k \in Requests \ {h} : calls'[k] = calls[k]
    BY <1>5 DEF IssueRotated, GoStamp, TypeOK
  <2> QED  BY <1>0, <1>a, <2>0, <2>1, <2>2 DEF TermsKept, SameTerms
<1>6. ASSUME NEW h \in Requests, InRotation(h), Return(h)
      PROVE  \A k \in Requests : Agrees(k)
  <2>0. calls[h].due \subseteq DOMAIN policies
    BY <1>6 DEF CopiesAgree
  <2>1. Agrees(h)
    BY <1>0, <1>6, <2>0 DEF Return, Idle, TypeOK
  <2>2. \A k \in Requests \ {h} : calls'[k] = calls[k]
    BY <1>6 DEF Return, TypeOK
  <2> QED  BY <1>a, <2>1, <2>2
<1>7. ASSUME NEW h \in Requests, IssueFails(h) \/ \E at \in 0..now : RecordRotation(h, at)
      PROVE  \A k \in Requests : Agrees(k)
  BY <1>6, <1>7 DEF IssueFails, RecordRotation, InRotation
<1>8. \/ UNCHANGED calls
      \/ \E h \in Requests : \/ \E p \in Policies : TriggerRotation(h, p) \/ RotateNext(h, p)
                             \/ RunDueRotations(h)
                             \/ \E l \in Leases, at \in 0..now : IssueRotated(h, l, at)
                             \/ IssueFails(h)
                             \/ \E at \in 0..now : RecordRotation(h, at)
  BY DEF Next, Proceed, vars, Tick, IssueCredential, RevokeLease, RevokeLeasesByTarget,
         CreateRotationPolicy
<1> QED  BY <1>1, <1>2, <1>3, <1>4, <1>5, <1>7, <1>8

-----------------------------------------------------------------------------
(* Every rotation is accounted for *)

FiniteRotations == \A p \in DOMAIN policies : IsFiniteSet(rotated[p])

LEMMA UnrecordedFinite ==
  ASSUME NEW p
  PROVE  /\ IsFiniteSet(Unrecorded(p)) /\ Cardinality(Unrecorded(p)) \in Nat
         /\ IsFiniteSet(Unrecorded(p)') /\ Cardinality(Unrecorded(p)') \in Nat
<1>1. Unrecorded(p) \in SUBSET Requests /\ Unrecorded(p)' \in SUBSET Requests
  BY DEF Unrecorded
<1>2. IsFiniteSet(Unrecorded(p)) /\ IsFiniteSet(Unrecorded(p)')
  BY <1>1, FS_Subset, RequestsAssumption
<1> QED  BY <1>2, FS_CardinalityType

\* The balance of p in the next state.
Balanced(p) == /\ IsFiniteSet(rotated'[p])
               /\ Cardinality(rotated'[p]) = stamps'[p] + Cardinality(Unrecorded(p)')

LEMMA IssueBalanced ==
  ASSUME TypeOK, CopiesAgree, FiniteRotations, RotationsAccounted,
         NEW h \in Requests, NEW l \in Leases, NEW at \in 0..now, IssueRotated(h, l, at)
  PROVE  \A p \in DOMAIN policies : Balanced(p)
<1>0. calls[h].pc = "issue" /\ calls[h].policy \in DOMAIN policies /\ l \notin DOMAIN leases
  BY DEF IssueRotated, StoreLease, CopiesAgree, InRotation
<1>1. SUFFICES ASSUME NEW p \in DOMAIN policies PROVE Balanced(p)
  OBVIOUS
<1>2. /\ calls'[h].pc = "stamp"
      /\ calls'[h].policy = calls[h].policy
      /\ \A k \in Requests \ {h} : calls'[k] = calls[k]
  <2>1. calls[h] \in Rotating
    BY <1>0, RotatingCalls DEF InRotation
  <2> QED  BY <2>1 DEF IssueRotated, GoStamp, Rotating, TypeOK
<1>3. stamps'[p] = stamps[p] /\ stamps[p] \in Nat
  BY DEF IssueRotated, TypeOK
<1>4. IsFiniteSet(rotated[p]) /\ rotated[p] \subseteq DOMAIN leases
      /\ Cardinality(rotated[p]) = stamps[p] + Cardinality(Unrecorded(p))
  BY DEF FiniteRotations, TypeOK, RotationsAccounted
<1>5. CASE calls[h].policy = p
  <2>1. rotated'[p] = rotated[p] \cup {l} /\ l \notin rotated[p]
    BY <1>0, <1>4, <1>5 DEF IssueRotated, TypeOK
  <2>2. Unrecorded(p)' = Unrecorded(p) \cup {h} /\ h \notin Unrecorded(p)
    BY <1>0, <1>2, <1>5 DEF Unrecorded
  <2>3. IsFiniteSet(rotated'[p]) /\ Cardinality(rotated'[p]) = Cardinality(rotated[p]) + 1
    BY <1>4, <2>1, FS_AddElement
  <2>4. Cardinality(Unrecorded(p)') = Cardinality(Unrecorded(p)) + 1
    BY <2>2, UnrecordedFinite, FS_AddElement
  <2> QED  BY <1>3, <1>4, <2>3, <2>4, UnrecordedFinite DEF Balanced
<1>6. CASE calls[h].policy # p
  <2>1. rotated'[p] = rotated[p]
    BY <1>6 DEF IssueRotated, TypeOK
  <2>2. Unrecorded(p)' = Unrecorded(p)
    BY <1>0, <1>2, <1>6 DEF Unrecorded
  <2> QED  BY <1>3, <1>4, <2>1, <2>2 DEF Balanced
<1> QED  BY <1>5, <1>6

LEMMA RecordBalanced ==
  ASSUME TypeOK, CopiesAgree, FiniteRotations, RotationsAccounted,
         NEW h \in Requests, NEW at \in 0..now, RecordRotation(h, at)
  PROVE  \A p \in DOMAIN policies : Balanced(p)
<1>0. calls[h].pc = "stamp" /\ calls[h].policy \in DOMAIN policies
  BY DEF RecordRotation, CopiesAgree, InRotation
<1>1. SUFFICES ASSUME NEW p \in DOMAIN policies PROVE Balanced(p)
  OBVIOUS
<1>2. /\ calls'[h].pc # "stamp"
      /\ \A k \in Requests \ {h} : calls'[k] = calls[k]
  BY DEF RecordRotation, Return, Idle, TypeOK
<1>3. rotated'[p] = rotated[p] /\ stamps[p] \in Nat
  BY DEF RecordRotation, TypeOK
<1>4. IsFiniteSet(rotated[p])
      /\ Cardinality(rotated[p]) = stamps[p] + Cardinality(Unrecorded(p))
  BY DEF FiniteRotations, RotationsAccounted
<1>5. CASE calls[h].policy = p
  <2>1. stamps'[p] = stamps[p] + 1
    BY <1>5 DEF RecordRotation, TypeOK
  <2>2. Unrecorded(p)' = Unrecorded(p) \ {h} /\ h \in Unrecorded(p)
    BY <1>0, <1>2, <1>5 DEF Unrecorded
  <2>3. Cardinality(Unrecorded(p)') = Cardinality(Unrecorded(p)) - 1
    BY <2>2, UnrecordedFinite, FS_RemoveElement
  <2> QED  BY <1>3, <1>4, <2>1, <2>3, UnrecordedFinite DEF Balanced
<1>6. CASE calls[h].policy # p
  <2>1. stamps'[p] = stamps[p]
    BY <1>6 DEF RecordRotation, TypeOK
  <2>2. Unrecorded(p)' = Unrecorded(p)
    BY <1>0, <1>2, <1>6 DEF Unrecorded
  <2> QED  BY <1>3, <1>4, <2>1, <2>2 DEF Balanced
<1> QED  BY <1>5, <1>6

\* A new policy has been rotated by nobody.
LEMMA CreateBalanced ==
  ASSUME TypeOK, CopiesAgree, FiniteRotations, RotationsAccounted,
         NEW p \in Policies, NEW scope, NEW interval, NEW ttl, NEW at,
         CreateRotationPolicy(p, scope, interval, ttl, at)
  PROVE  \A q \in DOMAIN policies' : Balanced(q)
<1>1. /\ p \notin DOMAIN policies
      /\ DOMAIN policies' = DOMAIN policies \cup {p}
      /\ rotated'[p] = {} /\ stamps'[p] = 0
      /\ \A q \in DOMAIN policies : rotated'[q] = rotated[q] /\ stamps'[q] = stamps[q]
  BY DEF CreateRotationPolicy, Put, TypeOK
<1>2. \A q : Unrecorded(q)' = Unrecorded(q)
  BY DEF CreateRotationPolicy, Unrecorded
<1>3. Unrecorded(p) = {}
  BY <1>1 DEF Unrecorded, CopiesAgree, InRotation
<1>4. Balanced(p)
  BY <1>1, <1>2, <1>3, FS_EmptySet DEF Balanced
<1>5. \A q \in DOMAIN policies : Balanced(q)
  BY <1>1, <1>2 DEF Balanced, FiniteRotations, RotationsAccounted
<1> QED  BY <1>1, <1>4, <1>5

LEMMA NextAccounted ==
  IInv /\ FiniteRotations /\ RotationsAccounted /\ [Next]_vars
    => FiniteRotations' /\ RotationsAccounted'
<1> SUFFICES ASSUME TypeOK, CopiesAgree, FiniteRotations, RotationsAccounted, [Next]_vars
             PROVE  FiniteRotations' /\ RotationsAccounted'
  BY DEF IInv
<1>b. SUFFICES \A p \in DOMAIN policies' : Balanced(p)
  BY DEF FiniteRotations, RotationsAccounted, Balanced
<1>0. ASSUME UNCHANGED <<policies, rotated, stamps>>,
             \A h \in Requests : \/ calls'[h] = calls[h]
                                 \/ calls[h].pc # "stamp" /\ calls'[h].pc # "stamp"
      PROVE  \A p \in DOMAIN policies' : Balanced(p)
  <2>1. \A p : Unrecorded(p)' = Unrecorded(p)
    BY <1>0 DEF Unrecorded
  <2> QED  BY <1>0, <2>1 DEF Balanced, FiniteRotations, RotationsAccounted
<1>1. CASE UNCHANGED <<policies, rotated, stamps, calls>>
  BY <1>0, <1>1
<1>2. ASSUME NEW h \in Requests, NEW p \in Policies, TriggerRotation(h, p) \/ RotateNext(h, p)
      PROVE  \A q \in DOMAIN policies' : Balanced(q)
  <2>1. /\ calls[h].pc # "stamp" /\ calls'[h].pc # "stamp"
        /\ \A k \in Requests \ {h} : calls'[k] = calls[k]
        /\ UNCHANGED <<policies, rotated, stamps>>
    BY <1>2 DEF TriggerRotation, RotateNext, BeginRotation, Idle, TypeOK
  <2> QED  BY <1>0, <2>1
<1>3. ASSUME NEW h \in Requests, RunDueRotations(h) \/ IssueFails(h)
      PROVE  \A q \in DOMAIN policies' : Balanced(q)
  <2>1. /\ calls[h].pc # "stamp" /\ calls'[h].pc # "stamp"
        /\ \A k \in Requests \ {h} : calls'[k] = calls[k]
        /\ UNCHANGED <<policies, rotated, stamps>>
    BY <1>3 DEF RunDueRotations, IssueFails, Return, Idle, TypeOK
  <2> QED  BY <1>0, <2>1
<1>4. ASSUME NEW h \in Requests, NEW l \in Leases, NEW at \in 0..now, IssueRotated(h, l, at)
      PROVE  \A q \in DOMAIN policies' : Balanced(q)
  BY <1>4, IssueBalanced DEF IssueRotated
<1>5. ASSUME NEW h \in Requests, NEW at \in 0..now, RecordRotation(h, at)
      PROVE  \A q \in DOMAIN policies' : Balanced(q)
  BY <1>5, RecordBalanced, RecordKeepsTerms
<1>6. ASSUME NEW p \in Policies, NEW scope \in Scope, NEW interval \in Intervals,
             NEW ttl \in TTLs, NEW at \in 0..now,
             CreateRotationPolicy(p, scope, interval, ttl, at)
      PROVE  \A q \in DOMAIN policies' : Balanced(q)
  BY <1>6, CreateBalanced
<1>7. \/ UNCHANGED <<policies, rotated, stamps, calls>>
      \/ \E h \in Requests : \/ \E p \in Policies : TriggerRotation(h, p) \/ RotateNext(h, p)
                             \/ RunDueRotations(h) \/ IssueFails(h)
                             \/ \E l \in Leases, at \in 0..now : IssueRotated(h, l, at)
                             \/ \E at \in 0..now : RecordRotation(h, at)
      \/ \E p \in Policies, scope \in Scope, interval \in Intervals, ttl \in TTLs, at \in 0..now :
           CreateRotationPolicy(p, scope, interval, ttl, at)
  BY DEF Next, Proceed, vars, Tick, IssueCredential, RevokeLease, RevokeLeasesByTarget
<1> QED  BY <1>1, <1>2, <1>3, <1>4, <1>5, <1>6, <1>7

-----------------------------------------------------------------------------
(* Rotation implements RotationBook *)

\* What h owes while it is between its lease and its record.
Ticket(h) == [by |-> h, policy |-> calls[h].policy, since |-> calls[h].at]
Owes(h) == calls[h].pc = "stamp"

LEMMA OwedIsTickets ==
  \A e : e \in OwedRecords <=> \E h \in Requests : Owes(h) /\ e = Ticket(h)
BY DEF OwedRecords, Owes, Ticket

\* How the set changes when one request goes on.
LEMMA OwedUnchanged ==
  ASSUME NEW h \in Requests, ~Owes(h), ~Owes(h)',
         \A k \in Requests \ {h} : calls'[k] = calls[k]
  PROVE  OwedRecords' = OwedRecords
<1>1. \A k \in Requests : /\ Owes(k)' <=> Owes(k)
                          /\ Owes(k) => Ticket(k)' = Ticket(k)
  BY DEF Owes, Ticket
<1> QED  BY <1>1 DEF OwedRecords, Owes, Ticket

LEMMA OwedAdded ==
  ASSUME NEW h \in Requests, ~Owes(h), Owes(h)',
         \A k \in Requests \ {h} : calls'[k] = calls[k]
  PROVE  OwedRecords' = OwedRecords \cup {Ticket(h)'}
<1>1. \A k \in Requests : /\ Owes(k)' <=> Owes(k) \/ k = h
                          /\ Owes(k) => Ticket(k)' = Ticket(k)
  BY DEF Owes, Ticket
<1> QED  BY <1>1 DEF OwedRecords, Owes, Ticket

LEMMA OwedRemoved ==
  ASSUME NEW h \in Requests, Owes(h), ~Owes(h)',
         \A k \in Requests \ {h} : calls'[k] = calls[k]
  PROVE  OwedRecords' = OwedRecords \ {Ticket(h)}
<1>1. \A k \in Requests : /\ Owes(k)' <=> Owes(k) /\ k # h
                          /\ Owes(k)' => Ticket(k)' = Ticket(k)
                          /\ Ticket(k) = Ticket(h) => k = h
  BY DEF Owes, Ticket
<1> QED  BY <1>1 DEF OwedRecords, Owes, Ticket

LEMMA BookStart == Init => Book!BookInit
BY DEF Init, EmptyStore, Idle, OwedRecords, Book!BookInit, Book!EmptyStore

LEMMA DirectStep ==
  ASSUME TypeOK, NEW l \in Leases, NEW scope \in Scope, NEW ttl \in TTLs, NEW at \in 0..now,
         IssueCredential(l, scope, ttl, at)
  PROVE  Book!BookNext
<1>1. LeaseTTL(ttl) \in MinSeconds..MaxSeconds
  BY TimeAssumption DEF IssueCredential, StoreLease, Admissible, LeaseTTL
<1>2. /\ StoreLease(l, scope, ttl, at)
      /\ UNCHANGED <<now, policies, calls>>
  BY DEF IssueCredential
<1>3. Book!LeaseDirectly(l, scope, LeaseTTL(ttl), at)
  BY <1>2 DEF StoreLease, Put, Book!LeaseDirectly, Book!Lease, Book!Put, OwedRecords
<1> QED  BY <1>1, <1>3 DEF Book!BookNext

LEMMA RevokeStep ==
  ASSUME TypeOK, NEW l \in Leases, RevokeLease(l)
  PROVE  Book!RevokeOne(l)
<1>1. /\ l \in DOMAIN leases /\ leases[l].revokedAt = Never
      /\ leases' = [leases EXCEPT ![l] = [leases[l] EXCEPT !.revokedAt = now]]
      /\ UNCHANGED <<now, policies, calls>>
  BY DEF RevokeLease
<1>2. leases' = [k \in DOMAIN leases |-> IF k \in {l} THEN [leases[k] EXCEPT !.revokedAt = now]
                                                   ELSE leases[k]]
  BY <1>1 DEF TypeOK, IsStore
<1> QED  BY <1>1, <1>2 DEF Book!RevokeOne, Book!Revoke, OwedRecords

LEMMA BulkStep ==
  ASSUME NEW target \in Targets, NEW at, RevokeLeasesByTarget(target, at)
  PROVE  Book!RevokeTarget(target, at)
BY DEF RevokeLeasesByTarget, BulkRevoked, Book!RevokeTarget, Book!Revoke, OwedRecords

LEMMA AdoptStep ==
  ASSUME TypeOK, NEW p \in Policies, NEW scope \in Scope, NEW interval \in Intervals,
         NEW ttl \in TTLs, NEW at \in 0..now, CreateRotationPolicy(p, scope, interval, ttl, at)
  PROVE  Book!BookNext
<1>1. PolicyTTL(interval, ttl) \in MinSeconds..MaxSeconds
  BY TimeAssumption DEF CreateRotationPolicy, Acceptable, Admissible, PolicyTTL
<1>2. Book!Adopt(p, scope, interval, PolicyTTL(interval, ttl), at)
  BY DEF CreateRotationPolicy, Acceptable, Vacant, Put, Book!Adopt, Book!Put, OwedRecords
<1> QED  BY <1>1, <1>2 DEF Book!BookNext

\* The copy still has the policy's terms (CopiesAgree), and no terms are
\* refused (RotationsIssuable): the lease is for the terms of this moment.
LEMMA RotateStep ==
  ASSUME IInv, NEW h \in Requests, NEW l \in Leases, NEW issuedAt \in 0..now,
         IssueRotated(h, l, issuedAt)
  PROVE  Book!BookNext
<1>0. TypeOK /\ CopiesAgree /\ RotationsIssuable
  BY DEF IInv
<1>1. PICK p : p = calls[h].policy
  OBVIOUS
<1>2. /\ calls[h] \in Rotating
      /\ p \in DOMAIN policies
      /\ SameTerms(calls[h].copy, policies[p])
  BY <1>0, <1>1, RotatingCalls DEF IssueRotated, InRotation, CopiesAgree
<1>3. LeaseTTL(calls[h].copy.ttl) = policies[p].ttl /\ calls[h].copy.scope = policies[p].scope
  BY <1>0, <1>2 DEF SameTerms, RotationsIssuable
<1>4. /\ ~Owes(h)
      /\ Owes(h)'
      /\ Ticket(h)' = [by |-> h, policy |-> p, since |-> now]
      /\ \A k \in Requests \ {h} : calls'[k] = calls[k]
  BY <1>0, <1>1, <1>2 DEF IssueRotated, GoStamp, Owes, Ticket, Rotating, TypeOK
<1>5. OwedRecords' = OwedRecords \cup {[by |-> h, policy |-> p, since |-> now]}
  BY <1>4, OwedAdded
<1>6. \A e \in OwedRecords : e.by # h
  BY <1>4 DEF OwedRecords, Owes
<1>7. Book!Lease(l, policies[p].scope, policies[p].ttl, issuedAt)
  BY <1>3 DEF IssueRotated, StoreLease, Put, Book!Lease, Book!Put
<1>8. Book!Rotate(p, l, h, issuedAt)
  BY <1>5, <1>6, <1>7 DEF Book!Rotate
<1> QED  BY <1>2, <1>8 DEF Book!BookNext

\* Writing the copy back moves the due date in place.
LEMMA RecordStep ==
  ASSUME IInv, NEW h \in Requests, NEW at \in 0..now, RecordRotation(h, at)
  PROVE  Book!BookNext
<1>0. TypeOK /\ CopiesAgree
  BY DEF IInv
<1>1. PICK p, e : p = calls[h].policy /\ e = Ticket(h)
  OBVIOUS
<1>2. /\ calls[h] \in Rotating
      /\ p \in DOMAIN policies
      /\ SameTerms(calls[h].copy, policies[p])
  BY <1>0, <1>1, RotatingCalls DEF RecordRotation, InRotation, CopiesAgree
<1>3. /\ calls[h].copy \in PolicyRecord
      /\ policies[p] \in PolicyRecord
      /\ calls[h].at \in Nat /\ now \in Nat
  BY <1>0, <1>2 DEF Rotating, TypeOK, IsStore
<1>4. [calls[h].copy EXCEPT !.next = at + calls[h].copy.interval]
        = [policies[p] EXCEPT !.next = at + policies[p].interval]
  BY <1>2, <1>3 DEF PolicyRecord, SameTerms
<1>5. policies' = [policies EXCEPT ![p].next = at + policies[p].interval]
  BY <1>1, <1>4 DEF RecordRotation
<1>6. /\ Owes(h)
      /\ ~Owes(h)'
      /\ \A k \in Requests \ {h} : calls'[k] = calls[k]
  BY <1>0 DEF RecordRotation, Return, Owes, Idle, TypeOK
<1>7. /\ e \in OwedRecords
      /\ OwedRecords' = OwedRecords \ {e}
  BY <1>1, <1>6, OwedRemoved, OwedIsTickets
<1>8. /\ e.policy = p
      /\ at \in e.since..now
  BY <1>1, <1>3 DEF Ticket, RecordRotation
<1>9. Book!Record(e, at)
  BY <1>5, <1>7, <1>8 DEF Book!Record, RecordRotation
<1> QED  BY <1>7, <1>8, <1>9 DEF Book!BookNext

LEMMA BookStep == IInv /\ [Next]_vars => [Book!BookNext]_(Book!book)
<1> SUFFICES ASSUME IInv, [Next]_vars PROVE [Book!BookNext]_(Book!book)
  OBVIOUS
<1>0. TypeOK
  BY DEF IInv
<1>1. CASE Tick
  BY <1>1 DEF Tick, Book!BookNext, Book!Advance, OwedRecords
<1>2. ASSUME NEW l \in Leases, NEW scope \in Scope, NEW ttl \in TTLs, NEW at \in 0..now,
             IssueCredential(l, scope, ttl, at)
      PROVE  Book!BookNext
  BY <1>0, <1>2, DirectStep
<1>3. ASSUME NEW l \in Leases, RevokeLease(l)
      PROVE  Book!BookNext
  BY <1>0, <1>3, RevokeStep DEF Book!BookNext
<1>4. ASSUME NEW target \in Targets, NEW at \in 0..now, RevokeLeasesByTarget(target, at)
      PROVE  Book!BookNext
  BY <1>4, BulkStep DEF Book!BookNext
<1>5. ASSUME NEW p \in Policies, NEW scope \in Scope, NEW interval \in Intervals,
             NEW ttl \in TTLs, NEW at \in 0..now,
             CreateRotationPolicy(p, scope, interval, ttl, at)
      PROVE  Book!BookNext
  BY <1>0, <1>5, AdoptStep
<1>6. ASSUME NEW h \in Requests, NEW l \in Leases, NEW at \in 0..now, IssueRotated(h, l, at)
      PROVE  Book!BookNext
  BY <1>6, RotateStep
<1>7. ASSUME NEW h \in Requests, NEW at \in 0..now, RecordRotation(h, at)
      PROVE  Book!BookNext
  BY <1>7, RecordStep
\* The other steps of a request change nothing that the book shows.
<1>8. ASSUME NEW h \in Requests, ~Owes(h), ~Owes(h)', UNCHANGED <<now, leases, policies>>,
             \A k \in Requests \ {h} : calls'[k] = calls[k]
      PROVE  UNCHANGED Book!book
  BY <1>8, OwedUnchanged DEF Book!book
<1>9. ASSUME NEW h \in Requests, NEW p \in Policies, TriggerRotation(h, p) \/ RotateNext(h, p)
      PROVE  UNCHANGED Book!book
  BY <1>0, <1>8, <1>9 DEF TriggerRotation, RotateNext, BeginRotation, Owes, Idle, TypeOK
<1>10. ASSUME NEW h \in Requests, RunDueRotations(h) \/ IssueFails(h)
       PROVE  UNCHANGED Book!book
  BY <1>0, <1>8, <1>10 DEF RunDueRotations, IssueFails, Return, Owes, Idle, TypeOK
<1>11. CASE UNCHANGED vars
  BY <1>11 DEF vars, Book!book, OwedRecords
<1> QED
  BY <1>1, <1>2, <1>3, <1>4, <1>5, <1>6, <1>7, <1>9, <1>10, <1>11 DEF Next, Proceed

-----------------------------------------------------------------------------
(* Due dates *)

\* No due date lies farther ahead than one interval: of now for a policy, and
\* of the last instant its request has seen for a copy.
DatesInOrder ==
  /\ \A p \in DOMAIN policies : policies[p].next <= now + policies[p].interval
  /\ \A h \in Requests :
       InRotation(h) => /\ calls[h].at <= now
                        /\ calls[h].copy.next <= calls[h].at + calls[h].copy.interval

LEMMA PolicyDates ==
  ASSUME TypeOK, CopiesAgree, DatesInOrder, [Next]_vars
  PROVE  /\ now <= now'
         /\ \A p \in DOMAIN policies' : policies'[p].next <= now' + policies'[p].interval
<1>0. now \in Nat /\ \A p \in DOMAIN policies : policies[p] \in PolicyRecord
  BY DEF TypeOK, IsStore
<1>1. now' = now \/ (now' = now + 1 /\ UNCHANGED policies)
  BY DEF Next, Proceed, vars, Tick, IssueCredential, RevokeLease, RevokeLeasesByTarget,
         CreateRotationPolicy, TriggerRotation, RunDueRotations, RotateNext, BeginRotation,
         IssueRotated, IssueFails, RecordRotation
<1>2. CASE UNCHANGED policies
  BY <1>0, <1>1, <1>2 DEF DatesInOrder, PolicyRecord
<1>3. ASSUME NEW p \in Policies, NEW scope \in Scope, NEW interval \in Intervals,
             NEW ttl \in TTLs, NEW at \in 0..now,
             CreateRotationPolicy(p, scope, interval, ttl, at)
      PROVE  \A q \in DOMAIN policies' : policies'[q].next <= now + policies'[q].interval
  <2>1. /\ policies'[p].next = at + interval /\ policies'[p].interval = interval
        /\ DOMAIN policies' = DOMAIN policies \cup {p}
        /\ \A q \in DOMAIN policies : policies'[q] = policies[q]
    BY <1>3 DEF CreateRotationPolicy, Put
  <2> QED  BY <1>0, <2>1, TimeAssumption DEF DatesInOrder
<1>4. ASSUME NEW h \in Requests, NEW at \in 0..now, RecordRotation(h, at)
      PROVE  \A q \in DOMAIN policies' : policies'[q].next <= now + policies'[q].interval
  <2>1. calls[h] \in Rotating
    BY <1>4, RotatingCalls DEF RecordRotation, InRotation
  <2>2. calls[h].copy \in PolicyRecord
    BY <2>1 DEF Rotating
  <2>3. [calls[h].copy EXCEPT !.next = at + calls[h].copy.interval].next
          <= now + [calls[h].copy EXCEPT !.next = at + calls[h].copy.interval].interval
    BY <1>0, <2>2 DEF PolicyRecord
  <2> QED  BY <1>4, <2>3 DEF RecordRotation, DatesInOrder
<1>5. policies' # policies => now' = now
  BY <1>1
<1> QED  BY <1>0, <1>1, <1>2, <1>3, <1>4, <1>5, PolicySteps

LEMMA NextDates == IInv /\ DatesInOrder /\ [Next]_vars => DatesInOrder'
<1> SUFFICES ASSUME TypeOK, CopiesAgree, DatesInOrder, [Next]_vars PROVE DatesInOrder'
  BY DEF IInv
<1>0. /\ now \in Nat /\ now' \in Nat /\ now <= now'
      /\ \A p \in DOMAIN policies' : policies'[p].next <= now' + policies'[p].interval
  BY NextTyped, PolicyDates DEF TypeOK
<1> DEFINE Ordered(k) ==
      calls'[k].pc \in {"issue", "stamp"} =>
        /\ calls'[k].at <= now'
        /\ calls'[k].copy.next <= calls'[k].at + calls'[k].copy.interval
<1>b. SUFFICES \A k \in Requests : Ordered(k)
  BY <1>0 DEF DatesInOrder, InRotation
<1>a. ASSUME NEW k \in Requests, calls'[k] = calls[k] \/ calls'[k].pc \notin {"issue", "stamp"}
      PROVE  Ordered(k)
  <2>1. CASE calls'[k].pc \notin {"issue", "stamp"}
    BY <2>1
  <2>2. CASE calls'[k] = calls[k] /\ InRotation(k)
    <3>1. calls[k].at \in Nat
      BY <2>2, RotatingCalls DEF Rotating
    <3> QED  BY <1>0, <2>2, <3>1 DEF DatesInOrder
  <2> QED  BY <1>a, <2>1, <2>2 DEF InRotation
<1>1. ASSUME NEW h \in Requests, NEW p \in DOMAIN policies, NEW due, BeginRotation(h, p, due)
      PROVE  \A k \in Requests : Ordered(k)
  <2>1. calls'[h].at = now /\ calls'[h].copy = policies[p]
    BY <1>1 DEF BeginRotation, TypeOK
  <2>2. Ordered(h)
    BY <1>0, <2>1 DEF DatesInOrder
  <2>3. \A k \in Requests \ {h} : calls'[k] = calls[k]
    BY <1>1 DEF BeginRotation, TypeOK
  <2> QED  BY <1>a, <2>2, <2>3
<1>2. ASSUME NEW h \in Requests, NEW l \in Leases, NEW at \in 0..now, IssueRotated(h, l, at)
      PROVE  \A k \in Requests : Ordered(k)
  <2>1. InRotation(h) /\ calls[h] \in Rotating
    BY <1>2, RotatingCalls DEF IssueRotated, InRotation
  <2>2. /\ calls'[h].at = now /\ calls'[h].copy = calls[h].copy
        /\ \A k \in Requests \ {h} : calls'[k] = calls[k]
    BY <1>2, <2>1 DEF IssueRotated, GoStamp, Rotating, TypeOK
  <2>3. /\ calls[h].at <= now /\ calls[h].at \in Nat /\ calls[h].copy \in PolicyRecord
        /\ calls[h].copy.next <= calls[h].at + calls[h].copy.interval
    BY <2>1 DEF DatesInOrder, Rotating
  <2>4. Ordered(h)
    BY <1>0, <2>2, <2>3 DEF PolicyRecord
  <2> QED  BY <1>a, <2>2, <2>4
<1>3. ASSUME NEW h \in Requests, \/ RunDueRotations(h) \/ IssueFails(h)
                                 \/ \E at \in 0..now : RecordRotation(h, at)
      PROVE  \A k \in Requests : Ordered(k)
  <2>1. PICK value \in {Idle, [pc |-> "sweep", due |-> DuePolicies],
                         [pc |-> "sweep", due |-> calls[h].due]} :
          calls' = [calls EXCEPT ![h] = value]
    BY <1>3 DEF RunDueRotations, IssueFails, RecordRotation, Return
  <2>2. value.pc \notin {"issue", "stamp"}
    BY <2>1 DEF Idle
  <2>3. /\ calls'[h] = value
        /\ \A k \in Requests \ {h} : calls'[k] = calls[k]
    BY <2>1 DEF TypeOK
  <2> QED  BY <1>a, <2>2, <2>3
<1>4. ASSUME NEW h \in Requests, NEW p \in Policies, TriggerRotation(h, p) \/ RotateNext(h, p)
      PROVE  \A k \in Requests : Ordered(k)
  <2>1. PICK due : p \in DOMAIN policies /\ BeginRotation(h, p, due)
    BY <1>4 DEF TriggerRotation, RotateNext, CopiesAgree
  <2> QED  BY <1>1, <2>1
<1>5. CASE UNCHANGED calls
  BY <1>a, <1>5
<1>6. \/ UNCHANGED calls
      \/ \E h \in Requests : \/ \E p \in Policies : TriggerRotation(h, p) \/ RotateNext(h, p)
                             \/ \E l \in Leases, at \in 0..now : IssueRotated(h, l, at)
                             \/ RunDueRotations(h) \/ IssueFails(h)
                             \/ \E at \in 0..now : RecordRotation(h, at)
  BY DEF Next, Proceed, vars, Tick, IssueCredential, RevokeLease, RevokeLeasesByTarget,
         CreateRotationPolicy
<1> QED  BY <1>2, <1>3, <1>4, <1>5, <1>6

\* Only the record of a rotation takes a request out of the unrecorded ones.
LEMMA RecordMovesOn ==
  ASSUME IInv, DatesInOrder, [Next]_vars, NEW p \in DOMAIN policies,
         NEW h \in Unrecorded(p), h \notin Unrecorded(p)'
  PROVE  policies'[p].next >= calls[h].copy.next
<1>0. TypeOK /\ CopiesAgree
  BY DEF IInv
<1>1. h \in Requests /\ calls[h].pc = "stamp" /\ calls[h].policy = p /\ calls'[h] # calls[h]
  BY DEF Unrecorded
<1>2. PICK at \in 0..now : RecordRotation(h, at)
  <2>1. \A k \in Requests, q \in Policies : ~TriggerRotation(k, q) /\ ~RotateNext(k, q)
    BY <1>0, <1>1 DEF TriggerRotation, RotateNext, BeginRotation, TypeOK, Idle
  <2>2. \A k \in Requests : ~RunDueRotations(k)
    BY <1>0, <1>1 DEF RunDueRotations, TypeOK, Idle
  <2>3. \A k \in Requests, l \in Leases, at \in 0..now : ~IssueRotated(k, l, at)
    BY <1>0, <1>1 DEF IssueRotated, GoStamp, TypeOK
  <2>4. \A k \in Requests : ~IssueFails(k)
    BY <1>0, <1>1 DEF IssueFails, Return, TypeOK
  <2>5. \A k \in Requests \ {h}, at \in 0..now : ~RecordRotation(k, at)
    BY <1>0, <1>1 DEF RecordRotation, Return, TypeOK
  <2> QED
    BY <1>1, <2>1, <2>2, <2>3, <2>4, <2>5
       DEF Next, Proceed, vars, Tick, IssueCredential, RevokeLease, RevokeLeasesByTarget,
           CreateRotationPolicy
<1>3. /\ calls[h].at \in Nat /\ at \in Nat /\ calls[h].copy \in PolicyRecord
      /\ calls[h].copy.next <= calls[h].at + calls[h].copy.interval
      /\ calls[h].at <= at
  BY <1>0, <1>1, <1>2, RotatingCalls DEF InRotation, Rotating, DatesInOrder, RecordRotation
<1>4. policies'[p].next = at + calls[h].copy.interval
  <2>1. policies \in [DOMAIN policies -> PolicyRecord]
    BY <1>0 DEF TypeOK, IsStore
  <2> QED  BY <1>1, <1>2, <1>3, <2>1 DEF RecordRotation, PolicyRecord
<1> QED  BY <1>3, <1>4 DEF PolicyRecord

-----------------------------------------------------------------------------
(* The theorems *)

LEMMA Invariance == Spec => []IInv
<1>1. Init => IInv
  BY InitInv
<1>2. IInv /\ [Next]_vars => IInv'
  BY NextTyped, NextCopies, NextOnePolicy DEF IInv
<1> QED  BY <1>1, <1>2, PTL DEF Spec

\* Leases, policies and requests stay well formed.
THEOREM TypeCorrect == Spec => []TypeOK
BY Invariance, PTL DEF IInv

\* However rotations write back the copies they took, no two policies come
\* to rotate the same scope.
THEOREM ScopesAreUnique == Spec => []OnePolicyPerScope
BY Invariance, PTL DEF IInv

\* Whatever ttl a policy was accepted with, and whatever the bounds and the
\* default are, its rotations are not refused for it.
THEOREM AlwaysIssuable == Spec => []RotationsIssuable
BY Invariance, PTL DEF IInv

\* For every finite number of requests at a time, a rotation is recorded for
\* each lease issued by rotating a policy, and for nothing else.
THEOREM RotationsBalance == Spec => []RotationsAccounted
<1>1. Init => FiniteRotations /\ RotationsAccounted
  BY DEF Init, EmptyStore, FiniteRotations, RotationsAccounted
<1>2. IInv /\ FiniteRotations /\ RotationsAccounted /\ [Next]_vars
        => FiniteRotations' /\ RotationsAccounted'
  BY NextAccounted
<1> QED  BY <1>1, <1>2, Invariance, PTL DEF Spec

\* A revoked lease keeps the instant of its first revocation.
THEOREM RevokedForGood == Spec => RevocationsAreFinal
<1>1. ASSUME TypeOK, [Next]_vars, NEW l \in DOMAIN leases, leases[l].revokedAt # Never
      PROVE  leases'[l] = leases[l]
  <2>1. CASE UNCHANGED leases
    BY <2>1
  <2>2. ASSUME NEW k \in Leases, NEW scope, NEW ttl, NEW at, StoreLease(k, scope, ttl, at)
        PROVE  leases'[l] = leases[l]
    BY <1>1, <2>2 DEF StoreLease, Put
  <2>3. ASSUME NEW k \in Leases, RevokeLease(k)
        PROVE  leases'[l] = leases[l]
    BY <1>1, <2>3 DEF RevokeLease, TypeOK, IsStore
  <2>4. ASSUME NEW target \in Targets, NEW at, RevokeLeasesByTarget(target, at)
        PROVE  leases'[l] = leases[l]
    BY <1>1, <2>4 DEF RevokeLeasesByTarget, BulkRevoked
  <2>5. \/ UNCHANGED leases
        \/ \E k \in Leases, scope \in Scope, ttl \in TTLs, at \in 0..now :
             IssueCredential(k, scope, ttl, at)
        \/ \E h \in Requests, k \in Leases, at \in 0..now : IssueRotated(h, k, at)
        \/ \E k \in Leases : RevokeLease(k)
        \/ \E target \in Targets, at \in 0..now : RevokeLeasesByTarget(target, at)
    BY <1>1 DEF Next, Proceed, vars, Tick, CreateRotationPolicy, TriggerRotation,
                RunDueRotations, RotateNext, BeginRotation, IssueFails, RecordRotation
  <2> QED
    BY <2>1, <2>2, <2>3, <2>4, <2>5 DEF IssueCredential, IssueRotated
<1>2. IInv /\ [Next]_vars =>
        [\A l \in DOMAIN leases :
           leases[l].revokedAt # Never => leases'[l] = leases[l]]_vars
  BY <1>1 DEF IInv
<1> QED  BY <1>2, Invariance, PTL DEF RevocationsAreFinal, Spec

\* For every number of overlapping rotations: none sets a due date to before
\* the one it found.
THEOREM DueDatesOrdered == Spec => DueDatesKeepOrder
<1>1. Init => DatesInOrder
  BY DEF Init, EmptyStore, Idle, DatesInOrder, InRotation
<1>2. IInv /\ DatesInOrder /\ [Next]_vars => DatesInOrder'
  BY NextDates
<1>3. IInv /\ DatesInOrder /\ [Next]_vars =>
        [\A p \in DOMAIN policies : \A h \in Unrecorded(p) :
           h \notin Unrecorded(p)' => policies'[p].next >= calls[h].copy.next]_vars
  BY RecordMovesOn
<1> QED  BY <1>1, <1>2, <1>3, Invariance, PTL DEF DueDatesKeepOrder, Spec

\* Rotation by stale copies under three locks implements RotationBook, where
\* every change is made in place and at once.
THEOREM ImplementsTheBook == Spec => ImplementsBook
<1>1. Init => Book!BookInit
  BY BookStart
<1>2. IInv /\ [Next]_vars => [Book!BookNext]_(Book!book)
  BY BookStep
<1> QED  BY <1>1, <1>2, Invariance, PTL DEF Spec, ImplementsBook, Book!BookSpec

-----------------------------------------------------------------------------
(* Secrets *)

\* Whatever the key-encryption key, unwrapping undoes wrapping.
LEMMA UnwrapsWhatItWraps ==
  ASSUME NEW dek \in Key
  PROVE  WrapKey(dek) \in Key /\ UnwrapKey(WrapKey(dek)) = dek
<1>1. \A i \in 0..(KeySize - 1) : dek[i] \in Byte /\ KekByte(i) \in Byte
  <2>1. \A i \in 0..(KeySize - 1) : i % KeySize \in 0..(KeySize - 1)
    BY KeyAssumption
  <2> QED  BY <2>1, KeyAssumption DEF Key, KekByte
<1>2. \A a, b \in Byte : Xor(a, b) \in Byte /\ Xor(Xor(a, b), b) = a
  BY DEF Xor, Byte
<1>3. WrapKey(dek) = [i \in 0..(KeySize - 1) |-> Xor(dek[i], KekByte(i))]
  BY DEF WrapKey, Key
<1>4. WrapKey(dek) \in Key
  BY <1>1, <1>2, <1>3 DEF Key
<1>5. UnwrapKey(WrapKey(dek)) = [i \in 0..(KeySize - 1) |-> dek[i]]
  BY <1>1, <1>2, <1>3 DEF UnwrapKey
<1> QED  BY <1>4, <1>5 DEF Key

\* Names are stored trimmed, and the history knows each of them.
SecretsTyped == /\ IsStore(secrets, SecretIds, SecretRecord)
                /\ IsStore(entrusted, Words, String)
                /\ \A s \in DOMAIN secrets : /\ ~secrets[s].name.padded
                                             /\ secrets[s].name.word \in DOMAIN entrusted

SecretsInv == SecretsTyped /\ SecretsReadBack

LEMMA Trimmed ==
  ASSUME NEW string \in String
  PROVE  /\ TrimSpace(string) \in String
         /\ ~TrimSpace(string).padded
         /\ TrimSpace(string).word = string.word
         /\ ~IsEmpty(string) => string.word \in Words
BY DEF String, TrimSpace, IsEmpty

\* Two trimmed names are one name if they are the same word.
LEMMA TrimmedFold ==
  ASSUME NEW a \in String, NEW b \in String, ~a.padded, ~b.padded, a.word = b.word
  PROVE  EqualFold(a, b)
BY DEF EqualFold, String

LEMMA StoreSecretKeeps ==
  ASSUME SecretsInv, NEW s \in SecretIds, NEW name \in Names, NEW value \in Values,
         NEW dek \in DataKeys, NEW nonce \in Nonces, StoreSecret(s, name, value, dek, nonce)
  PROVE  SecretsInv'
<1> DEFINE record == Envelope(TrimSpace(name), TrimSpace(value), dek, nonce)
           word == name.word
<1>1. /\ TrimSpace(name) \in String /\ TrimSpace(value) \in String
      /\ ~TrimSpace(name).padded /\ TrimSpace(name).word = word /\ word \in Words
  BY Trimmed, SecretsAssumption DEF StoreSecret
<1>2. dek \in Key /\ WrapKey(dek) \in Key /\ UnwrapKey(WrapKey(dek)) = dek
  BY UnwrapsWhatItWraps, SecretsAssumption
<1>3. /\ record \in SecretRecord /\ record.name = TrimSpace(name)
      /\ record.ciphertext = [key |-> dek, nonce |-> nonce, plaintext |-> TrimSpace(value)]
      /\ record.wrappedDEK = WrapKey(dek) /\ record.nonce = nonce
  BY <1>1, <1>2 DEF Envelope, Seal, SecretRecord
<1>4. /\ s \notin DOMAIN secrets
      /\ secrets' = Put(secrets, s, record)
      /\ Entrust(word, TrimSpace(value))
  BY <1>1 DEF StoreSecret
<1> HIDE DEF record
\* The name was free, so no secret bears this word.
<1>5. \A x \in DOMAIN secrets : secrets[x].name.word # word
  <2> SUFFICES ASSUME NEW x \in DOMAIN secrets, secrets[x].name.word = word
               PROVE  FALSE
    OBVIOUS
  <2>1. secrets[x].name \in String /\ ~secrets[x].name.padded
    BY DEF SecretsInv, SecretsTyped, IsStore, SecretRecord
  <2>2. EqualFold(secrets[x].name, TrimSpace(name))
    BY <2>1, <1>1, TrimmedFold
  <2> QED  BY <2>2 DEF StoreSecret, SecretNameFree
<1>6. word \notin DOMAIN entrusted
  <2> SUFFICES ASSUME word \in DOMAIN entrusted PROVE FALSE
    OBVIOUS
  <2>1. PICK x \in DOMAIN secrets : SecretsOf(word) = {x}
    BY DEF SecretsInv, SecretsReadBack
  <2> QED  BY <2>1, <1>5 DEF SecretsOf
<1>7. /\ DOMAIN secrets' = DOMAIN secrets \cup {s} /\ secrets'[s] = record
      /\ \A x \in DOMAIN secrets : secrets'[x] = secrets[x]
      /\ DOMAIN entrusted' = DOMAIN entrusted \cup {word}
      /\ entrusted'[word] = TrimSpace(value)
      /\ \A w \in DOMAIN entrusted : w # word => entrusted'[w] = entrusted[w]
  <2>1. /\ DOMAIN secrets' = DOMAIN secrets \cup {s} /\ secrets'[s] = record
        /\ \A x \in DOMAIN secrets : secrets'[x] = secrets[x]
    BY <1>4 DEF Put
  <2>2. /\ DOMAIN entrusted' = DOMAIN entrusted \cup {word}
        /\ entrusted'[word] = TrimSpace(value)
        /\ \A w \in DOMAIN entrusted : w # word => entrusted'[w] = entrusted[w]
    BY <1>4, <1>6 DEF Entrust, Put
  <2> QED  BY <2>1, <2>2
<1>8. SecretsTyped'
  <2>1. IsStore(secrets', SecretIds, SecretRecord) /\ IsStore(entrusted', Words, String)
    BY <1>1, <1>3, <1>4, <1>6, PutStore DEF Entrust, SecretsInv, SecretsTyped
  <2> QED  BY <2>1, <1>1, <1>3, <1>7 DEF SecretsInv, SecretsTyped
<1>9. SecretsOf(word)' = {s} /\ GetSecret(s)' = {entrusted'[word]}
  <2>1. SecretsOf(word)' = {s}
    BY <1>1, <1>3, <1>7, <1>5 DEF SecretsOf
  <2>2. GetSecret(s)' = {TrimSpace(value)}
    BY <1>2, <1>3, <1>7 DEF GetSecret, Decrypted, Opens
  <2> QED  BY <2>1, <2>2, <1>7
<1>10. ASSUME NEW w \in DOMAIN entrusted
       PROVE  \E x \in DOMAIN secrets' : /\ SecretsOf(w)' = {x}
                                         /\ GetSecret(x)' = {entrusted'[w]}
  <2>1. PICK x \in DOMAIN secrets : SecretsOf(w) = {x} /\ GetSecret(x) = {entrusted[w]}
    BY DEF SecretsInv, SecretsReadBack
  <2>2. w # word
    BY <1>6
  <2>3. SecretsOf(w)' = {x}
    BY <2>1, <2>2, <1>1, <1>3, <1>4, <1>7 DEF SecretsOf
  <2>4. GetSecret(x)' = {entrusted'[w]}
    BY <2>1, <2>2, <1>7 DEF GetSecret
  <2> QED  BY <2>3, <2>4, <1>7
<1>11. SecretsReadBack'
  BY <1>7, <1>9, <1>10 DEF SecretsReadBack
<1> QED  BY <1>8, <1>11 DEF SecretsInv

\* Whatever the key-encryption key and the spelling of the names: one secret
\* of each name, that reads back as the value stored under it.
THEOREM SecretsSurvive == VaultSpec => []SecretsReadBack
<1>1. VaultInit => SecretsInv
  BY EmptyIsStore DEF VaultInit, SecretsInit, SecretsInv, SecretsTyped, SecretsReadBack
<1>2. SecretsInv /\ [VaultNext]_vaultVars => SecretsInv'
  <2>1. SecretsInv /\ UNCHANGED secretVars => SecretsInv'
    BY DEF secretVars, SecretsInv, SecretsTyped, SecretsReadBack, SecretsOf, GetSecret
  <2>2. SecretsInv /\ SecretsNext => SecretsInv'
    BY StoreSecretKeeps DEF SecretsNext
  <2> QED  BY <2>1, <2>2 DEF VaultNext, vaultVars
<1>3. SecretsInv => SecretsReadBack
  BY DEF SecretsInv
<1> QED  BY <1>1, <1>2, <1>3, PTL DEF VaultSpec

\* The whole service does to leases and policies what VaultRotation says: the
\* theorems above hold of it.
THEOREM SecretsStayApart == VaultSpec => Spec
<1>1. VaultInit => Init
  BY DEF VaultInit
<1>2. [VaultNext]_vaultVars => [Next]_vars
  BY DEF VaultNext, vaultVars
<1> QED  BY <1>1, <1>2, PTL DEF VaultSpec, Spec
=============================================================================
