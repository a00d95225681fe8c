---------------------------- MODULE GatewayAccess ----------------------------
(***************************************************************************)
(* GatewayService (internal/service/gateway_service.go): just-in-time      *)
(* grants and the privileged sessions opened under them.                   *)
(*                                                                         *)
(* InitiateSession validates the grant under one lock and stores the       *)
(* session under another.  Requests between the two are kept in calls.     *)
(*                                                                         *)
(* A user, an asset or a protocol stands for all the spellings that        *)
(* TrimSpace, ToLower and EqualFold identify.  Reasons, metadata and the   *)
(* approver are abstracted, and a TTL is one of the admissible ones.       *)
(***************************************************************************)
EXTENDS Integers, FiniteSets, Stores

CONSTANTS Users, Assets, Protocols,
          Requests,          \* requests served at the same time
          Grants, Sessions,  \* random identifiers
          NoGrant,           \* the empty JITGrantID
          TTLs,              \* ttl_seconds between 60 and 86400
          MaxTime            \* bound: the clock stops here

ASSUME RequestsAssumption == IsFiniteSet(Requests)
ASSUME GrantAssumption == NoGrant \notin Grants
ASSUME TimeAssumption == TTLs \subseteq Nat /\ MaxTime \in Nat

VARIABLES now,        \* time.Now()
          sessions,   \* GatewayService.sessions
          jitGrants,  \* GatewayService.jitGrants
          calls,      \* the InitiateSession requests being served
          opened      \* history: the grant of each session, and when it was stored

vars == <<now, sessions, jitGrants, calls, opened>>

-----------------------------------------------------------------------------
(* Types *)

\* What is asked for: who, where, how.
Scope == [user : Users, asset : Assets, protocol : Protocols]

Idle == [pc |-> "idle"]
Creating == [pc : {"create"}, scope : Scope, grant : Grants, at : Nat]

GrantRecord == [scope : Scope, status : {"pending", "approved", "denied"}, expires : Nat]
SessionRecord == [scope : Scope, status : {"active", "terminated"}]
Opening == [grant : Grants \cup {NoGrant}, at : Nat]

\* Grants, sessions and requests are well formed.
TypeOK == /\ now \in Nat
          /\ IsStore(sessions, Sessions, SessionRecord)
          /\ IsStore(jitGrants, Grants, GrantRecord)
          /\ calls \in [Requests -> {Idle} \cup Creating]
          /\ opened \in [DOMAIN sessions -> Opening]

-----------------------------------------------------------------------------
Init == /\ now = 0
        /\ sessions = EmptyStore
        /\ jitGrants = EmptyStore
        /\ calls = [h \in Requests |-> Idle]
        /\ opened = EmptyStore

Tick == /\ now < MaxTime
        /\ now' = now + 1
        /\ UNCHANGED <<sessions, jitGrants, calls, opened>>

-----------------------------------------------------------------------------
(* Grants *)

\* The clock is read before the lock is taken.  Nobody knows the identifier
\* before the answer and no operation goes over all grants, so the reading
\* and the insertion are one step.
RequestJITGrant(g, scope, ttl) ==
  /\ g \notin DOMAIN jitGrants
  /\ jitGrants' = Put(jitGrants, g, [scope |-> scope, status |-> "pending",
                                    expires |-> now + ttl])
  /\ UNCHANGED <<now, sessions, calls, opened>>

\* Mutant of Undecided: a decision may be taken again.
Undecided_Never(g) == g \in DOMAIN jitGrants

Undecided(g) == g \in DOMAIN jitGrants /\ jitGrants[g].status = "pending"

Decide(g, status) == /\ jitGrants' = [jitGrants EXCEPT ![g].status = status]
                     /\ UNCHANGED <<now, sessions, calls, opened>>

\* Mutant of ApproveJITGrant: the deadline is not looked at.
ApproveJITGrant_Expired(g) == Undecided(g) /\ Decide(g, "approved")

ApproveJITGrant(g) == /\ Undecided(g)
                      /\ now <= jitGrants[g].expires
                      /\ Decide(g, "approved")

\* An expired request may still be denied.
DenyJITGrant(g) == /\ Undecided(g)
                   /\ Decide(g, "denied")

-----------------------------------------------------------------------------
(* Sessions *)

NewSession(s, scope, grant, at) ==
  /\ s \notin DOMAIN sessions
  /\ sessions' = Put(sessions, s, [scope |-> scope, status |-> "active"])
  /\ opened' = Put(opened, s, [grant |-> grant, at |-> at])

\* Without a grant id nothing is validated.
InitiateWithoutGrant(s, scope) == /\ NewSession(s, scope, NoGrant, now)
                                  /\ UNCHANGED <<now, jitGrants, calls>>

\* Mutant of Covers: the asset is not compared.
Covers_AnyAsset(grant, scope) == grant.scope.user = scope.user

\* The grant is for this user, asset and protocol.
Covers(grant, scope) == grant.scope = scope

\* Mutant of Usable: the expiry of an approved grant is not checked.
Usable_Forever(grant) == grant.status = "approved"

Usable(grant) == grant.status = "approved" /\ now <= grant.expires

\* validateJITGrant copies the grant under the read lock and checks the copy.
\* An approved grant never changes again, so the copy is as good as the
\* grant at the moment of the check.
ValidateJITGrant(h, g, scope) ==
  /\ calls[h] = Idle
  /\ g \in DOMAIN jitGrants
  /\ Usable(jitGrants[g])
  /\ Covers(jitGrants[g], scope)
  /\ calls' = [calls EXCEPT ![h] = [pc |-> "create", scope |-> scope,
                                    grant |-> g, at |-> now]]
  /\ UNCHANGED <<now, sessions, jitGrants, opened>>

CreateSession(h, s) == /\ calls[h].pc = "create"
                       /\ NewSession(s, calls[h].scope, calls[h].grant, now)
                       /\ calls' = [calls EXCEPT ![h] = Idle]
                       /\ UNCHANGED <<now, jitGrants>>

\* Mutant of TerminateSession: the session is deleted, not marked.
TerminateSession_Deletes(s) ==
  /\ s \in DOMAIN sessions
  /\ sessions' = Without(sessions, {s})
  /\ UNCHANGED <<now, jitGrants, calls, opened>>

TerminateSession(s) == /\ s \in DOMAIN sessions
                       /\ sessions[s].status # "terminated"
                       /\ sessions' = [sessions EXCEPT ![s].status = "terminated"]
                       /\ UNCHANGED <<now, jitGrants, calls, opened>>

-----------------------------------------------------------------------------
Next == \/ Tick
        \/ \E g \in Grants, scope \in Scope, ttl \in TTLs : RequestJITGrant(g, scope, ttl)
        \/ \E g \in Grants : ApproveJITGrant(g) \/ DenyJITGrant(g)
        \/ \E s \in Sessions, scope \in Scope : InitiateWithoutGrant(s, scope)
        \/ \E s \in Sessions : TerminateSession(s)
        \/ \E h \in Requests : \/ \E g \in Grants, scope \in Scope : ValidateJITGrant(h, g, scope)
                               \/ \E s \in Sessions : CreateSession(h, s)

Spec == Init /\ [][Next]_vars

-----------------------------------------------------------------------------
(* Safety *)

\* Every session opened under a grant has exactly the scope of that grant,
\* and the grant is approved: a denial never reaches a grant that a session
\* or a request in InitiateSession already relies on.
GrantsCoverSessions ==
  /\ \A s \in DOMAIN sessions :
       opened[s].grant # NoGrant =>
         LET g == opened[s].grant
         IN  /\ g \in DOMAIN jitGrants
             /\ jitGrants[g].status = "approved"
             /\ jitGrants[g].scope = sessions[s].scope
  /\ \A h \in Requests :
       calls[h].pc = "create" =>
         /\ calls[h].grant \in DOMAIN jitGrants
         /\ jitGrants[calls[h].grant].status = "approved"
         /\ jitGrants[calls[h].grant].scope = calls[h].scope

\* ApproveJITGrant and DenyJITGrant decide once: a decided grant keeps its
\* decision, its scope and its deadline.
DecisionsAreFinal ==
  [][\A g \in DOMAIN jitGrants :
       jitGrants[g].status # "pending" => jitGrants'[g] = jitGrants[g]]_vars

\* Sessions stored under g after g expired, and requests about to store one.
LateSessions(g) == {s \in DOMAIN sessions : /\ opened[s].grant = g
                                            /\ opened[s].at > jitGrants[g].expires}
LateRequests(g) == {h \in Requests : calls[h].pc = "create" /\ calls[h].grant = g}

\* A session can outrun the expiry of its grant only if its request had
\* been validated before: per grant, no more than the requests being served.
LateSessionsBounded ==
  \A g \in DOMAIN jitGrants :
    now > jitGrants[g].expires =>
      Cardinality(LateSessions(g)) + Cardinality(LateRequests(g)) <= Cardinality(Requests)

-----------------------------------------------------------------------------
(* Refinement *)

GrantsWith(status) == {g \in DOMAIN jitGrants : jitGrants[g].status = status}

Broker ==
  INSTANCE AccessBroker
    WITH clock <- now,
         asked <- [g \in DOMAIN jitGrants |-> [scope |-> jitGrants[g].scope,
                                               until |-> jitGrants[g].expires]],
         approved <- GrantsWith("approved"), denied <- GrantsWith("denied"),
         held <- [s \in DOMAIN sessions |-> [scope |-> sessions[s].scope,
                                             grant |-> opened[s].grant]],
         closed <- {s \in DOMAIN sessions : sessions[s].status = "terminated"}

\* A grant is decided once and never approved past its deadline, and
\* InitiateSession is as good as one step: validating under one lock and
\* storing under another has the effect of opening the session at the moment
\* it is stored, under a grant approved at that moment.
ImplementsBroker == Broker!BrokerSpec
=============================================================================
