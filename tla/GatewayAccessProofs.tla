------------------------- MODULE GatewayAccessProofs -------------------------
(***************************************************************************)
(* Safety of GatewayAccess for every set of users, assets, protocols,      *)
(* requests, grants and sessions, and every lifetime and bound.            *)
(***************************************************************************)
EXTENDS GatewayAccess, StoreTheorems, FiniteSetTheorems

\* The inductive invariant: GrantsCoverSessions needs nothing but the types
\* and the fact that decisions are final (DecidedKept).
IInv == TypeOK /\ GrantsCoverSessions

\* The invariant of the bound on late sessions: none was opened in the future,
\* so a grant that has not expired has none, and then the bound is a count.
OpenedInThePast == \A s \in DOMAIN sessions : opened[s].at <= now
LateFinite == \A g \in DOMAIN jitGrants : IsFiniteSet(LateSessions(g))
BoundInv == OpenedInThePast /\ LateFinite /\ LateSessionsBounded

LEMMA InitInv == Init => IInv
BY EmptyIsStore DEF Init, IInv, TypeOK, GrantsCoverSessions, Idle, EmptyStore, IsStore

-----------------------------------------------------------------------------
(* Type correctness *)

LEMMA NewSessionTyped ==
  ASSUME TypeOK, NEW s \in Sessions, NEW scope \in Scope,
         NEW grant \in Grants \cup {NoGrant}, NEW at \in Nat,
         NewSession(s, scope, grant, at)
  PROVE  /\ IsStore(sessions', Sessions, SessionRecord)
         /\ opened' \in [DOMAIN sessions' -> Opening]
<1>1. /\ [scope |-> scope, status |-> "active"] \in SessionRecord
      /\ [grant |-> grant, at |-> at] \in Opening
  BY DEF SessionRecord, Opening
<1>2. IsStore(sessions', Sessions, SessionRecord)
  BY <1>1, PutStore DEF NewSession, TypeOK
<1>3. IsStore(opened, DOMAIN sessions, Opening)
  BY DEF TypeOK, IsStore
<1>4. opened' \in [DOMAIN sessions' -> Opening]
  BY <1>1, <1>3, PutEffect DEF NewSession, TypeOK, Put
<1> QED  BY <1>2, <1>4

LEMMA DecideTyped ==
  ASSUME TypeOK, NEW g \in Grants, Undecided(g),
         NEW status \in {"approved", "denied"}, Decide(g, status)
  PROVE  TypeOK'
<1>1. IsStore(jitGrants', Grants, GrantRecord)
  BY DEF TypeOK, IsStore, Undecided, Decide, GrantRecord
<1> QED  BY <1>1 DEF Decide, TypeOK

LEMMA NextTyped == TypeOK /\ [Next]_vars => TypeOK'
<1> SUFFICES ASSUME TypeOK, [Next]_vars PROVE TypeOK'
  OBVIOUS
<1> USE TimeAssumption
<1>1. CASE Tick
  BY <1>1 DEF Tick, TypeOK
<1>2. ASSUME NEW g \in Grants, NEW scope \in Scope, NEW ttl \in TTLs,
             RequestJITGrant(g, scope, ttl)
      PROVE  TypeOK'
  <2>1. [scope |-> scope, status |-> "pending", expires |-> now + ttl] \in GrantRecord
    BY DEF GrantRecord, TypeOK
  <2>2. IsStore(jitGrants', Grants, GrantRecord)
    BY <1>2, <2>1, PutStore DEF RequestJITGrant, TypeOK
  <2> QED  BY <1>2, <2>2 DEF RequestJITGrant, TypeOK
<1>3. ASSUME NEW g \in Grants, ApproveJITGrant(g) \/ DenyJITGrant(g)
      PROVE  TypeOK'
  BY <1>3, DecideTyped DEF ApproveJITGrant, DenyJITGrant
<1>4. ASSUME NEW s \in Sessions, NEW scope \in Scope, InitiateWithoutGrant(s, scope)
      PROVE  TypeOK'
  <2>1. now \in Nat
    BY DEF TypeOK
  <2> QED  BY <1>4, <2>1, NewSessionTyped DEF InitiateWithoutGrant, TypeOK
<1>5. ASSUME NEW s \in Sessions, TerminateSession(s)
      PROVE  TypeOK'
  <2>1. IsStore(sessions', Sessions, SessionRecord) /\ DOMAIN sessions' = DOMAIN sessions
    BY <1>5 DEF TerminateSession, TypeOK, IsStore, SessionRecord
  <2> QED  BY <1>5, <2>1 DEF TerminateSession, TypeOK
<1>6. ASSUME NEW h \in Requests, NEW g \in Grants, NEW scope \in Scope,
             ValidateJITGrant(h, g, scope)
      PROVE  TypeOK'
  <2>1. [pc |-> "create", scope |-> scope, grant |-> g, at |-> now] \in Creating
    BY DEF Creating, TypeOK
  <2> QED  BY <1>6, <2>1 DEF ValidateJITGrant, TypeOK
<1>7. ASSUME NEW h \in Requests, NEW s \in Sessions, CreateSession(h, s)
      PROVE  TypeOK'
  <2>1. calls[h] \in Creating
    BY <1>7 DEF CreateSession, TypeOK, Idle
  <2>2. /\ calls[h].scope \in Scope
        /\ calls[h].grant \in Grants \cup {NoGrant}
        /\ now \in Nat
    BY <2>1 DEF Creating, TypeOK
  <2>3. calls' \in [Requests -> {Idle} \cup Creating]
    BY <1>7 DEF CreateSession, TypeOK
  <2> QED  BY <1>7, <2>2, <2>3, NewSessionTyped DEF CreateSession, TypeOK
<1>8. CASE UNCHANGED vars
  BY <1>8 DEF vars, TypeOK
<1> QED
  BY <1>1, <1>2, <1>3, <1>4, <1>5, <1>6, <1>7, <1>8 DEF Next

-----------------------------------------------------------------------------
(* Decisions are final *)

\* A decided grant keeps everything it has.
DecidedKept == \A g \in DOMAIN jitGrants :
                 jitGrants[g].status # "pending" =>
                   g \in DOMAIN jitGrants' /\ jitGrants'[g] = jitGrants[g]

LEMMA DecisionsKept == TypeOK /\ [Next]_vars => DecidedKept
<1> SUFFICES ASSUME TypeOK, [Next]_vars PROVE DecidedKept
  OBVIOUS
<1>1. CASE UNCHANGED jitGrants
  BY <1>1 DEF DecidedKept
<1>2. ASSUME NEW g \in Grants, NEW scope \in Scope, NEW ttl \in TTLs,
             RequestJITGrant(g, scope, ttl)
      PROVE  DecidedKept
  BY <1>2 DEF RequestJITGrant, Put, DecidedKept
<1>3. ASSUME NEW g \in Grants, ApproveJITGrant(g) \/ DenyJITGrant(g)
      PROVE  DecidedKept
  BY <1>3 DEF ApproveJITGrant, DenyJITGrant, Undecided, Decide, DecidedKept,
              TypeOK, IsStore
<1>4. \/ \E g \in Grants, scope \in Scope, ttl \in TTLs : RequestJITGrant(g, scope, ttl)
      \/ \E g \in Grants : ApproveJITGrant(g) \/ DenyJITGrant(g)
      \/ UNCHANGED jitGrants
  BY DEF Next, vars, Tick, InitiateWithoutGrant, TerminateSession,
         ValidateJITGrant, CreateSession
<1> QED  BY <1>1, <1>2, <1>3, <1>4

-----------------------------------------------------------------------------
(* Grants cover the sessions opened under them *)

\* In these grants, g is approved for the scope.
CoveredBy(grants, g, scope) == /\ g \in DOMAIN grants
                               /\ grants[g].status = "approved"
                               /\ grants[g].scope = scope

\* GrantsCoverSessions, of the state or of the next one.
Covered(grants, stored, openings, requests) ==
  /\ \A s \in DOMAIN stored :
       openings[s].grant # NoGrant => CoveredBy(grants, openings[s].grant, stored[s].scope)
  /\ \A h \in Requests :
       requests[h].pc = "create" => CoveredBy(grants, requests[h].grant, requests[h].scope)

LEMMA CoveredIsInvariant ==
  /\ GrantsCoverSessions <=> Covered(jitGrants, sessions, opened, calls)
  /\ GrantsCoverSessions' <=> Covered(jitGrants', sessions', opened', calls')
BY DEF GrantsCoverSessions, Covered, CoveredBy

\* What a decided grant covers it covers for ever.
LEMMA CoverKept ==
  ASSUME DecidedKept, NEW g, NEW scope, CoveredBy(jitGrants, g, scope)
  PROVE  CoveredBy(jitGrants', g, scope)
BY DEF DecidedKept, CoveredBy

LEMMA NextCovered == IInv /\ [Next]_vars => GrantsCoverSessions'
<1> SUFFICES ASSUME TypeOK, Covered(jitGrants, sessions, opened, calls), [Next]_vars
             PROVE  Covered(jitGrants', sessions', opened', calls')
  BY CoveredIsInvariant DEF IInv
<1>0. Covered(jitGrants', sessions, opened, calls)
  BY DecisionsKept, CoverKept DEF Covered
<1>1. CASE UNCHANGED <<sessions, calls, opened>>
  BY <1>0, <1>1
<1>2. ASSUME NEW s \in Sessions, NEW scope \in Scope, InitiateWithoutGrant(s, scope)
      PROVE  Covered(jitGrants', sessions', opened', calls')
  <2>1. NewSession(s, scope, NoGrant, now) /\ calls' = calls
    BY <1>2 DEF InitiateWithoutGrant
  <2>2. /\ DOMAIN sessions' = DOMAIN sessions \cup {s}
        /\ opened'[s].grant = NoGrant
        /\ \A x \in DOMAIN sessions : /\ sessions'[x] = sessions[x]
                                       /\ opened'[x] = opened[x]
    BY <2>1 DEF NewSession, Put, TypeOK
  <2> QED  BY <1>0, <2>1, <2>2 DEF Covered
<1>3. ASSUME NEW s \in Sessions, TerminateSession(s)
      PROVE  Covered(jitGrants', sessions', opened', calls')
  <2>1. /\ DOMAIN sessions' = DOMAIN sessions
        /\ \A x \in DOMAIN sessions : sessions'[x].scope = sessions[x].scope
    BY <1>3 DEF TerminateSession, TypeOK, IsStore, SessionRecord
  <2> QED  BY <1>0, <1>3, <2>1 DEF TerminateSession, Covered
<1>4. ASSUME NEW h \in Requests, NEW g \in Grants, NEW scope \in Scope,
             ValidateJITGrant(h, g, scope)
      PROVE  Covered(jitGrants', sessions', opened', calls')
  <2>1. CoveredBy(jitGrants', g, scope)
    BY <1>4 DEF ValidateJITGrant, Usable, Covers, CoveredBy
  <2>2. /\ calls'[h].grant = g /\ calls'[h].scope = scope
        /\ \A k \in Requests \ {h} : calls'[k] = calls[k]
    BY <1>4 DEF ValidateJITGrant, TypeOK
  <2> QED  BY <1>0, <1>4, <2>1, <2>2 DEF ValidateJITGrant, Covered
<1>5. ASSUME NEW h \in Requests, NEW s \in Sessions, CreateSession(h, s)
      PROVE  Covered(jitGrants', sessions', opened', calls')
  <2>1. CoveredBy(jitGrants', calls[h].grant, calls[h].scope)
    BY <1>0, <1>5 DEF CreateSession, Covered
  <2>2. NewSession(s, calls[h].scope, calls[h].grant, now)
    BY <1>5 DEF CreateSession
  <2>3. /\ DOMAIN sessions' = DOMAIN sessions \cup {s}
        /\ sessions'[s].scope = calls[h].scope
        /\ opened'[s].grant = calls[h].grant
        /\ \A x \in DOMAIN sessions : /\ sessions'[x] = sessions[x]
                                       /\ opened'[x] = opened[x]
    BY <2>2 DEF NewSession, Put, TypeOK
  <2>4. \A k \in Requests : calls'[k].pc = "create" => calls'[k] = calls[k]
    BY <1>5 DEF CreateSession, Idle, TypeOK
  <2> QED  BY <1>0, <2>1, <2>3, <2>4 DEF Covered
<1>6. Tick \/ (\E g \in Grants : ApproveJITGrant(g) \/ DenyJITGrant(g))
           \/ (\E g \in Grants, scope \in Scope, ttl \in TTLs : RequestJITGrant(g, scope, ttl))
           \/ UNCHANGED vars => UNCHANGED <<sessions, calls, opened>>
  BY DEF Tick, ApproveJITGrant, DenyJITGrant, Decide, RequestJITGrant, vars
<1> QED
  BY <1>1, <1>2, <1>3, <1>4, <1>5, <1>6 DEF Next

-----------------------------------------------------------------------------
(* Few sessions outrun their grant *)

LEMMA InitBound == Init => BoundInv
BY DEF Init, BoundInv, OpenedInThePast, LateFinite, LateSessionsBounded, EmptyStore

LEMMA LateRequestsFinite ==
  ASSUME NEW g
  PROVE  /\ IsFiniteSet(LateRequests(g))
         /\ Cardinality(LateRequests(g)) \in Nat
         /\ Cardinality(LateRequests(g)) <= Cardinality(Requests)
<1>1. LateRequests(g) \in SUBSET Requests
  BY DEF LateRequests
<1>2. IsFiniteSet(LateRequests(g)) /\ Cardinality(LateRequests(g)) <= Cardinality(Requests)
  BY <1>1, FS_Subset, RequestsAssumption
<1> QED  BY <1>2, FS_CardinalityType

\* No session is late before the deadline, nor under a grant without sessions.
LEMMA NoneLateBefore ==
  ASSUME TypeOK, OpenedInThePast, NEW g \in DOMAIN jitGrants, now <= jitGrants[g].expires
  PROVE  LateSessions(g) = {}
BY DEF TypeOK, OpenedInThePast, LateSessions, IsStore, GrantRecord, Opening

\* The bound for g in the next state.
BoundedNext(g) ==
  /\ IsFiniteSet(LateSessions(g)')
  /\ now' > jitGrants'[g].expires =>
       Cardinality(LateSessions(g)') + Cardinality(LateRequests(g)') <= Cardinality(Requests)

\* It holds of the current state, whether g has expired or not.
LEMMA BoundedNow ==
  ASSUME TypeOK, BoundInv, NEW g \in DOMAIN jitGrants
  PROVE  /\ IsFiniteSet(LateSessions(g))
         /\ Cardinality(LateSessions(g)) \in Nat
         /\ Cardinality(LateSessions(g)) + Cardinality(LateRequests(g)) <= Cardinality(Requests)
<1>1. IsFiniteSet(LateSessions(g)) /\ Cardinality(LateSessions(g)) \in Nat
  BY FS_CardinalityType DEF BoundInv, LateFinite
<1>2. CASE now > jitGrants[g].expires
  BY <1>1, <1>2 DEF BoundInv, LateSessionsBounded
<1>3. CASE ~(now > jitGrants[g].expires)
  <2>1. now <= jitGrants[g].expires
    BY <1>3 DEF TypeOK, IsStore, GrantRecord
  <2>2. Cardinality(LateSessions(g)) = 0
    BY <2>1, NoneLateBefore, FS_EmptySet DEF BoundInv
  <2> QED  BY <1>1, <2>2, LateRequestsFinite
<1> QED  BY <1>1, <1>2, <1>3

\* Steps that add no late session and no request at g.
LEMMA FewerLate ==
  ASSUME TypeOK, BoundInv, NEW g \in DOMAIN jitGrants,
         LateSessions(g)' = LateSessions(g), LateRequests(g)' \subseteq LateRequests(g)
  PROVE  BoundedNext(g)
<1>1. Cardinality(LateRequests(g)') <= Cardinality(LateRequests(g))
      /\ Cardinality(LateRequests(g)') \in Nat
  <2>1. IsFiniteSet(LateRequests(g)') /\ Cardinality(LateRequests(g)') <= Cardinality(LateRequests(g))
    BY LateRequestsFinite, FS_Subset
  <2> QED  BY <2>1, FS_CardinalityType
<1>2. Cardinality(Requests) \in Nat
  BY RequestsAssumption, FS_CardinalityType
<1> QED  BY <1>1, <1>2, BoundedNow, LateRequestsFinite DEF BoundedNext

LEMMA CreateBound ==
  ASSUME TypeOK, GrantsCoverSessions, BoundInv, NEW h \in Requests, NEW s \in Sessions,
         CreateSession(h, s)
  PROVE  \A g \in DOMAIN jitGrants : BoundedNext(g)
<1>1. SUFFICES ASSUME NEW g \in DOMAIN jitGrants PROVE BoundedNext(g)
  OBVIOUS
<1>2. /\ calls[h].pc = "create"
      /\ calls'[h].pc # "create"
      /\ \A k \in Requests \ {h} : calls'[k] = calls[k]
      /\ jitGrants' = jitGrants /\ now' = now
  BY DEF CreateSession, Idle, TypeOK
<1>3. /\ s \notin DOMAIN sessions
      /\ DOMAIN sessions' = DOMAIN sessions \cup {s}
      /\ opened'[s] = [grant |-> calls[h].grant, at |-> now]
      /\ \A x \in DOMAIN sessions : opened'[x] = opened[x]
  BY DEF CreateSession, NewSession, Put, TypeOK
<1>4. LateRequests(g)' = LateRequests(g) \ {h}
  BY <1>2 DEF LateRequests
<1>5. CASE calls[h].grant = g /\ now > jitGrants[g].expires
  <2>1. LateSessions(g)' = LateSessions(g) \cup {s} /\ s \notin LateSessions(g)
    BY <1>2, <1>3, <1>5 DEF LateSessions
  <2>2. h \in LateRequests(g)
    BY <1>2, <1>5 DEF LateRequests
  <2>3. /\ IsFiniteSet(LateSessions(g)')
        /\ Cardinality(LateSessions(g)') = Cardinality(LateSessions(g)) + 1
    BY <2>1, BoundedNow, FS_AddElement
  <2>4. Cardinality(LateRequests(g)') = Cardinality(LateRequests(g)) - 1
    BY <1>4, <2>2, LateRequestsFinite, FS_RemoveElement
  <2> QED  BY <2>3, <2>4, BoundedNow, LateRequestsFinite DEF BoundedNext
<1>6. CASE ~(calls[h].grant = g /\ now > jitGrants[g].expires)
  <2>1. LateSessions(g)' = LateSessions(g)
    BY <1>2, <1>3, <1>6 DEF LateSessions
  <2> QED  BY <1>4, <2>1, FewerLate
<1> QED  BY <1>5, <1>6

LEMMA NextBound == IInv /\ BoundInv /\ [Next]_vars => BoundInv'
<1> SUFFICES ASSUME TypeOK, GrantsCoverSessions, BoundInv, [Next]_vars PROVE BoundInv'
  BY DEF IInv
<1>0. DecidedKept /\ TypeOK'
  BY DecisionsKept, NextTyped
<1>a. OpenedInThePast'
  <2>a. now' = now \/ now' = now + 1
    BY DEF Next, vars, Tick, RequestJITGrant, ApproveJITGrant, DenyJITGrant, Decide,
           InitiateWithoutGrant, TerminateSession, ValidateJITGrant, CreateSession
  <2>0. OpenedInThePast /\ now \in Nat /\ now' \in Nat /\ now <= now'
    BY <2>a DEF BoundInv, TypeOK
  <2>1. \/ DOMAIN sessions' = DOMAIN sessions /\ opened' = opened
        \/ \E s \in Sessions : \E scope, grant : NewSession(s, scope, grant, now)
    BY DEF Next, vars, Tick, RequestJITGrant, ApproveJITGrant, DenyJITGrant, Decide,
           InitiateWithoutGrant, TerminateSession, ValidateJITGrant, CreateSession
  <2>2. CASE DOMAIN sessions' = DOMAIN sessions /\ opened' = opened
    BY <2>0, <2>2 DEF OpenedInThePast, TypeOK, Opening
  <2>3. ASSUME NEW s \in Sessions, NEW scope, NEW grant, NewSession(s, scope, grant, now)
        PROVE  OpenedInThePast'
    <3>1. /\ DOMAIN sessions' = DOMAIN sessions \cup {s}
          /\ s \notin DOMAIN sessions
          /\ opened'[s].at = now
          /\ \A x \in DOMAIN sessions : opened'[x] = opened[x]
      BY <2>3 DEF NewSession, Put, TypeOK
    <3> QED  BY <2>0, <3>1 DEF OpenedInThePast, TypeOK, Opening
  <2> QED  BY <2>1, <2>2, <2>3
<1>b. SUFFICES \A g \in DOMAIN jitGrants' : BoundedNext(g)
  BY <1>a DEF BoundInv, LateFinite, LateSessionsBounded, BoundedNext
<1>1. ASSUME UNCHANGED jitGrants, UNCHANGED opened, DOMAIN sessions' = DOMAIN sessions,
             UNCHANGED calls
      PROVE  \A g \in DOMAIN jitGrants' : BoundedNext(g)
  <2>1. \A g : LateSessions(g)' = LateSessions(g) /\ LateRequests(g)' = LateRequests(g)
    BY <1>1 DEF LateSessions, LateRequests
  <2> QED  BY <1>1, <2>1, FewerLate
<1>2. ASSUME NEW g \in Grants, NEW scope \in Scope, NEW ttl \in TTLs,
             RequestJITGrant(g, scope, ttl)
      PROVE  \A f \in DOMAIN jitGrants' : BoundedNext(f)
  <2>1. /\ g \notin DOMAIN jitGrants
        /\ DOMAIN jitGrants' = DOMAIN jitGrants \cup {g}
        /\ \A f \in DOMAIN jitGrants : jitGrants'[f] = jitGrants[f]
        /\ UNCHANGED <<now, sessions, calls, opened>>
    BY <1>2 DEF RequestJITGrant, Put
  <2>2. \A f \in DOMAIN jitGrants : LateSessions(f)' = LateSessions(f)
                                    /\ LateRequests(f)' = LateRequests(f)
    BY <2>1 DEF LateSessions, LateRequests
  <2>3. LateSessions(g)' = {}
    BY <1>2, <2>1, GrantAssumption DEF LateSessions, GrantsCoverSessions
  <2>4. BoundedNext(g)
    <3>1. jitGrants'[g].expires = now + ttl
      BY <1>2 DEF RequestJITGrant, Put
    <3>2. ~(now' > jitGrants'[g].expires)
      BY <2>1, <3>1, TimeAssumption DEF TypeOK
    <3> QED  BY <2>3, <3>2, FS_EmptySet DEF BoundedNext
  <2> QED  BY <2>1, <2>2, <2>4, FewerLate
<1>3. ASSUME NEW g \in Grants, Undecided(g), NEW status \in {"approved", "denied"},
             Decide(g, status)
      PROVE  \A f \in DOMAIN jitGrants' : BoundedNext(f)
  <2>1. /\ DOMAIN jitGrants' = DOMAIN jitGrants
        /\ \A f \in DOMAIN jitGrants : jitGrants'[f].expires = jitGrants[f].expires
        /\ UNCHANGED <<now, sessions, calls, opened>>
    BY <1>3 DEF Decide, TypeOK, IsStore, GrantRecord
  <2>2. \A f \in DOMAIN jitGrants : LateSessions(f)' = LateSessions(f)
                                    /\ LateRequests(f)' = LateRequests(f)
    BY <2>1 DEF LateSessions, LateRequests
  <2> QED  BY <2>1, <2>2, FewerLate
<1>4. ASSUME NEW s \in Sessions, NEW scope \in Scope, InitiateWithoutGrant(s, scope)
      PROVE  \A g \in DOMAIN jitGrants' : BoundedNext(g)
  <2>1. /\ s \notin DOMAIN sessions
        /\ DOMAIN sessions' = DOMAIN sessions \cup {s}
        /\ opened'[s].grant = NoGrant
        /\ \A x \in DOMAIN sessions : opened'[x] = opened[x]
        /\ UNCHANGED <<now, jitGrants, calls>>
    BY <1>4 DEF InitiateWithoutGrant, NewSession, Put, TypeOK
  <2>2. \A g \in DOMAIN jitGrants : g # NoGrant
    BY GrantAssumption DEF TypeOK, IsStore
  <2>3. \A g \in DOMAIN jitGrants : LateSessions(g)' = LateSessions(g)
                                    /\ LateRequests(g)' = LateRequests(g)
    BY <2>1, <2>2 DEF LateSessions, LateRequests
  <2> QED  BY <2>1, <2>3, FewerLate
<1>5. ASSUME NEW h \in Requests, NEW g \in Grants, NEW scope \in Scope,
             ValidateJITGrant(h, g, scope)
      PROVE  \A f \in DOMAIN jitGrants' : BoundedNext(f)
  <2>1. /\ now <= jitGrants[g].expires
        /\ calls[h] = Idle
        /\ calls'[h].grant = g
        /\ \A k \in Requests \ {h} : calls'[k] = calls[k]
        /\ UNCHANGED <<now, sessions, jitGrants, opened>>
    BY <1>5 DEF ValidateJITGrant, Usable, TypeOK
  <2>2. \A f \in DOMAIN jitGrants : LateSessions(f)' = LateSessions(f)
    BY <2>1 DEF LateSessions
  <2>3. \A f \in DOMAIN jitGrants \ {g} : LateRequests(f)' \subseteq LateRequests(f)
    BY <2>1 DEF LateRequests
  <2>4. g \in DOMAIN jitGrants => BoundedNext(g)
    BY <2>1, <2>2, BoundedNow DEF BoundedNext, TypeOK, IsStore, GrantRecord
  <2> QED  BY <2>1, <2>2, <2>3, <2>4, FewerLate
<1>6. ASSUME NEW h \in Requests, NEW s \in Sessions, CreateSession(h, s)
      PROVE  \A g \in DOMAIN jitGrants' : BoundedNext(g)
  BY <1>6, CreateBound DEF CreateSession
<1>7. ASSUME NEW s \in Sessions, TerminateSession(s)
      PROVE  \A g \in DOMAIN jitGrants' : BoundedNext(g)
  BY <1>1, <1>7 DEF TerminateSession
<1>8. CASE Tick \/ UNCHANGED vars
  BY <1>1, <1>8 DEF Tick, vars
<1>9. ASSUME NEW g \in Grants, ApproveJITGrant(g) \/ DenyJITGrant(g)
      PROVE  \A f \in DOMAIN jitGrants' : BoundedNext(f)
  BY <1>3, <1>9 DEF ApproveJITGrant, DenyJITGrant
<1> QED
  BY <1>2, <1>4, <1>5, <1>6, <1>7, <1>8, <1>9 DEF Next

-----------------------------------------------------------------------------
(* The gateway implements AccessBroker *)

\* The broker's view of the grants and of the sessions.
Asked == [g \in DOMAIN jitGrants |-> [scope |-> jitGrants[g].scope,
                                      until |-> jitGrants[g].expires]]
HeldSessions == [s \in DOMAIN sessions |-> [scope |-> sessions[s].scope,
                                            grant |-> opened[s].grant]]
Terminated == {s \in DOMAIN sessions : sessions[s].status = "terminated"}
GrantsView == <<Asked, GrantsWith("approved"), GrantsWith("denied")>>
SessionsView == <<HeldSessions, Terminated>>

LEMMA BrokerStart == Init => Broker!BrokerInit
BY DEF Init, EmptyStore, GrantsWith, Broker!BrokerInit, Broker!EmptyStore

\* What a request for a grant adds, seen by the broker.
LEMMA AskStep ==
  ASSUME TypeOK, NEW g \in Grants, NEW scope \in Scope, NEW ttl \in TTLs,
         RequestJITGrant(g, scope, ttl)
  PROVE  Broker!Ask(g, scope, ttl)
<1>1. /\ g \notin DOMAIN jitGrants
      /\ DOMAIN jitGrants' = DOMAIN jitGrants \cup {g}
      /\ jitGrants'[g].scope = scope /\ jitGrants'[g].status = "pending"
      /\ jitGrants'[g].expires = now + ttl
      /\ \A f \in DOMAIN jitGrants : jitGrants'[f] = jitGrants[f]
      /\ UNCHANGED <<now, sessions, opened>>
  BY DEF RequestJITGrant, Put
<1>2. Asked' = Broker!Put(Asked, g, [scope |-> scope, until |-> now + ttl])
  BY <1>1 DEF Asked, Broker!Put
<1>3. UNCHANGED <<GrantsWith("approved"), GrantsWith("denied")>>
  BY <1>1 DEF GrantsWith
<1>4. UNCHANGED SessionsView
  BY <1>1 DEF SessionsView, HeldSessions, Terminated
<1> QED
  BY <1>1, <1>2, <1>3, <1>4 DEF Broker!Ask, Asked, HeldSessions, Terminated, SessionsView

\* A decision takes the grant out of the pending ones.
LEMMA DecideStep ==
  ASSUME TypeOK, NEW g \in Grants, ApproveJITGrant(g) \/ DenyJITGrant(g)
  PROVE  Broker!Approve(g) \/ Broker!Deny(g)
<1>1. PICK status \in {"approved", "denied"} :
        /\ Undecided(g) /\ Decide(g, status)
        /\ status = "approved" => now <= jitGrants[g].expires
  BY DEF ApproveJITGrant, DenyJITGrant
<1>2. /\ g \in DOMAIN jitGrants /\ jitGrants[g].status = "pending"
      /\ DOMAIN jitGrants' = DOMAIN jitGrants
      /\ jitGrants'[g].status = status
      /\ jitGrants'[g].scope = jitGrants[g].scope
      /\ jitGrants'[g].expires = jitGrants[g].expires
      /\ \A f \in DOMAIN jitGrants \ {g} : jitGrants'[f] = jitGrants[f]
      /\ UNCHANGED <<now, sessions, opened>>
  BY <1>1 DEF Undecided, Decide, TypeOK, IsStore, GrantRecord
<1>3. UNCHANGED Asked /\ UNCHANGED SessionsView
  BY <1>2 DEF Asked, SessionsView, HeldSessions, Terminated
<1>4. Broker!Pending(g)
  BY <1>2 DEF Broker!Pending, GrantsWith
<1>5. CASE status = "approved"
  <2>1. /\ GrantsWith("approved")' = GrantsWith("approved") \cup {g}
        /\ UNCHANGED GrantsWith("denied")
    BY <1>2, <1>5 DEF GrantsWith
  <2>2. now <= Asked[g].until
    BY <1>1, <1>2, <1>5 DEF Asked
  <2> QED
    BY <1>2, <1>3, <1>4, <2>1, <2>2
       DEF Broker!Approve, Asked, HeldSessions, Terminated, SessionsView
<1>6. CASE status = "denied"
  <2>1. /\ GrantsWith("denied")' = GrantsWith("denied") \cup {g}
        /\ UNCHANGED GrantsWith("approved")
    BY <1>2, <1>6 DEF GrantsWith
  <2> QED
    BY <1>2, <1>3, <1>4, <2>1 DEF Broker!Deny, Asked, HeldSessions, Terminated, SessionsView
<1> QED  BY <1>1, <1>5, <1>6

\* Storing a session is the broker's opening step.
LEMMA HoldStep ==
  ASSUME TypeOK, NEW s, NEW scope, NEW grant, NEW at,
         NewSession(s, scope, grant, at), UNCHANGED <<now, jitGrants>>
  PROVE  Broker!Hold(s, scope, grant)
<1>1. /\ s \notin DOMAIN sessions
      /\ DOMAIN sessions' = DOMAIN sessions \cup {s}
      /\ sessions'[s].scope = scope /\ sessions'[s].status = "active"
      /\ opened'[s].grant = grant
      /\ \A x \in DOMAIN sessions : sessions'[x] = sessions[x] /\ opened'[x] = opened[x]
  BY DEF NewSession, Put, TypeOK
<1>2. HeldSessions' = Broker!Put(HeldSessions, s, [scope |-> scope, grant |-> grant])
  BY <1>1 DEF HeldSessions, Broker!Put
<1>3. UNCHANGED Terminated
  BY <1>1 DEF Terminated
<1>4. UNCHANGED GrantsView
  BY DEF GrantsView, Asked, GrantsWith
<1> QED
  BY <1>1, <1>2, <1>3, <1>4 DEF Broker!Hold, Asked, HeldSessions, Terminated, GrantsView

LEMMA CloseStep ==
  ASSUME TypeOK, NEW s \in Sessions, TerminateSession(s)
  PROVE  Broker!Close(s)
<1>1. /\ s \in DOMAIN sessions /\ sessions[s].status # "terminated"
      /\ DOMAIN sessions' = DOMAIN sessions
      /\ sessions'[s].status = "terminated"
      /\ \A x \in DOMAIN sessions : sessions'[x].scope = sessions[x].scope
      /\ \A x \in DOMAIN sessions \ {s} : sessions'[x] = sessions[x]
      /\ UNCHANGED <<now, jitGrants, opened>>
  BY DEF TerminateSession, TypeOK, IsStore, SessionRecord
<1>2. UNCHANGED HeldSessions /\ Terminated' = Terminated \cup {s}
  BY <1>1 DEF HeldSessions, Terminated
<1>3. UNCHANGED GrantsView
  BY <1>1 DEF GrantsView, Asked, GrantsWith
<1> QED
  BY <1>1, <1>2, <1>3 DEF Broker!Close, Asked, HeldSessions, Terminated, GrantsView

\* The session is stored after the check, but the grant a request carries is
\* still approved for the request's scope (GrantsCoverSessions).
LEMMA OpenStep ==
  ASSUME IInv, NEW h \in Requests, NEW s \in Sessions, CreateSession(h, s)
  PROVE  \E g \in Grants : Broker!OpenUnder(g, s)
<1>1. TypeOK /\ GrantsCoverSessions
  BY DEF IInv
<1>2. /\ calls[h].pc = "create"
      /\ NewSession(s, calls[h].scope, calls[h].grant, now)
      /\ UNCHANGED <<now, jitGrants>>
  BY DEF CreateSession
<1>3. /\ calls[h].grant \in GrantsWith("approved")
      /\ calls[h].grant \in Grants
      /\ Asked[calls[h].grant].scope = calls[h].scope
  BY <1>1, <1>2 DEF GrantsCoverSessions, GrantsWith, Asked, TypeOK, IsStore
<1>4. PICK scope, g, at : scope = calls[h].scope /\ g = calls[h].grant /\ at = now
  OBVIOUS
<1>5. NewSession(s, scope, g, at)
  BY <1>2, <1>4 DEF NewSession
<1>6. Broker!Hold(s, scope, g)
  BY <1>1, <1>2, <1>5, HoldStep
<1>7. Broker!OpenUnder(g, s)
  BY <1>3, <1>4, <1>6 DEF Broker!OpenUnder, Broker!Hold, Asked
<1> QED  BY <1>3, <1>4, <1>7

LEMMA BrokerStep == IInv /\ [Next]_vars => [Broker!BrokerNext]_(Broker!broker)
<1> SUFFICES ASSUME IInv, [Next]_vars PROVE [Broker!BrokerNext]_(Broker!broker)
  OBVIOUS
<1>0. TypeOK
  BY DEF IInv
<1>1. CASE UNCHANGED <<now, sessions, jitGrants, opened>>
  BY <1>1 DEF Broker!broker, GrantsWith
<1>2. ASSUME NEW g \in Grants, NEW scope \in Scope, NEW ttl \in TTLs,
             RequestJITGrant(g, scope, ttl)
      PROVE  Broker!BrokerNext
  BY <1>0, <1>2, AskStep DEF Broker!BrokerNext
<1>3. ASSUME NEW g \in Grants, ApproveJITGrant(g) \/ DenyJITGrant(g)
      PROVE  Broker!BrokerNext
  BY <1>0, <1>3, DecideStep DEF Broker!BrokerNext
<1>4. ASSUME NEW s \in Sessions, NEW scope \in Scope, InitiateWithoutGrant(s, scope)
      PROVE  Broker!BrokerNext
  BY <1>0, <1>4, HoldStep DEF InitiateWithoutGrant, Broker!OpenFreely, Broker!BrokerNext
<1>5. ASSUME NEW s \in Sessions, TerminateSession(s)
      PROVE  Broker!BrokerNext
  BY <1>0, <1>5, CloseStep DEF Broker!BrokerNext
<1>6. ASSUME NEW h \in Requests, NEW s \in Sessions, CreateSession(h, s)
      PROVE  Broker!BrokerNext
  BY <1>6, OpenStep DEF Broker!BrokerNext
<1>7. UNCHANGED vars \/ (\E h \in Requests, g \in Grants, scope \in Scope : ValidateJITGrant(h, g, scope))
      => UNCHANGED <<now, sessions, jitGrants, opened>>
  BY DEF vars, ValidateJITGrant
<1>8. CASE Tick
  BY <1>8 DEF Tick, GrantsWith, Broker!Advance, Broker!BrokerNext
<1> QED
  BY <1>1, <1>2, <1>3, <1>4, <1>5, <1>6, <1>7, <1>8 DEF Next

-----------------------------------------------------------------------------
(* The theorems *)

LEMMA Invariance == Spec => []IInv
<1>1. Init => IInv
  BY InitInv
<1>2. IInv /\ [Next]_vars => IInv'
  BY NextTyped, NextCovered DEF IInv
<1> QED  BY <1>1, <1>2, PTL DEF Spec

\* Grants, sessions and requests stay well formed.
THEOREM TypeCorrect == Spec => []TypeOK
BY Invariance, PTL DEF IInv

\* A session opened under a grant has the grant's scope, and the grant is
\* approved: validating under one lock and storing under another is safe
\* against every decision taken in between.
THEOREM SessionsCovered == Spec => []GrantsCoverSessions
BY Invariance, PTL DEF IInv

\* For every number of requests at a time, no more sessions than that become
\* active under a grant after it has expired.
THEOREM LateSessionsAreFew == Spec => []LateSessionsBounded
<1>1. Init => BoundInv
  BY InitBound
<1>2. IInv /\ BoundInv /\ [Next]_vars => BoundInv'
  BY NextBound
<1>3. BoundInv => LateSessionsBounded
  BY DEF BoundInv
<1> QED  BY <1>1, <1>2, <1>3, Invariance, PTL DEF Spec

\* A decided grant never changes: no approval follows a denial, no denial
\* an approval, and no deadline moves.
THEOREM DecisionsFinal == Spec => DecisionsAreFinal
<1>1. IInv /\ [Next]_vars =>
        [\A g \in DOMAIN jitGrants :
           jitGrants[g].status # "pending" => jitGrants'[g] = jitGrants[g]]_vars
  BY DecisionsKept DEF IInv, DecidedKept
<1> QED  BY <1>1, Invariance, PTL DEF DecisionsAreFinal, Spec

\* The gateway implements AccessBroker: checking a grant and storing the
\* session later has the effect of one step, taken when it is stored.
THEOREM ImplementsTheBroker == Spec => ImplementsBroker
<1>1. Init => Broker!BrokerInit
  BY BrokerStart
<1>2. IInv /\ [Next]_vars => [Broker!BrokerNext]_(Broker!broker)
  BY BrokerStep
<1> QED  BY <1>1, <1>2, Invariance, PTL DEF Spec, ImplementsBroker, Broker!BrokerSpec
=============================================================================
