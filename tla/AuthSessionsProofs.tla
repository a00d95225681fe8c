------------------------- MODULE AuthSessionsProofs -------------------------
(***************************************************************************)
(* Safety of AuthSessions for every set of users, requests, challenges,    *)
(* sessions and tokens, and every value of the bounds and the lifetimes.   *)
(***************************************************************************)
EXTENDS AuthSessions, StoreTheorems, FiniteSetTheorems

-----------------------------------------------------------------------------
(* Type correctness *)

LEMMA InitTyped == Init => TypeOK
BY EmptyIsStore DEF Init, TypeOK, EmptyStore, IsStore

\* A step of a request that only goes to issueSession keeps calls well formed.
LEMMA GoIssueTyped ==
  ASSUME TypeOK, NEW h \in Requests, NEW u \in Users, NEW from \in Origins,
         NEW gen \in Nat, GoIssue(h, u, from, gen)
  PROVE  calls' \in [Requests -> {Idle} \cup Verifying \cup Issuing]
<1>1. [pc |-> "issue", user |-> u, from |-> from, gen |-> gen, at |-> now] \in Issuing
  BY DEF Issuing, TypeOK
<1> QED  BY <1>1 DEF GoIssue, TypeOK

LEMMA RevokeTyped ==
  ASSUME TypeOK, NEW S \in SUBSET DOMAIN sessions, Revoke(S)
  PROVE  /\ IsStore(refreshTokens', Tokens, TokenRecord)
         /\ IsStore(sessions', Sessions, SessionRecord)
         /\ DOMAIN sessions' = DOMAIN sessions
<1>1. IsStore(refreshTokens', Tokens, TokenRecord)
  BY WithoutStore DEF TypeOK, Revoke
<1>2. \A s \in DOMAIN sessions : sessions[s] \in SessionRecord
  BY DEF TypeOK, IsStore
<1>3. \A s \in DOMAIN sessions : RevokedRecord(sessions[s]) \in SessionRecord
  BY <1>2 DEF SessionRecord, RevokedRecord
<1> QED  BY <1>1, <1>2, <1>3 DEF TypeOK, IsStore, Revoke

\* TypeOK is not inductive alone: a rotation looks up the birth of the
\* session its token names, which exists because the maps agree.
LEMMA NextTyped == TypeOK /\ TokensMatchSessions /\ [Next]_vars => TypeOK'
<1> SUFFICES ASSUME TypeOK, TokensMatchSessions, [Next]_vars PROVE TypeOK'
  OBVIOUS
<1> USE TimeAssumption
<1>1. CASE Tick
  BY <1>1 DEF Tick, TypeOK, store
<1>2. CASE SyncAllUsers
  BY <1>2, SeedAssumption DEF SyncAllUsers, TypeOK
<1>3. ASSUME NEW u \in Users, NEW c \in Challenges, CreateMFAChallenge(u, c)
      PROVE  TypeOK'
  <2>1. [user |-> u, expires |-> now + ChallengeTTL] \in ChallengeRecord
    BY DEF ChallengeRecord, TypeOK
  <2>2. IsStore(challenges', Challenges, ChallengeRecord)
    BY <1>3, <2>1, PutStore DEF CreateMFAChallenge, TypeOK
  <2> QED  BY <1>3, <2>2 DEF CreateMFAChallenge, TypeOK
<1>4. ASSUME NEW t \in Tokens, ExpireToken(t)
      PROVE  TypeOK'
  <2>1. IsStore(refreshTokens', Tokens, TokenRecord)
    BY <1>4, WithoutStore DEF ExpireToken, TypeOK
  <2>2. DOMAIN sessions' = DOMAIN sessions /\ IsStore(sessions', Sessions, SessionRecord)
    BY <1>4 DEF ExpireToken, TypeOK, IsStore, SessionRecord
  <2> QED  BY <1>4, <2>1, <2>2 DEF ExpireToken, TypeOK
<1>5. ASSUME NEW u \in Users, RevokeAllSessions(u)
      PROVE  TypeOK'
  <2>1. LiveSessions(u) \in SUBSET DOMAIN sessions
    BY DEF LiveSessions
  <2>2. sweeps' \in [Users -> Nat]
    BY <1>5 DEF RevokeAllSessions, TypeOK
  <2> QED  BY <1>5, <2>1, <2>2, RevokeTyped DEF RevokeAllSessions, TypeOK
<1>6. ASSUME NEW u \in Users, NEW s \in Sessions, RevokeSession(u, s)
      PROVE  TypeOK'
  <2>1. {s} \in SUBSET DOMAIN sessions
    BY <1>6 DEF RevokeSession, LiveSessions
  <2> QED  BY <1>6, <2>1, RevokeTyped DEF RevokeSession, TypeOK
<1>7. ASSUME NEW h \in Requests, NEW u \in Users, Login(h, u)
      PROVE  TypeOK'
  <2>1. FromLogin \in Origins /\ sweeps[u] \in Nat
    BY DEF Origins, TypeOK
  <2> QED  BY <1>7, <2>1, GoIssueTyped DEF Login, TypeOK, store
<1>8. ASSUME NEW h \in Requests, NEW u \in Users, ExchangeOIDCCode(h, u)
      PROVE  TypeOK'
  <2>1. FromLogin \in Origins /\ sweeps[u] \in Nat
    BY DEF Origins, TypeOK
  <2> QED  BY <1>8, <2>1, GoIssueTyped DEF ExchangeOIDCCode, TypeOK
<1>9. ASSUME NEW h \in Requests, NEW c \in Challenges, ReadChallenge(h, c)
      PROVE  TypeOK'
  <2>1. challenges[c] \in ChallengeRecord
    BY <1>9 DEF ReadChallenge, TypeOK, IsStore
  <2>2. calls' \in [Requests -> {Idle} \cup Verifying \cup Issuing]
    BY <1>9, <2>1 DEF ReadChallenge, ChallengeRecord, Verifying, TypeOK
  <2> QED  BY <1>9, <2>2 DEF ReadChallenge, TypeOK, store
<1>10. ASSUME NEW h \in Requests, RejectChallenge(h)
       PROVE  TypeOK'
  BY <1>10 DEF RejectChallenge, TypeOK, store
<1>11. ASSUME NEW h \in Requests, ExpireChallenge(h)
       PROVE  TypeOK'
  BY <1>11, WithoutStore DEF ExpireChallenge, DropChallenge, TypeOK
<1>12. ASSUME NEW h \in Requests, ConsumeChallenge(h)
       PROVE  TypeOK'
  <2>1. calls[h] \in Verifying
    BY <1>12 DEF ConsumeChallenge, TypeOK, Idle, Issuing
  <2>2. /\ FromChallenge(calls[h].challenge) \in Origins
        /\ calls[h].user \in Users
        /\ sweeps[calls[h].user] \in Nat
    BY <2>1 DEF Verifying, Origins, TypeOK
  <2> QED  BY <1>12, <2>2, GoIssueTyped, WithoutStore
           DEF ConsumeChallenge, DropChallenge, TypeOK
<1>13. ASSUME NEW h \in Requests, NEW t \in Tokens, RotateToken(h, t)
       PROVE  TypeOK'
  <2>1. refreshTokens[t] \in TokenRecord
    BY <1>13 DEF RotateToken, TypeOK, IsStore
  <2>2. /\ FromToken(t) \in Origins
        /\ refreshTokens[t].user \in Users
        /\ born[refreshTokens[t].session].gen \in Nat
    BY <1>13, <2>1 DEF RotateToken, TokensMatchSessions, TokenRecord, Birth,
                       Origins, TypeOK
  <2>3. IsStore(refreshTokens', Tokens, TokenRecord)
    BY <1>13, WithoutStore DEF RotateToken, InvalidateToken, TypeOK
  <2>4. DOMAIN sessions' = DOMAIN sessions /\ IsStore(sessions', Sessions, SessionRecord)
    BY <1>13 DEF RotateToken, InvalidateToken, TypeOK, IsStore, SessionRecord
  <2> QED  BY <1>13, <2>2, <2>3, <2>4, GoIssueTyped DEF RotateToken, TypeOK
<1>14. ASSUME NEW h \in Requests, IssueFails(h)
       PROVE  TypeOK'
  BY <1>14 DEF IssueFails, TypeOK, store
<1>15. ASSUME NEW h \in Requests, NEW s \in Sessions, NEW t \in Tokens,
              NEW issuedAt \in 0..now, IssueSession(h, s, t, issuedAt)
       PROVE  TypeOK'
  <2>1. calls[h] \in Issuing
    BY <1>15 DEF IssueSession, TypeOK, Idle, Verifying
  <2>2. /\ calls[h].user \in Users
        /\ calls[h].from \in Origins
        /\ Generation(h) \in Nat
    BY <2>1 DEF Issuing, Generation, TypeOK
  <2>3. IsStore(refreshTokens', Tokens, TokenRecord)
    <3>1. [user |-> calls[h].user, session |-> s,
           expires |-> issuedAt + RefreshTokenTTL] \in TokenRecord
      BY <2>2 DEF TokenRecord, TypeOK
    <3> QED  BY <1>15, <3>1, PutStore DEF IssueSession, TypeOK
  <2>4. /\ IsStore(sessions', Sessions, SessionRecord)
        /\ DOMAIN sessions' = DOMAIN sessions \cup {s}
    <3>1. [user |-> calls[h].user, hash |-> t, revoked |-> FALSE] \in SessionRecord
      BY <2>2 DEF SessionRecord
    <3> QED  BY <1>15, <3>1, PutStore, PutEffect DEF IssueSession, TypeOK
  <2>5. born' \in [DOMAIN sessions' -> Birth]
    <3>1. [token |-> t, from |-> calls[h].from, gen |-> Generation(h)] \in Birth
      BY <2>2 DEF Birth
    <3> QED  BY <1>15, <2>4, <3>1 DEF IssueSession, TypeOK, Put
  <2> QED  BY <1>15, <2>3, <2>4, <2>5 DEF IssueSession, TypeOK
<1>16. CASE UNCHANGED vars
  BY <1>16 DEF vars, store, TypeOK
<1> QED
  BY <1>1, <1>2, <1>3, <1>4, <1>5, <1>6, <1>7, <1>8, <1>9, <1>10, <1>11,
     <1>12, <1>13, <1>14, <1>15, <1>16 DEF Next

-----------------------------------------------------------------------------
(* The inductive invariant *)

\* A session's hash is the token minted with it, and no token was minted
\* with two sessions: revoking one session cannot take another's token.
HashesAgree ==
  /\ \A s \in DOMAIN sessions :
       sessions[s].hash # NoToken => sessions[s].hash = born[s].token
  /\ \A s1, s2 \in DOMAIN sessions : born[s1].token = born[s2].token => s1 = s2

\* A token that was presented is gone from the store, is known (so it is
\* never minted again), and is in the hands of one request or answered by
\* one session, never both.
PresentedOnce ==
  \A t \in Tokens :
    /\ t \in RedeemedTokens \cup AnsweredTokens
         => t \in MintedTokens /\ t \notin DOMAIN refreshTokens
    /\ ~(t \in RedeemedTokens /\ t \in AnsweredTokens)
    /\ \A h1, h2 \in Requests :
         Issues(h1, FromToken(t)) /\ Issues(h2, FromToken(t)) => h1 = h2

IInv == /\ TypeOK
        /\ TokensMatchSessions
        /\ HashesAgree
        /\ PresentedOnce
        /\ RefreshSingleUse

LEMMA InitInv == Init => IInv
<1> SUFFICES ASSUME Init PROVE IInv
  OBVIOUS
<1>1. TypeOK
  BY InitTyped
<1>2. /\ DOMAIN refreshTokens = {} /\ DOMAIN sessions = {} /\ DOMAIN born = {}
      /\ \A h \in Requests : calls[h].pc = "idle"
  BY DEF Init, EmptyStore, Idle
<1> QED  BY <1>1, <1>2 DEF IInv, TokensMatchSessions, HashesAgree, PresentedOnce,
            RefreshSingleUse, SessionsFrom, RedeemedTokens, AnsweredTokens, Issues

\* Seen from the tokens and the sessions there are five kinds of steps.  A
\* quiet step leaves both alone and starts no rotation.
Quiet == /\ UNCHANGED <<refreshTokens, sessions, born>>
         /\ \/ UNCHANGED calls
            \/ \E h \in Requests :
                 /\ \A g \in Requests \ {h} : calls'[g] = calls[g]
                 /\ \/ calls'[h].pc # "issue"
                    \/ calls'[h].from.kind # "refresh"

RevokesSome(S) == /\ S \in SUBSET {s \in DOMAIN sessions : ~sessions[s].revoked}
                  /\ Revoke(S)
                  /\ UNCHANGED <<calls, born>>

LEMMA StepCases ==
  ASSUME TypeOK, [Next]_vars
  PROVE  \/ Quiet
         \/ \E t \in Tokens : ExpireToken(t)
         \/ \E S \in SUBSET DOMAIN sessions : RevokesSome(S)
         \/ \E h \in Requests, t \in Tokens : RotateToken(h, t)
         \/ \E h \in Requests, s \in Sessions, t \in Tokens, issuedAt \in 0..now :
              IssueSession(h, s, t, issuedAt)
<1>1. CASE Tick \/ SyncAllUsers
  BY <1>1 DEF Tick, SyncAllUsers, Quiet, store
<1>2. CASE \E u \in Users, c \in Challenges : CreateMFAChallenge(u, c)
  BY <1>2 DEF CreateMFAChallenge, Quiet
<1>3. ASSUME NEW u \in Users, RevokeAllSessions(u)
      PROVE  RevokesSome(LiveSessions(u))
  BY <1>3 DEF RevokeAllSessions, RevokesSome, LiveSessions
<1>4. ASSUME NEW u \in Users, NEW s \in Sessions, RevokeSession(u, s)
      PROVE  RevokesSome({s})
  BY <1>4 DEF RevokeSession, RevokesSome, LiveSessions
<1>5. ASSUME NEW h \in Requests, NEW u \in Users, Login(h, u) \/ ExchangeOIDCCode(h, u)
      PROVE  Quiet
  BY <1>5 DEF Login, ExchangeOIDCCode, GoIssue, FromLogin, Quiet, store, TypeOK
<1>6. ASSUME NEW h \in Requests, NEW c \in Challenges, ReadChallenge(h, c)
      PROVE  Quiet
  BY <1>6 DEF ReadChallenge, Quiet, store, TypeOK
<1>7. ASSUME NEW h \in Requests, \/ RejectChallenge(h) \/ ExpireChallenge(h)
                               \/ IssueFails(h)
      PROVE  Quiet
  BY <1>7 DEF RejectChallenge, ExpireChallenge, IssueFails, Idle, Quiet, store, TypeOK
<1>8. ASSUME NEW h \in Requests, ConsumeChallenge(h)
      PROVE  Quiet
  BY <1>8 DEF ConsumeChallenge, GoIssue, FromChallenge, Quiet, TypeOK
<1>9. CASE UNCHANGED vars
  BY <1>9 DEF vars, store, Quiet
<1>10. \A u \in Users : LiveSessions(u) \in SUBSET DOMAIN sessions
  BY DEF LiveSessions
<1>11. ASSUME NEW u \in Users, NEW s \in Sessions, RevokeSession(u, s)
       PROVE  {s} \in SUBSET DOMAIN sessions
  BY <1>11 DEF RevokeSession, LiveSessions
<1> QED
  BY <1>1, <1>2, <1>3, <1>4, <1>5, <1>6, <1>7, <1>8, <1>9, <1>10, <1>11 DEF Next

-----------------------------------------------------------------------------
(* The maps of tokens and sessions *)

\* What each kind of step does to the two maps, key by key.
Expires(t) ==
  /\ t \in DOMAIN refreshTokens
  /\ DOMAIN refreshTokens' = DOMAIN refreshTokens \ {t}
  /\ \A x \in DOMAIN refreshTokens' : refreshTokens'[x] = refreshTokens[x]
  /\ DOMAIN sessions' = DOMAIN sessions
  /\ \A s \in DOMAIN sessions :
       /\ sessions'[s].user = sessions[s].user
       /\ sessions'[s].hash = sessions[s].hash
       /\ sessions[s].revoked => sessions'[s].revoked
       /\ sessions[s].hash # t => sessions'[s] = sessions[s]
  /\ sessions'[refreshTokens[t].session].revoked
  /\ UNCHANGED <<born, calls>>

Rotates(h, t) ==
  /\ t \in DOMAIN refreshTokens
  /\ DOMAIN refreshTokens' = DOMAIN refreshTokens \ {t}
  /\ \A x \in DOMAIN refreshTokens' : refreshTokens'[x] = refreshTokens[x]
  /\ DOMAIN sessions' = DOMAIN sessions
  /\ \A s \in DOMAIN sessions :
       /\ sessions'[s].user = sessions[s].user
       /\ sessions'[s].hash \in {sessions[s].hash, NoToken}
       /\ sessions'[s].revoked = sessions[s].revoked
       /\ sessions[s].hash # t => sessions'[s] = sessions[s]
  /\ sessions'[refreshTokens[t].session].hash = NoToken
  /\ UNCHANGED born
  /\ calls[h] = Idle
  /\ calls' = [calls EXCEPT ![h] = [pc |-> "issue", user |-> refreshTokens[t].user,
                    from |-> FromToken(t),
                    gen |-> born[refreshTokens[t].session].gen, at |-> now]]

Revokes(S) ==
  /\ DOMAIN refreshTokens' = DOMAIN refreshTokens \ TokensOf(S)
  /\ \A x \in DOMAIN refreshTokens' : refreshTokens'[x] = refreshTokens[x]
  /\ DOMAIN sessions' = DOMAIN sessions
  /\ \A s \in DOMAIN sessions \ S : sessions'[s] = sessions[s]
  /\ \A s \in S : /\ sessions'[s].user = sessions[s].user
                  /\ sessions'[s].hash = NoToken
                  /\ sessions'[s].revoked
  /\ UNCHANGED <<born, calls>>

Issued(h, s, t) ==
  /\ s \notin DOMAIN sessions /\ t \notin MintedTokens
  /\ DOMAIN refreshTokens' = DOMAIN refreshTokens \cup {t}
  /\ \A x \in DOMAIN refreshTokens \ {t} : refreshTokens'[x] = refreshTokens[x]
  /\ refreshTokens'[t].user = calls[h].user /\ refreshTokens'[t].session = s
  /\ DOMAIN sessions' = DOMAIN sessions \cup {s}
  /\ \A x \in DOMAIN sessions : sessions'[x] = sessions[x] /\ born'[x] = born[x]
  /\ sessions'[s] = [user |-> calls[h].user, hash |-> t, revoked |-> FALSE]
  /\ DOMAIN born = DOMAIN sessions /\ DOMAIN born' = DOMAIN sessions'
  /\ born'[s].token = t /\ born'[s].from = calls[h].from
  /\ calls[h].pc = "issue"
  /\ calls' = [calls EXCEPT ![h] = Idle]

LEMMA ExpireEffect ==
  ASSUME TypeOK, TokensMatchSessions, NEW t \in Tokens, ExpireToken(t)
  PROVE  Expires(t)
<1>1. \A s \in DOMAIN sessions : sessions[s] \in SessionRecord
  BY DEF TypeOK, IsStore
<1>2. t \in DOMAIN refreshTokens
  BY DEF ExpireToken
<1>3. /\ refreshTokens[t].session \in DOMAIN sessions
      /\ sessions[refreshTokens[t].session].hash = t
  BY <1>2 DEF TokensMatchSessions
<1>4. /\ DOMAIN refreshTokens' = DOMAIN refreshTokens \ {t}
      /\ \A x \in DOMAIN refreshTokens' : refreshTokens'[x] = refreshTokens[x]
  BY DEF ExpireToken, Without, Restrict
<1>5. sessions' = [sessions EXCEPT ![refreshTokens[t].session].revoked = TRUE]
  BY DEF ExpireToken
<1>6. DOMAIN sessions' = DOMAIN sessions
  BY <1>5
<1>7. ASSUME NEW s \in DOMAIN sessions
      PROVE  /\ sessions'[s].user = sessions[s].user
             /\ sessions'[s].hash = sessions[s].hash
             /\ sessions[s].revoked => sessions'[s].revoked
             /\ sessions[s].hash # t => sessions'[s] = sessions[s]
  BY <1>1, <1>3, <1>5 DEF SessionRecord
<1>8. sessions'[refreshTokens[t].session].revoked
  BY <1>1, <1>3, <1>5 DEF SessionRecord
<1> QED  BY <1>2, <1>4, <1>6, <1>7, <1>8 DEF ExpireToken, Expires

LEMMA RotateEffect ==
  ASSUME TypeOK, TokensMatchSessions, NEW h \in Requests, NEW t \in Tokens,
         RotateToken(h, t)
  PROVE  Rotates(h, t)
<1>1. \A s \in DOMAIN sessions : sessions[s] \in SessionRecord
  BY DEF TypeOK, IsStore
<1>2. t \in DOMAIN refreshTokens
  BY DEF RotateToken
<1>3. /\ refreshTokens[t].session \in DOMAIN sessions
      /\ sessions[refreshTokens[t].session].hash = t
  BY <1>2 DEF TokensMatchSessions
<1>4. /\ DOMAIN refreshTokens' = DOMAIN refreshTokens \ {t}
      /\ \A x \in DOMAIN refreshTokens' : refreshTokens'[x] = refreshTokens[x]
  BY DEF RotateToken, InvalidateToken, Without, Restrict
<1>5. sessions' = [sessions EXCEPT ![refreshTokens[t].session].hash = NoToken]
  BY DEF RotateToken, InvalidateToken
<1>6. DOMAIN sessions' = DOMAIN sessions
  BY <1>5
<1>7. ASSUME NEW s \in DOMAIN sessions
      PROVE  /\ sessions'[s].user = sessions[s].user
             /\ sessions'[s].hash \in {sessions[s].hash, NoToken}
             /\ sessions'[s].revoked = sessions[s].revoked
             /\ sessions[s].hash # t => sessions'[s] = sessions[s]
  BY <1>1, <1>3, <1>5 DEF SessionRecord
<1>8. sessions'[refreshTokens[t].session].hash = NoToken
  BY <1>1, <1>3, <1>5 DEF SessionRecord
<1> QED  BY <1>2, <1>4, <1>6, <1>7, <1>8 DEF RotateToken, GoIssue, Rotates

LEMMA RevokeEffect ==
  ASSUME TypeOK, NEW S \in SUBSET DOMAIN sessions, RevokesSome(S)
  PROVE  Revokes(S)
<1>1. \A s \in DOMAIN sessions : sessions[s] \in SessionRecord
  BY DEF TypeOK, IsStore
<1>2. /\ DOMAIN refreshTokens' = DOMAIN refreshTokens \ TokensOf(S)
      /\ \A x \in DOMAIN refreshTokens' : refreshTokens'[x] = refreshTokens[x]
  BY DEF RevokesSome, Revoke, Without, Restrict
<1>3. /\ DOMAIN sessions' = DOMAIN sessions
      /\ \A s \in DOMAIN sessions \ S : sessions'[s] = sessions[s]
      /\ \A s \in S : sessions'[s] = RevokedRecord(sessions[s])
  BY DEF RevokesSome, Revoke
<1>4. \A s \in S : /\ sessions'[s].user = sessions[s].user
                  /\ sessions'[s].hash = NoToken
                  /\ sessions'[s].revoked
  BY <1>1, <1>3 DEF RevokedRecord, SessionRecord
<1> QED  BY <1>2, <1>3, <1>4 DEF RevokesSome, Revokes

LEMMA IssueEffect ==
  ASSUME TypeOK, NEW h \in Requests, NEW s \in Sessions, NEW t \in Tokens,
         NEW issuedAt \in 0..now, IssueSession(h, s, t, issuedAt)
  PROVE  Issued(h, s, t)
<1>1. DOMAIN born = DOMAIN sessions
  BY DEF TypeOK
<1>2. /\ DOMAIN refreshTokens' = DOMAIN refreshTokens \cup {t}
      /\ \A x \in DOMAIN refreshTokens \ {t} : refreshTokens'[x] = refreshTokens[x]
      /\ refreshTokens'[t] = [user |-> calls[h].user, session |-> s,
                              expires |-> issuedAt + RefreshTokenTTL]
  BY DEF IssueSession, Put
<1>3. /\ DOMAIN sessions' = DOMAIN sessions \cup {s}
      /\ \A x \in DOMAIN sessions \ {s} : sessions'[x] = sessions[x]
      /\ sessions'[s] = [user |-> calls[h].user, hash |-> t, revoked |-> FALSE]
  BY DEF IssueSession, Put
<1>4. /\ DOMAIN born' = DOMAIN born \cup {s}
      /\ \A x \in DOMAIN born \ {s} : born'[x] = born[x]
      /\ born'[s] = [token |-> t, from |-> calls[h].from, gen |-> Generation(h)]
  BY DEF IssueSession, Put
<1>5. /\ s \notin DOMAIN sessions /\ t \notin MintedTokens
      /\ calls[h].pc = "issue"
      /\ calls' = [calls EXCEPT ![h] = Idle]
  BY DEF IssueSession
<1> QED  BY <1>1, <1>2, <1>3, <1>4, <1>5 DEF Issued

\* The two maps still agree after every step.
LEMMA NextMatches == IInv /\ [Next]_vars => TokensMatchSessions'
<1> SUFFICES ASSUME IInv, [Next]_vars PROVE TokensMatchSessions'
  OBVIOUS
<1> USE NoTokenAssumption
<1>0. /\ TypeOK /\ TokensMatchSessions /\ HashesAgree
      /\ DOMAIN refreshTokens \subseteq Tokens
      /\ DOMAIN born = DOMAIN sessions
  BY DEF IInv, TypeOK, IsStore
<1>1. CASE Quiet
  BY <1>0, <1>1 DEF Quiet, TokensMatchSessions
<1>2. ASSUME NEW t \in Tokens, ExpireToken(t)
      PROVE  TokensMatchSessions'
  <2>1. Expires(t)
    BY <1>0, <1>2, ExpireEffect
  <2>2. \A s \in DOMAIN sessions :
          sessions[s].hash = t => s = refreshTokens[t].session
    BY <1>0, <2>1 DEF Expires, TokensMatchSessions, HashesAgree
  <2>3. ASSUME NEW x \in DOMAIN refreshTokens'
        PROVE  LET s == refreshTokens'[x].session
               IN  /\ s \in DOMAIN sessions'
                   /\ sessions'[s].user = refreshTokens'[x].user
                   /\ sessions'[s].hash = x
                   /\ ~sessions'[s].revoked
    BY <1>0, <2>1 DEF Expires, TokensMatchSessions
  <2>4. ASSUME NEW s \in DOMAIN sessions', ~sessions'[s].revoked,
               sessions'[s].hash # NoToken
        PROVE  sessions'[s].hash \in DOMAIN refreshTokens'
    <3>1. /\ s \in DOMAIN sessions /\ ~sessions[s].revoked
          /\ sessions[s].hash = sessions'[s].hash
      BY <2>1, <2>4 DEF Expires
    <3>2. sessions[s].hash # t
      BY <2>1, <2>2, <2>4, <3>1 DEF Expires
    <3> QED  BY <1>0, <2>1, <2>4, <3>1, <3>2 DEF Expires, TokensMatchSessions
  <2> QED  BY <2>3, <2>4 DEF TokensMatchSessions
<1>3. ASSUME NEW S \in SUBSET DOMAIN sessions, RevokesSome(S)
      PROVE  TokensMatchSessions'
  <2>0. Revokes(S)
    BY <1>0, <1>3, RevokeEffect
  <2>1. \A t \in DOMAIN refreshTokens' : refreshTokens[t].session \notin S
    BY <1>0, <2>0 DEF Revokes, TokensMatchSessions, TokensOf
  <2>2. ASSUME NEW s \in DOMAIN sessions', ~sessions'[s].revoked,
               sessions'[s].hash # NoToken
        PROVE  sessions'[s].hash \in DOMAIN refreshTokens'
    <3>1. s \in DOMAIN sessions /\ s \notin S /\ sessions'[s] = sessions[s]
      BY <2>0, <2>2 DEF Revokes
    <3>2. sessions[s].hash \in DOMAIN refreshTokens
      BY <1>0, <2>2, <3>1 DEF TokensMatchSessions
    <3>3. sessions[s].hash \notin TokensOf(S)
      BY <1>0, <2>2, <3>1 DEF HashesAgree, TokensOf
    <3> QED  BY <2>0, <3>1, <3>2, <3>3 DEF Revokes
  <2> QED  BY <1>0, <2>0, <2>1, <2>2 DEF Revokes, TokensMatchSessions
<1>4. ASSUME NEW h \in Requests, NEW t \in Tokens, RotateToken(h, t)
      PROVE  TokensMatchSessions'
  <2>1. Rotates(h, t)
    BY <1>0, <1>4, RotateEffect
  <2>2. \A s \in DOMAIN sessions :
          sessions[s].hash = t => s = refreshTokens[t].session
    BY <1>0, <2>1 DEF Rotates, TokensMatchSessions, HashesAgree
  <2>3. ASSUME NEW x \in DOMAIN refreshTokens'
        PROVE  LET s == refreshTokens'[x].session
               IN  /\ s \in DOMAIN sessions'
                   /\ sessions'[s].user = refreshTokens'[x].user
                   /\ sessions'[s].hash = x
                   /\ ~sessions'[s].revoked
    BY <1>0, <2>1 DEF Rotates, TokensMatchSessions
  <2>4. ASSUME NEW s \in DOMAIN sessions', ~sessions'[s].revoked,
               sessions'[s].hash # NoToken
        PROVE  sessions'[s].hash \in DOMAIN refreshTokens'
    <3>1. /\ s \in DOMAIN sessions /\ ~sessions[s].revoked
          /\ sessions[s].hash = sessions'[s].hash
      BY <2>1, <2>4 DEF Rotates
    <3>2. sessions[s].hash # t
      BY <2>1, <2>2, <2>4, <3>1 DEF Rotates
    <3> QED  BY <1>0, <2>1, <2>4, <3>1, <3>2 DEF Rotates, TokensMatchSessions
  <2> QED  BY <2>3, <2>4 DEF TokensMatchSessions
<1>5. ASSUME NEW h \in Requests, NEW s \in Sessions, NEW t \in Tokens,
             NEW issuedAt \in 0..now, IssueSession(h, s, t, issuedAt)
      PROVE  TokensMatchSessions'
  <2>0. Issued(h, s, t)
    BY <1>0, <1>5, IssueEffect
  <2>1. t \notin DOMAIN refreshTokens
    BY <1>0, <2>0 DEF Issued, TokensMatchSessions, HashesAgree, MintedTokens
  <2> QED  BY <1>0, <2>0, <2>1 DEF Issued, TokensMatchSessions
<1> QED
  BY <1>0, <1>1, <1>2, <1>3, <1>4, <1>5, StepCases

\* Hashes stay the tokens minted with their sessions.
LEMMA NextHashes == IInv /\ [Next]_vars => HashesAgree'
<1> SUFFICES ASSUME IInv, [Next]_vars PROVE HashesAgree'
  OBVIOUS
<1>0. TypeOK /\ TokensMatchSessions /\ HashesAgree
  BY DEF IInv
<1>1. CASE Quiet
  BY <1>0, <1>1 DEF Quiet, HashesAgree
<1>2. ASSUME NEW t \in Tokens, ExpireToken(t)
      PROVE  HashesAgree'
  <2>1. Expires(t)
    BY <1>0, <1>2, ExpireEffect
  <2> QED  BY <1>0, <2>1 DEF Expires, HashesAgree
<1>3. ASSUME NEW S \in SUBSET DOMAIN sessions, RevokesSome(S)
      PROVE  HashesAgree'
  <2>1. Revokes(S)
    BY <1>0, <1>3, RevokeEffect
  <2> QED  BY <1>0, <2>1 DEF Revokes, HashesAgree
<1>4. ASSUME NEW h \in Requests, NEW t \in Tokens, RotateToken(h, t)
      PROVE  HashesAgree'
  <2>1. Rotates(h, t)
    BY <1>0, <1>4, RotateEffect
  <2> QED  BY <1>0, <2>1 DEF Rotates, HashesAgree
<1>5. ASSUME NEW h \in Requests, NEW s \in Sessions, NEW t \in Tokens,
             NEW issuedAt \in 0..now, IssueSession(h, s, t, issuedAt)
      PROVE  HashesAgree'
  <2>1. Issued(h, s, t)
    BY <1>0, <1>5, IssueEffect
  <2> QED  BY <1>0, <2>1 DEF Issued, HashesAgree, MintedTokens
<1> QED
  BY <1>0, <1>1, <1>2, <1>3, <1>4, <1>5, StepCases

-----------------------------------------------------------------------------
(* Presented tokens *)

\* A step that mints nothing and starts no rotation leaves them alone.
LEMMA PresentedStable ==
  ASSUME PresentedOnce, RefreshSingleUse, UNCHANGED born,
         DOMAIN refreshTokens' \subseteq DOMAIN refreshTokens,
         \A h \in Requests, t \in Tokens :
           Issues(h, FromToken(t))' => Issues(h, FromToken(t))
  PROVE  PresentedOnce' /\ RefreshSingleUse'
<1>1. /\ MintedTokens' = MintedTokens /\ AnsweredTokens' = AnsweredTokens
      /\ RedeemedTokens' \subseteq RedeemedTokens
  BY DEF MintedTokens, AnsweredTokens, RedeemedTokens, SessionsFrom
<1>2. RefreshSingleUse'
  BY DEF RefreshSingleUse, SessionsFrom
<1> QED  BY <1>1, <1>2 DEF PresentedOnce

\* A token is presented at most once and answered at most once.
LEMMA NextPresented == IInv /\ [Next]_vars => PresentedOnce' /\ RefreshSingleUse'
<1> SUFFICES ASSUME IInv, [Next]_vars PROVE PresentedOnce' /\ RefreshSingleUse'
  OBVIOUS
<1>0. /\ TypeOK /\ TokensMatchSessions /\ HashesAgree
      /\ PresentedOnce /\ RefreshSingleUse
      /\ DOMAIN born = DOMAIN sessions
  BY DEF IInv, TypeOK
<1>a. \A t \in DOMAIN refreshTokens : t \in Tokens /\ t \in MintedTokens
  <2>1. \A t \in DOMAIN refreshTokens : t \in Tokens
    BY <1>0 DEF TypeOK, IsStore
  <2> QED  BY <1>0, <2>1, NoTokenAssumption DEF TokensMatchSessions, HashesAgree, MintedTokens
<1>1. CASE Quiet
  <2>1. \A h \in Requests, t \in Tokens :
          Issues(h, FromToken(t))' => Issues(h, FromToken(t))
    BY <1>1 DEF Quiet, Issues, FromToken
  <2> QED  BY <1>0, <1>1, <2>1, PresentedStable DEF Quiet
<1>2. ASSUME NEW t \in Tokens, ExpireToken(t)
      PROVE  PresentedOnce' /\ RefreshSingleUse'
  <2>1. Expires(t)
    BY <1>0, <1>2, ExpireEffect
  <2> QED  BY <1>0, <2>1, PresentedStable DEF Expires, Issues
<1>3. ASSUME NEW S \in SUBSET DOMAIN sessions, RevokesSome(S)
      PROVE  PresentedOnce' /\ RefreshSingleUse'
  <2>1. Revokes(S)
    BY <1>0, <1>3, RevokeEffect
  <2> QED  BY <1>0, <2>1, PresentedStable DEF Revokes, Issues
<1>4. ASSUME NEW h \in Requests, NEW t \in Tokens, RotateToken(h, t)
      PROVE  PresentedOnce' /\ RefreshSingleUse'
  <2>1. Rotates(h, t)
    BY <1>0, <1>4, RotateEffect
  <2>2. /\ MintedTokens' = MintedTokens /\ AnsweredTokens' = AnsweredTokens
        /\ RefreshSingleUse'
    BY <1>0, <2>1 DEF Rotates, MintedTokens, AnsweredTokens, SessionsFrom, RefreshSingleUse
  <2>3. /\ Issues(h, FromToken(t))'
        /\ \A x \in Tokens : Issues(h, FromToken(x))' => x = t
        /\ \A g \in Requests \ {h}, x \in Tokens :
             Issues(g, FromToken(x))' <=> Issues(g, FromToken(x))
    BY <1>0, <2>1 DEF Rotates, Issues, FromToken, TypeOK
  <2>4. /\ t \in MintedTokens /\ t \notin DOMAIN refreshTokens'
        /\ t \notin RedeemedTokens /\ t \notin AnsweredTokens
    BY <1>0, <1>a, <2>1 DEF Rotates, PresentedOnce
  <2>5. RedeemedTokens' \subseteq RedeemedTokens \cup {t}
    BY <2>3 DEF RedeemedTokens
  <2>6. \A x \in Tokens : \A h1, h2 \in Requests :
          Issues(h1, FromToken(x))' /\ Issues(h2, FromToken(x))' => h1 = h2
    BY <1>0, <2>3, <2>4 DEF PresentedOnce, RedeemedTokens
  <2>7. DOMAIN refreshTokens' \subseteq DOMAIN refreshTokens
    BY <2>1 DEF Rotates
  <2> QED  BY <1>0, <2>2, <2>4, <2>5, <2>6, <2>7 DEF PresentedOnce
<1>5. ASSUME NEW h \in Requests, NEW s \in Sessions, NEW t \in Tokens,
             NEW issuedAt \in 0..now, IssueSession(h, s, t, issuedAt)
      PROVE  PresentedOnce' /\ RefreshSingleUse'
  <2>1. Issued(h, s, t)
    BY <1>0, <1>5, IssueEffect
  <2>2. \A g \in Requests, x \in Tokens :
          Issues(g, FromToken(x))' <=> g # h /\ Issues(g, FromToken(x))
    BY <1>0, <2>1 DEF Issued, Issues, Idle, TypeOK
  <2>3. MintedTokens' = MintedTokens \cup {t} /\ t \notin MintedTokens
    BY <2>1 DEF Issued, MintedTokens
  <2>4. \A x \in Tokens : SessionsFrom(FromToken(x))' =
          IF calls[h].from = FromToken(x) THEN SessionsFrom(FromToken(x)) \cup {s}
                                          ELSE SessionsFrom(FromToken(x))
    BY <2>1 DEF Issued, SessionsFrom
  <2>5. \A x \in Tokens : calls[h].from = FromToken(x) => Issues(h, FromToken(x))
    BY <2>1 DEF Issued, Issues
  <2>6. \A x \in Tokens : Issues(h, FromToken(x)) => SessionsFrom(FromToken(x)) = {}
    BY <1>0 DEF PresentedOnce, RedeemedTokens, AnsweredTokens
  <2>7. RefreshSingleUse'
    BY <1>0, <2>4, <2>5, <2>6 DEF RefreshSingleUse
  <2>8. /\ RedeemedTokens' \subseteq RedeemedTokens
        /\ RedeemedTokens' \cup AnsweredTokens' \subseteq RedeemedTokens \cup AnsweredTokens
    BY <2>2, <2>4, <2>5 DEF RedeemedTokens, AnsweredTokens
  <2>9. \A x \in Tokens : ~(x \in RedeemedTokens' /\ x \in AnsweredTokens')
    BY <1>0, <2>2, <2>4, <2>5 DEF PresentedOnce, RedeemedTokens, AnsweredTokens
  <2>10. \A x \in Tokens : \A h1, h2 \in Requests :
          Issues(h1, FromToken(x))' /\ Issues(h2, FromToken(x))' => h1 = h2
    BY <1>0, <2>2 DEF PresentedOnce
  <2>11. DOMAIN refreshTokens' = DOMAIN refreshTokens \cup {t}
    BY <2>1 DEF Issued
  <2>12. t \notin RedeemedTokens \cup AnsweredTokens
    BY <1>0, <2>3 DEF PresentedOnce
  <2> QED  BY <1>0, <2>3, <2>7, <2>8, <2>9, <2>10, <2>11, <2>12 DEF PresentedOnce
<1> QED
  BY <1>0, <1>1, <1>2, <1>3, <1>4, <1>5, StepCases

-----------------------------------------------------------------------------
(* The theorems *)

LEMMA NextInv == IInv /\ [Next]_vars => IInv'
BY NextTyped, NextMatches, NextHashes, NextPresented DEF IInv

LEMMA Invariance == Spec => []IInv
<1>1. Init => IInv
  BY InitInv
<1>2. IInv /\ [Next]_vars => IInv'
  BY NextInv
<1> QED  BY <1>1, <1>2, PTL DEF Spec

\* Every map and every request in flight stays well formed.
THEOREM TypeCorrect == Spec => []TypeOK
BY Invariance, PTL DEF IInv

\* At every moment a stored refresh token belongs to an unrevoked session of
\* the same user, and an unrevoked session with a hash has its token stored.
THEOREM MapsAgree == Spec => []TokensMatchSessions
BY Invariance, PTL DEF IInv

\* A refresh token is answered with at most one session, however many
\* requests present it and whatever else happens meanwhile.
THEOREM SingleUse == Spec => []RefreshSingleUse
BY Invariance, PTL DEF IInv

\* The token of a revoked session starts no rotation.
THEOREM RevokedTokensAreDead == Spec => RevokedBuysNothing
<1>1. ASSUME IInv, [Next]_vars, NEW s \in DOMAIN sessions, sessions[s].revoked,
             StartsRefreshOf(born[s].token)
      PROVE  FALSE
  <2>0. /\ TypeOK /\ TokensMatchSessions /\ HashesAgree
        /\ DOMAIN born = DOMAIN sessions
    BY <1>1 DEF IInv, TypeOK
  <2>1. CASE Quiet
    BY <1>1, <2>1 DEF Quiet, StartsRefreshOf, FromToken
  <2>2. ASSUME NEW t \in Tokens, ExpireToken(t)
        PROVE  FALSE
    BY <1>1, <2>2 DEF ExpireToken, StartsRefreshOf
  <2>3. ASSUME NEW S \in SUBSET DOMAIN sessions, RevokesSome(S)
        PROVE  FALSE
    BY <1>1, <2>3 DEF RevokesSome, StartsRefreshOf
  <2>4. ASSUME NEW h \in Requests, NEW t \in Tokens, RotateToken(h, t)
        PROVE  FALSE
    <3>1. Rotates(h, t)
      BY <2>0, <2>4, RotateEffect
    <3>2. t = born[s].token
      BY <1>1, <2>0, <3>1 DEF Rotates, StartsRefreshOf, FromToken, TypeOK
    <3>3. LET r == refreshTokens[t].session
          IN  /\ r \in DOMAIN sessions /\ ~sessions[r].revoked
              /\ born[r].token = t
      BY <2>0, <3>1, NoTokenAssumption DEF Rotates, TokensMatchSessions, HashesAgree
    <3> QED  BY <1>1, <2>0, <3>2, <3>3 DEF HashesAgree
  <2>5. ASSUME NEW h \in Requests, NEW r \in Sessions, NEW t \in Tokens,
               NEW issuedAt \in 0..now, IssueSession(h, r, t, issuedAt)
        PROVE  FALSE
    BY <1>1, <2>0, <2>5 DEF IssueSession, StartsRefreshOf, Idle, TypeOK
  <2> QED
    BY <1>1, <2>0, <2>1, <2>2, <2>3, <2>4, <2>5, StepCases
<1>2. IInv /\ [Next]_vars =>
        [\A s \in DOMAIN sessions :
           sessions[s].revoked => ~StartsRefreshOf(born[s].token)]_vars
  BY <1>1
<1> QED  BY <1>2, Invariance, PTL DEF RevokedBuysNothing, Spec

-----------------------------------------------------------------------------
(* Counting what one request can cause *)

\* Requests, and all sets of them, can be counted.
LEMMA RequestSets ==
  ASSUME NEW R \in SUBSET Requests
  PROVE  /\ IsFiniteSet(R) /\ Cardinality(R) \in Nat
         /\ Cardinality(R) <= Cardinality(Requests)
         /\ Cardinality(Requests) \in Nat
<1>1. IsFiniteSet(R) /\ Cardinality(R) <= Cardinality(Requests)
  BY FS_Subset, RequestsAssumption
<1> QED  BY <1>1, FS_CardinalityType, RequestsAssumption

\* Things and the requests that may bring about more of them: the sum stays
\* within a limit.
Within(S, R, N) == IsFiniteSet(S) /\ Cardinality(S) + Cardinality(R) <= N

LEMMA WithinFewer ==
  ASSUME NEW S, NEW R \in SUBSET Requests, NEW N \in Nat, Within(S, R, N),
         NEW T \in SUBSET S, NEW Q \in SUBSET R
  PROVE  Within(T, Q, N)
<1>1. /\ IsFiniteSet(T) /\ IsFiniteSet(S)
      /\ Cardinality(T) <= Cardinality(S)
  BY FS_Subset DEF Within
<1>2. Cardinality(T) \in Nat /\ Cardinality(S) \in Nat
  BY <1>1, FS_CardinalityType
<1>3. Cardinality(Q) <= Cardinality(R)
  BY RequestSets, FS_Subset
<1>4. Cardinality(Q) \in Nat /\ Cardinality(R) \in Nat
  BY RequestSets
<1> QED  BY <1>1, <1>2, <1>3, <1>4 DEF Within

\* A request is answered: one request less, one thing more.
LEMMA WithinAnswer ==
  ASSUME NEW S, NEW R \in SUBSET Requests, NEW N \in Nat, Within(S, R, N),
         NEW h \in R, NEW x
  PROVE  Within(S \cup {x}, R \ {h}, N)
<1>1. /\ IsFiniteSet(S) /\ IsFiniteSet(R)
      /\ Cardinality(S) \in Nat /\ Cardinality(R) \in Nat
  BY RequestSets, FS_CardinalityType DEF Within
<1>2. /\ IsFiniteSet(S \cup {x})
      /\ Cardinality(S \cup {x}) = IF x \in S THEN Cardinality(S) ELSE Cardinality(S) + 1
  BY <1>1, FS_AddElement
<1>3. Cardinality(R \ {h}) = Cardinality(R) - 1
  BY <1>1, FS_RemoveElement
<1> QED  BY <1>1, <1>2, <1>3 DEF Within

\* A thing is handed to a request: one thing less, one request more.
LEMMA WithinTake ==
  ASSUME NEW S, NEW R \in SUBSET Requests, NEW N \in Nat, Within(S, R, N),
         NEW h \in Requests, NEW x \in S
  PROVE  Within(S \ {x}, R \cup {h}, N)
<1>1. /\ IsFiniteSet(S) /\ IsFiniteSet(R)
      /\ Cardinality(S) \in Nat /\ Cardinality(R) \in Nat
  BY RequestSets, FS_CardinalityType DEF Within
<1>2. IsFiniteSet(S \ {x}) /\ Cardinality(S \ {x}) = Cardinality(S) - 1
  BY <1>1, FS_RemoveElement
<1>3. Cardinality(R \cup {h}) = IF h \in R THEN Cardinality(R) ELSE Cardinality(R) + 1
  BY <1>1, FS_AddElement
<1> QED  BY <1>1, <1>2, <1>3 DEF Within

\* The limit that matters most: the number of requests.
Bounded(S, R) == Within(S, R, Cardinality(Requests))

LEMMA BoundedFewer ==
  ASSUME NEW S, NEW R \in SUBSET Requests, Bounded(S, R),
         NEW T \in SUBSET S, NEW Q \in SUBSET R
  PROVE  Bounded(T, Q)
BY RequestSets, WithinFewer DEF Bounded

LEMMA BoundedAnswer ==
  ASSUME NEW S, NEW R \in SUBSET Requests, Bounded(S, R), NEW h \in R, NEW x
  PROVE  Bounded(S \cup {x}, R \ {h})
BY RequestSets, WithinAnswer DEF Bounded

\* Nothing yet: any set of requests is within the bound.
LEMMA BoundedNone == ASSUME NEW R \in SUBSET Requests PROVE Bounded({}, R)
BY RequestSets, FS_EmptySet DEF Bounded, Within

-----------------------------------------------------------------------------
(* What a revoke-all leaves behind *)

EscapeInv == \A u \in Users : Bounded(EscapedTokens(u), EscapingRequests(u))

LEMMA EscapeIsBounded == EscapeInv => EscapeBounded
BY DEF EscapeInv, Bounded, Within, EscapeBounded, Escapes

LEMMA EscapingAreRequests == ASSUME NEW u PROVE EscapingRequests(u) \in SUBSET Requests
BY DEF EscapingRequests

LEMMA SweepsKept ==
  ASSUME [Next]_vars PROVE sweeps' = sweeps \/ \E u \in Users : RevokeAllSessions(u)
BY DEF Next, vars, store, Tick, SyncAllUsers, CreateMFAChallenge, ExpireToken, RevokeSession,
       Login, ExchangeOIDCCode, ReadChallenge, RejectChallenge, ExpireChallenge,
       ConsumeChallenge, RotateToken, IssueFails, IssueSession

\* After a revoke-all no stored token descends from an older login of the user.
LEMMA SweepEffect ==
  ASSUME IInv, NEW v \in Users, RevokeAllSessions(v)
  PROVE  /\ EscapedTokens(v)' = {}
         /\ \A u \in Users \ {v} : /\ EscapedTokens(u)' \subseteq EscapedTokens(u)
                                   /\ EscapingRequests(u)' = EscapingRequests(u)
<1> DEFINE S == LiveSessions(v)
<1>1. TypeOK /\ TokensMatchSessions
  BY DEF IInv
<1>2. S \in SUBSET DOMAIN sessions /\ RevokesSome(S)
  BY DEF RevokeAllSessions, RevokesSome, LiveSessions
<1>3. Revokes(S)
  BY <1>1, <1>2, RevokeEffect
<1>4. sweeps \in [Users -> Nat] /\ sweeps' = [sweeps EXCEPT ![v] = @ + 1]
  BY <1>1 DEF RevokeAllSessions, TypeOK
<1>5. ASSUME NEW t \in DOMAIN refreshTokens', refreshTokens'[t].user = v PROVE FALSE
  <2>1. t \in DOMAIN refreshTokens /\ refreshTokens[t].user = v /\ t \notin TokensOf(S)
    BY <1>3, <1>5 DEF Revokes
  <2>2. refreshTokens[t].session \in S /\ sessions[refreshTokens[t].session].hash = t
    BY <1>1, <2>1 DEF TokensMatchSessions, LiveSessions
  <2> QED  BY <2>1, <2>2 DEF TokensOf
<1>6. EscapedTokens(v)' = {}
  BY <1>5 DEF EscapedTokens
<1>7. ASSUME NEW u \in Users \ {v}
      PROVE  /\ EscapedTokens(u)' \subseteq EscapedTokens(u)
             /\ EscapingRequests(u)' = EscapingRequests(u)
  <2>1. sweeps'[u] = sweeps[u]
    BY <1>4
  <2> QED  BY <1>3, <2>1 DEF Revokes, EscapedTokens, EscapingRequests
<1> QED  BY <1>6, <1>7

\* Between two revoke-alls of a user, what escaped the last one stays within
\* whatever limit it was within.
LEMMA EscapesStayWithin ==
  ASSUME IInv, [Next]_vars, sweeps' = sweeps, NEW u \in Users, NEW N \in Nat,
         Within(EscapedTokens(u), EscapingRequests(u), N)
  PROVE  Within(EscapedTokens(u)', EscapingRequests(u)', N)
<1>0. /\ TypeOK /\ TokensMatchSessions /\ HashesAgree
      /\ DOMAIN born = DOMAIN sessions
      /\ EscapingRequests(u) \in SUBSET Requests
  BY EscapingAreRequests DEF IInv, TypeOK
<1>1. ASSUME EscapedTokens(u)' \subseteq EscapedTokens(u),
             EscapingRequests(u)' \subseteq EscapingRequests(u)
      PROVE  Within(EscapedTokens(u)', EscapingRequests(u)', N)
  BY <1>0, <1>1, WithinFewer
<1>2. CASE Quiet
  <2>1. EscapedTokens(u)' = EscapedTokens(u)
    BY <1>2 DEF Quiet, EscapedTokens
  <2>2. EscapingRequests(u)' \subseteq EscapingRequests(u)
    BY <1>2 DEF Quiet, EscapingRequests
  <2> QED  BY <1>1, <2>1, <2>2
<1>3. ASSUME NEW t \in Tokens, ExpireToken(t)
      PROVE  Within(EscapedTokens(u)', EscapingRequests(u)', N)
  <2>1. Expires(t)
    BY <1>0, <1>3, ExpireEffect
  <2> QED  BY <1>1, <2>1 DEF Expires, EscapedTokens, EscapingRequests
<1>4. ASSUME NEW S \in SUBSET DOMAIN sessions, RevokesSome(S)
      PROVE  Within(EscapedTokens(u)', EscapingRequests(u)', N)
  <2>1. Revokes(S)
    BY <1>0, <1>4, RevokeEffect
  <2> QED  BY <1>1, <2>1 DEF Revokes, EscapedTokens, EscapingRequests
<1>5. ASSUME NEW h \in Requests, NEW t \in Tokens, RotateToken(h, t)
      PROVE  Within(EscapedTokens(u)', EscapingRequests(u)', N)
  <2>1. Rotates(h, t)
    BY <1>0, <1>5, RotateEffect
  <2>2. EscapedTokens(u)' = EscapedTokens(u) \ {t}
    BY <2>1 DEF Rotates, EscapedTokens
  <2>3. /\ calls'[h].pc = "issue" /\ calls'[h].from.kind = "refresh"
        /\ calls'[h].user = refreshTokens[t].user
        /\ calls'[h].gen = born[refreshTokens[t].session].gen
        /\ \A k \in Requests \ {h} : calls'[k] = calls[k]
    BY <1>0, <2>1 DEF Rotates, TypeOK, FromToken
  <2>4. CASE t \in EscapedTokens(u)
    <3>1. EscapingRequests(u)' = EscapingRequests(u) \cup {h}
      BY <2>3, <2>4 DEF EscapingRequests, EscapedTokens
    <3> QED  BY <1>0, <2>2, <2>4, <3>1, WithinTake
  <2>5. CASE t \notin EscapedTokens(u)
    <3>1. EscapingRequests(u)' \subseteq EscapingRequests(u)
      BY <2>1, <2>3, <2>5 DEF EscapingRequests, EscapedTokens, Rotates
    <3> QED  BY <1>1, <2>2, <3>1
  <2> QED  BY <2>4, <2>5
<1>6. ASSUME NEW h \in Requests, NEW s \in Sessions, NEW t \in Tokens,
             NEW issuedAt \in 0..now, IssueSession(h, s, t, issuedAt)
      PROVE  Within(EscapedTokens(u)', EscapingRequests(u)', N)
  <2>1. Issued(h, s, t) /\ t \notin DOMAIN refreshTokens
    <3>1. Issued(h, s, t)
      BY <1>0, <1>6, IssueEffect
    <3>2. DOMAIN refreshTokens \subseteq Tokens
      BY <1>0 DEF TypeOK, IsStore
    <3>3. DOMAIN refreshTokens \subseteq MintedTokens
      BY <1>0, <3>2, NoTokenAssumption DEF TokensMatchSessions, HashesAgree, MintedTokens
    <3> QED  BY <3>1, <3>3 DEF Issued
  <2>2. born'[s].gen = Generation(h)
    BY <1>6 DEF IssueSession, Put
  <2>3. EscapingRequests(u)' = EscapingRequests(u) \ {h}
    BY <1>0, <2>1 DEF Issued, EscapingRequests, Idle, TypeOK
  <2>4. EscapedTokens(u)' \ {t} = EscapedTokens(u)
    BY <1>0, <2>1 DEF Issued, EscapedTokens, TokensMatchSessions
  <2>5. t \in EscapedTokens(u)' <=>
          calls[h].user = u /\ Generation(h) < sweeps[u]
    BY <2>1, <2>2 DEF Issued, EscapedTokens
  <2>6. CASE h \in EscapingRequests(u)
    <3>1. EscapedTokens(u)' = EscapedTokens(u) \cup {t}
      BY <2>4, <2>5, <2>6 DEF EscapingRequests, Generation
    <3>2. Within(EscapedTokens(u) \cup {t}, EscapingRequests(u) \ {h}, N)
      BY <1>0, <2>6, WithinAnswer
    <3> QED  BY <2>3, <3>1, <3>2
  <2>7. CASE h \notin EscapingRequests(u)
    <3>1. sweeps[u] \in Nat
      BY <1>0 DEF TypeOK
    <3>2. t \notin EscapedTokens(u)'
      BY <2>1, <2>5, <2>7, <3>1 DEF EscapingRequests, Generation, Issued
    <3> QED  BY <1>1, <2>3, <2>4, <3>2
  <2> QED  BY <2>6, <2>7
<1> QED  BY <1>0, <1>2, <1>3, <1>4, <1>5, <1>6, StepCases

LEMMA NextEscape == ASSUME IInv, EscapeInv, [Next]_vars PROVE EscapeInv'
<1>0. /\ TypeOK /\ TokensMatchSessions /\ HashesAgree
      /\ DOMAIN born = DOMAIN sessions
  BY DEF IInv, TypeOK
<1>1. ASSUME NEW v \in Users, RevokeAllSessions(v) PROVE EscapeInv'
  <2>1. ASSUME NEW u \in Users PROVE Bounded(EscapedTokens(u), EscapingRequests(u))'
    <3>1. CASE u = v
      <4>1. EscapingRequests(u)' \in SUBSET Requests
        BY DEF EscapingRequests
      <4> QED  BY <1>1, <3>1, <4>1, SweepEffect, BoundedNone DEF Bounded
    <3>2. CASE u # v
      <4>1. /\ EscapedTokens(u)' \subseteq EscapedTokens(u)
            /\ EscapingRequests(u)' = EscapingRequests(u)
        BY <1>1, <3>2, SweepEffect
      <4>2. Bounded(EscapedTokens(u)', EscapingRequests(u)')
        BY <4>1, EscapingAreRequests, BoundedFewer DEF EscapeInv
      <4> QED  BY <4>2 DEF Bounded
    <3> QED  BY <3>1, <3>2
  <2> QED  BY <2>1 DEF EscapeInv
<1>2. ASSUME sweeps' = sweeps PROVE EscapeInv'
  <2>1. ASSUME NEW u \in Users PROVE Bounded(EscapedTokens(u)', EscapingRequests(u)')
    BY <1>2, EscapesStayWithin, RequestSets DEF EscapeInv, Bounded
  <2> QED  BY <2>1 DEF EscapeInv, Bounded
<1> QED  BY <1>1, <1>2, SweepsKept

LEMMA InitEscape == Init => EscapeInv
<1>1. ASSUME Init, NEW u \in Users PROVE EscapedTokens(u) = {}
  BY <1>1 DEF Init, EmptyStore, EscapedTokens
<1> QED  BY <1>1, EscapingAreRequests, BoundedNone DEF EscapeInv

\* Whatever overlaps, a revoke-all is survived by at most as many tokens of
\* the user as there are requests being served.
THEOREM FewTokensEscape == Spec => []EscapeBounded
<1>1. Init => EscapeInv
  BY InitEscape
<1>2. IInv /\ EscapeInv /\ [Next]_vars => EscapeInv'
  BY NextEscape
<1> QED  BY <1>1, <1>2, EscapeIsBounded, Invariance, PTL DEF Spec

\* Within EscapeInv what escaped is counted by a number.
LEMMA EscapesAreCounted ==
  ASSUME EscapeInv, NEW u \in Users
  PROVE  Escapes(u) \in Nat /\ Within(EscapedTokens(u), EscapingRequests(u), Escapes(u))
<1>1. IsFiniteSet(EscapedTokens(u))
  BY DEF EscapeInv, Bounded, Within
<1>2. Cardinality(EscapedTokens(u)) \in Nat /\ Cardinality(EscapingRequests(u)) \in Nat
  BY <1>1, FS_CardinalityType, EscapingAreRequests, RequestSets
<1> QED  BY <1>1, <1>2 DEF Within, Escapes

\* One step: the user's revoke-all takes every token, and no other step adds
\* to what escaped an earlier one.
LEMMA EscapesStep ==
  ASSUME IInv, EscapeInv, [Next]_vars, NEW u \in Users
  PROVE  IF sweeps'[u] = sweeps[u] THEN Escapes(u)' <= Escapes(u)
                                   ELSE EscapedTokens(u)' = {}
<1>1. /\ Escapes(u) \in Nat
      /\ Within(EscapedTokens(u), EscapingRequests(u), Escapes(u))
      /\ EscapingRequests(u) \in SUBSET Requests
  BY EscapesAreCounted, EscapingAreRequests
<1>2. ASSUME Within(EscapedTokens(u)', EscapingRequests(u)', Escapes(u))
      PROVE  Escapes(u)' <= Escapes(u)
  BY <1>2 DEF Within, Escapes
<1>3. CASE sweeps' = sweeps
  BY <1>1, <1>2, <1>3, EscapesStayWithin
<1>4. ASSUME NEW v \in Users, RevokeAllSessions(v), u # v
      PROVE  sweeps'[u] = sweeps[u] /\ Escapes(u)' <= Escapes(u)
  <2>1. /\ EscapedTokens(u)' \subseteq EscapedTokens(u)
        /\ EscapingRequests(u)' = EscapingRequests(u)
    BY <1>4, SweepEffect
  <2>2. Within(EscapedTokens(u)', EscapingRequests(u)', Escapes(u))
    BY <1>1, <2>1, WithinFewer
  <2>3. sweeps'[u] = sweeps[u]
    BY <1>4 DEF RevokeAllSessions, IInv, TypeOK
  <2> QED  BY <1>2, <2>2, <2>3
<1>5. ASSUME RevokeAllSessions(u)
      PROVE  sweeps'[u] # sweeps[u] /\ EscapedTokens(u)' = {}
  <2>1. sweeps'[u] # sweeps[u]
    BY <1>5 DEF RevokeAllSessions, IInv, TypeOK
  <2> QED  BY <1>5, <2>1, SweepEffect
<1> QED  BY <1>3, <1>4, <1>5, SweepsKept

\* A revoke-all takes every token its user has, and until the next one what
\* escaped it never becomes more: if it met no rotation half done, no token
\* from before it is ever accepted again.
THEOREM EscapesDieOut == Spec => EscapesNeverGrow
<1>1. Init => EscapeInv
  BY InitEscape
<1>2. IInv /\ EscapeInv /\ [Next]_vars => EscapeInv'
  BY NextEscape
<1>3. IInv /\ EscapeInv /\ [Next]_vars =>
        [\A u \in Users : IF sweeps'[u] = sweeps[u] THEN Escapes(u)' <= Escapes(u)
                                                    ELSE EscapedTokens(u)' = {}]_vars
  BY EscapesStep
<1> QED  BY <1>1, <1>2, <1>3, Invariance, PTL DEF Spec, EscapesNeverGrow

-----------------------------------------------------------------------------
(* What one challenge can be spent on *)

Holders(c) == {h \in Requests : Holds(h, c)}

\* A stored challenge was not spent yet: it is dropped before its first
\* session is issued, and its identifier is not used again.
Unspent(c) == /\ SessionsFrom(FromChallenge(c)) = {}
              /\ \A h \in Requests : ~Issues(h, FromChallenge(c))

ChallengeInv ==
  /\ \A c \in Challenges : Bounded(SessionsFrom(FromChallenge(c)), Holders(c))
  /\ \A c \in DOMAIN challenges : Unspent(c)

LEMMA ChallengeIsBounded == ChallengeInv => ChallengeUsesBounded
BY DEF ChallengeInv, Bounded, Within, ChallengeUsesBounded, Holders

LEMMA HoldersAreRequests == ASSUME NEW c PROVE Holders(c) \in SUBSET Requests
BY DEF Holders

\* Nobody comes to hold a challenge, none is added, and no session is made.
NoMoreUses ==
  /\ UNCHANGED born
  /\ DOMAIN challenges' \subseteq DOMAIN challenges
  /\ \A h \in Requests, c \in Challenges :
       /\ Holds(h, c)' => Holds(h, c)
       /\ Issues(h, FromChallenge(c))' => Issues(h, FromChallenge(c))

LEMMA FewerUses ==
  ASSUME TypeOK, ChallengeInv, NoMoreUses PROVE ChallengeInv'
<1>0. DOMAIN challenges \subseteq Challenges
  BY DEF TypeOK, IsStore
<1>1. \A c : SessionsFrom(FromChallenge(c))' = SessionsFrom(FromChallenge(c))
  BY DEF NoMoreUses, SessionsFrom
<1>2. ASSUME NEW c \in Challenges
      PROVE  Bounded(SessionsFrom(FromChallenge(c))', Holders(c)')
  <2>1. Holders(c)' \subseteq Holders(c)
    BY DEF NoMoreUses, Holders
  <2> QED  BY <1>1, <2>1, HoldersAreRequests, BoundedFewer DEF ChallengeInv
<1>3. \A c \in DOMAIN challenges' : Unspent(c)'
  BY <1>0, <1>1 DEF NoMoreUses, ChallengeInv, Unspent
<1> QED  BY <1>2, <1>3 DEF ChallengeInv, Bounded

\* A request that moves on to something else than a challenge.
LEMMA MovesOn ==
  ASSUME TypeOK, UNCHANGED born, DOMAIN challenges' \subseteq DOMAIN challenges,
         NEW h \in Requests, \A k \in Requests \ {h} : calls'[k] = calls[k],
         calls'[h].pc # "verify",
         calls'[h].pc = "issue" => calls'[h].from.kind # "mfa"
  PROVE  NoMoreUses
BY DEF NoMoreUses, Holds, Issues, FromChallenge

LEMMA MostStepsFewerUses ==
  ASSUME TypeOK, [Next]_vars
  PROVE  \/ NoMoreUses
         \/ \E u \in Users, c \in Challenges : CreateMFAChallenge(u, c)
         \/ \E h \in Requests, c \in Challenges : ReadChallenge(h, c)
         \/ \E h \in Requests : ConsumeChallenge(h)
         \/ \E h \in Requests, s \in Sessions, t \in Tokens, issuedAt \in 0..now :
              IssueSession(h, s, t, issuedAt)
<1>1. CASE UNCHANGED <<challenges, calls, born>>
  BY <1>1 DEF NoMoreUses, Holds, Issues
<1>2. ASSUME NEW h \in Requests, NEW u \in Users, Login(h, u) \/ ExchangeOIDCCode(h, u)
      PROVE  NoMoreUses
  BY <1>2, MovesOn DEF Login, ExchangeOIDCCode, GoIssue, FromLogin, store, TypeOK
<1>3. ASSUME NEW h \in Requests, NEW t \in Tokens, RotateToken(h, t) PROVE NoMoreUses
  BY <1>3, MovesOn DEF RotateToken, GoIssue, FromToken, TypeOK
<1>4. ASSUME NEW h \in Requests, RejectChallenge(h) \/ IssueFails(h) PROVE NoMoreUses
  BY <1>4, MovesOn DEF RejectChallenge, IssueFails, Idle, store, TypeOK
<1>5. ASSUME NEW h \in Requests, ExpireChallenge(h) PROVE NoMoreUses
  <2>1. DOMAIN challenges' \subseteq DOMAIN challenges
    BY <1>5 DEF ExpireChallenge, DropChallenge, Without, Restrict
  <2> QED  BY <1>5, <2>1, MovesOn DEF ExpireChallenge, Idle, TypeOK
<1>6. \/ UNCHANGED <<challenges, calls, born>>
      \/ \E u \in Users, c \in Challenges : CreateMFAChallenge(u, c)
      \/ \E h \in Requests :
           \/ \E u \in Users : Login(h, u) \/ ExchangeOIDCCode(h, u)
           \/ \E c \in Challenges : ReadChallenge(h, c)
           \/ RejectChallenge(h) \/ ExpireChallenge(h) \/ ConsumeChallenge(h)
           \/ \E t \in Tokens : RotateToken(h, t)
           \/ IssueFails(h)
           \/ \E s \in Sessions, t \in Tokens, issuedAt \in 0..now :
                IssueSession(h, s, t, issuedAt)
  BY DEF Next, vars, store, Tick, SyncAllUsers, ExpireToken, RevokeAllSessions, RevokeSession
<1> QED  BY <1>1, <1>2, <1>3, <1>4, <1>5, <1>6

LEMMA NextChallenge == ASSUME TypeOK, ChallengeInv, [Next]_vars PROVE ChallengeInv'
<1>0. DOMAIN challenges \subseteq Challenges /\ DOMAIN born = DOMAIN sessions
  BY DEF TypeOK, IsStore
<1>1. CASE NoMoreUses
  BY <1>1, FewerUses
<1>2. ASSUME NEW u \in Users, NEW c \in Challenges, CreateMFAChallenge(u, c)
      PROVE  ChallengeInv'
  <2>1. /\ DOMAIN challenges' = DOMAIN challenges \cup {c} /\ c \notin KnownChallenges
        /\ UNCHANGED <<calls, born>>
    BY <1>2 DEF CreateMFAChallenge, Put
  <2>2. Unspent(c)
    BY <2>1 DEF KnownChallenges, Unspent, Holds
  <2>3. \A d : Unspent(d)' <=> Unspent(d)
    BY <2>1 DEF Unspent, SessionsFrom, Issues
  <2>4. \A d \in Challenges : Bounded(SessionsFrom(FromChallenge(d)), Holders(d))'
    BY <2>1 DEF ChallengeInv, Bounded, SessionsFrom, Holders, Holds, Issues
  <2> QED  BY <2>1, <2>2, <2>3, <2>4 DEF ChallengeInv
<1>3. ASSUME NEW h \in Requests, NEW c \in Challenges, ReadChallenge(h, c)
      PROVE  ChallengeInv'
  <2>1. /\ c \in DOMAIN challenges /\ UNCHANGED <<challenges, born>>
        /\ calls'[h].pc = "verify" /\ calls'[h].challenge = c
        /\ \A k \in Requests \ {h} : calls'[k] = calls[k]
    BY <1>3 DEF ReadChallenge, store, TypeOK
  <2>2. \A d : SessionsFrom(FromChallenge(d))' = SessionsFrom(FromChallenge(d))
    BY <2>1 DEF SessionsFrom
  <2>3. \A d \in DOMAIN challenges' : Unspent(d)'
    BY <2>1, <2>2 DEF ChallengeInv, Unspent, Issues
  <2>4. ASSUME NEW d \in Challenges
        PROVE  Bounded(SessionsFrom(FromChallenge(d))', Holders(d)')
    <3>1. CASE d = c
      <4>1. SessionsFrom(FromChallenge(d))' = {}
        BY <2>1, <2>2, <3>1 DEF ChallengeInv, Unspent
      <4>2. Holders(d)' \in SUBSET Requests
        BY DEF Holders
      <4> QED  BY <4>1, <4>2, BoundedNone
    <3>2. CASE d # c
      <4>1. Holders(d)' \subseteq Holders(d)
        BY <2>1, <3>2 DEF Holders, Holds, Issues
      <4> QED  BY <2>2, <4>1, HoldersAreRequests, BoundedFewer DEF ChallengeInv
    <3> QED  BY <3>1, <3>2
  <2> QED  BY <2>3, <2>4 DEF ChallengeInv, Bounded
<1>4. ASSUME NEW h \in Requests, ConsumeChallenge(h) PROVE ChallengeInv'
  <2> DEFINE c == calls[h].challenge
  <2>1. /\ DOMAIN challenges' = DOMAIN challenges \ {c} /\ UNCHANGED born
        /\ calls[h].pc = "verify"
        /\ calls'[h].pc = "issue" /\ calls'[h].from = FromChallenge(c)
        /\ \A k \in Requests \ {h} : calls'[k] = calls[k]
    BY <1>4 DEF ConsumeChallenge, DropChallenge, Without, Restrict, GoIssue, TypeOK
  <2>2. \A d : SessionsFrom(FromChallenge(d))' = SessionsFrom(FromChallenge(d))
    BY <2>1 DEF SessionsFrom
  <2>3. \A d : Issues(h, FromChallenge(d))' <=> d = c
    BY <2>1 DEF Issues, FromChallenge
  <2>4. \A d \in DOMAIN challenges' : Unspent(d)'
    BY <2>1, <2>2, <2>3 DEF ChallengeInv, Unspent, Issues
  <2>5. ASSUME NEW d \in Challenges
        PROVE  Bounded(SessionsFrom(FromChallenge(d))', Holders(d)')
    <3>1. Holders(d)' \subseteq Holders(d)
      BY <2>1, <2>3 DEF Holders, Holds, Issues
    <3> QED  BY <2>2, <3>1, HoldersAreRequests, BoundedFewer DEF ChallengeInv
  <2> QED  BY <2>4, <2>5 DEF ChallengeInv, Bounded
<1>5. ASSUME NEW h \in Requests, NEW s \in Sessions, NEW t \in Tokens,
             NEW issuedAt \in 0..now, IssueSession(h, s, t, issuedAt)
      PROVE  ChallengeInv'
  <2>1. Issued(h, s, t) /\ challenges' = challenges
    BY <1>5, IssueEffect DEF IssueSession
  <2>2. /\ \A k \in Requests \ {h} : calls'[k] = calls[k]
        /\ calls'[h].pc = "idle" /\ calls[h].pc = "issue"
    BY <2>1 DEF Issued, Idle, TypeOK
  <2>3. \A d : SessionsFrom(FromChallenge(d))' =
          IF Issues(h, FromChallenge(d)) THEN SessionsFrom(FromChallenge(d)) \cup {s}
                                         ELSE SessionsFrom(FromChallenge(d))
    BY <2>1, <2>2 DEF Issued, SessionsFrom, Issues
  <2>4. \A d : Holders(d)' = Holders(d) \ {h}
    BY <2>2 DEF Holders, Holds, Issues
  <2>5. \A d \in DOMAIN challenges' : Unspent(d)'
    BY <2>1, <2>2, <2>3 DEF ChallengeInv, Unspent, Issues
  <2>6. ASSUME NEW d \in Challenges
        PROVE  Bounded(SessionsFrom(FromChallenge(d))', Holders(d)')
    <3>1. Bounded(SessionsFrom(FromChallenge(d)), Holders(d)) /\ Holders(d) \in SUBSET Requests
      BY HoldersAreRequests DEF ChallengeInv
    <3>2. CASE Issues(h, FromChallenge(d))
      <4>1. h \in Holders(d)
        BY <3>2 DEF Holders, Holds
      <4>2. Bounded(SessionsFrom(FromChallenge(d)) \cup {s}, Holders(d) \ {h})
        BY <3>1, <4>1, BoundedAnswer
      <4> QED  BY <2>3, <2>4, <3>2, <4>2
    <3>3. CASE ~Issues(h, FromChallenge(d))
      <4>1. Holders(d)' \subseteq Holders(d)
        BY <2>4
      <4> QED  BY <2>3, <3>1, <3>3, <4>1, BoundedFewer
    <3> QED  BY <3>2, <3>3
  <2> QED  BY <2>5, <2>6 DEF ChallengeInv, Bounded
<1> QED  BY <1>1, <1>2, <1>3, <1>4, <1>5, MostStepsFewerUses

\* One challenge yields at most as many sessions as requests were being
\* served at the same time.
THEOREM ChallengesYieldFew == Spec => []ChallengeUsesBounded
<1>1. Init => ChallengeInv
  <2>1. ASSUME Init, NEW c \in Challenges PROVE SessionsFrom(FromChallenge(c)) = {}
    BY <2>1 DEF Init, EmptyStore, SessionsFrom
  <2>2. Init => DOMAIN challenges = {}
    BY DEF Init, EmptyStore
  <2> QED  BY <2>1, <2>2, HoldersAreRequests, BoundedNone DEF ChallengeInv
<1>2. TypeOK /\ ChallengeInv /\ [Next]_vars => ChallengeInv'
  BY NextChallenge
<1> QED  BY <1>1, <1>2, ChallengeIsBounded, TypeCorrect, PTL DEF Spec

-----------------------------------------------------------------------------
(* The service implements the ledger *)

LEMMA LedgerStart == Init => Ledger!LedgerInit
BY DEF Init, EmptyStore, Idle, Ledger!LedgerInit, MintedTokens, RedeemedTokens,
       AnsweredTokens, SessionsFrom, Issues

LEMMA LedgerStep == IInv /\ [Next]_vars => [Ledger!LedgerNext]_(Ledger!ledger)
<1> SUFFICES ASSUME IInv, [Next]_vars PROVE [Ledger!LedgerNext]_(Ledger!ledger)
  OBVIOUS
<1>0. /\ TypeOK /\ TokensMatchSessions /\ HashesAgree /\ PresentedOnce
      /\ DOMAIN born = DOMAIN sessions
      /\ DOMAIN refreshTokens \subseteq Tokens
  BY DEF IInv, TypeOK, IsStore
<1>1. CASE Quiet
  <2>1. UNCHANGED <<MintedTokens, DOMAIN refreshTokens, AnsweredTokens>>
    BY <1>1 DEF Quiet, MintedTokens, AnsweredTokens, SessionsFrom
  <2>2. CASE UNCHANGED calls
    BY <2>1, <2>2 DEF Ledger!ledger, RedeemedTokens, Issues
  <2>3. ASSUME NEW h \in Requests,
               \A g \in Requests \ {h} : calls'[g] = calls[g],
               calls'[h].pc # "issue" \/ calls'[h].from.kind # "refresh"
        PROVE  [Ledger!LedgerNext]_(Ledger!ledger)
    <3>1. \A g \in Requests, x \in Tokens :
            Issues(g, FromToken(x))' <=> g # h /\ Issues(g, FromToken(x))
      BY <2>3 DEF Issues, FromToken
    <3>2. CASE \E t \in Tokens : Issues(h, FromToken(t))
      <4>1. PICK t \in Tokens : Issues(h, FromToken(t))
        BY <3>2
      <4>2. RedeemedTokens' = RedeemedTokens \ {t} /\ t \in RedeemedTokens
        BY <1>0, <3>1, <4>1 DEF RedeemedTokens, PresentedOnce, Issues, FromToken
      <4>3. Ledger!Abandon(t)
        BY <2>1, <4>2 DEF Ledger!Abandon
      <4> QED  BY <4>3 DEF Ledger!LedgerNext
    <3>3. CASE ~\E t \in Tokens : Issues(h, FromToken(t))
      <4>1. RedeemedTokens' = RedeemedTokens
        BY <3>1, <3>3 DEF RedeemedTokens
      <4> QED  BY <2>1, <4>1 DEF Ledger!ledger
    <3> QED  BY <3>2, <3>3
  <2> QED  BY <1>1, <2>2, <2>3 DEF Quiet
<1>2. ASSUME NEW t \in Tokens, ExpireToken(t)
      PROVE  Ledger!LedgerNext
  <2>1. Expires(t)
    BY <1>0, <1>2, ExpireEffect
  <2>2. Ledger!Cancel({t})
    BY <2>1 DEF Expires, Ledger!Cancel, MintedTokens, RedeemedTokens,
                AnsweredTokens, SessionsFrom, Issues
  <2> QED  BY <2>2 DEF Ledger!LedgerNext
<1>3. ASSUME NEW S \in SUBSET DOMAIN sessions, RevokesSome(S)
      PROVE  Ledger!LedgerNext
  <2>1. Revokes(S)
    BY <1>0, <1>3, RevokeEffect
  <2>2. Ledger!Cancel(TokensOf(S) \cap Tokens)
    BY <1>0, <2>1 DEF Revokes, Ledger!Cancel, MintedTokens, RedeemedTokens,
                AnsweredTokens, SessionsFrom, Issues
  <2>3. TokensOf(S) \cap Tokens \in SUBSET Tokens
    OBVIOUS
  <2> QED  BY <2>2, <2>3 DEF Ledger!LedgerNext
<1>4. ASSUME NEW h \in Requests, NEW t \in Tokens, RotateToken(h, t)
      PROVE  Ledger!LedgerNext
  <2>1. Rotates(h, t)
    BY <1>0, <1>4, RotateEffect
  <2>2. \A g \in Requests, x \in Tokens :
          Issues(g, FromToken(x))' <=> Issues(g, FromToken(x)) \/ (g = h /\ x = t)
    BY <1>0, <2>1 DEF Rotates, Issues, FromToken, Idle, TypeOK
  <2>3. RedeemedTokens' = RedeemedTokens \cup {t}
    BY <2>2 DEF RedeemedTokens
  <2>4. Ledger!Redeem(t)
    BY <2>1, <2>3 DEF Rotates, Ledger!Redeem, MintedTokens, AnsweredTokens, SessionsFrom
  <2> QED  BY <2>4 DEF Ledger!LedgerNext
<1>5. ASSUME NEW h \in Requests, NEW s \in Sessions, NEW t \in Tokens,
             NEW issuedAt \in 0..now, IssueSession(h, s, t, issuedAt)
      PROVE  Ledger!LedgerNext
  <2>1. Issued(h, s, t)
    BY <1>0, <1>5, IssueEffect
  <2>2. \A g \in Requests, x \in Tokens :
          Issues(g, FromToken(x))' <=> g # h /\ Issues(g, FromToken(x))
    BY <1>0, <2>1 DEF Issued, Issues, Idle, TypeOK
  <2>3. /\ t \notin MintedTokens
        /\ MintedTokens' = MintedTokens \cup {t}
        /\ DOMAIN refreshTokens' = DOMAIN refreshTokens \cup {t}
    BY <2>1 DEF Issued, MintedTokens
  <2>4. \A x \in Tokens : x \in AnsweredTokens' <=>
          x \in AnsweredTokens \/ calls[h].from = FromToken(x)
    BY <2>1 DEF Issued, AnsweredTokens, SessionsFrom
  <2>5. CASE \E x \in Tokens : Issues(h, FromToken(x))
    <3>1. PICK x \in Tokens : Issues(h, FromToken(x))
      BY <2>5
    <3>2. RedeemedTokens' = RedeemedTokens \ {x} /\ x \in RedeemedTokens
      BY <1>0, <2>2, <3>1 DEF RedeemedTokens, PresentedOnce, Issues, FromToken
    <3>3. AnsweredTokens' = AnsweredTokens \cup {x}
      BY <2>4, <3>1 DEF AnsweredTokens, Issues, FromToken
    <3>4. Ledger!Answer(x, t)
      BY <2>3, <3>2, <3>3 DEF Ledger!Answer
    <3> QED  BY <3>4 DEF Ledger!LedgerNext
  <2>6. CASE ~\E x \in Tokens : Issues(h, FromToken(x))
    <3>1. RedeemedTokens' = RedeemedTokens
      BY <2>2, <2>6 DEF RedeemedTokens
    <3>2. AnsweredTokens' = AnsweredTokens
      BY <2>1, <2>4, <2>6 DEF AnsweredTokens, Issued, Issues
    <3>3. Ledger!Grant(t)
      BY <2>3, <3>1, <3>2 DEF Ledger!Grant
    <3> QED  BY <3>3 DEF Ledger!LedgerNext
  <2> QED  BY <2>5, <2>6
<1> QED
  BY <1>0, <1>1, <1>2, <1>3, <1>4, <1>5, StepCases

\* The refresh tokens of the service follow the ledger: each is granted
\* once, redeemed at most once, and answered only if it was redeemed.
THEOREM ImplementsTheLedger == Spec => ImplementsLedger
<1>1. Init => Ledger!LedgerInit
  BY LedgerStart
<1>2. IInv /\ [Next]_vars => [Ledger!LedgerNext]_(Ledger!ledger)
  BY LedgerStep
<1> QED  BY <1>1, <1>2, Invariance, PTL DEF Spec, ImplementsLedger, Ledger!LedgerSpec
=============================================================================
