---------------------------- MODULE AuthSessions ----------------------------
(***************************************************************************)
(* AuthService (internal/service/auth_service.go): sign-in, MFA            *)
(* challenges, refresh-token rotation and session revocation.              *)
(*                                                                         *)
(* Every HTTP request runs in a goroutine of its own.  The service's mutex *)
(* makes each critical section atomic, but VerifyMFA, RefreshToken and the *)
(* logins release it before issueSession takes it again.  A request that   *)
(* is between two critical sections is kept in calls, with the copies of   *)
(* the shared state that its goroutine still holds.                        *)
(*                                                                         *)
(* Abstracted: contents of the JWT, of the TOTP code and of the WebAuthn   *)
(* assertion, and the instants IssuedAt and RevokedAt (nothing reads       *)
(* them, except that RevokedAt is nil or not).  A failed lookup or a       *)
(* malformed request changes nothing and is a stuttering step.             *)
(***************************************************************************)
EXTENDS Integers, FiniteSets, Stores

CONSTANTS LocalUsers,       \* users ListUsers(false) may return to Login
          IdpUsers,         \* users the identity provider vouches for
          SeedUsers,        \* the two users SyncAllUsers starts from
          Requests,         \* requests served at the same time
          Challenges, Sessions, Tokens, \* random identifiers
          NoToken,          \* the empty RefreshTokenHash
          RefreshTokenTTL, ChallengeTTL,
          MaxTime,          \* bound: the clock stops here
          MaxSweeps         \* bound: revoke-all requests per user

Users == LocalUsers \cup IdpUsers

ASSUME NoTokenAssumption == NoToken \notin Tokens
ASSUME TimeAssumption == /\ RefreshTokenTTL \in Nat
                         /\ ChallengeTTL \in Nat
                         /\ MaxTime \in Nat
                         /\ MaxSweeps \in Nat
ASSUME RequestsAssumption == IsFiniteSet(Requests)
ASSUME SeedAssumption == SeedUsers \subseteq IdpUsers

VARIABLES now,            \* time.Now()
          challenges,     \* AuthService.challenges
          refreshTokens,  \* AuthService.refreshTokens, by token
          sessions,       \* AuthService.sessions
          idpUsers,       \* keys of UserSyncService.users
          calls,          \* the requests being served
          \* History of the service, which the code does not keep:
          born,           \* how each session came to be
          sweeps          \* revoke-all requests answered, per user

store == <<challenges, refreshTokens, sessions, idpUsers>>
vars == <<now, store, calls, born, sweeps>>

-----------------------------------------------------------------------------
(* Types *)

Idle == [pc |-> "idle"]

\* Where a session comes from: a password or OIDC login, a verified
\* challenge, or a refresh token.
FromLogin == [kind |-> "login"]
FromChallenge(c) == [kind |-> "mfa", id |-> c]
FromToken(t) == [kind |-> "refresh", id |-> t]
Origins == {FromLogin} \cup {FromChallenge(c) : c \in Challenges}
                       \cup {FromToken(t) : t \in Tokens}

ChallengeRecord == [user : Users, expires : Nat]
TokenRecord == [user : Users, session : Sessions, expires : Nat]
SessionRecord == [user : Users, hash : Tokens \cup {NoToken}, revoked : BOOLEAN]
Verifying == [pc : {"verify"}, challenge : Challenges, user : Users,
              expires : Nat, at : Nat]
Issuing == [pc : {"issue"}, user : Users, from : Origins, gen : Nat, at : Nat]
Birth == [token : Tokens, from : Origins, gen : Nat]

\* Every map and every request in flight is well formed, and the history
\* has an entry for exactly the sessions that exist.
TypeOK == /\ now \in Nat
          /\ IsStore(challenges, Challenges, ChallengeRecord)
          /\ IsStore(refreshTokens, Tokens, TokenRecord)
          /\ IsStore(sessions, Sessions, SessionRecord)
          /\ idpUsers \subseteq IdpUsers
          /\ calls \in [Requests -> {Idle} \cup Verifying \cup Issuing]
          /\ born \in [DOMAIN sessions -> Birth]
          /\ sweeps \in [Users -> Nat]

-----------------------------------------------------------------------------
(* Derived state *)

Issues(h, from) == calls[h].pc = "issue" /\ calls[h].from = from
Holds(h, c) == \/ calls[h].pc = "verify" /\ calls[h].challenge = c
               \/ Issues(h, FromChallenge(c))
SessionsFrom(from) == {s \in DOMAIN born : born[s].from = from}

MintedTokens == {born[s].token : s \in DOMAIN born}
KnownChallenges == DOMAIN challenges
                     \cup {c \in Challenges : \E h \in Requests : Holds(h, c)}
                     \cup {c \in Challenges : SessionsFrom(FromChallenge(c)) # {}}

LiveSessions(u) == {s \in DOMAIN sessions : /\ sessions[s].user = u
                                            /\ ~sessions[s].revoked}

-----------------------------------------------------------------------------
Init == /\ now = 0
        /\ challenges = EmptyStore
        /\ refreshTokens = EmptyStore
        /\ sessions = EmptyStore
        /\ idpUsers = {}
        /\ calls = [h \in Requests |-> Idle]
        /\ born = EmptyStore
        /\ sweeps = [u \in Users |-> 0]

Tick == /\ now < MaxTime
        /\ now' = now + 1
        /\ UNCHANGED <<store, calls, born, sweeps>>

Expired(deadline) == now > deadline

\* The request reaches issueSession: its goroutine holds no lock, and
\* knows only the user for whom to issue.
GoIssue(h, u, from, gen) ==
  calls' = [calls EXCEPT ![h] = [pc |-> "issue", user |-> u, from |-> from,
                                 gen |-> gen, at |-> now]]

-----------------------------------------------------------------------------
(* Logins *)

Login(h, u) == /\ calls[h] = Idle
               /\ u \in LocalUsers
               /\ GoIssue(h, u, FromLogin, sweeps[u])
               /\ UNCHANGED <<now, store, born, sweeps>>

\* SyncUserOnLogin stores the profile before the session is issued.
ExchangeOIDCCode(h, u) == /\ calls[h] = Idle
                          /\ u \in IdpUsers
                          /\ idpUsers' = idpUsers \cup {u}
                          /\ GoIssue(h, u, FromLogin, sweeps[u])
                          /\ UNCHANGED <<now, challenges, refreshTokens,
                                         sessions, born, sweeps>>

\* The ticker of cmd/auth-service: an empty profile store is seeded; a
\* non-empty one only has its LastSyncedAt instants refreshed.
SyncAllUsers == /\ idpUsers = {}
                /\ idpUsers' = SeedUsers
                /\ UNCHANGED <<now, challenges, refreshTokens, sessions,
                               calls, born, sweeps>>

-----------------------------------------------------------------------------
(* MFA *)

\* Nobody knows the identifier before the response, so the expiry computed
\* before the lock and the insertion under it are one step.
CreateMFAChallenge(u, c) ==
  /\ c \notin KnownChallenges
  /\ challenges' = Put(challenges, c, [user |-> u, expires |-> now + ChallengeTTL])
  /\ UNCHANGED <<now, refreshTokens, sessions, idpUsers, calls, born, sweeps>>

\* The challenge is copied under the read lock, and checked after it.
ReadChallenge(h, c) ==
  /\ calls[h] = Idle
  /\ c \in DOMAIN challenges
  /\ calls' = [calls EXCEPT ![h] = [pc |-> "verify", challenge |-> c,
                                    user |-> challenges[c].user,
                                    expires |-> challenges[c].expires,
                                    at |-> now]]
  /\ UNCHANGED <<now, store, born, sweeps>>

\* Another method than the challenge's, or a wrong code.
RejectChallenge(h) == /\ calls[h].pc = "verify"
                      /\ calls' = [calls EXCEPT ![h] = Idle]
                      /\ UNCHANGED <<now, store, born, sweeps>>

\* Mutant of DropChallenge: a verified challenge stays until it expires.
DropChallenge_Kept(h) == challenges' = challenges

DropChallenge(h) == challenges' = Without(challenges, {calls[h].challenge})

ExpireChallenge(h) == /\ calls[h].pc = "verify"
                      /\ Expired(calls[h].expires)
                      /\ DropChallenge(h)
                      /\ calls' = [calls EXCEPT ![h] = Idle]
                      /\ UNCHANGED <<now, refreshTokens, sessions, idpUsers,
                                     born, sweeps>>

\* The clock was read some time after the copy was made: it is enough that
\* the copy was made in time.  The challenge may be gone by now.
ConsumeChallenge(h) == /\ calls[h].pc = "verify"
                       /\ calls[h].at <= calls[h].expires
                       /\ DropChallenge(h)
                       /\ GoIssue(h, calls[h].user, FromChallenge(calls[h].challenge),
                                  sweeps[calls[h].user])
                       /\ UNCHANGED <<now, refreshTokens, sessions, idpUsers,
                                      born, sweeps>>

-----------------------------------------------------------------------------
(* Refresh-token rotation *)

\* The token is past its deadline: it goes, and its session is revoked.
ExpireToken(t) ==
  /\ t \in DOMAIN refreshTokens
  /\ Expired(refreshTokens[t].expires)
  /\ refreshTokens' = Without(refreshTokens, {t})
  /\ sessions' = [sessions EXCEPT ![refreshTokens[t].session].revoked = TRUE]
  /\ UNCHANGED <<now, challenges, idpUsers, calls, born, sweeps>>

\* Mutants of InvalidateToken: the old token is kept, for a client that
\* retries; the old session is deleted with its token.
InvalidateToken_Kept(t) == UNCHANGED <<refreshTokens, sessions>>
InvalidateToken_Deletes(t) ==
  /\ refreshTokens' = Without(refreshTokens, {t})
  /\ sessions' = Without(sessions, {refreshTokens[t].session})

\* The old token is invalidated; the session it belonged to stays, without
\* a token, and is not revoked.
InvalidateToken(t) ==
  /\ refreshTokens' = Without(refreshTokens, {t})
  /\ sessions' = [sessions EXCEPT ![refreshTokens[t].session].hash = NoToken]

RotateToken(h, t) ==
  /\ calls[h] = Idle
  /\ t \in DOMAIN refreshTokens
  /\ ~Expired(refreshTokens[t].expires)
  /\ InvalidateToken(t)
  /\ GoIssue(h, refreshTokens[t].user, FromToken(t),
             born[refreshTokens[t].session].gen)
  /\ UNCHANGED <<now, challenges, idpUsers, born, sweeps>>

-----------------------------------------------------------------------------
(* Revocation *)

RevokedRecord(r) == [r EXCEPT !.revoked = TRUE, !.hash = NoToken]

\* Mutant of TokensOf: revocation leaves the token of the session stored.
TokensOf_Forgotten(S) == {}

TokensOf(S) == {sessions[s].hash : s \in S}

Revoke(S) ==
  /\ refreshTokens' = Without(refreshTokens, TokensOf(S))
  /\ sessions' = [s \in DOMAIN sessions |->
                    IF s \in S THEN RevokedRecord(sessions[s]) ELSE sessions[s]]

RevokeSession(u, s) == /\ s \in LiveSessions(u)
                       /\ Revoke({s})
                       /\ UNCHANGED <<now, challenges, idpUsers, calls, born, sweeps>>

RevokeAllSessions(u) == /\ sweeps[u] < MaxSweeps
                        /\ Revoke(LiveSessions(u))
                        /\ sweeps' = [sweeps EXCEPT ![u] = @ + 1]
                        /\ UNCHANGED <<now, challenges, idpUsers, calls, born>>

-----------------------------------------------------------------------------
(* issueSession *)

\* A rotation continues the login its token descends from; any other session
\* starts anew, after the revoke-alls answered so far.
Generation(h) == IF calls[h].from.kind = "refresh" THEN calls[h].gen
                                                   ELSE sweeps[calls[h].user]

\* The clock was read between the start of the call and now.
IssueSession(h, s, t, issuedAt) ==
  /\ calls[h].pc = "issue"
  /\ s \notin DOMAIN sessions
  /\ t \notin MintedTokens
  /\ issuedAt >= calls[h].at
  /\ refreshTokens' = Put(refreshTokens, t,
                          [user |-> calls[h].user, session |-> s,
                           expires |-> issuedAt + RefreshTokenTTL])
  /\ sessions' = Put(sessions, s, [user |-> calls[h].user, hash |-> t,
                                   revoked |-> FALSE])
  /\ born' = Put(born, s, [token |-> t, from |-> calls[h].from,
                           gen |-> Generation(h)])
  /\ calls' = [calls EXCEPT ![h] = Idle]
  /\ UNCHANGED <<now, challenges, idpUsers, sweeps>>

\* Signing the access token or drawing the random token failed: the request
\* ends with an error, and what it did before stays done.
IssueFails(h) == /\ calls[h].pc = "issue"
                 /\ calls' = [calls EXCEPT ![h] = Idle]
                 /\ UNCHANGED <<now, store, born, sweeps>>

-----------------------------------------------------------------------------
Next == \/ Tick
        \/ SyncAllUsers
        \/ \E u \in Users, c \in Challenges : CreateMFAChallenge(u, c)
        \/ \E t \in Tokens : ExpireToken(t)
        \/ \E u \in Users : RevokeAllSessions(u)
        \/ \E u \in Users, s \in Sessions : RevokeSession(u, s)
        \/ \E h \in Requests :
             \/ \E u \in Users : Login(h, u) \/ ExchangeOIDCCode(h, u)
             \/ \E c \in Challenges : ReadChallenge(h, c)
             \/ RejectChallenge(h) \/ ExpireChallenge(h) \/ ConsumeChallenge(h)
             \/ \E t \in Tokens : RotateToken(h, t)
             \/ IssueFails(h)
             \/ \E s \in Sessions, t \in Tokens, issuedAt \in 0..now :
                  IssueSession(h, s, t, issuedAt)

Spec == Init /\ [][Next]_vars

-----------------------------------------------------------------------------
(* Safety *)

\* RefreshToken and RevokeSessions find a session through its token and a
\* token through its session.  The two maps agree at every moment: a stored
\* token belongs to an unrevoked session of the same user whose hash it is,
\* and an unrevoked session with a hash has that token stored.
TokensMatchSessions ==
  /\ \A t \in DOMAIN refreshTokens :
       LET s == refreshTokens[t].session
       IN  /\ s \in DOMAIN sessions
           /\ sessions[s].user = refreshTokens[t].user
           /\ sessions[s].hash = t
           /\ ~sessions[s].revoked
  /\ \A s \in DOMAIN sessions :
       ~sessions[s].revoked /\ sessions[s].hash # NoToken
         => sessions[s].hash \in DOMAIN refreshTokens

\* However many requests present the same refresh token at once, at most
\* one of them is answered with a session.
RefreshSingleUse ==
  \A t \in Tokens : \A s1, s2 \in SessionsFrom(FromToken(t)) : s1 = s2

\* VerifyMFA checks the challenge before it deletes it, so one code can be
\* spent by several requests; but only by requests that were all being
\* served when the first of them deleted it.
ChallengeUsesBounded ==
  \A c \in Challenges :
    Cardinality(SessionsFrom(FromChallenge(c)))
      + Cardinality({h \in Requests : Holds(h, c)}) <= Cardinality(Requests)

\* Tokens of u that the service accepts although u's sessions have all been
\* revoked since the login they descend from.
EscapedTokens(u) == {t \in DOMAIN refreshTokens :
                       /\ refreshTokens[t].user = u
                       /\ born[refreshTokens[t].session].gen < sweeps[u]}
EscapingRequests(u) == {h \in Requests : /\ calls[h].pc = "issue"
                                         /\ calls[h].from.kind = "refresh"
                                         /\ calls[h].user = u
                                         /\ calls[h].gen < sweeps[u]}

Escapes(u) == Cardinality(EscapedTokens(u)) + Cardinality(EscapingRequests(u))

\* A revoke-all leaves nothing behind but the rotations in issueSession at
\* that moment, and later rotations do not multiply what escaped.
EscapeBounded == \A u \in Users : Escapes(u) <= Cardinality(Requests)

\* A revoke-all takes every token of the user there is; what escapes it, in
\* the requests that were rotating one, can be used up, expire or be
\* revoked, but never becomes more until the next revoke-all.
EscapesNeverGrow ==
  [][\A u \in Users : IF sweeps'[u] = sweeps[u]
                       THEN Escapes(u)' <= Escapes(u)
                       ELSE EscapedTokens(u)' = {}]_vars

\* "Create API to revoke all or specific sessions and invalidate refresh
\* tokens": once all sessions of u are revoked, no refresh token that
\* descends from them by rotation is accepted.
RevokeAllIsFinal == \A u \in Users : EscapedTokens(u) = {}

\* The token of a revoked session buys nothing: no request starts to issue
\* a session for it, whichever request or deadline revoked the session.
StartsRefreshOf(t) == \E h \in Requests : /\ calls'[h] # calls[h]
                                          /\ calls'[h].pc = "issue"
                                          /\ calls'[h].from = FromToken(t)
RevokedBuysNothing ==
  [][\A s \in DOMAIN sessions :
       sessions[s].revoked => ~StartsRefreshOf(born[s].token)]_vars

-----------------------------------------------------------------------------
(* Refinement *)

RedeemedTokens == {t \in Tokens : \E h \in Requests : Issues(h, FromToken(t))}
AnsweredTokens == {t \in Tokens : SessionsFrom(FromToken(t)) # {}}

Ledger == INSTANCE TokenLedger
            WITH granted <- MintedTokens, usable <- DOMAIN refreshTokens,
                 redeemed <- RedeemedTokens, answered <- AnsweredTokens

\* The service implements the ledger of refresh tokens.
ImplementsLedger == Ledger!LedgerSpec
=============================================================================
