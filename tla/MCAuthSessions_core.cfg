\* Two requests at a time, three sessions, one challenge, one user who may sign in either way:
\* rotation and verification against each other, revocation and expiry.
SPECIFICATION Spec
CONSTANTS
  LocalUsers = {alice}
  IdpUsers = {alice}
  SeedUsers = {alice}
  Requests = {r1, r2}
  Challenges = {c1}
  Sessions = {s1, s2, s3}
  Tokens = {t1, t2, t3}
  NoToken = NoToken
  RefreshTokenTTL = 1
  ChallengeTTL = 0
  MaxTime = 2
  MaxSweeps = 1
SYMMETRY Symmetric
INVARIANTS ChallengeUsesBounded TypeOK TokensMatchSessions RefreshSingleUse
PROPERTIES RevokedBuysNothing EscapesNeverGrow ImplementsLedger
