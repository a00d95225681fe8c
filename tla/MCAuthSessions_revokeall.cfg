\* A rotation racing a revoke-all.
SPECIFICATION Spec
CONSTANTS
  LocalUsers = {alice}
  IdpUsers = {}
  SeedUsers = {}
  Requests = {r1, r2}
  Challenges = {}
  Sessions = {s1, s2, s3}
  Tokens = {t1, t2, t3}
  NoToken = NoToken
  RefreshTokenTTL = 2
  ChallengeTTL = 1
  MaxTime = 1
  MaxSweeps = 1
SYMMETRY Symmetric
INVARIANTS RevokeAllIsFinal
