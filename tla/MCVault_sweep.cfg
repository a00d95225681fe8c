\* One request, two policies due at once, and a rotation may find no lease to store and fail; two secrets
\* of two names and two values.
\* An idle service with every identifier and instant used up has no next step.
CHECK_DEADLOCK FALSE
SPECIFICATION VaultSpec
CONSTANTS
  Targets = {db, web}
  Roles = {admin}
  Requests = {r1}
  Leases = {l1}
  Policies = {p1, p2}
  Never = Never
  Intervals = {1}
  TTLs = {2}
  MinSeconds = 1
  MaxSeconds = 2
  DefaultTTL = 2
  MaxTime = 2
  low = low
  high = high
  Bits <- MCBits
  KeySize = 2
  Kek <- MCKek
  DataKeys <- MCDataKeys
  Nonces = {nonce}
  SecretIds = {x1, x2}
  token = token
  key = key
  Words = {token, key}
  Blank = Blank
  Names <- MCNames
  Values <- MCValues
INVARIANTS SecretsReadBack
PROPERTIES RequestsEnd
