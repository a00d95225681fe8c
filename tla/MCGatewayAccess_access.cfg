\* Two grants for two assets, two requests; three sessions, one more than requests.
\* An idle service with every identifier and instant used up has no next step.
CHECK_DEADLOCK FALSE
SPECIFICATION Spec
CONSTANTS
  Users = {alice}
  Assets = {db, web}
  Protocols = {ssh}
  Requests = {r1, r2}
  Grants = {g1, g2}
  Sessions = {s1, s2, s3}
  NoGrant = NoGrant
  TTLs = {1}
  MaxTime = 2
SYMMETRY Symmetric
INVARIANTS TypeOK GrantsCoverSessions LateSessionsBounded
PROPERTIES ImplementsBroker
