\* Two policies, two requests and two leases; an interval may be too long for a ttl.
\* An idle service with every identifier and instant used up has no next step.
CHECK_DEADLOCK FALSE
SPECIFICATION Spec
CONSTANTS
  Targets = {db, web}
  Roles = {admin}
  Requests = {r1, r2}
  Leases = {l1, l2}
  Policies = {p1, p2}
  Never = Never
  Intervals = {1, 3}
  TTLs = {0}
  MinSeconds = 1
  MaxSeconds = 2
  DefaultTTL = 2
  MaxTime = 2
SYMMETRY Symmetric
INVARIANTS TypeOK OnePolicyPerScope RotationsIssuable RotationsAccounted
PROPERTIES ImplementsBook DueDatesKeepOrder
