\* Two groups, one role identifier and two names, two users with one address, one request at a time.
SPECIFICATION Spec
CONSTANTS
  UserIds = {admin, bob}
  Emails = {mail}
  Groups = {ops, dev}
  RoleIds = {i1}
  RoleNames = {superadmin, operator}
  SuperAdmin = SuperAdmin
  superadmin = superadmin
  SeedUser = admin
  SeedEmail = mail
  SeedGroups = {}
  Requests = {r1}
SYMMETRY Symmetric
INVARIANTS SuperAdminIsSeed HeldRolesWereGranted
