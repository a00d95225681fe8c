\* Two groups, one role and one user.
SPECIFICATION Spec
CONSTANTS
  UserIds = {admin}
  Emails = {mail}
  Groups = {ops, dev}
  RoleIds = {i1}
  RoleNames = {superadmin}
  SuperAdmin = SuperAdmin
  superadmin = superadmin
  SeedUser = admin
  SeedEmail = mail
  SeedGroups = {}
  Requests = {r1}
SYMMETRY Symmetric
INVARIANTS MembershipDecidesRoles
