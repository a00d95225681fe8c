\* One group, one role name under two identifiers, two users with one address, two requests.
SPECIFICATION Spec
CONSTANTS
  UserIds = {admin, bob}
  Emails = {mail}
  Groups = {ops}
  RoleIds = {i1, i2}
  RoleNames = {superadmin}
  SuperAdmin = SuperAdmin
  superadmin = superadmin
  SeedUser = admin
  SeedEmail = mail
  SeedGroups = {}
  Requests = {r1, r2}
SYMMETRY Symmetric
INVARIANTS TypeOK MappingReflected
PROPERTIES DeletedUsersFrozen AddressesSharedByRestoring
