SPECIFICATION SessionsSpec
CONSTANTS
  RoleIds <- TwoRoles
  RoleNames <- TwoRoleNames
  UserIds <- TwoUsers
  UserNames <- TwoUserNames
  AdminName = admin
  Emails <- TwoEmails
  InitialRoles <- DefaultRoleOnly
  InitialUsers <- NoUser
  Requests <- OneRequest
  NewRoles <- Nothing
  RoleChanges <- Nothing
  Plans <- OnePlan
  UserChanges <- Nothing
  WholeUsers <- OneWholeUser
  AdminRoleName = Admin
  AdminEmail = e1
  DefaultRole = x1
  Signups <- OneSignup
  NewUsers <- OneNewUser
  Logins <- OneLogin
  LoginBodies <- ByName
  Faults = {"read","write","crash"}
  None = None
  x1 = x1
  x2 = x2
  u1 = u1
  u2 = u2
  r1 = r1
  s1 = s1
  l1 = l1
  admin = admin
  bob = bob
  Admin = Admin
  clerk = clerk
  e1 = e1
  e2 = e2
INVARIANTS
  SessionsTypeOK
  UsersStayDistinct
  PasswordUnlessInterrupted
  BuiltInAccountExists
  LoginGrantsWhatRolesHold
  TokensComeFromLogins
  TokensNeedPassword
