SPECIFICATION MCSpec
CONSTANTS
  RoleIds <- TwoRoles
  RoleNames <- TwoRoleNames
  UserIds <- TwoUsers
  UserNames <- TwoUserNames
  AdminName = admin
  Emails <- TwoEmails
  InitialRoles <- OneStoredRole
  InitialUsers <- TwoStoredUsers
  Requests <- TwoRequests
  NewRoles <- OneNewRole
  RoleChanges <- TwoRoleChanges
  Plans <- TwoPlans
  UserChanges <- OneUserChange
  WholeUsers <- OneWholeUser
  Faults = {"read","write","crash"}
  None = None
  x1 = x1
  x2 = x2
  u1 = u1
  u2 = u2
  r1 = r1
  r2 = r2
  admin = admin
  bob = bob
  clerk = clerk
  manager = manager
  e1 = e1
  e2 = e2
INVARIANTS
  DirectoryTypeOK
  DeletedRoleIsWithdrawn
  ReplacementsAreGiven
  DuplicateCheckSawNoRole
PROPERTIES
  DeletionTakesOneRole
  DeletedRoleComesBackByUpdate
  BuiltInAccountIsKept
SYMMETRY RequestSymmetry
