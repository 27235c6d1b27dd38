--------------------------- MODULE SessionsProofs ---------------------------
(***************************************************************************)
(* Accounts and Sessions for every instance.  First Accounts: users stay   *)
(* distinct, every user has a password unless something came between, and  *)
(* the built-in account exists while the process serves requests; the      *)
(* steps of the endpoints of Directory are taken from DirectorySafety.     *)
(* Then Sessions, which implements Accounts because a token carries        *)
(* permissions and nothing else: where the tokens and what they carry come *)
(* from.                                                                   *)
(***************************************************************************)
EXTENDS Sessions, DirectorySafety

AccountTypes ==
  /\ credentials \subseteq UserIds
  /\ freshUsers \subseteq UserIds
  /\ \A u \in freshUsers : users[u] = None
  /\ signups \in [Signups -> Signup]
  /\ boot \in Boot
  /\ interrupted \subseteq UserIds

\* The ids that a createUser under way has stored.
BootFits ==
  /\ boot.stage \in {"find_admin", "save_admin"} => boot.role \in RoleIds
  /\ boot.stage = "save_credential" => boot.id \in UserIds

SignupFits(s) ==
  /\ signups[s].stage # "idle" =>
       signups[s].username \in UserNames /\ signups[s].email \in Emails
  /\ signups[s].stage = "save_credential" => signups[s].id \in UserIds

\* Nothing is served before the process is up.
NotServing ==
  boot.stage # "up" =>
    /\ \A r \in Requests : stage[r] = "idle"
    /\ \A s \in Signups : signups[s].stage = "idle"

AccountFits == BootFits /\ NotServing /\ \A s \in Signups : SignupFits(s)

AccountTypeInv == TypeInv /\ AccountTypes /\ AccountFits

\* A user that is stored is in one of three places, and nobody else is in any.
Placed ==
  \A u \in UserIds :
    /\ users[u] # None <=> u \in credentials \cup Pending \cup interrupted
    /\ u \in credentials => u \notin Pending \cup interrupted
    /\ u \in Pending => u \notin interrupted

\* Two createUsers under way have stored different users.
PendingApart ==
  \A s, t \in Signups :
    /\ signups[s].stage = "save_credential"
    /\ signups[t].stage = "save_credential"
    /\ signups[s].id = signups[t].id
    => s = t

AdminStored == \E u \in UserIds : users[u] # None /\ users[u].username = AdminName

\* While the built-in account exists no update is about to write it.
AdminKept ==
  ~boot.failed /\ boot.stage \in {"save_credential", "up"} =>
    /\ AdminStored
    /\ \A r \in Requests :
         stage[r] = "user_write" => users[local[r].id].username # AdminName

FailedOnlyUp == boot.failed => boot.stage = "up"

AccountInv ==
  /\ AccountTypeInv
  /\ UsersStayDistinct
  /\ Placed
  /\ PendingApart
  /\ AdminKept
  /\ FailedOnlyUp

-----------------------------------------------------------------------------
(* The writes of users by the endpoints of Directory. *)

\* A write that the indexes let through keeps the users distinct.
LEMMA FreeWriteKeepsDistinct ==
  ASSUME users \in [UserIds -> User \cup {None}], UsersStayDistinct,
         NEW u \in UserIds, NEW user \in User,
         UserFree(u, user.username, user.email),
         users' = [users EXCEPT ![u] = user]
  PROVE  UsersStayDistinct'
  BY DEF UsersStayDistinct, DistinctUsers, UserFree

\* Every user keeps both names.
NamesKept ==
  \A u \in UserIds :
    /\ users'[u] = None <=> users[u] = None
    /\ users[u] # None =>
         /\ users'[u].username = users[u].username
         /\ users'[u].email = users[u].email

LEMMA NamesKeptKeepsDistinct ==
  ASSUME UsersStayDistinct, NamesKept
  PROVE  UsersStayDistinct'
  BY DEF UsersStayDistinct, DistinctUsers, NamesKept

\* Setting the roles of a user that is there keeps its names.
LEMMA RoleWriteKeepsNames ==
  ASSUME users \in [UserIds -> User \cup {None}], None \notin User,
         NEW u \in UserIds, users[u] # None, NEW held \in SUBSET RoleIds,
         users' = [users EXCEPT ![u].role = held]
  PROVE  NamesKept
PROOF
  <1>1. users[u] \in User
    OBVIOUS
  <1>2. users'[u] = [users[u] EXCEPT !.role = held]
    OBVIOUS
  <1>3. /\ users'[u] \in User
        /\ users'[u].username = users[u].username
        /\ users'[u].email = users[u].email
    BY <1>1, <1>2 DEF User
  <1>4. \A v \in UserIds \ {u} : users'[v] = users[v]
    OBVIOUS
  <1> QED
    BY <1>3, <1>4 DEF NamesKept

\* UpdateUser wrote the user its request names.
UserReplaced(r) ==
  LET u == local[r].id IN
  /\ stage[r] = "user_write"
  /\ u \in UserIds /\ users[u] # None
  /\ \E user \in User :
       /\ UserFree(u, user.username, user.email)
       /\ users' = [users EXCEPT ![u] = user]

LEMMA HandlerUserWrites ==
  ASSUME TypeInv, NEW r \in Requests, HandleRequest(r)
  PROVE  NamesKept \/ UserReplaced(r)
PROOF
  <1>1. /\ users \in [UserIds -> User \cup {None}] /\ None \notin User
        /\ local[r] \in Local /\ StageFits(r)
    BY DirectoryAssumption DEF TypeInv, DirectoryTypeOK, StagesFit
  <1>2. CASE users' = users
    BY <1>2 DEF NamesKept
  <1>3. CASE users' # users /\ (BulkUpdateUserRoles(r) \/ DeleteRoleFromUsers(r))
    <2>1. /\ local[r].holders \subseteq UserIds /\ local[r].todo \subseteq local[r].holders
          /\ \A u \in local[r].holders : users[u] # None
      BY <1>1, <1>3 DEF BulkUpdateUserRoles, DeleteRoleFromUsers, StageFits, Local
    <2>2. ASSUME NEW u \in local[r].todo,
                 users' = [users EXCEPT ![u].role =
                             @ \cup (local[r].plan[u] \cap local[r].existing)]
          PROVE  NamesKept
      <3> DEFINE held == users[u].role \cup (local[r].plan[u] \cap local[r].existing)
      <3>1. u \in UserIds /\ users[u] # None
        BY <2>1
      <3>2. users[u] \in User
        BY <1>1, <3>1
      <3>3. held \in SUBSET RoleIds
        BY <1>1, <3>2 DEF User, Local
      <3>4. users' = [users EXCEPT ![u].role = held]
        BY <1>1, <2>2, <3>1
      <3> HIDE DEF held
      <3> QED
        BY <1>1, <3>1, <3>3, <3>4, RoleWriteKeepsNames
    <2>3. ASSUME NEW u \in local[r].todo,
                 users' = [users EXCEPT ![u].role = @ \ {local[r].id}]
          PROVE  NamesKept
      <3> DEFINE held == users[u].role \ {local[r].id}
      <3>1. u \in UserIds /\ users[u] # None
        BY <2>1
      <3>2. users[u] \in User
        BY <1>1, <3>1
      <3>3. held \in SUBSET RoleIds
        BY <3>2 DEF User
      <3>4. users' = [users EXCEPT ![u].role = held]
        BY <1>1, <2>3, <3>1
      <3> HIDE DEF held
      <3> QED
        BY <1>1, <3>1, <3>3, <3>4, RoleWriteKeepsNames
    <2> QED
      BY <1>3, <2>2, <2>3 DEF BulkUpdateUserRoles, DeleteRoleFromUsers, NoUserWrite
  <1>4. CASE users' # users /\ UpdateUser(r)
    <2>1. /\ stage[r] = "user_write"
          /\ UserFree(local[r].id, UserWritten(r).username, UserWritten(r).email)
          /\ users' = [users EXCEPT ![local[r].id] = UserWritten(r)]
      BY <1>4 DEF UpdateUser, NoUserWrite
    <2>2. /\ local[r].id \in UserIds /\ users[local[r].id] \in User
          /\ users[local[r].id] # None
          /\ local[r].found \in User /\ local[r].change \in UserChange
      BY <1>1, <2>1 DEF StageFits, Local
    <2>3. UserWritten(r) \in User
      BY <2>2, ChangedUserType DEF UserWritten
    <2> QED
      BY <2>1, <2>2, <2>3 DEF UserReplaced
  <1> QED
    BY <1>2, <1>3, <1>4, UserWrites

\* A request that arrives writes no document.
LEMMA ReceiveWritesNothing ==
  ASSUME NEW r \in Requests, NEW caller, ReceiveRequest(r, caller)
  PROVE  roles' = roles /\ users' = users
  BY DEF ReceiveRequest, PostRole, PatchRole, PatchRoleDelete, PatchUser,
         PatchWholeUser, Begin, NoRoleWrite, NoUserWrite

\* The endpoints of Directory write users by name, and none of them is new.
DirectoryWrites ==
  /\ \A u \in UserIds : users'[u] = None <=> users[u] = None
  /\ UsersStayDistinct'

LEMMA DirectoryKeepsUsers ==
  ASSUME TypeInv, UsersStayDistinct, NEW r \in Requests,
         HandleRequest(r) \/ \E caller \in SUBSET Permissions : ReceiveRequest(r, caller)
  PROVE  DirectoryWrites
PROOF
  <1>1. /\ users \in [UserIds -> User \cup {None}] /\ None \notin User
    BY DirectoryAssumption DEF TypeInv, DirectoryTypeOK
  <1>2. NamesKept \/ UserReplaced(r)
    BY HandlerUserWrites, ReceiveWritesNothing DEF NamesKept
  <1>3. CASE NamesKept
    BY <1>3, NamesKeptKeepsDistinct DEF NamesKept, DirectoryWrites
  <1>4. CASE UserReplaced(r)
    BY <1>1, <1>4, FreeWriteKeepsDistinct DEF UserReplaced, DirectoryWrites
  <1> QED
    BY <1>2, <1>3, <1>4

-----------------------------------------------------------------------------
(* The start of the process. *)

\* Steps that write no document and move no request of Directory.
LEMMA DirectoryStays ==
  ASSUME AccountInv, UNCHANGED directoryVars
  PROVE  /\ TypeInv' /\ UsersStayDistinct'
         /\ users' = users /\ stage' = stage /\ local' = local
         /\ (AdminStored' <=> AdminStored)
PROOF
  <1>1. TypeInv'
    BY StutterKeepsTypes DEF AccountInv, AccountTypeInv
  <1>2. users' = users /\ stage' = stage /\ local' = local
    BY DEF directoryVars
  <1> QED
    BY <1>1, <1>2 DEF AccountInv, UsersStayDistinct, AdminStored

\* The start moves between the stages at which it has stored nothing.
LEMMA BootMoves ==
  ASSUME AccountInv, boot.stage \notin {"save_credential", "up"},
         boot' \in Boot, ~boot'.failed,
         boot'.stage \in {"save_role", "find_admin", "save_admin", "down"},
         boot'.stage \in {"find_admin", "save_admin"} => boot'.role \in RoleIds,
         UNCHANGED <<directoryVars, credentials, freshUsers, signups, interrupted>>
  PROVE  AccountInv'
PROOF
  <1>1. /\ TypeInv' /\ UsersStayDistinct'
        /\ users' = users /\ stage' = stage /\ local' = local
    BY DirectoryStays
  <1>2. AccountTypes' /\ AccountFits'
    BY <1>1
    DEF AccountInv, AccountTypeInv, AccountTypes, AccountFits, BootFits, NotServing,
        SignupFits
  <1>3. Pending' = Pending
    BY DEF Pending
  <1>4. Placed' /\ PendingApart'
    BY <1>1, <1>3 DEF AccountInv, Placed, PendingApart
  <1>5. AdminKept' /\ FailedOnlyUp'
    BY DEF AdminKept, FailedOnlyUp
  <1> QED
    BY <1>1, <1>2, <1>4, <1>5 DEF AccountInv, AccountTypeInv

\* The start is over, with the built-in account in place or given up.
LEMMA BootIsUp ==
  ASSUME AccountInv, boot.stage \notin {"save_credential", "up"},
         boot' \in Boot, boot'.stage = "up", AdminStored \/ boot'.failed,
         UNCHANGED <<directoryVars, credentials, freshUsers, signups, interrupted>>
  PROVE  AccountInv'
PROOF
  <1>1. /\ TypeInv' /\ UsersStayDistinct'
        /\ users' = users /\ stage' = stage /\ local' = local
        /\ (AdminStored' <=> AdminStored)
    BY DirectoryStays
  <1>2. AccountTypes' /\ AccountFits'
    BY <1>1
    DEF AccountInv, AccountTypeInv, AccountTypes, AccountFits, BootFits, NotServing,
        SignupFits
  <1>3. Pending' = Pending
    BY DEF Pending
  <1>4. Placed' /\ PendingApart'
    BY <1>1, <1>3 DEF AccountInv, Placed, PendingApart
  <1>5. AdminKept' /\ FailedOnlyUp'
    BY <1>1 DEF AdminKept, FailedOnlyUp, AccountInv, AccountTypeInv, AccountFits, NotServing
  <1> QED
    BY <1>1, <1>2, <1>4, <1>5 DEF AccountInv, AccountTypeInv

LEMMA BootFindRoleKeeps ==
  ASSUME AccountInv, BootFindRole
  PROVE  AccountInv'
PROOF
  <1>1. /\ boot \in Boot /\ boot.stage = "find_role" /\ ~boot.failed
        /\ UNCHANGED <<directoryVars, credentials, freshUsers, signups, interrupted>>
    BY DEF AccountInv, AccountTypeInv, AccountTypes, FailedOnlyUp, BootFindRole,
           Booting, directoryVars, NoRoleWrite, NoUserWrite
  <1>2. \/ boot' = [boot EXCEPT !.stage = "save_role"]
        \/ \E x \in RoleIds : boot' = [boot EXCEPT !.stage = "find_admin", !.role = x]
    BY DEF BootFindRole, BootGoes
  <1>3. /\ boot' \in Boot /\ ~boot'.failed
        /\ boot'.stage \in {"save_role", "find_admin"}
        /\ boot'.stage = "find_admin" => boot'.role \in RoleIds
    BY <1>1, <1>2 DEF Boot
  <1> QED
    BY <1>1, <1>3, BootMoves

LEMMA BootFindAdminKeeps ==
  ASSUME AccountInv, BootFindAdmin
  PROVE  AccountInv'
PROOF
  <1>1. /\ boot \in Boot /\ boot.stage = "find_admin" /\ ~boot.failed
        /\ boot.role \in RoleIds
        /\ UNCHANGED <<directoryVars, credentials, freshUsers, signups, interrupted>>
    BY DEF AccountInv, AccountTypeInv, AccountTypes, AccountFits, BootFits,
           FailedOnlyUp, BootFindAdmin, Booting, directoryVars, NoRoleWrite, NoUserWrite
  <1>2. \/ AdminStored /\ boot' = [boot EXCEPT !.stage = "up"]
        \/ boot' = [boot EXCEPT !.stage = "save_admin"]
    BY DEF BootFindAdmin, BootGoes, AdminStored
  <1>3. CASE AdminStored /\ boot' = [boot EXCEPT !.stage = "up"]
    <2>1. boot' \in Boot /\ boot'.stage = "up"
      BY <1>1, <1>3 DEF Boot
    <2> QED
      BY <1>1, <1>3, <2>1, BootIsUp
  <1>4. CASE boot' = [boot EXCEPT !.stage = "save_admin"]
    <2>1. /\ boot' \in Boot /\ boot'.stage = "save_admin" /\ ~boot'.failed
          /\ boot'.role \in RoleIds
      BY <1>1, <1>4 DEF Boot
    <2> QED
      BY <1>1, <2>1, BootMoves
  <1> QED
    BY <1>2, <1>3, <1>4

LEMMA BootFailsKeeps ==
  ASSUME AccountInv, BootFails
  PROVE  AccountInv'
PROOF
  <1>1. /\ boot \in Boot /\ boot.stage \in {"find_role", "find_admin", "save_role"}
        /\ ~boot.failed /\ boot' = [boot EXCEPT !.stage = "down"]
        /\ UNCHANGED <<directoryVars, credentials, freshUsers, signups, interrupted>>
    BY DEF AccountInv, AccountTypeInv, AccountTypes, FailedOnlyUp, BootFails, BootGoes,
           Booting, directoryVars, NoRoleWrite, NoUserWrite
  <1>2. boot' \in Boot /\ boot'.stage = "down" /\ ~boot'.failed
    BY <1>1 DEF Boot
  <1> QED
    BY <1>1, <1>2, BootMoves

LEMMA BootSaveRoleKeeps ==
  ASSUME AccountInv, BootSaveRole
  PROVE  AccountInv'
PROOF
  <1> DEFINE admin == [role |-> AdminRoleName, permissions |-> {"ADMIN"},
                       is_delete |-> FALSE]
  <1>1. PICK x \in freshRoles :
          /\ roles' = [roles EXCEPT ![x] = admin]
          /\ freshRoles' = freshRoles \ {x}
          /\ boot' = [boot EXCEPT !.stage = "find_admin", !.role = x]
    BY DEF BootSaveRole
  <1>2. /\ TypeInv /\ AccountTypes /\ AccountFits /\ boot \in Boot
        /\ boot.stage = "save_role" /\ ~boot.failed
        /\ users' = users
        /\ UNCHANGED <<stage, local, unseen, credentials, freshUsers, signups, interrupted>>
    BY DEF AccountInv, AccountTypeInv, AccountTypes, FailedOnlyUp, BootSaveRole,
           Booting, NoUserWrite
  <1>3. x \in RoleIds /\ admin \in Role
    BY <1>2, AccountsAssumption DEF TypeInv, DirectoryTypeOK, Role, Permissions
  <1> HIDE DEF admin
  <1>4. DirectoryTypeOK'
    BY <1>1, <1>2, <1>3 DEF TypeInv, DirectoryTypeOK
  <1>5. StagesFit'
    BY <1>2 DEF AccountFits, NotServing, StagesFit, StageFits, UpdateStages, DeleteStages
  <1>6. /\ boot' \in Boot /\ boot'.stage = "find_admin" /\ ~boot'.failed
        /\ boot'.role \in RoleIds
    BY <1>1, <1>2, <1>3 DEF Boot
  <1>7. AccountTypes' /\ AccountFits'
    BY <1>2, <1>6 DEF AccountTypes, AccountFits, BootFits, NotServing, SignupFits
  <1>8. Pending' = Pending
    BY <1>2, <1>6 DEF Pending
  <1>9. UsersStayDistinct' /\ Placed' /\ PendingApart'
    BY <1>2, <1>8 DEF AccountInv, UsersStayDistinct, Placed, PendingApart
  <1>10. AdminKept' /\ FailedOnlyUp'
    BY <1>6 DEF AdminKept, FailedOnlyUp
  <1> QED
    BY <1>4, <1>5, <1>7, <1>9, <1>10 DEF AccountInv, AccountTypeInv, TypeInv

\* The save of a new user, by the start or by a request.
LEMMA SaveUserStep ==
  ASSUME AccountInv, NEW u, NEW user \in User, SaveUser(u, user),
         NoRoleWrite, UNCHANGED <<stage, local>>
  PROVE  /\ u \in UserIds
         /\ u \notin credentials \cup Pending \cup interrupted
         /\ freshUsers' \subseteq UserIds
         /\ \A v \in freshUsers' : users'[v] = None
         /\ \A v \in UserIds : users'[v] # None <=> users[v] # None \/ v = u
         /\ TypeInv' /\ UsersStayDistinct'
         /\ AdminStored \/ user.username = AdminName => AdminStored'
         /\ \A r \in Requests :
              stage[r] = "user_write" =>
                users'[local[r].id].username = users[local[r].id].username
PROOF
  <1>1. /\ users \in [UserIds -> User \cup {None}] /\ None \notin User
        /\ TypeInv /\ AccountTypes /\ UsersStayDistinct /\ Placed
        /\ unseen \in [Requests -> SUBSET Documents]
    BY DirectoryAssumption DEF AccountInv, AccountTypeInv, TypeInv, DirectoryTypeOK
  <1>2. /\ u \in freshUsers /\ freshUsers' = freshUsers \ {u}
        /\ users' = [users EXCEPT ![u] = user]
        /\ UserFree(u, user.username, user.email)
        /\ unseen' = [r \in Requests |-> unseen[r] \cup {u}]
    BY DEF SaveUser, Unread
  <1>3. u \in UserIds /\ users[u] = None
    BY <1>1, <1>2 DEF AccountTypes
  <1>4. u \notin credentials \cup Pending \cup interrupted
    BY <1>1, <1>3 DEF Placed
  <1>5. /\ users'[u] = user /\ \A v \in UserIds \ {u} : users'[v] = users[v]
        /\ users' \in [UserIds -> User \cup {None}]
    BY <1>1, <1>2, <1>3
  <1>6. \A v \in UserIds : users'[v] # None <=> users[v] # None \/ v = u
    BY <1>1, <1>3, <1>5
  <1>7. freshUsers' \subseteq UserIds /\ \A v \in freshUsers' : users'[v] = None
    BY <1>1, <1>2, <1>5 DEF AccountTypes
  <1>8. UsersStayDistinct'
    BY <1>1, <1>2, <1>3, FreeWriteKeepsDistinct
  <1>9. DirectoryTypeOK'
    BY <1>1, <1>2, <1>3, <1>5
    DEF TypeInv, DirectoryTypeOK, NoRoleWrite, Documents
  <1>10. ASSUME NEW r \in Requests
         PROVE  StageFits(r)'
    <2>1. StageFits(r) /\ local[r] \in Local
      BY <1>1 DEF TypeInv, StagesFit, DirectoryTypeOK
    <2>2. stage' = stage /\ local' = local /\ roles' = roles
      BY DEF NoRoleWrite
    <2> QED
      BY <1>6, <2>1, <2>2 DEF StageFits, Local
  <1>11. AdminStored \/ user.username = AdminName => AdminStored'
    BY <1>1, <1>3, <1>5, <1>6 DEF AdminStored
  <1>12. ASSUME NEW r \in Requests, stage[r] = "user_write"
         PROVE  users'[local[r].id].username = users[local[r].id].username
    BY <1>1, <1>3, <1>5, <1>12 DEF TypeInv, StagesFit, StageFits
  <1> QED
    BY <1>3, <1>4, <1>6, <1>7, <1>8, <1>9, <1>10, <1>11, <1>12 DEF TypeInv, StagesFit

LEMMA BootSaveAdminKeeps ==
  ASSUME AccountInv, BootSaveAdmin
  PROVE  AccountInv'
PROOF
  <1> DEFINE user == [username |-> AdminName, email |-> AdminEmail,
                      role |-> {boot.role}]
  <1>1. /\ AccountTypes /\ AccountFits /\ boot \in Boot /\ boot.stage = "save_admin"
        /\ ~boot.failed /\ boot.role \in RoleIds /\ NoRoleWrite /\ PendingApart
        /\ UNCHANGED <<stage, local, credentials, signups, interrupted>>
    BY DEF AccountInv, AccountTypeInv, AccountTypes, AccountFits, BootFits,
           FailedOnlyUp, BootSaveAdmin, Booting
  <1>2. user \in User /\ user.username = AdminName
    BY <1>1, AccountsAssumption, DirectoryAssumption DEF User
  <1> HIDE DEF user
  <1>3. ASSUME NEW u \in freshUsers, SaveUser(u, user),
               boot' = [boot EXCEPT !.stage = "save_credential", !.id = u]
        PROVE  AccountInv'
    <2>1. /\ u \in UserIds
          /\ u \notin credentials \cup Pending \cup interrupted
          /\ freshUsers' \subseteq UserIds
          /\ \A v \in freshUsers' : users'[v] = None
          /\ \A v \in UserIds : users'[v] # None <=> users[v] # None \/ v = u
          /\ TypeInv' /\ UsersStayDistinct' /\ AdminStored'
      BY <1>1, <1>2, <1>3, SaveUserStep
    <2>2. /\ boot' \in Boot /\ boot'.stage = "save_credential" /\ ~boot'.failed
          /\ boot'.id = u
      BY <1>1, <1>3, <2>1 DEF Boot
    <2>3. AccountTypes' /\ AccountFits'
      BY <1>1, <2>1, <2>2 DEF AccountTypes, AccountFits, BootFits, NotServing, SignupFits
    <2>4. Pending' = Pending \cup {u}
      BY <1>1, <2>1, <2>2 DEF Pending
    <2>5. Placed' /\ PendingApart'
      BY <1>1, <2>1, <2>4 DEF AccountInv, Placed, PendingApart
    <2>6. AdminKept' /\ FailedOnlyUp'
      BY <1>1, <2>1, <2>2 DEF AdminKept, FailedOnlyUp, AccountFits, NotServing
    <2> QED
      BY <2>1, <2>3, <2>5, <2>6 DEF AccountInv, AccountTypeInv
  <1>4. ASSUME SaveUserFails(AdminName, AdminEmail),
               boot' = [boot EXCEPT !.stage = "up", !.failed = TRUE]
        PROVE  AccountInv'
    <2>1. /\ boot' \in Boot /\ boot'.stage = "up" /\ boot'.failed
          /\ UNCHANGED <<directoryVars, freshUsers>>
      BY <1>1, <1>4 DEF Boot, SaveUserFails, NoRoleWrite, directoryVars
    <2> QED
      BY <1>1, <2>1, BootIsUp
  <1> QED
    BY <1>3, <1>4 DEF BootSaveAdmin, user

\* The save of a credential, for a user no other createUser is about to give one.
LEMMA CredentialStep ==
  ASSUME AccountInv, NEW u \in Pending, CreateAuthCredential(u),
         Pending' = Pending \ {u}, UNCHANGED users
  PROVE  /\ credentials' \subseteq UserIds /\ interrupted' \subseteq UserIds
         /\ Placed'
PROOF
  <1>1. u \in UserIds
    BY DEF Pending
  <1>2. AccountTypes /\ Placed
    BY DEF AccountInv, AccountTypeInv
  <1>3. \/ credentials' = credentials \cup {u} /\ interrupted' = interrupted
        \/ credentials' = credentials /\ interrupted' = interrupted \cup {u}
    BY DEF CreateAuthCredential
  <1>4. credentials' \subseteq UserIds /\ interrupted' \subseteq UserIds
    BY <1>1, <1>2, <1>3 DEF AccountTypes
  <1>5. Placed'
    BY <1>1, <1>2, <1>3 DEF Placed
  <1> QED
    BY <1>4, <1>5

LEMMA BootSaveCredentialKeeps ==
  ASSUME AccountInv, BootSaveCredential
  PROVE  AccountInv'
PROOF
  <1>1. /\ AccountTypes /\ AccountFits /\ boot \in Boot
        /\ boot.stage = "save_credential" /\ boot.id \in UserIds /\ ~boot.failed
        /\ CreateAuthCredential(boot.id) /\ boot' = [boot EXCEPT !.stage = "up"]
        /\ UNCHANGED <<directoryVars, freshUsers, signups>>
        /\ PendingApart /\ AdminKept
    BY DEF AccountInv, AccountTypeInv, AccountTypes, AccountFits, BootFits, FailedOnlyUp,
           BootSaveCredential, Booting, BootGoes, NoRoleWrite, NoUserWrite, directoryVars
  <1>2. /\ TypeInv' /\ UsersStayDistinct'
        /\ users' = users /\ stage' = stage /\ local' = local
        /\ (AdminStored' <=> AdminStored)
    BY <1>1, DirectoryStays
  <1>3. boot' \in Boot /\ boot'.stage = "up" /\ ~boot'.failed
    BY <1>1 DEF Boot
  <1>4. boot.id \in Pending /\ Pending' = Pending \ {boot.id}
    BY <1>1, <1>3 DEF Pending, AccountFits, NotServing
  <1>5. /\ credentials' \subseteq UserIds /\ interrupted' \subseteq UserIds
        /\ Placed'
    BY <1>1, <1>2, <1>4, CredentialStep
  <1>6. AccountTypes' /\ AccountFits'
    BY <1>1, <1>2, <1>3, <1>5
    DEF AccountTypes, AccountFits, BootFits, NotServing, SignupFits
  <1>7. PendingApart'
    BY <1>1 DEF PendingApart
  <1>8. AdminKept' /\ FailedOnlyUp'
    BY <1>1, <1>2, <1>3 DEF AdminKept, FailedOnlyUp
  <1> QED
    BY <1>2, <1>5, <1>6, <1>7, <1>8 DEF AccountInv, AccountTypeInv

-----------------------------------------------------------------------------
(* The creation of users. *)

\* A signup moves between the stages at which it has stored nothing.
LEMMA SignupMoves ==
  ASSUME AccountInv, boot.stage = "up", NEW s \in Signups,
         signups[s].stage # "save_credential",
         NEW new \in Signup, new.stage # "save_credential",
         new.stage # "idle" => new.username \in UserNames /\ new.email \in Emails,
         signups' = [signups EXCEPT ![s] = new],
         UNCHANGED <<directoryVars, credentials, freshUsers, boot, interrupted>>
  PROVE  AccountInv'
PROOF
  <1>1. /\ TypeInv' /\ UsersStayDistinct'
        /\ users' = users /\ stage' = stage /\ local' = local
        /\ (AdminStored' <=> AdminStored)
    BY DirectoryStays
  <1>2. /\ signups' \in [Signups -> Signup] /\ signups'[s] = new
        /\ \A t \in Signups \ {s} : signups'[t] = signups[t]
    BY DEF AccountInv, AccountTypeInv, AccountTypes
  <1>3. AccountTypes' /\ AccountFits'
    BY <1>1, <1>2
    DEF AccountInv, AccountTypeInv, AccountTypes, AccountFits, BootFits, NotServing,
        SignupFits
  <1>4. Pending' = Pending
    BY <1>2 DEF Pending
  <1>5. Placed' /\ PendingApart'
    BY <1>1, <1>2, <1>4 DEF AccountInv, Placed, PendingApart
  <1>6. AdminKept' /\ FailedOnlyUp'
    BY <1>1 DEF AccountInv, AdminKept, FailedOnlyUp
  <1> QED
    BY <1>1, <1>3, <1>5, <1>6 DEF AccountInv, AccountTypeInv

\* The steps of a signup that store nothing.
LEMMA SignupReadsKeep ==
  ASSUME AccountInv, boot.stage = "up", NEW s \in Signups,
         \/ \E caller \in SUBSET Permissions, new \in NewUsers :
              PatchNewUser(s, caller, new)
         \/ SignupFindUsername(s) \/ SignupFindEmail(s) \/ SignupFails(s)
  PROVE  AccountInv'
PROOF
  <1>1. /\ signups \in [Signups -> Signup] /\ signups[s] \in Signup /\ SignupFits(s)
    BY DEF AccountInv, AccountTypeInv, AccountTypes, AccountFits
  <1>2. /\ signups[s].stage # "save_credential"
        /\ UNCHANGED <<directoryVars, credentials, freshUsers, boot, interrupted>>
    BY DEF PatchNewUser, SignupFindUsername, SignupFindEmail, SignupFails, OnlySignups,
           NoRoleWrite, NoUserWrite, directoryVars
  <1>3. ASSUME NEW caller \in SUBSET Permissions, NEW new \in NewUsers,
               PatchNewUser(s, caller, new)
        PROVE  AccountInv'
    <2> DEFINE next == [stage |-> "find_username", username |-> new.username,
                        email |-> new.email, id |-> None]
    <2>1. new \in UserChange /\ new.username # None /\ new.email # None
      BY AccountsAssumption DEF WholeUser
    <2>2. new.username \in UserNames /\ new.email \in Emails
      BY <2>1 DEF UserChange
    <2>3. next \in Signup /\ next.stage = "find_username"
          /\ next.username \in UserNames /\ next.email \in Emails
      BY <2>2 DEF Signup
    <2>4. signups' = [signups EXCEPT ![s] = next]
      BY <1>3 DEF PatchNewUser
    <2> HIDE DEF next
    <2> QED
      BY <1>2, <2>3, <2>4, SignupMoves
  <1>4. CASE AnswerSignup(s)
    <2>1. IdleSignup \in Signup /\ IdleSignup.stage = "idle"
      BY DEF IdleSignup, Signup
    <2>2. signups' = [signups EXCEPT ![s] = IdleSignup]
      BY <1>4 DEF AnswerSignup
    <2> QED
      BY <1>2, <2>1, <2>2, SignupMoves
  <1>5. ASSUME NEW next \in {"find_email", "save_user"}, SignupGoes(s, next),
               signups[s].stage # "idle"
        PROVE  AccountInv'
    <2> DEFINE there == [signups[s] EXCEPT !.stage = next]
    <2>1. there \in Signup /\ there.stage = next
          /\ there.username \in UserNames /\ there.email \in Emails
      BY <1>1, <1>5 DEF Signup, SignupFits
    <2>2. signups' = [signups EXCEPT ![s] = there]
      BY <1>1, <1>5 DEF SignupGoes
    <2> HIDE DEF there
    <2> QED
      BY <1>2, <1>5, <2>1, <2>2, SignupMoves
  <1> QED
    BY <1>3, <1>4, <1>5 DEF SignupFindUsername, SignupFindEmail, SignupFails

LEMMA SignupSaveUserKeeps ==
  ASSUME AccountInv, boot.stage = "up", NEW s \in Signups, SignupSaveUser(s)
  PROVE  AccountInv'
PROOF
  <1> DEFINE user == [username |-> signups[s].username, email |-> signups[s].email,
                      role |-> {DefaultRole}]
  <1>1. /\ AccountTypes /\ AccountFits /\ signups \in [Signups -> Signup]
        /\ signups[s] \in Signup /\ signups[s].stage = "save_user"
        /\ signups[s].username \in UserNames /\ signups[s].email \in Emails
        /\ NoRoleWrite /\ PendingApart
        /\ UNCHANGED <<stage, local, credentials, boot, interrupted>>
    BY DEF AccountInv, AccountTypeInv, AccountTypes, AccountFits, SignupFits,
           SignupSaveUser
  <1>2. user \in User
    BY <1>1, AccountsAssumption DEF User
  <1>3. ASSUME NEW u \in freshUsers, SaveUser(u, user),
               signups' = [signups EXCEPT ![s].stage = "save_credential", ![s].id = u]
        PROVE  AccountInv'
    <2> HIDE DEF user
    <2>1. /\ u \in UserIds
          /\ u \notin credentials \cup Pending \cup interrupted
          /\ freshUsers' \subseteq UserIds
          /\ \A v \in freshUsers' : users'[v] = None
          /\ \A v \in UserIds : users'[v] # None <=> users[v] # None \/ v = u
          /\ TypeInv' /\ UsersStayDistinct' /\ (AdminStored => AdminStored')
          /\ \A r \in Requests :
               stage[r] = "user_write" =>
                 users'[local[r].id].username = users[local[r].id].username
      BY <1>1, <1>2, <1>3, SaveUserStep
    <2>2. signups'[s] = [signups[s] EXCEPT !.stage = "save_credential", !.id = u]
      BY <1>1, <1>3
    <2>3. /\ signups' \in [Signups -> Signup]
          /\ signups'[s].stage = "save_credential" /\ signups'[s].id = u
          /\ signups'[s].username = signups[s].username
          /\ signups'[s].email = signups[s].email
          /\ \A t \in Signups \ {s} : signups'[t] = signups[t]
      <3>1. signups'[s] \in Signup
        BY <1>1, <2>1, <2>2 DEF Signup
      <3> QED
        BY <1>1, <1>3, <2>2, <3>1 DEF Signup
    <2>4. AccountTypes' /\ AccountFits'
      BY <1>1, <2>1, <2>3 DEF AccountTypes, AccountFits, BootFits, NotServing, SignupFits
    <2>5. Pending' = Pending \cup {u}
      BY <1>1, <2>1, <2>3 DEF Pending
    <2>6. Placed'
      BY <1>1, <2>1, <2>5 DEF AccountInv, Placed
    <2>7. PendingApart'
      <3>1. \A t \in Signups \ {s} :
              signups[t].stage = "save_credential" => signups[t].id # u
        BY <2>1 DEF Pending
      <3> QED
        BY <1>1, <2>3, <3>1 DEF PendingApart
    <2>8. AdminKept' /\ FailedOnlyUp'
      BY <1>1, <2>1 DEF AccountInv, AdminKept, FailedOnlyUp
    <2> QED
      BY <2>1, <2>4, <2>6, <2>7, <2>8 DEF AccountInv, AccountTypeInv
  <1>4. ASSUME SaveUserFails(user.username, user.email), AnswerSignup(s)
        PROVE  AccountInv'
    <2>1. IdleSignup \in Signup /\ IdleSignup.stage = "idle"
      BY DEF IdleSignup, Signup
    <2>2. UNCHANGED <<directoryVars, credentials, freshUsers, boot, interrupted>>
      BY <1>1, <1>4 DEF SaveUserFails, NoRoleWrite, directoryVars
    <2>3. signups' = [signups EXCEPT ![s] = IdleSignup]
      BY <1>4 DEF AnswerSignup
    <2> QED
      BY <1>1, <2>1, <2>2, <2>3, SignupMoves
  <1> QED
    BY <1>3, <1>4 DEF SignupSaveUser

LEMMA SignupSaveCredentialKeeps ==
  ASSUME AccountInv, boot.stage = "up", NEW s \in Signups, SignupSaveCredential(s)
  PROVE  AccountInv'
PROOF
  <1> DEFINE u == signups[s].id
  <1>1. /\ AccountTypes /\ AccountFits /\ signups \in [Signups -> Signup]
        /\ signups[s].stage = "save_credential" /\ u \in UserIds
        /\ CreateAuthCredential(u) /\ signups' = [signups EXCEPT ![s] = IdleSignup]
        /\ UNCHANGED <<directoryVars, freshUsers, boot>>
        /\ PendingApart /\ AdminKept /\ FailedOnlyUp
    BY DEF AccountInv, AccountTypeInv, AccountTypes, AccountFits, SignupFits,
           SignupSaveCredential, AnswerSignup, NoRoleWrite, NoUserWrite, directoryVars
  <1>2. /\ TypeInv' /\ UsersStayDistinct'
        /\ users' = users /\ stage' = stage /\ local' = local
        /\ (AdminStored' <=> AdminStored)
    BY <1>1, DirectoryStays
  <1>3. /\ signups' \in [Signups -> Signup] /\ signups'[s].stage = "idle"
        /\ \A t \in Signups \ {s} : signups'[t] = signups[t]
    <2>1. IdleSignup \in Signup /\ IdleSignup.stage = "idle"
      BY DEF IdleSignup, Signup
    <2> QED
      BY <1>1, <2>1
  <1>4. u \in Pending /\ Pending' = Pending \ {u}
    BY <1>1, <1>3 DEF Pending, PendingApart
  <1>5. /\ credentials' \subseteq UserIds /\ interrupted' \subseteq UserIds
        /\ Placed'
    BY <1>1, <1>2, <1>4, CredentialStep
  <1>6. AccountTypes' /\ AccountFits'
    BY <1>1, <1>2, <1>3, <1>5
    DEF AccountTypes, AccountFits, BootFits, NotServing, SignupFits
  <1>7. PendingApart'
    BY <1>1, <1>3 DEF PendingApart
  <1>8. AdminKept' /\ FailedOnlyUp'
    BY <1>1, <1>2 DEF AdminKept, FailedOnlyUp
  <1> QED
    BY <1>2, <1>5, <1>6, <1>7, <1>8 DEF AccountInv, AccountTypeInv

-----------------------------------------------------------------------------
(* The endpoints of Directory, and the end of the process. *)

\* An update is about to write a user only after UserFind has let it pass.
LEMMA ReachesUserWrite ==
  ASSUME TypeInv, NEW r \in Requests, HandleRequest(r), stage'[r] = "user_write"
  PROVE  /\ users' = users
         /\ local'[r].id = local[r].id
         /\ users[local[r].id].username # AdminName
PROOF
  <1>1. DirectoryTypeOK /\ local[r] \in Local /\ r \in DOMAIN stage
    BY KeepsLocal DEF TypeInv, DirectoryTypeOK
  <1>2. CASE Answer(r)
    BY <1>1, <1>2, AnswerMoves
  <1>3. CASE UserFind(r) /\ ~Answer(r)
    <2> DEFINE l == [local[r] EXCEPT !.found = users[local[r].id]]
    <2>1. /\ Keep(r, l) /\ users' = users
          /\ users[local[r].id].username # AdminName
      BY <1>3 DEF UserFind, NoUserWrite, IsBuiltIn
    <2>2. local'[r] = l
      BY <1>1, <2>1 DEF Keep, DirectoryTypeOK
    <2>3. l.id = local[r].id
      BY <1>1 DEF Local
    <2> QED
      BY <2>1, <2>2, <2>3
  <1>4. CASE ~UserFind(r) /\ ~Answer(r)
    BY <1>1, <1>4
    DEF HandleRequest, CreateRoleStep, CreateRoleFind, CreateNewRole,
        CreateNewRoleFails, UpdateRoleStep, UpdateRoleDuplicate, UpdateRoleFind,
        FindRoleByIdAndUpdate, DeleteRoleStep, DeleteRoleFind, DeleteRoleHolders,
        DeleteRoleExisting, BulkUpdateUserRoles, DeleteRoleFromUsers, DeleteRoleMark,
        UserStep, UpdateUser, RequestFails, WritesLast, Advance, DirectoryTypeOK
  <1> QED
    BY <1>2, <1>3, <1>4

\* A handler of Directory keeps the built-in account.
LEMMA HandlerKeepsAdmin ==
  ASSUME AccountInv, boot.stage = "up", NEW r \in Requests, HandleRequest(r),
         UNCHANGED boot
  PROVE  AdminKept'
PROOF
  <1> SUFFICES ASSUME ~boot.failed
               PROVE  /\ AdminStored'
                      /\ \A s \in Requests :
                           stage'[s] = "user_write" =>
                             users'[local'[s].id].username # AdminName
    BY DEF AdminKept
  <1>1. /\ TypeInv /\ AdminStored
        /\ \A s \in Requests :
             stage[s] = "user_write" => users[local[s].id].username # AdminName
        /\ users \in [UserIds -> User \cup {None}] /\ None \notin User
    BY DirectoryAssumption
    DEF AccountInv, AccountTypeInv, AdminKept, TypeInv, DirectoryTypeOK
  <1>2. \A s \in Requests \ {r} : stage'[s] = stage[s] /\ local'[s] = local[s]
    BY <1>1, HandleKeepsTypes DEF Frame, Moves
  <1>3. \A s \in Requests :
          stage[s] = "user_write" => local[s].id \in UserIds /\ users[local[s].id] # None
    BY <1>1 DEF TypeInv, StagesFit, StageFits
  <1>4. CASE NamesKept
    <2>1. AdminStored'
      BY <1>1, <1>4 DEF AdminStored, NamesKept
    <2>2. ASSUME NEW s \in Requests \ {r}, stage'[s] = "user_write"
          PROVE  users'[local'[s].id].username # AdminName
      BY <1>1, <1>2, <1>3, <1>4, <2>2 DEF NamesKept
    <2>3. ASSUME stage'[r] = "user_write"
          PROVE  users'[local'[r].id].username # AdminName
      BY <1>1, <2>3, ReachesUserWrite
    <2> QED
      BY <2>1, <2>2, <2>3
  <1>5. CASE UserReplaced(r)
    <2> DEFINE u == local[r].id
    <2>1. PICK user \in User :
            /\ UserFree(u, user.username, user.email)
            /\ users' = [users EXCEPT ![u] = user]
      BY <1>5 DEF UserReplaced
    <2>2. u \in UserIds /\ users[u].username # AdminName
      BY <1>1, <1>5 DEF UserReplaced
    <2>3. PICK a \in UserIds : users[a] # None /\ users[a].username = AdminName
      BY <1>1 DEF AdminStored
    <2>4. a # u /\ user.username # AdminName
      BY <2>1, <2>2, <2>3 DEF UserFree
    <2>5. users'[u] = user /\ \A v \in UserIds \ {u} : users'[v] = users[v]
      BY <1>1, <2>1, <2>2
    <2>6. AdminStored'
      BY <2>3, <2>4, <2>5 DEF AdminStored
    <2>7. ASSUME NEW s \in Requests \ {r}, stage'[s] = "user_write"
          PROVE  users'[local'[s].id].username # AdminName
      BY <1>1, <1>2, <1>3, <2>4, <2>5, <2>7
    <2>8. ASSUME stage'[r] = "user_write"
          PROVE  users'[local'[r].id].username # AdminName
      BY <1>1, <2>8, ReachesUserWrite
    <2> QED
      BY <2>6, <2>7, <2>8
  <1> QED
    BY <1>1, <1>4, <1>5, HandlerUserWrites

\* So does a request that arrives.
LEMMA ReceiveKeepsAdmin ==
  ASSUME AccountInv, NEW r \in Requests, NEW caller \in SUBSET Permissions,
         ReceiveRequest(r, caller), UNCHANGED boot
  PROVE  AdminKept'
PROOF
  <1>1. TypeInv /\ users' = users
    BY ReceiveWritesNothing DEF AccountInv, AccountTypeInv
  <1>2. \A s \in Requests \ {r} : stage'[s] = stage[s] /\ local'[s] = local[s]
    BY <1>1, ReceiveKeepsTypes DEF Frame, Moves
  <1>3. stage'[r] # "user_write"
    <2>1. PICK next \in {"create_find", "update_duplicate", "delete_find", "user_find"} :
            Advance(r, next)
      BY DEF ReceiveRequest, PostRole, PatchRole, PatchRoleDelete, PatchUser,
             PatchWholeUser, Begin
    <2> QED
      BY <1>1, <2>1, Control DEF TypeInv, Stages, ReadStages
  <1> QED
    BY <1>1, <1>2, <1>3 DEF AccountInv, AdminKept, AdminStored

LEMMA DirectoryStepKeeps ==
  ASSUME AccountInv, boot.stage = "up", NEW r \in Requests,
         HandleRequest(r) \/ \E caller \in SUBSET Permissions : ReceiveRequest(r, caller),
         UNCHANGED accountVars
  PROVE  AccountInv'
PROOF
  <1>1. /\ TypeInv /\ AccountTypes /\ AccountFits
        /\ UNCHANGED <<credentials, freshUsers, signups, boot, interrupted>>
    BY DEF AccountInv, AccountTypeInv, accountVars
  <1>2. TypeInv'
    BY <1>1, HandleKeepsTypes, ReceiveKeepsTypes
  <1>3. /\ \A u \in UserIds : users'[u] = None <=> users[u] = None
        /\ UsersStayDistinct'
    BY <1>1, DirectoryKeepsUsers DEF AccountInv, DirectoryWrites
  <1>4. AccountTypes' /\ AccountFits'
    BY <1>1, <1>3 DEF AccountTypes, AccountFits, BootFits, NotServing, SignupFits
  <1>5. Pending' = Pending
    BY <1>1 DEF Pending
  <1>6. Placed' /\ PendingApart' /\ FailedOnlyUp'
    BY <1>1, <1>3, <1>5 DEF AccountInv, Placed, PendingApart, FailedOnlyUp
  <1>7. AdminKept'
    BY <1>1, HandlerKeepsAdmin, ReceiveKeepsAdmin
  <1> QED
    BY <1>2, <1>3, <1>4, <1>6, <1>7 DEF AccountInv, AccountTypeInv

\* The end of the process makes the createUsers under way interrupted ones.
LEMMA RestartKeeps ==
  ASSUME AccountInv, Restarted
  PROVE  AccountInv'
PROOF
  <1>1. /\ TypeInv /\ AccountTypes /\ AccountFits /\ HandlersLost
        /\ signups' = [s \in Signups |-> IdleSignup] /\ boot' = Starting
        /\ interrupted' = interrupted \cup Pending
        /\ UNCHANGED <<credentials, freshUsers>>
        /\ users' = users
    BY DEF AccountInv, AccountTypeInv, Restarted, HandlersLost, NoUserWrite
  <1>2. TypeInv' /\ \A r \in Requests : stage'[r] = "idle"
    BY <1>1, LostKeepsTypes
  <1>3. /\ IdleSignup \in Signup /\ IdleSignup.stage = "idle"
        /\ Starting \in Boot /\ Starting.stage = "find_role" /\ ~Starting.failed
    BY DEF IdleSignup, Signup, Starting, Boot
  <1>4. Pending \subseteq UserIds /\ Pending' = {}
    BY <1>1, <1>3 DEF Pending
  <1>5. AccountTypes' /\ AccountFits'
    BY <1>1, <1>2, <1>3, <1>4
    DEF AccountTypes, AccountFits, BootFits, NotServing, SignupFits
  <1>6. UsersStayDistinct' /\ Placed'
    BY <1>1, <1>4 DEF AccountInv, UsersStayDistinct, Placed
  <1>7. PendingApart' /\ AdminKept' /\ FailedOnlyUp'
    BY <1>1, <1>3 DEF PendingApart, AdminKept, FailedOnlyUp
  <1> QED
    BY <1>2, <1>5, <1>6, <1>7 DEF AccountInv, AccountTypeInv

-----------------------------------------------------------------------------
(* The invariant. *)

LEMMA AccountsInitInv == AccountsInit => AccountInv
PROOF
  <1> SUFFICES ASSUME AccountsInit PROVE AccountInv
    OBVIOUS
  <1>1. /\ TypeInv /\ users = InitialUsers
        /\ \A r \in Requests : stage[r] = "idle"
    BY InitTypes DEF AccountsInit, DirectoryInit
  <1>2. /\ IdleSignup \in Signup /\ IdleSignup.stage = "idle"
        /\ Starting \in Boot /\ Starting.stage = "find_role" /\ ~Starting.failed
    BY DEF IdleSignup, Signup, Starting, Boot
  <1>3. /\ credentials = {u \in UserIds : users[u] # None}
        /\ freshUsers = {u \in UserIds : users[u] = None}
        /\ signups = [s \in Signups |-> IdleSignup]
        /\ boot = Starting /\ interrupted = {}
    BY <1>1 DEF AccountsInit
  <1>4. AccountTypes /\ AccountFits
    BY <1>1, <1>2, <1>3
    DEF AccountTypes, AccountFits, BootFits, NotServing, SignupFits
  <1>5. Pending = {}
    BY <1>2, <1>3 DEF Pending
  <1>6. Placed /\ PendingApart /\ AdminKept /\ FailedOnlyUp
    BY <1>2, <1>3, <1>5 DEF Placed, PendingApart, AdminKept, FailedOnlyUp
  <1>7. UsersStayDistinct
    BY <1>1, DirectoryAssumption DEF UsersStayDistinct
  <1> QED
    BY <1>1, <1>4, <1>6, <1>7 DEF AccountInv, AccountTypeInv

LEMMA AccountsNextKeeps ==
  ASSUME AccountInv,
         [AccountsNext(SUBSET Permissions)]_<<directoryVars, accountVars>>
  PROVE  AccountInv'
PROOF
  <1>1. CASE BootStep
    BY <1>1, BootFindRoleKeeps, BootSaveRoleKeeps, BootFindAdminKeeps,
       BootSaveAdminKeeps, BootSaveCredentialKeeps, BootFailsKeeps
    DEF BootStep
  <1>2. CASE Booting("up") /\ Served(SUBSET Permissions)
    BY <1>2, DirectoryStepKeeps, SignupReadsKeep, SignupSaveUserKeeps,
       SignupSaveCredentialKeeps, RestartKeeps
    DEF Served, Booting, SignupStep
  <1>3. CASE AccountsCrash
    BY <1>3, RestartKeeps DEF AccountsCrash
  <1>4. CASE UNCHANGED <<directoryVars, accountVars>>
    <2>1. /\ TypeInv' /\ UsersStayDistinct' /\ users' = users /\ stage' = stage
          /\ local' = local /\ (AdminStored' <=> AdminStored)
          /\ UNCHANGED <<credentials, freshUsers, signups, boot, interrupted>>
      BY <1>4, DirectoryStays DEF accountVars
    <2> QED
      BY <2>1
      DEF AccountInv, AccountTypeInv, AccountTypes, AccountFits, BootFits, NotServing,
          SignupFits, Placed, Pending, PendingApart, AdminKept, FailedOnlyUp
  <1> QED
    BY <1>1, <1>2, <1>3, <1>4 DEF AccountsNext

LEMMA AccountInvHolds == AccountsSpec => []AccountInv
PROOF
  <1>1. AccountInv /\ [AccountsNext(SUBSET Permissions)]_<<directoryVars, accountVars>>
        => AccountInv'
    BY AccountsNextKeeps
  <1> QED
    BY <1>1, AccountsInitInv, PTL DEF AccountsSpec

-----------------------------------------------------------------------------
(* What Directory guarantees beside the start and the creation of users. *)

\* A document is stored under a new id: by createUser, which tells every request
\* so, or by the start, when there is none.
DocumentAdded ==
  /\ stage' = stage /\ local' = local
  /\ \A s \in Requests : stage[s] = "idle" \/ LeavesAlone(s)
  /\ \A x \in RoleIds : roles[x] # None => roles'[x] = roles[x]
  /\ \A u \in UserIds : users[u] # None => users'[u] = users[u]

LEMMA SaveUserAdds ==
  ASSUME AccountInv, NEW u, NEW user, SaveUser(u, user), NoRoleWrite,
         UNCHANGED <<stage, local>>
  PROVE  DocumentAdded
PROOF
  <1>1. /\ users \in [UserIds -> User \cup {None}]
        /\ unseen \in [Requests -> SUBSET Documents]
        /\ u \in UserIds /\ users[u] = None
    BY DEF AccountInv, AccountTypeInv, TypeInv, DirectoryTypeOK, AccountTypes, SaveUser
  <1>2. \A v \in UserIds \ {u} : users'[v] = users[v]
    BY <1>1 DEF SaveUser
  <1>3. \A s \in Requests : unseen[s] \subseteq unseen'[s] /\ u \in unseen'[s]
    BY <1>1 DEF SaveUser, Unread
  <1> QED
    BY <1>1, <1>2, <1>3 DEF DocumentAdded, LeavesAlone, NoRoleWrite

LEMMA BootSaveRoleAdds ==
  ASSUME AccountInv, BootSaveRole
  PROVE  DocumentAdded
PROOF
  <1>1. /\ roles \in [RoleIds -> Role \cup {None}]
        /\ \A x \in freshRoles : x \in RoleIds /\ roles[x] = None
        /\ \A s \in Requests : stage[s] = "idle"
    BY DEF AccountInv, AccountTypeInv, TypeInv, DirectoryTypeOK, AccountFits, NotServing,
           BootSaveRole, Booting
  <1>2. \A x \in RoleIds : roles[x] # None => roles'[x] = roles[x]
    BY <1>1 DEF BootSaveRole
  <1> QED
    BY <1>1, <1>2 DEF DocumentAdded, BootSaveRole, NoUserWrite

\* Whatever else the process does is a step of Directory.
LEMMA AccountsSteps ==
  ASSUME AccountInv,
         [AccountsNext(SUBSET Permissions)]_<<directoryVars, accountVars>>
  PROVE  [DirectoryNext(SUBSET Permissions)]_directoryVars \/ DocumentAdded
PROOF
  <1>1. CASE BootStep
    <2>1. CASE BootSaveRole
      BY <2>1, BootSaveRoleAdds
    <2>2. CASE BootSaveAdmin
      BY <2>2, SaveUserAdds
      DEF BootSaveAdmin, SaveUserFails, NoRoleWrite, directoryVars
    <2>3. CASE BootFindRole \/ BootFindAdmin \/ BootSaveCredential \/ BootFails
      BY <2>3 DEF BootFindRole, BootFindAdmin, BootSaveCredential, BootFails,
                  NoRoleWrite, NoUserWrite, directoryVars
    <2> QED
      BY <1>1, <2>1, <2>2, <2>3 DEF BootStep
  <1>2. CASE Served(SUBSET Permissions)
    <2>1. ASSUME NEW s \in Signups, SignupSaveUser(s)
          PROVE  DocumentAdded \/ UNCHANGED directoryVars
      BY <2>1, SaveUserAdds
      DEF SignupSaveUser, SaveUserFails, NoRoleWrite, directoryVars
    <2>2. ASSUME NEW s \in Signups,
                 \/ SignupFindUsername(s) \/ SignupFindEmail(s)
                 \/ SignupSaveCredential(s) \/ SignupFails(s)
                 \/ \E caller \in SUBSET Permissions, new \in NewUsers :
                      PatchNewUser(s, caller, new)
          PROVE  UNCHANGED directoryVars
      BY <2>2 DEF SignupFindUsername, SignupFindEmail, SignupSaveCredential,
                  SignupFails, PatchNewUser, OnlySignups, NoRoleWrite, NoUserWrite,
                  directoryVars
    <2> QED
      BY <1>2, <2>1, <2>2 DEF Served, SignupStep, DirectoryNext
  <1>3. CASE AccountsCrash
    BY <1>3 DEF AccountsCrash, Restarted, DirectoryNext, DirectoryCrash
  <1>4. CASE UNCHANGED <<directoryVars, accountVars>>
    BY <1>4
  <1> QED
    BY <1>1, <1>2, <1>3, <1>4 DEF AccountsNext

LEMMA AccountsKeepDirectoryInv ==
  ASSUME AccountInv, DirectoryInv, AccountInv',
         [AccountsNext(SUBSET Permissions)]_<<directoryVars, accountVars>>
  PROVE  DirectoryInv'
PROOF
  <1>1. CASE [DirectoryNext(SUBSET Permissions)]_directoryVars
    BY <1>1, NextKeepsInv
  <1>2. CASE DocumentAdded
    <2>1. TypeInv /\ TypeInv'
      BY DEF AccountInv, AccountTypeInv
    <2>2. ASSUME NEW s \in Requests
          PROVE  HandlerInv(s)'
      <3>1. CASE stage[s] = "idle"
        BY <1>2, <3>1, QuietStages DEF DocumentAdded
      <3>2. CASE LeavesAlone(s)
        BY <2>1, <3>2, LeftAloneKeeps DEF DirectoryInv
      <3> QED
        BY <1>2, <3>1, <3>2 DEF DocumentAdded
    <2> QED
      BY <2>1, <2>2 DEF DirectoryInv
  <1> QED
    BY <1>1, <1>2, AccountsSteps

LEMMA DirectoryInvInAccounts == AccountsSpec => []DirectoryInv
PROOF
  <1>1. AccountsInit => DirectoryInv
    BY StartFits DEF AccountsInit
  <1>2. /\ AccountInv /\ DirectoryInv /\ AccountInv'
        /\ [AccountsNext(SUBSET Permissions)]_<<directoryVars, accountVars>>
        => DirectoryInv'
    BY AccountsKeepDirectoryInv
  <1> QED
    BY <1>1, <1>2, AccountInvHolds, PTL DEF AccountsSpec

\* Users created while roles are deleted and updated, restarts between any two
\* calls and the start itself take nothing from what the endpoints of roles and
\* users guarantee: a role marked deleted has been withdrawn and replaced up to
\* concurrent writes, duplicate checks are worth what they were, and deletions,
\* deleted roles and the built-in account change no more than they may.
THEOREM AccountsKeepDirectory ==
  AccountsSpec => /\ [](/\ DeletedRoleIsWithdrawn
                        /\ ReplacementsAreGiven
                        /\ DuplicateCheckSawNoRole)
                  /\ DeletionTakesOneRole
                  /\ DeletedRoleComesBackByUpdate
                  /\ BuiltInAccountIsKept
PROOF
  <1>1. DirectoryInv => /\ DeletedRoleIsWithdrawn
                        /\ ReplacementsAreGiven
                        /\ DuplicateCheckSawNoRole
    BY DEF DirectoryInv, HandlerInv, Withdraws, ToWithdraw, Replaces, ToGive, NameFree,
           DeletedRoleIsWithdrawn, ReplacementsAreGiven, DuplicateCheckSawNoRole
  <1>2. ASSUME AccountInv, DirectoryInv,
               [AccountsNext(SUBSET Permissions)]_<<directoryVars, accountVars>>
        PROVE  /\ \A r \in Requests : TakesOneRole(r)
               /\ \A x \in RoleIds : ComesBackByUpdate(x)
               /\ \A u \in UserIds : BuiltInIsKept(u)
    <2>1. CASE [DirectoryNext(SUBSET Permissions)]_directoryVars
      BY <1>2, <2>1, DeletionStepTakesOneRole, RoleComesBackByUpdate, BuiltInStepKeeps
    <2>2. CASE DocumentAdded
      BY <2>2 DEF DocumentAdded, TakesOneRole, ComesBackByUpdate, BuiltInIsKept, BuiltInWriter
    <2> QED
      BY <1>2, <2>1, <2>2, AccountsSteps
  <1>3. /\ AccountInv /\ DirectoryInv
        /\ [AccountsNext(SUBSET Permissions)]_<<directoryVars, accountVars>>
        => /\ [\A r \in Requests : TakesOneRole(r)]_directoryVars
           /\ [\A x \in RoleIds : ComesBackByUpdate(x)]_directoryVars
           /\ [\A u \in UserIds : BuiltInIsKept(u)]_directoryVars
    BY <1>2
  <1>4. AccountsSpec => [](/\ DeletedRoleIsWithdrawn
                           /\ ReplacementsAreGiven
                           /\ DuplicateCheckSawNoRole)
    BY <1>1, DirectoryInvInAccounts, PTL
  <1>5. AccountsSpec => /\ [][\A r \in Requests : TakesOneRole(r)]_directoryVars
                        /\ [][\A x \in RoleIds : ComesBackByUpdate(x)]_directoryVars
                        /\ [][\A u \in UserIds : BuiltInIsKept(u)]_directoryVars
    BY <1>3, AccountInvHolds, DirectoryInvInAccounts, PTL DEF AccountsSpec
  <1> QED
    BY <1>4, <1>5
    DEF DeletionTakesOneRole, DeletedRoleComesBackByUpdate, BuiltInAccountIsKept,
        TakesOneRole, ComesBackByUpdate, BuiltInIsKept, BuiltInWriter

-----------------------------------------------------------------------------
(* Sessions. *)

SessionTypes ==
  /\ tokens \subseteq Payload
  /\ logins \in [Logins -> Login]
  /\ issued \subseteq Payload
  /\ overwritten \in [Logins -> SUBSET Documents]

\* The stages of a login that has found its user.
FoundUser == {"find_credential", "find_permissions", "last_login"}

\* The user of a login has a credential once it has been looked up, and the
\* login holds what the user and the roles hold, or they were overwritten.
LoginFits(l) ==
  LET here == logins[l] IN
  /\ here.stage \in FoundUser \cup {"refresh_find"} => here.user \in UserIds
  /\ here.stage \in FoundUser =>
       here.user \in overwritten[l] \/ here.role = users[here.user].role
  /\ here.stage \in {"find_permissions", "last_login"} => here.user \in credentials
  /\ here.stage = "last_login" =>
       \/ here.role \cap overwritten[l] # {}
       \/ \A p \in here.permissions :
            \E x \in here.role : roles[x] # None /\ p \in roles[x].permissions
  /\ here.stage = "refresh_find" => RefreshedPayload(here) \in issued

TokensFit ==
  /\ tokens \subseteq issued
  /\ \A token \in tokens : token.sub \in credentials

SessionInv ==
  AccountInv /\ SessionTypes /\ TokensFit /\ \A l \in Logins : LoginFits(l)

LEMMA NoLoginFits ==
  /\ NoLogin \in Login /\ NoLogin.stage = "idle"
  /\ \A l : logins[l] = NoLogin => LoginFits(l)
PROOF
  <1>1. NoLogin \in Login /\ NoLogin.stage = "idle"
    BY DEF NoLogin, Login, LoginBody
  <1> QED
    BY <1>1 DEF LoginFits, FoundUser

\* The permissions of a token are permissions.
LEMMA CallersHavePermissions ==
  ASSUME SessionTypes
  PROVE  Callers \subseteq SUBSET Permissions
  BY DEF SessionTypes, Callers, Payload

LEMMA CallersAreCallers ==
  ASSUME SessionTypes, AccountsNext(Callers)
  PROVE  AccountsNext(SUBSET Permissions)
  BY CallersHavePermissions DEF AccountsNext, Served

\* A credential is never taken away.
LEMMA CredentialsGrow ==
  ASSUME NEW callers, AccountsNext(callers)
  PROVE  credentials \subseteq credentials'
PROOF
  <1>1. CASE BootStep
    BY <1>1
    DEF BootStep, BootFindRole, BootSaveRole, BootFindAdmin, BootSaveAdmin,
        BootSaveCredential, BootFails, CreateAuthCredential
  <1>2. CASE Served(callers)
    BY <1>2
    DEF Served, PatchNewUser, SignupStep, SignupFindUsername, SignupFindEmail,
        SignupSaveUser, SignupSaveCredential, SignupFails, OnlySignups,
        CreateAuthCredential, Restarted, accountVars
  <1>3. CASE AccountsCrash
    BY <1>3 DEF AccountsCrash, Restarted
  <1> QED
    BY <1>1, <1>2, <1>3 DEF AccountsNext

\* A step that leaves a login as it is, and marks what it writes.
LEMMA LoginStays ==
  ASSUME SessionInv, NEW l \in Logins, logins'[l] = logins[l],
         credentials \subseteq credentials', issued \subseteq issued',
         logins[l].stage \in FoundUser =>
           /\ overwritten[l] \subseteq overwritten'[l]
           /\ \A x \in RoleIds : x \in overwritten'[l] \/ roles'[x] = roles[x]
           /\ \A u \in UserIds : u \in overwritten'[l] \/ users'[u] = users[u]
  PROVE  LoginFits(l)'
PROOF
  <1>1. LoginFits(l) /\ logins[l].role \subseteq RoleIds
    BY DEF SessionInv, SessionTypes, Login
  <1>2. logins[l].stage = "last_login" => logins[l].stage \in FoundUser
    BY DEF FoundUser
  <1> QED
    BY <1>1, <1>2 DEF LoginFits, RefreshedPayload

LEMMA DirectoryStepKeepsSessions ==
  ASSUME SessionInv, DirectoryStep
  PROVE  SessionInv'
PROOF
  <1>1. /\ AccountInv /\ SessionTypes /\ TokensFit
        /\ AccountsNext(Callers) /\ UNCHANGED <<tokens, issued>>
    BY DEF SessionInv, DirectoryStep
  <1>2. AccountInv'
    BY <1>1, CallersAreCallers, AccountsNextKeeps
  <1>3. credentials \subseteq credentials'
    BY <1>1, CredentialsGrow
  <1>4. TokensFit'
    BY <1>1, <1>3 DEF TokensFit
  <1>5. CASE boot'.stage = "find_role"
    <2>1. /\ logins' = [l \in Logins |-> NoLogin]
          /\ overwritten' = [l \in Logins |-> {}]
      BY <1>5 DEF DirectoryStep
    <2>2. SessionTypes'
      BY <1>1, <2>1, NoLoginFits DEF SessionTypes
    <2>3. ASSUME NEW l \in Logins PROVE LoginFits(l)'
      BY <2>1, NoLoginFits DEF LoginFits, FoundUser
    <2> QED
      BY <1>2, <1>4, <2>2, <2>3 DEF SessionInv
  <1>6. CASE boot'.stage # "find_role"
    <2>1. /\ overwritten' = [l \in Logins |->
               IF logins[l].stage \in FoundUser
               THEN overwritten[l] \cup Overwritten ELSE {}]
          /\ logins' = logins
      BY <1>6 DEF DirectoryStep, FoundUser
    <2>2. Overwritten \subseteq Documents
      BY DEF Overwritten, Documents
    <2>3. SessionTypes'
      BY <1>1, <2>1, <2>2 DEF SessionTypes
    <2>4. ASSUME NEW l \in Logins PROVE LoginFits(l)'
      <3>1. logins[l].stage \in FoundUser =>
              /\ overwritten[l] \subseteq overwritten'[l]
              /\ \A x \in RoleIds : x \in overwritten'[l] \/ roles'[x] = roles[x]
              /\ \A u \in UserIds : u \in overwritten'[l] \/ users'[u] = users[u]
        BY <2>1 DEF Overwritten
      <3> QED
        BY <1>1, <1>3, <2>1, <3>1, LoginStays
    <2> QED
      BY <1>2, <1>4, <2>3, <2>4 DEF SessionInv
  <1> QED
    BY <1>5, <1>6

\* What remains to be shown of a step of one login.
LEMMA LoginMoves ==
  ASSUME SessionInv, NEW l \in Logins, NEW new \in Login, LoginGoes(l, new),
         UNCHANGED <<directoryVars, accountVars>>,
         NEW marks \in SUBSET Documents,
         overwritten' = [overwritten EXCEPT ![l] = marks],
         tokens' \subseteq Payload, issued' \subseteq Payload,
         issued \subseteq issued', TokensFit',
         logins'[l] = new /\ overwritten'[l] = marks => LoginFits(l)'
  PROVE  SessionInv'
PROOF
  <1>1. SessionTypes /\ AccountInv
    BY DEF SessionInv
  <1>2. AccountInv'
    BY <1>1, AccountsNextKeeps
  <1>3. /\ logins' \in [Logins -> Login] /\ logins'[l] = new
        /\ \A k \in Logins \ {l} : logins'[k] = logins[k]
    BY <1>1 DEF SessionTypes, LoginGoes
  <1>4. /\ overwritten' \in [Logins -> SUBSET Documents] /\ overwritten'[l] = marks
        /\ \A k \in Logins \ {l} : overwritten'[k] = overwritten[k]
    BY <1>1 DEF SessionTypes
  <1>5. LoginFits(l)'
    BY <1>3, <1>4
  <1>6. credentials' = credentials /\ roles' = roles /\ users' = users
    BY DEF directoryVars, accountVars
  <1>7. ASSUME NEW k \in Logins \ {l} PROVE LoginFits(k)'
    BY <1>3, <1>4, <1>6, LoginStays
  <1>8. SessionTypes'
    BY <1>3, <1>4 DEF SessionTypes
  <1> QED
    BY <1>2, <1>5, <1>7, <1>8 DEF SessionInv

LEMMA LoginEndsKeeps ==
  ASSUME SessionInv, NEW l \in Logins, LoginEnds(l),
         UNCHANGED <<directoryVars, accountVars>>,
         tokens' \subseteq Payload, issued' \subseteq Payload,
         issued \subseteq issued', TokensFit'
  PROVE  SessionInv'
PROOF
  <1>1. LoginGoes(l, NoLogin) /\ overwritten' = [overwritten EXCEPT ![l] = {}]
    BY DEF LoginEnds
  <1>2. logins'[l] = NoLogin => LoginFits(l)'
    BY NoLoginFits DEF LoginFits, FoundUser
  <1> QED
    BY <1>1, <1>2, NoLoginFits, LoginMoves

\* A step that hands out nothing.
LEMMA QuietLogin ==
  ASSUME SessionInv, OnlyLogins, UNCHANGED tokens
  PROVE  /\ UNCHANGED <<directoryVars, accountVars>>
         /\ tokens' \subseteq Payload /\ issued' \subseteq Payload
         /\ issued \subseteq issued' /\ TokensFit'
  BY DEF SessionInv, SessionTypes, TokensFit, OnlyLogins, accountVars

LEMMA LoginStepKeeps ==
  ASSUME SessionInv, NEW l \in Logins, ReceiveLogin(l) \/ LoginStep(l)
  PROVE  SessionInv'
PROOF
  <1> DEFINE here == logins[l]
  <1>1. /\ SessionTypes /\ TokensFit /\ AccountInv /\ LoginFits(l) /\ here \in Login
        /\ overwritten[l] \in SUBSET Documents
        /\ overwritten = [overwritten EXCEPT ![l] = overwritten[l]]
    BY DEF SessionInv, SessionTypes
  <1>2. ASSUME NEW body \in LoginBodies, PostLogin(l, body)
        PROVE  SessionInv'
    <2> DEFINE new == [NoLogin EXCEPT !.stage = "find_user", !.body = body]
    <2>1. new \in Login /\ new.stage = "find_user"
      BY NoLoginFits, SessionsAssumption DEF Login, LoginBody
    <2>2. /\ LoginGoes(l, new) /\ OnlyLogins /\ UNCHANGED tokens
          /\ overwritten' = [overwritten EXCEPT ![l] = overwritten[l]]
      BY <1>1, <1>2 DEF PostLogin
    <2> HIDE DEF new
    <2>3. logins'[l] = new => LoginFits(l)'
      BY <2>1 DEF LoginFits, FoundUser
    <2> QED
      BY <1>1, <2>1, <2>2, <2>3, QuietLogin, LoginMoves
  <1>3. ASSUME NEW token \in tokens, PostRefresh(l, token)
        PROVE  SessionInv'
    <2> DEFINE new == [NoLogin EXCEPT !.stage = "refresh_find", !.user = token.sub,
                                      !.permissions = token.permissions]
    <2>1. token \in Payload /\ token \in issued
      BY <1>1 DEF SessionTypes, TokensFit
    <2>2. /\ new \in Login /\ new.stage = "refresh_find"
          /\ new.user = token.sub /\ new.permissions = token.permissions
      BY <2>1, NoLoginFits DEF Login, Payload
    <2>3. /\ LoginGoes(l, new) /\ OnlyLogins /\ UNCHANGED tokens
          /\ overwritten' = [overwritten EXCEPT ![l] = overwritten[l]]
      BY <1>1, <1>3 DEF PostRefresh
    <2> HIDE DEF new
    <2>4. RefreshedPayload(new) = token /\ token.sub \in UserIds
      BY <2>1, <2>2 DEF RefreshedPayload, Payload
    <2>5. issued' = issued
      BY <2>3 DEF OnlyLogins
    <2>6. logins'[l] = new => LoginFits(l)'
      BY <2>1, <2>2, <2>4, <2>5 DEF LoginFits, FoundUser, RefreshedPayload
    <2> QED
      BY <1>1, <2>2, <2>3, <2>6, QuietLogin, LoginMoves
  <1>4. CASE LoginFindUser(l)
    <2>1. here.stage = "find_user" /\ OnlyLogins /\ UNCHANGED tokens
      BY <1>4 DEF LoginFindUser
    <2>2. ASSUME NEW u \in UsersMeant(here.body),
                 LoginGoes(l, [here EXCEPT !.stage = "find_credential",
                                           !.user = u, !.role = users[u].role]),
                 overwritten' = [overwritten EXCEPT ![l] = {}]
          PROVE  SessionInv'
      <3> DEFINE new == [here EXCEPT !.stage = "find_credential",
                                     !.user = u, !.role = users[u].role]
      <3>1. u \in UserIds /\ users[u] # None
        BY DEF UsersMeant
      <3>2. users[u] \in User
        BY <1>1, <3>1 DEF AccountInv, AccountTypeInv, TypeInv, DirectoryTypeOK
      <3>3. /\ new \in Login /\ new.stage = "find_credential"
            /\ new.user = u /\ new.role = users[u].role
        BY <1>1, <3>1, <3>2 DEF Login, User
      <3> HIDE DEF new
      <3>4. users' = users
        BY <2>1 DEF OnlyLogins, directoryVars
      <3>5. logins'[l] = new => LoginFits(l)'
        BY <3>1, <3>3, <3>4 DEF LoginFits, FoundUser
      <3>6. LoginGoes(l, new)
        BY <2>2 DEF new
      <3> QED
        BY <2>1, <2>2, <3>3, <3>5, <3>6, QuietLogin, LoginMoves
    <2> QED
      BY <1>4, <2>1, <2>2, QuietLogin, LoginEndsKeeps DEF LoginFindUser
  <1>5. CASE LoginFindCredential(l)
    <2> DEFINE new == [here EXCEPT !.stage = "find_permissions"]
    <2>1. /\ here.stage = "find_credential" /\ here.user \in credentials
          /\ LoginGoes(l, new) /\ OnlyLogins /\ UNCHANGED tokens
          /\ overwritten' = [overwritten EXCEPT ![l] = overwritten[l]]
      BY <1>1, <1>5 DEF LoginFindCredential, ValidateUser
    <2>2. /\ new \in Login /\ new.stage = "find_permissions"
          /\ new.user = here.user /\ new.role = here.role
      BY <1>1 DEF Login
    <2> HIDE DEF new
    <2>3. users' = users /\ credentials' = credentials
      BY <2>1 DEF OnlyLogins, directoryVars, accountVars
    <2>4. logins'[l] = new /\ overwritten'[l] = overwritten[l] => LoginFits(l)'
      BY <1>1, <2>1, <2>2, <2>3 DEF LoginFits, FoundUser
    <2> QED
      BY <1>1, <2>1, <2>2, <2>4, QuietLogin, LoginMoves
  <1>6. CASE LoginFindPermissions(l)
    <2> DEFINE permissions == UniquePermissionList(here.role)
               new == [here EXCEPT !.stage = "last_login", !.permissions = permissions]
    <2>1. /\ here.stage = "find_permissions"
          /\ LoginGoes(l, new) /\ OnlyLogins /\ UNCHANGED tokens
          /\ overwritten' = [overwritten EXCEPT ![l] = overwritten[l]]
      BY <1>1, <1>6 DEF LoginFindPermissions
    <2>2. /\ here.role \subseteq RoleIds /\ roles \in [RoleIds -> Role \cup {None}]
      BY <1>1 DEF Login, AccountInv, AccountTypeInv, TypeInv, DirectoryTypeOK
    <2>3. permissions \subseteq Permissions
      BY <2>2 DEF UniquePermissionList, Role
    <2>4. \A p \in permissions :
            \E x \in here.role : roles[x] # None /\ p \in roles[x].permissions
      BY DEF UniquePermissionList
    <2> HIDE DEF permissions
    <2>5. /\ new \in Login /\ new.stage = "last_login"
          /\ new.user = here.user /\ new.role = here.role
          /\ new.permissions = permissions
      BY <1>1, <2>3 DEF Login
    <2> HIDE DEF new
    <2>6. users' = users /\ roles' = roles /\ credentials' = credentials
      BY <2>1 DEF OnlyLogins, directoryVars, accountVars
    <2>7. logins'[l] = new /\ overwritten'[l] = overwritten[l] => LoginFits(l)'
      BY <1>1, <2>1, <2>4, <2>5, <2>6 DEF LoginFits, FoundUser
    <2> QED
      BY <1>1, <2>1, <2>5, <2>7, QuietLogin, LoginMoves
  <1>7. CASE LoginAnswers(l)
    <2> DEFINE payload == [sub |-> here.user, permissions |-> here.permissions]
    <2>1. /\ here.stage = "last_login" /\ LoginEnds(l)
          /\ tokens' = tokens \cup {payload} /\ issued' = issued \cup {payload}
          /\ UNCHANGED <<directoryVars, accountVars>>
      BY <1>7 DEF LoginAnswers
    <2>2. here.user \in UserIds /\ here.user \in credentials
      BY <1>1, <2>1 DEF LoginFits, FoundUser
    <2>3. payload \in Payload /\ payload.sub = here.user
      BY <1>1, <2>2 DEF Payload, Login
    <2> HIDE DEF payload
    <2>4. credentials' = credentials
      BY <2>1 DEF accountVars
    <2>5. TokensFit'
      BY <1>1, <2>1, <2>2, <2>3, <2>4 DEF TokensFit
    <2> QED
      BY <1>1, <2>1, <2>3, <2>5, LoginEndsKeeps DEF SessionTypes
  <1>8. CASE LoginFails(l) \/ RefreshFails(l)
    BY <1>8, QuietLogin, LoginEndsKeeps DEF LoginFails, RefreshFails
  <1>9. CASE RefreshAnswers(l)
    <2>1. /\ here.stage = "refresh_find" /\ LoginEnds(l) /\ OnlyLogins
          /\ tokens' = IF here.user \in credentials
                       THEN tokens \cup {RefreshedPayload(here)} ELSE tokens
      BY <1>9 DEF RefreshAnswers
    <2>2. RefreshedPayload(here) \in issued
      BY <1>1, <2>1 DEF LoginFits
    <2>3. RefreshedPayload(here).sub = here.user
      BY DEF RefreshedPayload
    <2>4. /\ UNCHANGED <<directoryVars, accountVars>> /\ issued' = issued
          /\ credentials' = credentials
      BY <2>1 DEF OnlyLogins, accountVars
    <2>5. TokensFit' /\ tokens' \subseteq Payload /\ issued' \subseteq Payload
      BY <1>1, <2>1, <2>2, <2>3, <2>4 DEF TokensFit, SessionTypes
    <2> QED
      BY <2>1, <2>4, <2>5, LoginEndsKeeps
  <1> QED
    BY <1>2, <1>3, <1>4, <1>5, <1>6, <1>7, <1>8, <1>9 DEF ReceiveLogin, LoginStep

\* A token that expires takes nothing with it.
LEMMA TokenExpiresKeeps ==
  ASSUME SessionInv, NEW token \in tokens, TokenExpires(token)
  PROVE  SessionInv'
PROOF
  <1>1. /\ SessionTypes /\ TokensFit /\ AccountInv
        /\ UNCHANGED <<directoryVars, accountVars, issued, logins, overwritten>>
        /\ tokens' \subseteq tokens
    BY DEF SessionInv, TokenExpires, OnlyLogins
  <1>2. AccountInv'
    BY <1>1, AccountsNextKeeps
  <1>3. SessionTypes' /\ TokensFit'
    BY <1>1 DEF SessionTypes, TokensFit, accountVars
  <1>4. ASSUME NEW l \in Logins PROVE LoginFits(l)'
    <2>1. credentials' = credentials /\ roles' = roles /\ users' = users
      BY <1>1 DEF directoryVars, accountVars
    <2> QED
      BY <1>1, <2>1, LoginStays
  <1> QED
    BY <1>2, <1>3, <1>4 DEF SessionInv

LEMMA SessionsNextKeeps ==
  ASSUME SessionInv, [SessionsNext]_sessionsVars
  PROVE  SessionInv'
PROOF
  <1>1. CASE SessionsNext
    BY <1>1, DirectoryStepKeepsSessions, LoginStepKeeps, TokenExpiresKeeps
    DEF SessionsNext
  <1>2. CASE UNCHANGED sessionsVars
    <2>1. /\ SessionTypes /\ TokensFit /\ AccountInv
          /\ UNCHANGED <<directoryVars, accountVars, issued, logins, overwritten, tokens>>
      BY <1>2 DEF SessionInv, sessionsVars, sessionVars
    <2>2. AccountInv'
      BY <2>1, AccountsNextKeeps
    <2>3. SessionTypes' /\ TokensFit'
      BY <2>1 DEF SessionTypes, TokensFit, accountVars
    <2>4. ASSUME NEW l \in Logins PROVE LoginFits(l)'
      <3>1. credentials' = credentials /\ roles' = roles /\ users' = users
        BY <2>1 DEF directoryVars, accountVars
      <3> QED
        BY <2>1, <3>1, LoginStays
    <2> QED
      BY <2>2, <2>3, <2>4 DEF SessionInv
  <1> QED
    BY <1>1, <1>2

LEMMA SessionInvHolds == SessionsSpec => []SessionInv
PROOF
  <1>1. SessionsInit => SessionInv
    <2> SUFFICES ASSUME SessionsInit PROVE SessionInv
      OBVIOUS
    <2>1. AccountInv
      BY AccountsInitInv DEF SessionsInit
    <2>2. SessionTypes /\ TokensFit
      BY NoLoginFits DEF SessionsInit, SessionTypes, TokensFit
    <2>3. ASSUME NEW l \in Logins PROVE LoginFits(l)
      BY NoLoginFits DEF SessionsInit
    <2> QED
      BY <2>1, <2>2, <2>3 DEF SessionInv
  <1>2. SessionInv /\ [SessionsNext]_sessionsVars => SessionInv'
    BY SessionsNextKeeps
  <1> QED
    BY <1>1, <1>2, PTL DEF SessionsSpec

-----------------------------------------------------------------------------
(* What holds of the whole. *)

\* With its callers taken from the tokens the system is one of those Accounts
\* describes: no token lets in a caller with anything but permissions, and the
\* endpoints of auth write no user, role or credential.
THEOREM SessionsImplementAccounts == SessionsSpec => AccountsSpec
PROOF
  <1>1. SessionsInit => AccountsInit
    BY DEF SessionsInit
  <1>2. SessionInv /\ [SessionsNext]_sessionsVars
        => [AccountsNext(SUBSET Permissions)]_<<directoryVars, accountVars>>
    <2> SUFFICES ASSUME SessionInv, [SessionsNext]_sessionsVars
                 PROVE  \/ AccountsNext(SUBSET Permissions)
                        \/ UNCHANGED <<directoryVars, accountVars>>
      OBVIOUS
    <2>1. CASE DirectoryStep
      BY <2>1, CallersAreCallers DEF SessionInv, DirectoryStep
    <2>2. ASSUME NEW l \in Logins, ReceiveLogin(l) \/ LoginStep(l)
          PROVE  UNCHANGED <<directoryVars, accountVars>>
      BY <2>2
      DEF ReceiveLogin, PostLogin, PostRefresh, LoginStep, LoginFindUser,
          LoginFindCredential, LoginFindPermissions, LoginAnswers, LoginFails,
          RefreshAnswers, RefreshFails, OnlyLogins
    <2>3. ASSUME NEW token \in tokens, TokenExpires(token)
          PROVE  UNCHANGED <<directoryVars, accountVars>>
      BY <2>3 DEF TokenExpires, OnlyLogins
    <2>4. CASE UNCHANGED sessionsVars
      BY <2>4 DEF sessionsVars
    <2> QED
      BY <2>1, <2>2, <2>3, <2>4 DEF SessionsNext
  <1> QED
    BY <1>1, <1>2, SessionInvHolds, PTL DEF SessionsSpec, AccountsSpec

\* The collections, the start, the creation of users, the logins and the tokens
\* have their types in every reachable state.
THEOREM SessionsTypeCorrect == SessionsSpec => []SessionsTypeOK
PROOF
  <1>1. SessionInv => SessionsTypeOK
    BY DEF SessionInv, SessionTypes, SessionsTypeOK, AccountInv, AccountTypeInv, TypeInv,
           AccountTypes, AccountsTypeOK
  <1> QED
    BY <1>1, SessionInvHolds, PTL

\* No interleaving of creations, updates, role deletions and restarts gives two
\* users one username or one email.
THEOREM UsersAreDistinct == SessionsSpec => []UsersStayDistinct
PROOF
  <1>1. AccountInv => UsersStayDistinct
    BY DEF AccountInv
  <1> QED
    BY <1>1, SessionsImplementAccounts, AccountInvHolds, PTL

\* Every stored user has a password or is about to get it, but for those whose
\* second write failed or was cut off, and they never get one.
THEOREM PasswordsAreStored == SessionsSpec => []PasswordUnlessInterrupted
PROOF
  <1>1. AccountInv => PasswordUnlessInterrupted
    BY DEF AccountInv, Placed, PasswordUnlessInterrupted
  <1> QED
    BY <1>1, SessionsImplementAccounts, AccountInvHolds, PTL

\* A process that serves requests has its built-in account unless its start
\* failed to store it: no endpoint renames or replaces it.
THEOREM BuiltInAccountStands == SessionsSpec => []BuiltInAccountExists
PROOF
  <1>1. AccountInv => BuiltInAccountExists
    BY DEF AccountInv, AdminKept, AdminStored, BuiltInAccountExists
  <1> QED
    BY <1>1, SessionsImplementAccounts, AccountInvHolds, PTL

\* A login puts into its token permissions of roles the user has, unless the
\* user or one of the roles was written between its reads.
THEOREM LoginsGrantRoles == SessionsSpec => []LoginGrantsWhatRolesHold
PROOF
  <1>1. SessionInv => LoginGrantsWhatRolesHold
    BY DEF SessionInv, LoginFits, FoundUser, LoginGrantsWhatRolesHold
  <1> QED
    BY <1>1, SessionInvHolds, PTL

\* However often a token is refreshed, it holds what a login of its user put
\* into one.
THEOREM TokensAreFromLogins == SessionsSpec => []TokensComeFromLogins
PROOF
  <1>1. SessionInv => TokensComeFromLogins
    BY DEF SessionInv, TokensFit, LoginFits, TokensComeFromLogins
  <1> QED
    BY <1>1, SessionInvHolds, PTL

\* A user whose password was not stored gets no token, neither by a login nor by
\* a refresh.
THEOREM TokensNeedTheirPassword == SessionsSpec => []TokensNeedPassword
PROOF
  <1>1. SessionInv => TokensNeedPassword
    BY DEF SessionInv, SessionTypes, Payload, TokensFit, AccountInv, Placed,
           TokensNeedPassword
  <1> QED
    BY <1>1, SessionInvHolds, PTL

=============================================================================
