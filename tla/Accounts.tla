------------------------------ MODULE Accounts ------------------------------
(***************************************************************************)
(* The start of the process, which creates the admin role and the built-in *)
(* account, and the creation of users, beside the endpoints of Directory.  *)
(* A user is stored in one collection and its password in another, with no *)
(* transaction: an account is usable when both writes have been made.      *)
(***************************************************************************)
EXTENDS Directory

CONSTANTS
  AdminRoleName,    \* the name of the built-in role, 'Admin'
  AdminEmail,       \* the email of the built-in account
  DefaultRole,      \* the fixed id of the role every new user gets
  Signups,          \* requests to create a user that may be in flight
  NewUsers          \* bodies of PATCH /users without the id of a user

ASSUME AccountsAssumption ==
  /\ AdminRoleName \in RoleNames
  /\ AdminEmail \in Emails
  /\ DefaultRole \in RoleIds
  /\ NewUsers \subseteq WholeUser

VARIABLES
  credentials,  \* the users with a document in auth_credentials
  freshUsers,   \* the user ids no document has had yet
  signups,      \* where each request to create a user stands
  boot,         \* where the start of the process stands
  interrupted   \* auxiliary: the users whose password was not stored

accountVars == <<credentials, freshUsers, signups, boot, interrupted>>

Signup == [stage    : {"idle", "find_username", "find_email", "save_user",
                       "save_credential"},
           username : UserNames \cup {None},
           email    : Emails \cup {None},
           id       : UserIds \cup {None}]

IdleSignup == [stage |-> "idle", username |-> None, email |-> None, id |-> None]

\* role: the admin role.  failed: the account was neither found nor stored.
Boot == [stage  : {"find_role", "save_role", "find_admin", "save_admin",
                   "save_credential", "up", "down"},
         role   : RoleIds \cup {None},
         id     : UserIds \cup {None},
         failed : BOOLEAN]

Starting == [stage |-> "find_role", role |-> None, id |-> None, failed |-> FALSE]

AccountsTypeOK ==
  /\ DirectoryTypeOK
  /\ credentials \subseteq UserIds
  /\ freshUsers \subseteq UserIds
  /\ \A u \in freshUsers : users[u] = None
  /\ signups \in [Signups -> Signup]
  /\ boot \in Boot
  /\ interrupted \subseteq UserIds

AccountsInit ==
  /\ DirectoryInit
  /\ credentials = {u \in UserIds : InitialUsers[u] # None}
  /\ freshUsers = {u \in UserIds : InitialUsers[u] = None}
  /\ signups = [s \in Signups |-> IdleSignup]
  /\ boot = Starting
  /\ interrupted = {}

-----------------------------------------------------------------------------
(* createUser: the user, the hash of its password, the credential. *)

\* What others have read of the users is out of date.
Unread(u) == unseen' = [r \in Requests |-> unseen[r] \cup {u}]

SaveUser(u, user) ==
  /\ u \in freshUsers
  /\ UserFree(u, user.username, user.email)
  /\ users' = [users EXCEPT ![u] = user]
  /\ freshUsers' = freshUsers \ {u}
  /\ Unread(u)

\* The unique indexes refuse the user, the write fails, or (bound) the model
\* has run out of ids.
SaveUserFails(username, email) ==
  /\ \/ "write" \in Faults
     \/ \A u \in freshUsers : ~UserFree(u, username, email)
  /\ UNCHANGED <<users, freshUsers, unseen>>

\* createAuthCredential catches the error of its save, so that its caller goes
\* on in the same way.
CreateAuthCredential(u) ==
  \/ credentials' = credentials \cup {u} /\ UNCHANGED interrupted
  \/ /\ "write" \in Faults
     /\ interrupted' = interrupted \cup {u}
     /\ UNCHANGED credentials

-----------------------------------------------------------------------------
(* onModuleInit, before the first request *)

Booting(stageNow) == boot.stage = stageNow

BootGoes(next) == boot' = [boot EXCEPT !.stage = next]

\* Variant of BootFindRole: the role that was found is not kept.
BootFindRole_Forgets ==
  /\ Booting("find_role")
  /\ IF \E x \in RoleIds : roles[x] # None /\ roles[x].role = AdminRoleName
     THEN BootGoes("find_admin") ELSE BootGoes("save_role")
  /\ NoRoleWrite /\ NoUserWrite
  /\ UNCHANGED <<stage, local, unseen, credentials, freshUsers, signups, interrupted>>

\* A deleted admin role is found like another.
BootFindRole ==
  LET found == {x \in RoleIds : roles[x] # None /\ roles[x].role = AdminRoleName} IN
  /\ Booting("find_role")
  /\ IF found = {}
     THEN BootGoes("save_role")
     ELSE \E x \in found : boot' = [boot EXCEPT !.stage = "find_admin", !.role = x]
  /\ NoRoleWrite /\ NoUserWrite
  /\ UNCHANGED <<stage, local, unseen, credentials, freshUsers, signups, interrupted>>

BootSaveRole ==
  /\ Booting("save_role")
  /\ \E x \in freshRoles :
       /\ roles' = [roles EXCEPT ![x] = [role        |-> AdminRoleName,
                                         permissions |-> {"ADMIN"},
                                         is_delete   |-> FALSE]]
       /\ freshRoles' = freshRoles \ {x}
       /\ boot' = [boot EXCEPT !.stage = "find_admin", !.role = x]
  /\ NoUserWrite
  /\ UNCHANGED <<stage, local, unseen, credentials, freshUsers, signups, interrupted>>

BootFindAdmin ==
  /\ Booting("find_admin")
  /\ IF \E u \in UserIds : users[u] # None /\ users[u].username = AdminName
     THEN BootGoes("up") ELSE BootGoes("save_admin")
  /\ NoRoleWrite /\ NoUserWrite
  /\ UNCHANGED <<stage, local, unseen, credentials, freshUsers, signups, interrupted>>

\* createUser returns null on failure, which nobody looks at.
BootSaveAdmin ==
  LET user == [username |-> AdminName, email |-> AdminEmail,
               role |-> {boot.role}] IN
  /\ Booting("save_admin")
  /\ \/ \E u \in freshUsers :
          /\ SaveUser(u, user)
          /\ boot' = [boot EXCEPT !.stage = "save_credential", !.id = u]
     \/ /\ SaveUserFails(AdminName, AdminEmail)
        /\ boot' = [boot EXCEPT !.stage = "up", !.failed = TRUE]
  /\ NoRoleWrite
  /\ UNCHANGED <<stage, local, credentials, signups, interrupted>>

BootSaveCredential ==
  /\ Booting("save_credential")
  /\ CreateAuthCredential(boot.id)
  /\ BootGoes("up")
  /\ NoRoleWrite /\ NoUserWrite
  /\ UNCHANGED <<stage, local, unseen, freshUsers, signups>>

\* A lookup or the save of the role throws (bound: or the model has run out of
\* ids): the process does not start.
BootFails ==
  /\ \/ boot.stage \in {"find_role", "find_admin"} /\ "read" \in Faults
     \/ Booting("save_role") /\ ("write" \in Faults \/ freshRoles = {})
  /\ BootGoes("down")
  /\ NoRoleWrite /\ NoUserWrite
  /\ UNCHANGED <<stage, local, unseen, credentials, freshUsers, signups, interrupted>>

BootStep ==
  \/ BootFindRole
  \/ BootSaveRole
  \/ BootFindAdmin
  \/ BootSaveAdmin
  \/ BootSaveCredential
  \/ BootFails

-----------------------------------------------------------------------------
(* PATCH /users without the id of a user *)

SignupGoes(s, next) == signups' = [signups EXCEPT ![s].stage = next]

AnswerSignup(s) == signups' = [signups EXCEPT ![s] = IdleSignup]

OnlySignups ==
  /\ NoRoleWrite /\ NoUserWrite
  /\ UNCHANGED <<stage, local, unseen, credentials, freshUsers, boot, interrupted>>

PatchNewUser(s, caller, new) ==
  /\ Allowed(caller, {"ADMIN"})
  /\ signups[s].stage = "idle"
  /\ signups' = [signups EXCEPT ![s] = [stage |-> "find_username",
                    username |-> new.username, email |-> new.email, id |-> None]]
  /\ OnlySignups

\* createOrUpdateUser looks the username up, then the email.
SignupFindUsername(s) ==
  /\ signups[s].stage = "find_username"
  /\ IF \E u \in UserIds : users[u] # None /\ users[u].username = signups[s].username
     THEN AnswerSignup(s) ELSE SignupGoes(s, "find_email")
  /\ OnlySignups

SignupFindEmail(s) ==
  /\ signups[s].stage = "find_email"
  /\ IF \E u \in UserIds : users[u] # None /\ users[u].email = signups[s].email
     THEN AnswerSignup(s) ELSE SignupGoes(s, "save_user")
  /\ OnlySignups

\* Variant of SignupSaveUser: it answers without a credential.
SignupSaveUser_Answers(s) ==
  LET user == [username |-> signups[s].username, email |-> signups[s].email,
               role |-> {DefaultRole}] IN
  /\ signups[s].stage = "save_user"
  /\ \/ \E u \in freshUsers : SaveUser(u, user) /\ AnswerSignup(s)
     \/ SaveUserFails(user.username, user.email) /\ AnswerSignup(s)
  /\ NoRoleWrite
  /\ UNCHANGED <<stage, local, credentials, boot, interrupted>>

\* Whatever roles the body has, the user gets the default role.
SignupSaveUser(s) ==
  LET user == [username |-> signups[s].username, email |-> signups[s].email,
               role |-> {DefaultRole}] IN
  /\ signups[s].stage = "save_user"
  /\ \/ \E u \in freshUsers :
          /\ SaveUser(u, user)
          /\ signups' = [signups EXCEPT ![s].stage = "save_credential", ![s].id = u]
     \/ SaveUserFails(user.username, user.email) /\ AnswerSignup(s)
  /\ NoRoleWrite
  /\ UNCHANGED <<stage, local, credentials, boot, interrupted>>

SignupSaveCredential(s) ==
  /\ signups[s].stage = "save_credential"
  /\ CreateAuthCredential(signups[s].id)
  /\ AnswerSignup(s)
  /\ NoRoleWrite /\ NoUserWrite
  /\ UNCHANGED <<stage, local, unseen, freshUsers, boot>>

SignupFails(s) ==
  /\ signups[s].stage \in {"find_username", "find_email"}
  /\ "read" \in Faults
  /\ AnswerSignup(s)
  /\ OnlySignups

SignupStep(s) ==
  \/ SignupFindUsername(s)
  \/ SignupFindEmail(s)
  \/ SignupSaveUser(s)
  \/ SignupSaveCredential(s)
  \/ SignupFails(s)

-----------------------------------------------------------------------------

\* The users stored by a createUser that has yet to store the password.
Pending ==
  {u \in UserIds :
     \/ boot.stage = "save_credential" /\ boot.id = u
     \/ \E s \in Signups :
          signups[s].stage = "save_credential" /\ signups[s].id = u}

\* The process dies, and is started again by its supervisor.
Restarted ==
  /\ HandlersLost
  /\ signups' = [s \in Signups |-> IdleSignup]
  /\ boot' = Starting
  /\ interrupted' = interrupted \cup Pending
  /\ UNCHANGED <<credentials, freshUsers>>

AccountsCrash == "crash" \in Faults /\ Restarted

\* The endpoints are served when the process is up, to callers with one of
\* these sets of permissions.
Served(callers) ==
  \/ /\ \/ \E r \in Requests : HandleRequest(r)
        \/ \E r \in Requests, caller \in callers : ReceiveRequest(r, caller)
     /\ UNCHANGED accountVars
  \/ \E s \in Signups, caller \in callers, new \in NewUsers :
       PatchNewUser(s, caller, new)
  \/ \E s \in Signups : SignupStep(s)
  \/ \E caller \in callers : DeleteRoleUnhandled(caller) /\ Restarted

AccountsNext(callers) ==
  \/ BootStep
  \/ Booting("up") /\ Served(callers)
  \/ AccountsCrash

AccountsSpec ==
  AccountsInit
  /\ [][AccountsNext(SUBSET Permissions)]_<<directoryVars, accountVars>>

-----------------------------------------------------------------------------
(* Properties. *)

\* No two users share a username or an email, although createOrUpdateUser looks
\* for them two calls before it stores the user and updateUser not at all.
UsersStayDistinct == DistinctUsers(users)

\* A stored user has a password, or is about to get it from the createUser that
\* stored the user, or that one's second write failed or was cut off by the end
\* of the process, in which case the user never gets one.
PasswordUnlessInterrupted ==
  \A u \in UserIds :
    users[u] # None =>
      IF u \in interrupted THEN u \notin credentials \cup Pending
                           ELSE u \in credentials \cup Pending

\* While the process serves requests the built-in account exists, unless it
\* could not be stored when the process started.
BuiltInAccountExists ==
  boot.stage = "up" /\ ~boot.failed =>
    \E u \in UserIds : users[u] # None /\ users[u].username = AdminName

=============================================================================
