------------------------------ MODULE Sessions ------------------------------
(***************************************************************************)
(* Login, refresh and the check of a token, beside the start of the        *)
(* process, the accounts and the directory they rest on.  A token carries  *)
(* the permissions of its user as login read them; an access token and the *)
(* refresh token that comes with it are signed with one key and hold the   *)
(* same, and are one token here.  A client may use a token until it        *)
(* expires; nothing withdraws it.                                          *)
(***************************************************************************)
EXTENDS Accounts

CONSTANTS
  Logins,         \* requests to the endpoints of auth that may be in flight
  LoginBodies     \* bodies of POST /auth/login

\* UserLoginDTO; the password is right or it is not.
LoginBody == [username : UserNames \cup {None}, email : Emails \cup {None}]

ASSUME SessionsAssumption == LoginBodies \subseteq LoginBody

VARIABLES
  tokens,       \* the tokens that have been handed out and not yet expired
  logins,       \* where each request to log in or to refresh stands
  issued,       \* auxiliary: what has been put into a token at a login
  overwritten   \* auxiliary: the documents written since a login read the user

sessionVars == <<tokens, logins, issued, overwritten>>

sessionsVars == <<directoryVars, accountVars, sessionVars>>

Payload == [sub : UserIds, permissions : SUBSET Permissions]

\* user: the id of the user the login found; role: its roles, as it was read.
Login == [stage       : {"idle", "find_user", "find_credential",
                         "find_permissions", "last_login", "refresh_find"},
          body        : LoginBody,
          user        : UserIds \cup {None},
          role        : SUBSET RoleIds,
          permissions : SUBSET Permissions]

NoLogin == [stage |-> "idle", body |-> [username |-> None, email |-> None],
            user |-> None, role |-> {}, permissions |-> {}]

SessionsTypeOK ==
  /\ AccountsTypeOK
  /\ tokens \subseteq Payload
  /\ logins \in [Logins -> Login]
  /\ issued \subseteq Payload
  /\ overwritten \in [Logins -> SUBSET Documents]

SessionsInit ==
  /\ AccountsInit
  /\ tokens = {}
  /\ logins = [l \in Logins |-> NoLogin]
  /\ issued = {}
  /\ overwritten = [l \in Logins |-> {}]

-----------------------------------------------------------------------------
(* POST /auth/login *)

LoginGoes(l, login) == logins' = [logins EXCEPT ![l] = login]

OnlyLogins == UNCHANGED <<directoryVars, accountVars, issued>>

LoginEnds(l) ==
  /\ LoginGoes(l, NoLogin)
  /\ overwritten' = [overwritten EXCEPT ![l] = {}]

\* Who a body means: by email whenever it has one.
UsersMeant(body) ==
  {u \in UserIds :
     /\ users[u] # None
     /\ IF body.email # None THEN users[u].email = body.email
                             ELSE users[u].username = body.username}

\* Variant of UniquePermissionList: every role, when the list is left out.
UniquePermissionList_All(role) ==
  UNION {roles[x].permissions : x \in {y \in RoleIds : roles[y] # None}}

\* getUniquePermissionList: of deleted roles too.
UniquePermissionList(role) ==
  UNION {roles[x].permissions : x \in {y \in role : roles[y] # None}}

PostLogin(l, body) ==
  /\ logins[l].stage = "idle"
  /\ LoginGoes(l, [NoLogin EXCEPT !.stage = "find_user", !.body = body])
  /\ OnlyLogins
  /\ UNCHANGED <<tokens, overwritten>>

LoginFindUser(l) ==
  LET meant == UsersMeant(logins[l].body) IN
  /\ logins[l].stage = "find_user"
  /\ IF meant = {}
     THEN LoginEnds(l)
     ELSE \E u \in meant :
            /\ LoginGoes(l, [logins[l] EXCEPT !.stage = "find_credential",
                                !.user = u, !.role = users[u].role])
            /\ overwritten' = [overwritten EXCEPT ![l] = {}]
  /\ OnlyLogins
  /\ UNCHANGED tokens

\* Variant of ValidateUser: a user without a credential is let in.
ValidateUser_NoCredential(u) == TRUE

\* A credential is stored for the user, and the password may match it.
ValidateUser(u) == u \in credentials

LoginFindCredential(l) ==
  /\ logins[l].stage = "find_credential"
  /\ ValidateUser(logins[l].user)
  /\ LoginGoes(l, [logins[l] EXCEPT !.stage = "find_permissions"])
  /\ OnlyLogins
  /\ UNCHANGED <<tokens, overwritten>>

LoginFindPermissions(l) ==
  /\ logins[l].stage = "find_permissions"
  /\ LoginGoes(l, [logins[l] EXCEPT !.stage = "last_login",
                      !.permissions = UniquePermissionList(logins[l].role)])
  /\ OnlyLogins
  /\ UNCHANGED <<tokens, overwritten>>

\* The update of last_login touches no field kept here; its failure is ignored.
LoginAnswers(l) ==
  LET payload == [sub |-> logins[l].user, permissions |-> logins[l].permissions] IN
  /\ logins[l].stage = "last_login"
  /\ tokens' = tokens \cup {payload}
  /\ issued' = issued \cup {payload}
  /\ LoginEnds(l)
  /\ UNCHANGED <<directoryVars, accountVars>>

\* A wrong password or no credential, or a read that throws.
LoginFails(l) ==
  /\ \/ logins[l].stage = "find_credential"
     \/ logins[l].stage \in {"find_user", "find_permissions"} /\ "read" \in Faults
  /\ LoginEnds(l)
  /\ OnlyLogins
  /\ UNCHANGED tokens

-----------------------------------------------------------------------------
(* POST /auth/refresh *)

PostRefresh(l, token) ==
  /\ logins[l].stage = "idle"
  /\ LoginGoes(l, [NoLogin EXCEPT !.stage = "refresh_find", !.user = token.sub,
                                  !.permissions = token.permissions])
  /\ OnlyLogins
  /\ UNCHANGED <<tokens, overwritten>>

\* Variant of RefreshedPayload: the permissions are read again.
RefreshedPayload_Reads(login) ==
  [sub |-> login.user, permissions |-> UniquePermissionList(users[login.user].role)]

\* The new tokens hold what the old one held.
RefreshedPayload(login) ==
  [sub |-> login.user, permissions |-> login.permissions]

\* The credential is looked up; the token may have expired since it was read.
RefreshAnswers(l) ==
  /\ logins[l].stage = "refresh_find"
  /\ tokens' = IF logins[l].user \in credentials
               THEN tokens \cup {RefreshedPayload(logins[l])} ELSE tokens
  /\ LoginEnds(l)
  /\ OnlyLogins

RefreshFails(l) ==
  /\ logins[l].stage = "refresh_find"
  /\ "read" \in Faults
  /\ LoginEnds(l)
  /\ OnlyLogins
  /\ UNCHANGED tokens

TokenExpires(token) ==
  /\ tokens' = tokens \ {token}
  /\ OnlyLogins
  /\ UNCHANGED <<logins, overwritten>>

-----------------------------------------------------------------------------

LoginStep(l) ==
  \/ LoginFindUser(l)
  \/ LoginFindCredential(l)
  \/ LoginFindPermissions(l)
  \/ LoginAnswers(l)
  \/ LoginFails(l)
  \/ RefreshAnswers(l)
  \/ RefreshFails(l)

ReceiveLogin(l) ==
  \/ \E body \in LoginBodies : PostLogin(l, body)
  \/ \E token \in tokens : PostRefresh(l, token)

\* JwtStrategy.validate: the user of the token exists, and has the permissions
\* the token says.
Callers == {token.permissions : token \in {t \in tokens : users[t.sub] # None}}

\* What a step of the other endpoints has written.
Overwritten ==
  {x \in RoleIds : roles'[x] # roles[x]} \cup {u \in UserIds : users'[u] # users[u]}

\* When the process ends, so do the logins in it.
DirectoryStep ==
  /\ AccountsNext(Callers)
  /\ IF boot'.stage = "find_role"
     THEN /\ logins' = [l \in Logins |-> NoLogin]
          /\ overwritten' = [l \in Logins |-> {}]
     ELSE /\ overwritten' = [l \in Logins |->
               IF logins[l].stage \in {"find_credential", "find_permissions",
                                       "last_login"}
               THEN overwritten[l] \cup Overwritten ELSE {}]
          /\ UNCHANGED logins
  /\ UNCHANGED <<tokens, issued>>

SessionsNext ==
  \/ DirectoryStep
  \/ /\ Booting("up")
     /\ \E l \in Logins : ReceiveLogin(l) \/ LoginStep(l)
  \/ \E token \in tokens : TokenExpires(token)

SessionsSpec == SessionsInit /\ [][SessionsNext]_sessionsVars

-----------------------------------------------------------------------------
(* Properties. *)

\* The permissions a login is about to put into a token are those of roles its
\* user has, unless the user or one of the roles was written while the login
\* was under way: it reads the user first and the roles two calls later.
LoginGrantsWhatRolesHold ==
  \A l \in Logins :
    logins[l].stage = "last_login" =>
      \/ logins[l].user \in overwritten[l]
      \/ logins[l].role \cap overwritten[l] # {}
      \/ /\ logins[l].role = users[logins[l].user].role
         /\ \A p \in logins[l].permissions :
              \E x \in users[logins[l].user].role :
                roles[x] # None /\ p \in roles[x].permissions

\* However often a token is refreshed, it holds what was put into it at a login
\* of the same user: neither more, nor what the user was given later.
TokensComeFromLogins ==
  /\ tokens \subseteq issued
  /\ \A l \in Logins :
       logins[l].stage = "refresh_find" => RefreshedPayload(logins[l]) \in issued

\* A user whose password was not stored, or is not stored yet, has no token.
TokensNeedPassword ==
  \A token \in tokens : token.sub \in credentials \ interrupted

=============================================================================
