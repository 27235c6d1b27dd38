----------------------------- MODULE Directory -----------------------------
(***************************************************************************)
(* The roles and users collections and the guarded endpoints that change   *)
(* them: creation, update and deletion of roles, and the two updates of    *)
(* users.  A handler stops at every `await', so that a request is a state  *)
(* machine whose stage says which call it makes next.  A bulk write and an *)
(* updateMany are atomic for each document only: one step for each.        *)
(*                                                                         *)
(* A role keeps its name, its permissions and is_delete; a user keeps the  *)
(* two fields with a unique index and its list of roles.                   *)
(***************************************************************************)
EXTENDS Naturals

CONSTANTS
  RoleIds,        \* ObjectIds the driver may give to new roles
  RoleNames,
  UserIds,        \* ObjectIds the driver may give to new users
  UserNames,
  AdminName,      \* the username of the built-in account, 'admin'
  Emails,
  InitialRoles,   \* the collections when the process starts
  InitialUsers,
  Requests,       \* requests to these endpoints that may be in flight
  NewRoles,       \* bodies of POST /roles
  RoleChanges,    \* bodies of PATCH /roles/:id
  Plans,          \* usersAndNewRoles of PATCH /roles/delete/:id
  UserChanges,    \* bodies of PATCH /users/:id
  WholeUsers,     \* bodies of PATCH /users that name a user
  Faults,         \* which of "read", "write" and "crash" the run lets happen
  None            \* null: no document, a field a body leaves out

\* The permissions the endpoints ask for, of those a role may hold.
Permissions == {"ADMIN", "CREATE_ROLE", "DELETE_ROLE", "EDIT_USER", "SHOW_ROLE"}

Role == [role        : RoleNames,
         permissions : SUBSET Permissions,
         is_delete   : BOOLEAN]

User == [username : UserNames,
         email    : Emails,
         role     : SUBSET RoleIds]

\* CreateRoleDTO always has a name and permissions and loses is_delete.
NewRole == [role : RoleNames, permissions : SUBSET Permissions]

\* UpdateRoleDTO: an empty set of permissions stands for none given.
RoleChange == [role        : RoleNames \cup {None},
               permissions : SUBSET Permissions,
               is_delete   : BOOLEAN \cup {None}]

\* UpdateUserDTO: every field is optional.
UserChange == [username : UserNames \cup {None},
               email    : Emails \cup {None},
               role     : {None} \cup SUBSET RoleIds]

\* CreateUserDTO: the name and the email are required.
WholeUser == {c \in UserChange : c.username # None /\ c.email # None}

\* The roles that each user is to get in the place of the deleted one.
Plan == [UserIds -> SUBSET RoleIds]

NoPlan == [u \in UserIds |-> {}]

\* The unique indexes of the users collection.
DistinctUsers(collection) ==
  \A u, v \in UserIds :
    /\ collection[u] # None
    /\ collection[v] # None
    /\ \/ collection[u].username = collection[v].username
       \/ collection[u].email = collection[v].email
    => u = v

ASSUME DirectoryAssumption ==
  /\ None \notin Role
  /\ None \notin User
  /\ None \notin RoleNames
  /\ None \notin UserNames
  /\ None \notin Emails
  /\ \A held \in SUBSET RoleIds : held # None
  /\ None \notin BOOLEAN
  /\ None \notin RoleIds
  /\ None \notin UserIds
  /\ RoleIds \cap UserIds = {}
  /\ AdminName \in UserNames
  /\ InitialRoles \in [RoleIds -> Role \cup {None}]
  /\ InitialUsers \in [UserIds -> User \cup {None}]
  /\ DistinctUsers(InitialUsers)
  /\ NewRoles \subseteq NewRole
  /\ RoleChanges \subseteq RoleChange
  /\ Plans \subseteq Plan
  /\ UserChanges \subseteq UserChange
  /\ WholeUsers \subseteq WholeUser

(***************************************************************************)
(* `unseen' is auxiliary: the documents written by others since request r  *)
(* made the read it relies on for them, and every document it has not read.*)
(***************************************************************************)
VARIABLES
  roles,        \* the roles collection: a document, or None, at every id
  users,        \* the users collection
  freshRoles,   \* the role ids no document has had yet
  stage,        \* the call each request makes next
  local,        \* what each handler holds in its local variables
  unseen

directoryVars == <<roles, users, freshRoles, stage, local, unseen>>

ReadStages == {"create_find", "update_duplicate", "update_find",
               "delete_find", "delete_holders", "delete_existing", "user_find"}

WriteStages == {"create_save", "update_write", "delete_replace",
                "delete_withdraw", "delete_mark", "user_write"}

DeleteStages == {"delete_find", "delete_holders", "delete_existing",
                 "delete_replace", "delete_withdraw", "delete_mark"}

Stages == {"idle"} \cup ReadStages \cup WriteStages

Documents == RoleIds \cup UserIds

NoRoleChange == [role |-> None, permissions |-> {}, is_delete |-> None]

NoUserChange == [username |-> None, email |-> None, role |-> None]

\* id: the role or user a request names.  found: the document as the handler
\* read it.  holders: the users with the role.  existing: the roles of the
\* plan that exist and are not deleted.  todo: the users a bulk write has
\* not reached.  whole: whether a user is written as a whole.
Local == [id       : Documents \cup {None},
          body     : RoleChange,
          change   : UserChange,
          whole    : BOOLEAN,
          found    : Role \cup User \cup {None},
          plan     : Plan,
          holders  : SUBSET UserIds,
          existing : SUBSET RoleIds,
          todo     : SUBSET UserIds]

NoLocal == [id |-> None, body |-> NoRoleChange, change |-> NoUserChange,
            whole |-> FALSE, found |-> None, plan |-> NoPlan, holders |-> {},
            existing |-> {}, todo |-> {}]

DirectoryTypeOK ==
  /\ roles \in [RoleIds -> Role \cup {None}]
  /\ users \in [UserIds -> User \cup {None}]
  /\ freshRoles \subseteq RoleIds
  /\ \A x \in freshRoles : roles[x] = None
  /\ stage \in [Requests -> Stages]
  /\ local \in [Requests -> Local]
  /\ unseen \in [Requests -> SUBSET Documents]

DirectoryInit ==
  /\ roles = InitialRoles
  /\ users = InitialUsers
  /\ freshRoles = {x \in RoleIds : InitialRoles[x] = None}
  /\ stage = [r \in Requests |-> "idle"]
  /\ local = [r \in Requests |-> NoLocal]
  /\ unseen = [r \in Requests |-> Documents]

-----------------------------------------------------------------------------
(* The database services. *)

\* A field of a body, or what stands when the body leaves it out.
Given(value, otherwise) == IF value = None THEN otherwise ELSE value

Live(x) == roles[x] # None /\ ~roles[x].is_delete

\* Variant of RolesNamed: the condition on _id is the wrong way round.
RolesNamed_Self(name, excluded) ==
  {x \in RoleIds : Live(x) /\ roles[x].role = name /\ x = excluded}

\* The roles that are not deleted and have that name, but for one.
RolesNamed(name, excluded) ==
  {x \in RoleIds : Live(x) /\ roles[x].role = name /\ x # excluded}

\* Variant of Holders: only users with no other role.
Holders_Only(x) == {u \in UserIds : users[u] # None /\ users[u].role = {x}}

\* findUsersWithRole
Holders(x) == {u \in UserIds : users[u] # None /\ x \in users[u].role}

\* Variant of UpdatedRole: a body without is_delete leaves the role undeleted.
UpdatedRole_Undeletes(found, body) ==
  [role        |-> Given(body.role, found.role),
   permissions |-> IF body.permissions # {} THEN body.permissions
                                            ELSE found.permissions,
   is_delete   |-> Given(body.is_delete, FALSE)]

\* The document updateRole writes as a whole.
UpdatedRole(found, body) ==
  [role        |-> Given(body.role, found.role),
   permissions |-> IF body.permissions # {} THEN body.permissions
                                            ELSE found.permissions,
   is_delete   |-> Given(body.is_delete, found.is_delete)]

\* Variant of ChangedUser: an email the body leaves out is written as null.
ChangedUser_Overwrites(user, change) ==
  [username |-> Given(change.username, user.username),
   email    |-> change.email,
   role     |-> Given(change.role, user.role)]

ChangedUser(user, change) ==
  [username |-> Given(change.username, user.username),
   email    |-> Given(change.email, user.email),
   role     |-> Given(change.role, user.role)]

\* Variant of UserFree: the schema without its unique indexes.
UserFree_NoIndex(u, username, email) == TRUE

\* The unique indexes let a write give u this name and this email.
UserFree(u, username, email) ==
  \A v \in UserIds \ {u} :
    users[v] # None => users[v].username # username /\ users[v].email # email

\* PermissionGuard: one of the required permissions is enough.
Allowed(caller, required) == caller \cap required # {}

MayDeleteRoles(caller) == Allowed(caller, {"DELETE_ROLE", "ADMIN"})

-----------------------------------------------------------------------------
(* Steps of a handler. *)

Advance(r, next) == stage' = [stage EXCEPT ![r] = next]

Keep(r, locals) == local' = [local EXCEPT ![r] = locals]

\* An answer, of success or not: the handler has ended.
Answer(r) ==
  /\ Advance(r, "idle")
  /\ Keep(r, NoLocal)
  /\ unseen' = [unseen EXCEPT ![r] = Documents]

\* Request r has read all the documents of a set.
Reads(r, documents) == unseen' = [unseen EXCEPT ![r] = @ \ documents]

\* Request r has written document d, and goes on.
Writes(r, d) ==
  unseen' = [s \in Requests |-> IF s = r THEN unseen[s] ELSE unseen[s] \cup {d}]

\* Request r has written document d, and has ended.
WritesLast(r, d) ==
  /\ Advance(r, "idle")
  /\ Keep(r, NoLocal)
  /\ unseen' = [s \in Requests |->
                  IF s = r THEN Documents ELSE unseen[s] \cup {d}]

NoRoleWrite == UNCHANGED <<roles, freshRoles>>
NoUserWrite == UNCHANGED users

Begin(r, next, locals) ==
  /\ stage[r] = "idle"
  /\ Advance(r, next)
  /\ Keep(r, locals)
  /\ NoRoleWrite /\ NoUserWrite
  /\ UNCHANGED unseen

\* A call that throws, or whose null result the handler answers with an
\* error.  A bulk write may so end after some of its documents.
RequestFails(r) ==
  /\ \/ stage[r] \in ReadStages /\ "read" \in Faults
     \/ stage[r] \in WriteStages /\ "write" \in Faults
  /\ Answer(r)
  /\ NoRoleWrite /\ NoUserWrite

-----------------------------------------------------------------------------
(* POST /roles *)

PostRole(r, caller, new) ==
  /\ Allowed(caller, {"ADMIN", "CREATE_ROLE"})
  /\ Begin(r, "create_find",
           [NoLocal EXCEPT !.body = [role        |-> new.role,
                                     permissions |-> new.permissions,
                                     is_delete   |-> None]])

CreateRoleFind(r) ==
  /\ stage[r] = "create_find"
  /\ IF RolesNamed(local[r].body.role, None) = {}
     THEN Advance(r, "create_save") /\ Reads(r, RoleIds) /\ UNCHANGED local
     ELSE Answer(r)
  /\ NoRoleWrite /\ NoUserWrite

CreateNewRole(r) ==
  LET body == local[r].body IN
  /\ stage[r] = "create_save"
  /\ \E x \in freshRoles :
       /\ roles' = [roles EXCEPT ![x] = [role        |-> body.role,
                                         permissions |-> body.permissions,
                                         is_delete   |-> FALSE]]
       /\ freshRoles' = freshRoles \ {x}
       /\ WritesLast(r, x)
  /\ NoUserWrite

\* Bound: the model has run out of ids.
CreateNewRoleFails(r) ==
  /\ stage[r] = "create_save"
  /\ freshRoles = {}
  /\ Answer(r)
  /\ NoRoleWrite /\ NoUserWrite

CreateRoleStep(r) ==
  CreateRoleFind(r) \/ CreateNewRole(r) \/ CreateNewRoleFails(r)

-----------------------------------------------------------------------------
(* PATCH /roles/:id *)

\* updateRolePermissionHandler throws at once when the body deletes the role
\* and the caller may not; a body without a name throws before the first read.
PatchRole(r, caller, x, body) ==
  /\ Allowed(caller, {"ADMIN", "EDIT_USER", "DELETE_ROLE"})
  /\ body.is_delete = TRUE => MayDeleteRoles(caller)
  /\ body.role # None
  /\ Begin(r, "update_duplicate", [NoLocal EXCEPT !.id = x, !.body = body])

UpdateRoleDuplicate(r) ==
  /\ stage[r] = "update_duplicate"
  /\ IF RolesNamed(local[r].body.role, local[r].id) = {}
     THEN Advance(r, "update_find") /\ Reads(r, RoleIds) /\ UNCHANGED local
     ELSE Answer(r)
  /\ NoRoleWrite /\ NoUserWrite

\* Deleted roles are found like others.  Without a document the handler fails
\* on it, or the write finds nothing: an error either way.
UpdateRoleFind(r) ==
  LET x == local[r].id IN
  /\ stage[r] = "update_find"
  /\ IF roles[x] = None
     THEN Answer(r)
     ELSE /\ Keep(r, [local[r] EXCEPT !.found = roles[x]])
          /\ Reads(r, {x})
          /\ Advance(r, "update_write")
  /\ NoRoleWrite /\ NoUserWrite

FindRoleByIdAndUpdate(r) ==
  LET x == local[r].id IN
  /\ stage[r] = "update_write"
  /\ roles' = [roles EXCEPT ![x] = UpdatedRole(local[r].found, local[r].body)]
  /\ WritesLast(r, x)
  /\ UNCHANGED freshRoles
  /\ NoUserWrite

UpdateRoleStep(r) ==
  UpdateRoleDuplicate(r) \/ UpdateRoleFind(r) \/ FindRoleByIdAndUpdate(r)

-----------------------------------------------------------------------------
(* PATCH /roles/delete/:id *)

PatchRoleDelete(r, caller, x, plan) ==
  /\ Allowed(caller, {"ADMIN", "EDIT_USER", "DELETE_ROLE"})
  /\ MayDeleteRoles(caller)
  /\ Begin(r, "delete_find", [NoLocal EXCEPT !.id = x, !.plan = plan])

DeleteRoleFind(r) ==
  LET x == local[r].id IN
  /\ stage[r] = "delete_find"
  /\ IF roles[x] = None
     THEN Answer(r)
     ELSE Advance(r, "delete_holders") /\ UNCHANGED <<local, unseen>>
  /\ NoRoleWrite /\ NoUserWrite

DeleteRoleHolders(r) ==
  LET holders == Holders(local[r].id) IN
  /\ stage[r] = "delete_holders"
  /\ Reads(r, UserIds)
  /\ IF local[r].plan = NoPlan
     THEN /\ Keep(r, [local[r] EXCEPT !.holders = holders, !.todo = holders])
          /\ Advance(r, "delete_withdraw")
     ELSE /\ Keep(r, [local[r] EXCEPT !.holders = holders])
          /\ Advance(r, "delete_existing")
  /\ NoRoleWrite /\ NoUserWrite

\* The users of the plan that were read as holders of the role.
ToReplace(r) == {u \in local[r].holders : local[r].plan[u] # {}}

\* Variant of ExistingRoles: the condition on is_delete is the wrong way round.
ExistingRoles_Deleted == {x \in RoleIds : roles[x] # None /\ roles[x].is_delete}

\* What checkUserRoleExistence finds of the roles it is asked for.
ExistingRoles == {x \in RoleIds : Live(x)}

\* checkUserRoleExistence, and the operations updateUserRoles makes of it.
DeleteRoleExisting(r) ==
  /\ stage[r] = "delete_existing"
  /\ IF ToReplace(r) = {}
     THEN /\ Advance(r, "delete_withdraw")
          /\ Keep(r, [local[r] EXCEPT !.existing = ExistingRoles,
                                      !.todo = local[r].holders])
     ELSE /\ Advance(r, "delete_replace")
          /\ Keep(r, [local[r] EXCEPT !.existing = ExistingRoles,
                                      !.todo = ToReplace(r)])
  /\ Reads(r, RoleIds)
  /\ NoRoleWrite /\ NoUserWrite

\* Variant of BulkUpdateUserRoles: the new roles are set, not added.
BulkUpdateUserRoles_Sets(r) ==
  LET here == local[r] IN
  /\ stage[r] = "delete_replace"
  /\ \/ \E u \in here.todo :
          /\ users' = [users EXCEPT ![u].role = here.plan[u] \cap here.existing]
          /\ Keep(r, [here EXCEPT !.todo = @ \ {u}])
          /\ Writes(r, u)
          /\ UNCHANGED stage
     \/ /\ here.todo = {}
        /\ Keep(r, [here EXCEPT !.todo = here.holders])
        /\ Advance(r, "delete_withdraw")
        /\ NoUserWrite
        /\ UNCHANGED unseen
  /\ NoRoleWrite

\* $addToSet, one user after the other.
BulkUpdateUserRoles(r) ==
  LET here == local[r] IN
  /\ stage[r] = "delete_replace"
  /\ \/ \E u \in here.todo :
          /\ users' = [users EXCEPT
                         ![u].role = @ \cup (here.plan[u] \cap here.existing)]
          /\ Keep(r, [here EXCEPT !.todo = @ \ {u}])
          /\ Writes(r, u)
          /\ UNCHANGED stage
     \/ /\ here.todo = {}
        /\ Keep(r, [here EXCEPT !.todo = here.holders])
        /\ Advance(r, "delete_withdraw")
        /\ NoUserWrite
        /\ UNCHANGED unseen
  /\ NoRoleWrite

\* $pull over the users that were read, one after the other.
DeleteRoleFromUsers(r) ==
  LET here == local[r] IN
  /\ stage[r] = "delete_withdraw"
  /\ \/ \E u \in here.todo :
          /\ users' = [users EXCEPT ![u].role = @ \ {here.id}]
          /\ Keep(r, [here EXCEPT !.todo = @ \ {u}])
          /\ Writes(r, u)
          /\ UNCHANGED stage
     \/ /\ here.todo = {}
        /\ Advance(r, "delete_mark")
        /\ NoUserWrite
        /\ UNCHANGED <<local, unseen>>
  /\ NoRoleWrite

DeleteRoleMark(r) ==
  LET x == local[r].id IN
  /\ stage[r] = "delete_mark"
  /\ roles' = [roles EXCEPT ![x].is_delete = TRUE]
  /\ WritesLast(r, x)
  /\ UNCHANGED freshRoles
  /\ NoUserWrite

DeleteRoleStep(r) ==
  \/ DeleteRoleFind(r)
  \/ DeleteRoleHolders(r)
  \/ DeleteRoleExisting(r)
  \/ BulkUpdateUserRoles(r)
  \/ DeleteRoleFromUsers(r)
  \/ DeleteRoleMark(r)

-----------------------------------------------------------------------------
(* PATCH /users/:id, and PATCH /users with the id of a user *)

PatchUser(r, caller, u, change) ==
  /\ Allowed(caller, {"ADMIN"})
  /\ Begin(r, "user_find", [NoLocal EXCEPT !.id = u, !.change = change])

PatchWholeUser(r, caller, u, change) ==
  /\ Allowed(caller, {"ADMIN"})
  /\ Begin(r, "user_find",
           [NoLocal EXCEPT !.id = u, !.change = change, !.whole = TRUE])

\* Variant of IsBuiltIn: the name in the body is compared.
IsBuiltIn_Body(user, change) == change.username = AdminName

\* The built-in account is not changed by these endpoints.
IsBuiltIn(user, change) == user.username = AdminName

UserFind(r) ==
  LET user == users[local[r].id] IN
  /\ stage[r] = "user_find"
  /\ IF user = None
     THEN Answer(r)
     ELSE IF IsBuiltIn(user, local[r].change)
     THEN Answer(r)
     ELSE /\ Keep(r, [local[r] EXCEPT !.found = user])
          /\ Reads(r, {local[r].id})
          /\ Advance(r, "user_write")
  /\ NoRoleWrite /\ NoUserWrite

\* The document an update of the user makes of what is stored, or of what was
\* read when it writes the whole document.
UserWritten(r) ==
  IF local[r].whole THEN ChangedUser(local[r].found, local[r].change)
                    ELSE ChangedUser(users[local[r].id], local[r].change)

\* A write the indexes refuse is a null result and an error.
UpdateUser(r) ==
  LET u == local[r].id IN
  /\ stage[r] = "user_write"
  /\ IF UserFree(u, UserWritten(r).username, UserWritten(r).email)
     THEN users' = [users EXCEPT ![u] = UserWritten(r)] /\ WritesLast(r, u)
     ELSE NoUserWrite /\ Answer(r)
  /\ NoRoleWrite

UserStep(r) == UserFind(r) \/ UpdateUser(r)

-----------------------------------------------------------------------------

\* A request of a caller with these permissions passes the guards.
ReceiveRequest(r, caller) ==
  \/ \E new \in NewRoles : PostRole(r, caller, new)
  \/ \E x \in RoleIds :
       \/ \E body \in RoleChanges : PatchRole(r, caller, x, body)
       \/ \E plan \in Plans : PatchRoleDelete(r, caller, x, plan)
  \/ \E u \in UserIds :
       \/ \E change \in UserChanges : PatchUser(r, caller, u, change)
       \/ \E change \in WholeUsers : PatchWholeUser(r, caller, u, change)

HandleRequest(r) ==
  \/ CreateRoleStep(r)
  \/ UpdateRoleStep(r)
  \/ DeleteRoleStep(r)
  \/ UserStep(r)
  \/ RequestFails(r)

\* Every handler is gone, what it stored stays.
HandlersLost ==
  /\ stage' = [r \in Requests |-> "idle"]
  /\ local' = [r \in Requests |-> NoLocal]
  /\ unseen' = [r \in Requests |-> Documents]
  /\ NoRoleWrite /\ NoUserWrite

\* deleteRolePermissionHandler is not awaited: for a caller who may edit users
\* but not delete roles its rejection is handled by nobody, which ends the
\* process.
DeleteRoleUnhandled(caller) ==
  /\ Allowed(caller, {"ADMIN", "EDIT_USER", "DELETE_ROLE"})
  /\ ~MayDeleteRoles(caller)
  /\ \E r \in Requests : stage[r] = "idle"
  /\ HandlersLost

DirectoryCrash == "crash" \in Faults /\ HandlersLost

\* The endpoints with callers that have one of these sets of permissions.
DirectoryNext(callers) ==
  \/ \E r \in Requests : HandleRequest(r)
  \/ \E r \in Requests, caller \in callers : ReceiveRequest(r, caller)
  \/ \E caller \in callers : DeleteRoleUnhandled(caller)
  \/ DirectoryCrash

DirectorySpec ==
  DirectoryInit /\ [][DirectoryNext(SUBSET Permissions)]_directoryVars

-----------------------------------------------------------------------------
(* Properties. *)

\* When deleteRole marks a role deleted it has withdrawn it from all users:
\* one that still has the role was written by another request after deleteRole
\* read the users with the role.
DeletedRoleIsWithdrawn ==
  \A r \in Requests :
    stage[r] = "delete_mark" =>
      \A u \in UserIds :
        users[u] # None /\ local[r].id \in users[u].role => u \in unseen[r]

\* When deleteRole marks a role deleted, every user it read as a holder has the
\* roles the plan gives in exchange, those of them that are still there: but
\* for users and roles that another request wrote since they were read.
ReplacementsAreGiven ==
  \A r \in Requests :
    stage[r] = "delete_mark" =>
      \A u \in local[r].holders \ unseen[r] :
        \A x \in local[r].plan[u] \ (unseen[r] \cup {local[r].id}) :
          Live(x) => x \in users[u].role

\* A deletion takes from a user no role but the one it deletes.
DeletionTakesOneRole ==
  [][\A r \in Requests :
       stage[r] \in DeleteStages =>
         \A u \in UserIds :
           /\ users[u] # None
           /\ local'[r] # local[r]
           => users[u].role \ {local[r].id} \subseteq users'[u].role]_directoryVars

\* A deleted role comes back only by an update that asks for it, or by one that
\* read the role before it was deleted and writes it whole.
DeletedRoleComesBackByUpdate ==
  [][\A x \in RoleIds :
       /\ roles[x] # None
       /\ roles[x].is_delete
       /\ ~roles'[x].is_delete
       => \E r \in Requests :
            /\ stage[r] = "update_write"
            /\ local[r].id = x
            /\ local[r].body.is_delete = FALSE \/ x \in unseen[r]]_directoryVars

\* A role about to be stored or changed has a name no other role had when
\* createRole or updateRole looked for duplicates: one that has it now was
\* written since.
DuplicateCheckSawNoRole ==
  \A r \in Requests :
    stage[r] \in {"create_save", "update_find", "update_write"} =>
      \A x \in RoleIds :
        /\ Live(x)
        /\ roles[x].role = local[r].body.role
        /\ x # local[r].id
        => x \in unseen[r]

\* The built-in account changes in two ways only: the deletion of a role it
\* was read with replaces or withdraws roles of it and touches nothing else,
\* and an update of that very user writes it that read the user before it
\* became the built-in one.
BuiltInAccountIsKept ==
  [][\A u \in UserIds :
       /\ users[u] # None
       /\ users[u].username = AdminName
       /\ users'[u] # users[u]
       => \E r \in Requests :
            \/ /\ stage[r] \in {"delete_replace", "delete_withdraw"}
               /\ u \in local[r].todo
               /\ users'[u] = [users[u] EXCEPT !.role = users'[u].role]
            \/ /\ stage[r] = "user_write"
               /\ u = local[r].id
               /\ u \in unseen[r]]_directoryVars

=============================================================================
