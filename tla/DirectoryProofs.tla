-------------------------- MODULE DirectoryProofs --------------------------
(***************************************************************************)
(* Directory for every set of roles, users, requests, bodies and faults:   *)
(* the types, what the deletion of a role and the duplicate checks are     *)
(* worth beside other writers, and what the writes of whole documents may  *)
(* undo.                                                                   *)
(***************************************************************************)
EXTENDS Directory, TLAPS

UpdateStages == {"update_duplicate", "update_find", "update_write"}

\* Request r names the documents its stage works on, and those documents are
\* there: none is ever removed from these collections.
StageFits(r) ==
  LET l == local[r] IN
  /\ stage[r] \in {"create_find", "create_save"} => l.body.role \in RoleNames
  /\ stage[r] \in UpdateStages \cup DeleteStages => l.id \in RoleIds
  /\ stage[r] \in {"update_write"} \cup (DeleteStages \ {"delete_find"}) =>
       roles[l.id] # None
  /\ stage[r] = "update_write" => l.found \in Role
  /\ stage[r] \in {"user_find", "user_write"} => l.id \in UserIds
  /\ stage[r] = "user_write" => users[l.id] # None /\ l.found \in User
  /\ stage[r] \in {"delete_existing", "delete_replace", "delete_withdraw"} =>
       \A u \in l.holders : users[u] # None
  /\ stage[r] \in {"delete_replace", "delete_withdraw"} => l.todo \subseteq l.holders

StagesFit == \A r \in Requests : StageFits(r)

TypeInv == DirectoryTypeOK /\ StagesFit

\* What a step of request r leaves to the others: their stages and locals, and
\* whatever it has written is marked as unseen by them.
Moves(r) ==
  /\ stage' \in [Requests -> Stages]
  /\ local' \in [Requests -> Local]
  /\ unseen' \in [Requests -> SUBSET Documents]
  /\ \A s \in Requests \ {r} :
       /\ stage'[s] = stage[s]
       /\ local'[s] = local[s]
       /\ unseen[s] \subseteq unseen'[s]

Marked(r) ==
  \A s \in Requests \ {r} :
    /\ \A x \in RoleIds : roles'[x] # roles[x] => x \in unseen'[s]
    /\ \A u \in UserIds : users'[u] # users[u] => u \in unseen'[s]

\* No document is ever removed.
Kept ==
  /\ \A x \in RoleIds : roles[x] # None => roles'[x] # None
  /\ \A u \in UserIds : users[u] # None => users'[u] # None

Frame(r) == Moves(r) /\ Marked(r) /\ Kept

-----------------------------------------------------------------------------
(* The locals and the documents. *)

LEMMA BodyTypes ==
  /\ NoRoleChange \in RoleChange
  /\ NoUserChange \in UserChange
  /\ NoPlan \in Plan
  /\ \A new \in NewRole :
       [role |-> new.role, permissions |-> new.permissions,
        is_delete |-> None] \in RoleChange
  BY DEF NoRoleChange, NoUserChange, NoPlan, RoleChange, UserChange, Plan, NewRole

LEMMA LocalTypes ==
  /\ NoLocal \in Local
  /\ \A body \in RoleChange : [NoLocal EXCEPT !.body = body] \in Local
  /\ \A id \in Documents, body \in RoleChange :
       [NoLocal EXCEPT !.id = id, !.body = body] \in Local
  /\ \A id \in Documents, plan \in Plan :
       [NoLocal EXCEPT !.id = id, !.plan = plan] \in Local
  /\ \A id \in Documents, change \in UserChange :
       /\ [NoLocal EXCEPT !.id = id, !.change = change] \in Local
       /\ [NoLocal EXCEPT !.id = id, !.change = change, !.whole = TRUE] \in Local
  /\ \A l \in Local, found \in Role \cup User : [l EXCEPT !.found = found] \in Local
  /\ \A l \in Local, held, left \in SUBSET UserIds :
       /\ [l EXCEPT !.holders = held] \in Local
       /\ [l EXCEPT !.holders = held, !.todo = left] \in Local
       /\ [l EXCEPT !.todo = left] \in Local
  /\ \A l \in Local, there \in SUBSET RoleIds, left \in SUBSET UserIds :
       [l EXCEPT !.existing = there, !.todo = left] \in Local
PROOF
  <1>1. NoLocal \in Local
    BY BodyTypes DEF NoLocal, Local
  <1>2. \A body \in RoleChange : [NoLocal EXCEPT !.body = body] \in Local
    BY <1>1 DEF Local
  <1>3. \A id \in Documents, body \in RoleChange :
          [NoLocal EXCEPT !.id = id, !.body = body] \in Local
    BY <1>1 DEF Local
  <1>4. \A id \in Documents, plan \in Plan :
          [NoLocal EXCEPT !.id = id, !.plan = plan] \in Local
    BY <1>1 DEF Local
  <1>5. \A id \in Documents, change \in UserChange :
          /\ [NoLocal EXCEPT !.id = id, !.change = change] \in Local
          /\ [NoLocal EXCEPT !.id = id, !.change = change, !.whole = TRUE] \in Local
    BY <1>1 DEF Local
  <1>6. \A l \in Local, found \in Role \cup User : [l EXCEPT !.found = found] \in Local
    BY DEF Local
  <1>7. \A l \in Local, held, left \in SUBSET UserIds :
          /\ [l EXCEPT !.holders = held] \in Local
          /\ [l EXCEPT !.holders = held, !.todo = left] \in Local
          /\ [l EXCEPT !.todo = left] \in Local
    BY DEF Local
  <1>8. \A l \in Local, there \in SUBSET RoleIds, left \in SUBSET UserIds :
          [l EXCEPT !.existing = there, !.todo = left] \in Local
    BY DEF Local
  <1> QED
    BY <1>1, <1>2, <1>3, <1>4, <1>5, <1>6, <1>7, <1>8

\* The whole document updateRole writes is a role.
LEMMA UpdatedRoleType ==
  ASSUME NEW found \in Role, NEW body \in RoleChange
  PROVE  UpdatedRole(found, body) \in Role
  BY DirectoryAssumption DEF UpdatedRole, Given, Role, RoleChange

\* A user that is updated is a user.
LEMMA ChangedUserType ==
  ASSUME NEW user \in User, NEW change \in UserChange
  PROVE  ChangedUser(user, change) \in User
  BY DirectoryAssumption DEF ChangedUser, Given, User, UserChange

-----------------------------------------------------------------------------
(* Control. *)

\* A request that moves on or is answered leaves the others where they are.
LEMMA Control ==
  ASSUME DirectoryTypeOK, NEW r \in Requests
  PROVE  /\ \A next \in Stages : Advance(r, next) =>
              /\ stage' \in [Requests -> Stages]
              /\ stage'[r] = next
              /\ \A s \in Requests \ {r} : stage'[s] = stage[s]
         /\ \A l \in Local : Keep(r, l) =>
              /\ local' \in [Requests -> Local]
              /\ local'[r] = l
              /\ \A s \in Requests \ {r} : local'[s] = local[s]
  BY DEF DirectoryTypeOK, Advance, Keep

\* The marks a request leaves when it reads and when it writes.
LEMMA Marks ==
  ASSUME DirectoryTypeOK, NEW r \in Requests
  PROVE  /\ \A D : Reads(r, D) =>
              /\ unseen' \in [Requests -> SUBSET Documents]
              /\ unseen'[r] = unseen[r] \ D
              /\ \A s \in Requests \ {r} : unseen'[s] = unseen[s]
         /\ \A d \in Documents : Writes(r, d) =>
              /\ unseen' \in [Requests -> SUBSET Documents]
              /\ unseen'[r] = unseen[r]
              /\ \A s \in Requests \ {r} : unseen'[s] = unseen[s] \cup {d}
         /\ \A d \in Documents : WritesLast(r, d) =>
              /\ unseen' \in [Requests -> SUBSET Documents]
              /\ \A s \in Requests \ {r} : unseen'[s] = unseen[s] \cup {d}
  BY DEF DirectoryTypeOK, Reads, Writes, WritesLast

\* A request that is answered has the stage "idle", where it names nothing.
LEMMA AnswerMoves ==
  ASSUME DirectoryTypeOK, NEW r \in Requests, Answer(r)
  PROVE  Moves(r) /\ stage'[r] = "idle"
PROOF
  <1>1. Advance(r, "idle") /\ Keep(r, NoLocal)
    BY DEF Answer
  <1>2. unseen' \in [Requests -> SUBSET Documents]
    BY DEF DirectoryTypeOK, Answer
  <1>3. \A s \in Requests \ {r} : unseen'[s] = unseen[s]
    BY DEF DirectoryTypeOK, Answer
  <1> QED
    BY <1>1, <1>2, <1>3, Control, LocalTypes DEF Moves, Stages

LEMMA WritesLastMoves ==
  ASSUME DirectoryTypeOK, NEW r \in Requests, NEW d \in Documents, WritesLast(r, d)
  PROVE  /\ Moves(r)
         /\ stage'[r] = "idle"
         /\ \A s \in Requests \ {r} : d \in unseen'[s]
PROOF
  <1>1. Advance(r, "idle") /\ Keep(r, NoLocal)
    BY DEF WritesLast
  <1>2. /\ unseen' \in [Requests -> SUBSET Documents]
        /\ \A s \in Requests \ {r} : unseen'[s] = unseen[s] \cup {d}
    BY Marks
  <1> QED
    BY <1>1, <1>2, Control, LocalTypes DEF Moves, Stages

\* What remains to be shown of a step: the documents keep their types and their
\* marks, and the locals of the acting request fit its new stage.
LEMMA StepKeepsTypes ==
  ASSUME TypeInv, NEW r \in Requests, Frame(r),
         roles' \in [RoleIds -> Role \cup {None}],
         users' \in [UserIds -> User \cup {None}],
         freshRoles' \subseteq RoleIds,
         \A x \in freshRoles' : roles'[x] = None,
         StageFits(r)'
  PROVE  TypeInv'
PROOF
  <1>1. DirectoryTypeOK'
    BY DEF DirectoryTypeOK, Frame, Moves
  <1>2. ASSUME NEW s \in Requests \ {r}
        PROVE  StageFits(s)'
    <2>1. StageFits(s) /\ stage'[s] = stage[s] /\ local'[s] = local[s] /\ Kept
      BY DEF TypeInv, StagesFit, Frame, Moves
    <2>2. local[s].holders \subseteq UserIds
      BY DEF TypeInv, DirectoryTypeOK, Local
    <2> QED
      BY <2>1, <2>2 DEF StageFits, Kept, UpdateStages, DeleteStages
  <1> QED
    BY <1>1, <1>2 DEF TypeInv, StagesFit

\* A step that writes nothing.
LEMMA QuietStep ==
  ASSUME TypeInv, NEW r \in Requests, Moves(r), NoRoleWrite, NoUserWrite,
         StageFits(r)'
  PROVE  TypeInv' /\ Frame(r)
PROOF
  <1>1. Frame(r)
    BY DEF Frame, Marked, Kept, NoRoleWrite, NoUserWrite
  <1>2. /\ roles' \in [RoleIds -> Role \cup {None}]
        /\ users' \in [UserIds -> User \cup {None}]
        /\ freshRoles' \subseteq RoleIds
        /\ \A x \in freshRoles' : roles'[x] = None
    BY DEF TypeInv, DirectoryTypeOK, NoRoleWrite, NoUserWrite
  <1> QED
    BY <1>1, <1>2, StepKeepsTypes

LEMMA IdleFits ==
  ASSUME NEW r \in Requests, stage'[r] = "idle"
  PROVE  StageFits(r)'
  BY DEF StageFits, UpdateStages, DeleteStages

\* A refused request, or one that fails.
LEMMA AnswerKeepsTypes ==
  ASSUME TypeInv, NEW r \in Requests, Answer(r), NoRoleWrite, NoUserWrite
  PROVE  TypeInv' /\ Frame(r)
  BY AnswerMoves, IdleFits, QuietStep DEF TypeInv

-----------------------------------------------------------------------------
(* Requests arrive. *)

LEMMA BeginMoves ==
  ASSUME TypeInv, NEW r \in Requests, NEW next \in Stages, NEW l \in Local,
         Begin(r, next, l)
  PROVE  /\ Moves(r)
         /\ stage'[r] = next
         /\ local'[r] = l
         /\ NoRoleWrite /\ NoUserWrite
PROOF
  <1>1. Advance(r, next) /\ Keep(r, l) /\ unseen' = unseen /\ NoRoleWrite /\ NoUserWrite
    BY DEF Begin
  <1>2. DirectoryTypeOK
    BY DEF TypeInv
  <1>3. unseen' \in [Requests -> SUBSET Documents]
    BY <1>1, <1>2 DEF DirectoryTypeOK
  <1> QED
    BY <1>1, <1>2, <1>3, Control DEF Moves

LEMMA ReceiveKeepsTypes ==
  ASSUME TypeInv, NEW r \in Requests, NEW caller, ReceiveRequest(r, caller)
  PROVE  TypeInv' /\ Frame(r)
PROOF
  <1>1. ASSUME NEW new \in NewRoles, PostRole(r, caller, new)
        PROVE  TypeInv' /\ Frame(r)
    <2> DEFINE body == [role |-> new.role, permissions |-> new.permissions,
                        is_delete |-> None]
               l == [NoLocal EXCEPT !.body = body]
    <2>1. new \in NewRole
      BY DirectoryAssumption
    <2>2. body \in RoleChange /\ body.role \in RoleNames
      BY <2>1, BodyTypes DEF NewRole
    <2>3. l \in Local /\ l.body = body
      BY <2>2, LocalTypes DEF NoLocal
    <2>4. Begin(r, "create_find", l)
      BY <1>1 DEF PostRole
    <2> HIDE DEF l, body
    <2>5. /\ Moves(r)
          /\ stage'[r] = "create_find" /\ local'[r] = l
          /\ NoRoleWrite /\ NoUserWrite
      BY <2>3, <2>4, BeginMoves DEF Stages, ReadStages
    <2>6. StageFits(r)'
      BY <2>2, <2>3, <2>5 DEF StageFits, UpdateStages, DeleteStages
    <2> QED
      BY <2>5, <2>6, QuietStep
  <1>2. ASSUME NEW x \in RoleIds, NEW body \in RoleChanges,
               PatchRole(r, caller, x, body)
        PROVE  TypeInv' /\ Frame(r)
    <2> DEFINE l == [NoLocal EXCEPT !.id = x, !.body = body]
    <2>1. l \in Local /\ l.id = x
      BY DirectoryAssumption, LocalTypes DEF Documents, NoLocal
    <2>2. Begin(r, "update_duplicate", l)
      BY <1>2 DEF PatchRole
    <2> HIDE DEF l
    <2>3. /\ Moves(r)
          /\ stage'[r] = "update_duplicate" /\ local'[r] = l
          /\ NoRoleWrite /\ NoUserWrite
      BY <2>1, <2>2, BeginMoves DEF Stages, ReadStages
    <2>4. StageFits(r)'
      BY <2>1, <2>3 DEF StageFits, UpdateStages, DeleteStages
    <2> QED
      BY <2>3, <2>4, QuietStep
  <1>3. ASSUME NEW x \in RoleIds, NEW plan \in Plans,
               PatchRoleDelete(r, caller, x, plan)
        PROVE  TypeInv' /\ Frame(r)
    <2> DEFINE l == [NoLocal EXCEPT !.id = x, !.plan = plan]
    <2>1. l \in Local /\ l.id = x
      BY DirectoryAssumption, LocalTypes DEF Documents, NoLocal
    <2>2. Begin(r, "delete_find", l)
      BY <1>3 DEF PatchRoleDelete
    <2> HIDE DEF l
    <2>3. /\ Moves(r)
          /\ stage'[r] = "delete_find" /\ local'[r] = l
          /\ NoRoleWrite /\ NoUserWrite
      BY <2>1, <2>2, BeginMoves DEF Stages, ReadStages
    <2>4. StageFits(r)'
      BY <2>1, <2>3 DEF StageFits, UpdateStages, DeleteStages
    <2> QED
      BY <2>3, <2>4, QuietStep
  <1>4. ASSUME NEW u \in UserIds, NEW l \in Local, l.id = u,
               Begin(r, "user_find", l)
        PROVE  TypeInv' /\ Frame(r)
    <2>1. /\ Moves(r)
          /\ stage'[r] = "user_find" /\ local'[r] = l
          /\ NoRoleWrite /\ NoUserWrite
      BY <1>4, BeginMoves DEF Stages, ReadStages
    <2>2. StageFits(r)'
      BY <1>4, <2>1 DEF StageFits, UpdateStages, DeleteStages
    <2> QED
      BY <2>1, <2>2, QuietStep
  <1>5. ASSUME NEW u \in UserIds, NEW change \in UserChanges,
               PatchUser(r, caller, u, change)
        PROVE  TypeInv' /\ Frame(r)
    <2> DEFINE l == [NoLocal EXCEPT !.id = u, !.change = change]
    <2>1. l \in Local /\ l.id = u
      BY DirectoryAssumption, LocalTypes DEF Documents, NoLocal
    <2>2. Begin(r, "user_find", l)
      BY <1>5 DEF PatchUser
    <2> QED
      BY <1>4, <2>1, <2>2
  <1>6. ASSUME NEW u \in UserIds, NEW change \in WholeUsers,
               PatchWholeUser(r, caller, u, change)
        PROVE  TypeInv' /\ Frame(r)
    <2> DEFINE l == [NoLocal EXCEPT !.id = u, !.change = change, !.whole = TRUE]
    <2>1. change \in UserChange
      BY DirectoryAssumption DEF WholeUser
    <2>2. l \in Local /\ l.id = u
      BY <2>1, LocalTypes DEF Documents, NoLocal
    <2>3. Begin(r, "user_find", l)
      BY <1>6 DEF PatchWholeUser
    <2> QED
      BY <1>4, <2>2, <2>3
  <1> QED
    BY <1>1, <1>2, <1>3, <1>5, <1>6 DEF ReceiveRequest

-----------------------------------------------------------------------------
(* The steps of the handlers. *)

\* A step that reads some documents, moves on with these locals and writes
\* nothing.
LEMMA ReadMoves ==
  ASSUME TypeInv, NEW r \in Requests, NEW next \in Stages, NEW l \in Local, NEW D,
         Advance(r, next), Keep(r, l), Reads(r, D)
  PROVE  /\ Moves(r)
         /\ stage'[r] = next
         /\ local'[r] = l
         /\ unseen'[r] = unseen[r] \ D
PROOF
  <1>1. DirectoryTypeOK
    BY DEF TypeInv
  <1>2. /\ unseen' \in [Requests -> SUBSET Documents]
        /\ unseen'[r] = unseen[r] \ D
        /\ \A s \in Requests \ {r} : unseen'[s] = unseen[s]
    BY <1>1, Marks
  <1> QED
    BY <1>1, <1>2, Control DEF Moves

\* A step that keeps its locals keeps them as a value of their type.
LEMMA KeepsLocal ==
  ASSUME TypeInv, NEW r \in Requests
  PROVE  /\ local[r] \in Local
         /\ UNCHANGED local => Keep(r, local[r])
         /\ UNCHANGED unseen => Reads(r, {})
         /\ UNCHANGED stage => Advance(r, stage[r])
         /\ stage[r] \in Stages
  BY DEF TypeInv, DirectoryTypeOK, Keep, Reads, Advance

LEMMA CreateFindKeepsTypes ==
  ASSUME TypeInv, NEW r \in Requests, CreateRoleFind(r)
  PROVE  TypeInv' /\ Frame(r)
PROOF
  <1>1. CASE RolesNamed(local[r].body.role, None) = {}
    <2>1. /\ Advance(r, "create_save") /\ Reads(r, RoleIds) /\ Keep(r, local[r])
          /\ local[r] \in Local /\ stage[r] = "create_find"
          /\ NoRoleWrite /\ NoUserWrite
      BY <1>1, KeepsLocal DEF CreateRoleFind
    <2>2. Moves(r) /\ stage'[r] = "create_save" /\ local'[r] = local[r]
      BY <2>1, ReadMoves DEF Stages, WriteStages
    <2>3. StageFits(r)'
      BY <2>1, <2>2 DEF TypeInv, StagesFit, StageFits, UpdateStages, DeleteStages
    <2> QED
      BY <2>1, <2>2, <2>3, QuietStep
  <1>2. CASE RolesNamed(local[r].body.role, None) # {}
    BY <1>2, AnswerKeepsTypes DEF CreateRoleFind
  <1> QED
    BY <1>1, <1>2

LEMMA UpdateDuplicateKeepsTypes ==
  ASSUME TypeInv, NEW r \in Requests, UpdateRoleDuplicate(r)
  PROVE  TypeInv' /\ Frame(r)
PROOF
  <1>1. CASE RolesNamed(local[r].body.role, local[r].id) = {}
    <2>1. /\ Advance(r, "update_find") /\ Reads(r, RoleIds) /\ Keep(r, local[r])
          /\ local[r] \in Local /\ stage[r] = "update_duplicate"
          /\ NoRoleWrite /\ NoUserWrite
      BY <1>1, KeepsLocal DEF UpdateRoleDuplicate
    <2>2. Moves(r) /\ stage'[r] = "update_find" /\ local'[r] = local[r]
      BY <2>1, ReadMoves DEF Stages, ReadStages
    <2>3. StageFits(r)'
      BY <2>1, <2>2 DEF TypeInv, StagesFit, StageFits, UpdateStages, DeleteStages
    <2> QED
      BY <2>1, <2>2, <2>3, QuietStep
  <1>2. CASE RolesNamed(local[r].body.role, local[r].id) # {}
    BY <1>2, AnswerKeepsTypes DEF UpdateRoleDuplicate
  <1> QED
    BY <1>1, <1>2

LEMMA UpdateFindKeepsTypes ==
  ASSUME TypeInv, NEW r \in Requests, UpdateRoleFind(r)
  PROVE  TypeInv' /\ Frame(r)
PROOF
  <1> DEFINE x == local[r].id
             l == [local[r] EXCEPT !.found = roles[x]]
  <1>1. CASE roles[x] # None
    <2>1. /\ Advance(r, "update_write") /\ Reads(r, {x}) /\ Keep(r, l)
          /\ local[r] \in Local /\ stage[r] = "update_find"
          /\ NoRoleWrite /\ NoUserWrite
      BY <1>1, KeepsLocal DEF UpdateRoleFind
    <2>2. x \in RoleIds
      BY <2>1 DEF TypeInv, StagesFit, StageFits, UpdateStages
    <2>3. roles[x] \in Role
      BY <1>1, <2>2 DEF TypeInv, DirectoryTypeOK
    <2>4. l \in Local /\ l.id = x /\ l.found = roles[x]
      BY <2>1, <2>3 DEF Local
    <2> HIDE DEF l
    <2>5. Moves(r) /\ stage'[r] = "update_write" /\ local'[r] = l
      BY <2>1, <2>4, ReadMoves DEF Stages, WriteStages
    <2>6. StageFits(r)'
      BY <1>1, <2>1, <2>2, <2>3, <2>4, <2>5
      DEF StageFits, UpdateStages, DeleteStages, NoRoleWrite
    <2> QED
      BY <2>1, <2>5, <2>6, QuietStep
  <1>2. CASE roles[x] = None
    BY <1>2, AnswerKeepsTypes DEF UpdateRoleFind
  <1> QED
    BY <1>1, <1>2

LEMMA DeleteFindKeepsTypes ==
  ASSUME TypeInv, NEW r \in Requests, DeleteRoleFind(r)
  PROVE  TypeInv' /\ Frame(r)
PROOF
  <1> DEFINE x == local[r].id
  <1>1. CASE roles[x] # None
    <2>1. /\ Advance(r, "delete_holders") /\ Reads(r, {}) /\ Keep(r, local[r])
          /\ local[r] \in Local /\ stage[r] = "delete_find"
          /\ NoRoleWrite /\ NoUserWrite
      BY <1>1, KeepsLocal DEF DeleteRoleFind
    <2>2. Moves(r) /\ stage'[r] = "delete_holders" /\ local'[r] = local[r]
      BY <2>1, ReadMoves DEF Stages, ReadStages
    <2>3. StageFits(r)'
      BY <1>1, <2>1, <2>2
      DEF TypeInv, StagesFit, StageFits, UpdateStages, DeleteStages, NoRoleWrite
    <2> QED
      BY <2>1, <2>2, <2>3, QuietStep
  <1>2. CASE roles[x] = None
    BY <1>2, AnswerKeepsTypes DEF DeleteRoleFind
  <1> QED
    BY <1>1, <1>2

LEMMA DeleteHoldersKeepsTypes ==
  ASSUME TypeInv, NEW r \in Requests, DeleteRoleHolders(r)
  PROVE  TypeInv' /\ Frame(r)
PROOF
  <1> DEFINE holders == Holders(local[r].id)
  <1>1. /\ local[r] \in Local /\ stage[r] = "delete_holders"
        /\ Reads(r, UserIds) /\ NoRoleWrite /\ NoUserWrite
    BY KeepsLocal DEF DeleteRoleHolders
  <1>2. holders \in SUBSET UserIds /\ \A u \in holders : users[u] # None
    BY DEF Holders
  <1>3. local[r].id \in RoleIds /\ roles[local[r].id] # None
    BY <1>1 DEF TypeInv, StagesFit, StageFits, DeleteStages
  <1>4. CASE local[r].plan = NoPlan
    <2> DEFINE l == [local[r] EXCEPT !.holders = holders, !.todo = holders]
    <2>1. Keep(r, l) /\ Advance(r, "delete_withdraw")
      BY <1>4 DEF DeleteRoleHolders
    <2>2. /\ l \in Local /\ l.id = local[r].id
          /\ l.holders = holders /\ l.todo = holders
      <3> HIDE DEF holders
      <3> QED
        BY <1>1, <1>2 DEF Local
    <2> HIDE DEF l, holders
    <2>3. Moves(r) /\ stage'[r] = "delete_withdraw" /\ local'[r] = l
      BY <1>1, <2>1, <2>2, ReadMoves DEF Stages, WriteStages
    <2>4. StageFits(r)'
      BY <1>1, <1>2, <1>3, <2>2, <2>3
      DEF StageFits, UpdateStages, DeleteStages, NoRoleWrite, NoUserWrite
    <2> QED
      BY <1>1, <2>3, <2>4, QuietStep
  <1>5. CASE local[r].plan # NoPlan
    <2> DEFINE l == [local[r] EXCEPT !.holders = holders]
    <2>1. Keep(r, l) /\ Advance(r, "delete_existing")
      BY <1>5 DEF DeleteRoleHolders
    <2>2. l \in Local /\ l.id = local[r].id /\ l.holders = holders
      <3> HIDE DEF holders
      <3> QED
        BY <1>1, <1>2 DEF Local
    <2> HIDE DEF l, holders
    <2>3. Moves(r) /\ stage'[r] = "delete_existing" /\ local'[r] = l
      BY <1>1, <2>1, <2>2, ReadMoves DEF Stages, ReadStages
    <2>4. StageFits(r)'
      BY <1>1, <1>2, <1>3, <2>2, <2>3
      DEF StageFits, UpdateStages, DeleteStages, NoRoleWrite, NoUserWrite
    <2> QED
      BY <1>1, <2>3, <2>4, QuietStep
  <1> QED
    BY <1>4, <1>5

LEMMA DeleteExistingKeepsTypes ==
  ASSUME TypeInv, NEW r \in Requests, DeleteRoleExisting(r)
  PROVE  TypeInv' /\ Frame(r)
PROOF
  <1>1. /\ local[r] \in Local /\ stage[r] = "delete_existing"
        /\ Reads(r, RoleIds) /\ NoRoleWrite /\ NoUserWrite
    BY KeepsLocal DEF DeleteRoleExisting
  <1>2. PICK next \in {"delete_withdraw", "delete_replace"},
             todo \in {local[r].holders, ToReplace(r)} :
          /\ Advance(r, next)
          /\ Keep(r, [local[r] EXCEPT !.existing = ExistingRoles, !.todo = todo])
    BY DEF DeleteRoleExisting
  <1> DEFINE l == [local[r] EXCEPT !.existing = ExistingRoles, !.todo = todo]
  <1>3. /\ local[r].id \in RoleIds /\ roles[local[r].id] # None
        /\ \A u \in local[r].holders : users[u] # None
    BY <1>1 DEF TypeInv, StagesFit, StageFits, DeleteStages
  <1>4. todo \subseteq local[r].holders /\ todo \in SUBSET UserIds
    BY <1>1, <1>2 DEF ToReplace, Local
  <1>5. /\ l \in Local /\ l.id = local[r].id
        /\ l.holders = local[r].holders /\ l.todo = todo
    <2>1. ExistingRoles \in SUBSET RoleIds
      BY DEF ExistingRoles
    <2> QED
      BY <1>1, <1>4, <2>1 DEF Local
  <1> HIDE DEF l
  <1>6. Moves(r) /\ stage'[r] = next /\ local'[r] = l
    BY <1>1, <1>2, <1>5, ReadMoves DEF Stages, WriteStages, l
  <1>7. StageFits(r)'
    BY <1>1, <1>2, <1>3, <1>4, <1>5, <1>6
    DEF StageFits, UpdateStages, DeleteStages, NoRoleWrite, NoUserWrite
  <1> QED
    BY <1>1, <1>6, <1>7, QuietStep

\* A handler that writes one user it read and goes on with the others.
LEMMA UserByUser ==
  ASSUME TypeInv, NEW r \in Requests,
         stage[r] \in {"delete_replace", "delete_withdraw"},
         NEW u \in local[r].todo, NEW held \in SUBSET RoleIds,
         users' = [users EXCEPT ![u].role = held],
         Keep(r, [local[r] EXCEPT !.todo = @ \ {u}]),
         Writes(r, u), UNCHANGED stage, NoRoleWrite
  PROVE  TypeInv' /\ Frame(r)
PROOF
  <1> DEFINE l == [local[r] EXCEPT !.todo = @ \ {u}]
  <1>1. DirectoryTypeOK /\ local[r] \in Local /\ stage[r] \in Stages
    BY KeepsLocal DEF TypeInv
  <1>2. /\ local[r].id \in RoleIds /\ roles[local[r].id] # None
        /\ \A v \in local[r].holders : users[v] # None
        /\ local[r].todo \subseteq local[r].holders
    BY DEF TypeInv, StagesFit, StageFits, DeleteStages
  <1>3. u \in UserIds /\ users[u] \in User
    BY <1>1, <1>2 DEF DirectoryTypeOK, Local
  <1>4. /\ l \in Local /\ l.id = local[r].id
        /\ l.holders = local[r].holders /\ l.todo \subseteq l.holders
    BY <1>1, <1>2 DEF Local
  <1> HIDE DEF l
  <1>5. [users[u] EXCEPT !.role = held] \in User
    BY <1>3 DEF User
  <1>6. /\ users' \in [UserIds -> User \cup {None}]
        /\ \A v \in UserIds : users[v] # None => users'[v] # None
        /\ \A v \in UserIds : users'[v] # users[v] => v = u
    BY <1>1, <1>3, <1>5, DirectoryAssumption DEF DirectoryTypeOK
  <1>7. /\ unseen' \in [Requests -> SUBSET Documents]
        /\ \A s \in Requests \ {r} : unseen'[s] = unseen[s] \cup {u}
    BY <1>1, <1>3, Marks DEF Documents
  <1>8. Advance(r, stage[r]) /\ Keep(r, l)
    BY KeepsLocal DEF l
  <1>9. Moves(r) /\ stage'[r] = stage[r] /\ local'[r] = l
    BY <1>1, <1>4, <1>7, <1>8, Control DEF Moves
  <1>10. Frame(r)
    BY <1>6, <1>7, <1>9 DEF Frame, Marked, Kept, NoRoleWrite
  <1>11. StageFits(r)'
    BY <1>2, <1>4, <1>6, <1>9, <1>1
    DEF StageFits, UpdateStages, DeleteStages, NoRoleWrite, Local
  <1>12. /\ roles' \in [RoleIds -> Role \cup {None}]
         /\ freshRoles' \subseteq RoleIds
         /\ \A x \in freshRoles' : roles'[x] = None
    BY <1>1 DEF DirectoryTypeOK, NoRoleWrite
  <1> QED
    BY <1>6, <1>10, <1>11, <1>12, StepKeepsTypes

LEMMA ReplaceKeepsTypes ==
  ASSUME TypeInv, NEW r \in Requests, BulkUpdateUserRoles(r)
  PROVE  TypeInv' /\ Frame(r)
PROOF
  <1>1. local[r] \in Local /\ stage[r] = "delete_replace" /\ NoRoleWrite
    BY KeepsLocal DEF BulkUpdateUserRoles
  <1>2. /\ local[r].id \in RoleIds /\ roles[local[r].id] # None
        /\ \A u \in local[r].holders : users[u] # None
        /\ local[r].todo \subseteq local[r].holders
    BY <1>1 DEF TypeInv, StagesFit, StageFits, DeleteStages
  <1>3. ASSUME NEW u \in local[r].todo,
               users' = [users EXCEPT ![u].role =
                           @ \cup (local[r].plan[u] \cap local[r].existing)],
               Keep(r, [local[r] EXCEPT !.todo = @ \ {u}]),
               Writes(r, u), UNCHANGED stage
        PROVE  TypeInv' /\ Frame(r)
    <2> DEFINE held == users[u].role \cup (local[r].plan[u] \cap local[r].existing)
    <2>1. u \in UserIds /\ users[u] \in User /\ users \in [UserIds -> User \cup {None}]
      BY <1>1, <1>2 DEF TypeInv, DirectoryTypeOK, Local
    <2>2. held \in SUBSET RoleIds
      BY <1>1, <2>1 DEF User, Local
    <2>3. users' = [users EXCEPT ![u].role = held]
      BY <1>3, <2>1 DEF User
    <2> HIDE DEF held
    <2> QED
      BY <1>1, <1>3, <2>2, <2>3, UserByUser
  <1>4. ASSUME local[r].todo = {},
               Keep(r, [local[r] EXCEPT !.todo = local[r].holders]),
               Advance(r, "delete_withdraw"), NoUserWrite, UNCHANGED unseen
        PROVE  TypeInv' /\ Frame(r)
    <2> DEFINE l == [local[r] EXCEPT !.todo = local[r].holders]
    <2>1. /\ l \in Local /\ l.id = local[r].id
          /\ l.holders = local[r].holders /\ l.todo = local[r].holders
      BY <1>1 DEF Local
    <2>2. Keep(r, l) /\ Reads(r, {})
      BY <1>4, KeepsLocal
    <2> HIDE DEF l
    <2>3. Moves(r) /\ stage'[r] = "delete_withdraw" /\ local'[r] = l
      BY <1>4, <2>1, <2>2, ReadMoves DEF Stages, WriteStages
    <2>4. StageFits(r)'
      BY <1>1, <1>2, <1>4, <2>1, <2>3
      DEF StageFits, UpdateStages, DeleteStages, NoRoleWrite, NoUserWrite
    <2> QED
      BY <1>1, <1>4, <2>3, <2>4, QuietStep
  <1> QED
    BY <1>3, <1>4 DEF BulkUpdateUserRoles

LEMMA WithdrawKeepsTypes ==
  ASSUME TypeInv, NEW r \in Requests, DeleteRoleFromUsers(r)
  PROVE  TypeInv' /\ Frame(r)
PROOF
  <1>1. local[r] \in Local /\ stage[r] = "delete_withdraw" /\ NoRoleWrite
    BY KeepsLocal DEF DeleteRoleFromUsers
  <1>2. /\ local[r].id \in RoleIds /\ roles[local[r].id] # None
        /\ \A u \in local[r].holders : users[u] # None
        /\ local[r].todo \subseteq local[r].holders
    BY <1>1 DEF TypeInv, StagesFit, StageFits, DeleteStages
  <1>3. ASSUME NEW u \in local[r].todo,
               users' = [users EXCEPT ![u].role = @ \ {local[r].id}],
               Keep(r, [local[r] EXCEPT !.todo = @ \ {u}]),
               Writes(r, u), UNCHANGED stage
        PROVE  TypeInv' /\ Frame(r)
    <2> DEFINE held == users[u].role \ {local[r].id}
    <2>1. u \in UserIds /\ users[u] \in User /\ users \in [UserIds -> User \cup {None}]
      BY <1>1, <1>2 DEF TypeInv, DirectoryTypeOK, Local
    <2>2. held \in SUBSET RoleIds
      BY <2>1 DEF User
    <2>3. users' = [users EXCEPT ![u].role = held]
      BY <1>3, <2>1 DEF User
    <2> HIDE DEF held
    <2> QED
      BY <1>1, <1>3, <2>2, <2>3, UserByUser
  <1>4. ASSUME Advance(r, "delete_mark"), NoUserWrite, UNCHANGED <<local, unseen>>
        PROVE  TypeInv' /\ Frame(r)
    <2>1. Keep(r, local[r]) /\ Reads(r, {})
      BY <1>4, KeepsLocal
    <2>2. Moves(r) /\ stage'[r] = "delete_mark" /\ local'[r] = local[r]
      BY <1>1, <1>4, <2>1, ReadMoves DEF Stages, WriteStages
    <2>3. StageFits(r)'
      BY <1>1, <1>2, <1>4, <2>2
      DEF StageFits, UpdateStages, DeleteStages, NoRoleWrite
    <2> QED
      BY <1>1, <1>4, <2>2, <2>3, QuietStep
  <1> QED
    BY <1>3, <1>4 DEF DeleteRoleFromUsers


LEMMA MarkKeepsTypes ==
  ASSUME TypeInv, NEW r \in Requests, DeleteRoleMark(r)
  PROVE  TypeInv' /\ Frame(r)
PROOF
  <1> DEFINE x == local[r].id
  <1>1. /\ stage[r] = "delete_mark" /\ WritesLast(r, x)
        /\ roles' = [roles EXCEPT ![x].is_delete = TRUE]
        /\ UNCHANGED freshRoles /\ NoUserWrite
    BY DEF DeleteRoleMark
  <1>2. x \in RoleIds /\ roles[x] # None /\ DirectoryTypeOK
    BY <1>1 DEF TypeInv, StagesFit, StageFits, DeleteStages
  <1>3. roles[x] \in Role
    BY <1>2 DEF DirectoryTypeOK
  <1>4. [roles[x] EXCEPT !.is_delete = TRUE] \in Role
    BY <1>3 DEF Role
  <1>5. /\ roles' \in [RoleIds -> Role \cup {None}]
        /\ \A y \in RoleIds : roles[y] # None => roles'[y] # None
        /\ \A y \in RoleIds : roles'[y] # roles[y] => y = x
    BY <1>1, <1>2, <1>4, DirectoryAssumption DEF DirectoryTypeOK
  <1>6. \A y \in freshRoles' : roles'[y] = None
    BY <1>1, <1>2, <1>5 DEF DirectoryTypeOK
  <1>7. /\ users' \in [UserIds -> User \cup {None}] /\ users' = users
        /\ freshRoles' \subseteq RoleIds
    BY <1>1, <1>2 DEF DirectoryTypeOK, NoUserWrite
  <1>8. /\ Moves(r) /\ stage'[r] = "idle"
        /\ \A s \in Requests \ {r} : x \in unseen'[s]
    BY <1>1, <1>2, WritesLastMoves DEF Documents
  <1>9. Frame(r)
    BY <1>5, <1>7, <1>8 DEF Frame, Marked, Kept
  <1> QED
    BY <1>5, <1>6, <1>7, <1>8, <1>9, IdleFits, StepKeepsTypes

LEMMA UpdateRoleKeepsTypes ==
  ASSUME TypeInv, NEW r \in Requests, FindRoleByIdAndUpdate(r)
  PROVE  TypeInv' /\ Frame(r)
PROOF
  <1> DEFINE x == local[r].id
             written == UpdatedRole(local[r].found, local[r].body)
  <1>1. /\ stage[r] = "update_write" /\ WritesLast(r, x)
        /\ roles' = [roles EXCEPT ![x] = written]
        /\ UNCHANGED freshRoles /\ NoUserWrite
    BY DEF FindRoleByIdAndUpdate
  <1>2. /\ x \in RoleIds /\ roles[x] # None /\ DirectoryTypeOK
        /\ local[r].found \in Role
    BY <1>1 DEF TypeInv, StagesFit, StageFits, UpdateStages
  <1>3. written \in Role
    BY <1>2, UpdatedRoleType DEF DirectoryTypeOK, Local
  <1> HIDE DEF written
  <1>4. /\ roles' \in [RoleIds -> Role \cup {None}]
        /\ \A y \in RoleIds : roles[y] # None => roles'[y] # None
        /\ \A y \in RoleIds : roles'[y] # roles[y] => y = x
    BY <1>1, <1>2, <1>3, DirectoryAssumption DEF DirectoryTypeOK
  <1>5. \A y \in freshRoles' : roles'[y] = None
    BY <1>1, <1>2, <1>4 DEF DirectoryTypeOK
  <1>6. /\ users' \in [UserIds -> User \cup {None}] /\ users' = users
        /\ freshRoles' \subseteq RoleIds
    BY <1>1, <1>2 DEF DirectoryTypeOK, NoUserWrite
  <1>7. /\ Moves(r) /\ stage'[r] = "idle"
        /\ \A s \in Requests \ {r} : x \in unseen'[s]
    BY <1>1, <1>2, WritesLastMoves DEF Documents
  <1>8. Frame(r)
    BY <1>4, <1>6, <1>7 DEF Frame, Marked, Kept
  <1> QED
    BY <1>4, <1>5, <1>6, <1>7, <1>8, IdleFits, StepKeepsTypes

LEMMA CreateKeepsTypes ==
  ASSUME TypeInv, NEW r \in Requests, CreateNewRole(r)
  PROVE  TypeInv' /\ Frame(r)
PROOF
  <1> DEFINE written == [role        |-> local[r].body.role,
                         permissions |-> local[r].body.permissions,
                         is_delete   |-> FALSE]
  <1>1. stage[r] = "create_save" /\ NoUserWrite
    BY DEF CreateNewRole
  <1>2. PICK x \in freshRoles :
          /\ roles' = [roles EXCEPT ![x] = written]
          /\ freshRoles' = freshRoles \ {x}
          /\ WritesLast(r, x)
    BY DEF CreateNewRole
  <1>3. /\ x \in RoleIds /\ DirectoryTypeOK
        /\ local[r].body.role \in RoleNames /\ local[r].body \in RoleChange
    BY <1>1 DEF TypeInv, StagesFit, StageFits, DirectoryTypeOK, Local
  <1>4. written \in Role
    BY <1>3 DEF Role, RoleChange
  <1> HIDE DEF written
  <1>5. /\ roles' \in [RoleIds -> Role \cup {None}]
        /\ \A y \in RoleIds : roles[y] # None => roles'[y] # None
        /\ \A y \in RoleIds : roles'[y] # roles[y] => y = x
    BY <1>2, <1>3, <1>4, DirectoryAssumption DEF DirectoryTypeOK
  <1>6. freshRoles' \subseteq RoleIds /\ \A y \in freshRoles' : roles'[y] = None
    BY <1>2, <1>3, <1>5 DEF DirectoryTypeOK
  <1>7. users' \in [UserIds -> User \cup {None}] /\ users' = users
    BY <1>1, <1>3 DEF DirectoryTypeOK, NoUserWrite
  <1>8. /\ Moves(r) /\ stage'[r] = "idle"
        /\ \A s \in Requests \ {r} : x \in unseen'[s]
    BY <1>2, <1>3, WritesLastMoves DEF Documents
  <1>9. Frame(r)
    BY <1>5, <1>7, <1>8 DEF Frame, Marked, Kept
  <1> QED
    BY <1>5, <1>6, <1>7, <1>8, <1>9, IdleFits, StepKeepsTypes

LEMMA UserFindKeepsTypes ==
  ASSUME TypeInv, NEW r \in Requests, UserFind(r)
  PROVE  TypeInv' /\ Frame(r)
PROOF
  <1> DEFINE u == local[r].id
             l == [local[r] EXCEPT !.found = users[u]]
  <1>1. CASE Answer(r)
    BY <1>1, AnswerKeepsTypes DEF UserFind
  <1>2. CASE ~Answer(r)
    <2>1. /\ Advance(r, "user_write") /\ Reads(r, {u}) /\ Keep(r, l)
          /\ local[r] \in Local /\ stage[r] = "user_find" /\ users[u] # None
          /\ NoRoleWrite /\ NoUserWrite
      BY <1>2, KeepsLocal DEF UserFind
    <2>2. u \in UserIds
      BY <2>1 DEF TypeInv, StagesFit, StageFits
    <2>3. users[u] \in User
      BY <2>1, <2>2 DEF TypeInv, DirectoryTypeOK
    <2>4. l \in Local /\ l.id = u /\ l.found = users[u]
      BY <2>1, <2>3 DEF Local
    <2> HIDE DEF l
    <2>5. Moves(r) /\ stage'[r] = "user_write" /\ local'[r] = l
      BY <2>1, <2>4, ReadMoves DEF Stages, WriteStages
    <2>6. StageFits(r)'
      BY <2>1, <2>2, <2>3, <2>4, <2>5
      DEF StageFits, UpdateStages, DeleteStages, NoUserWrite
    <2> QED
      BY <2>1, <2>5, <2>6, QuietStep
  <1> QED
    BY <1>1, <1>2

LEMMA UpdateUserKeepsTypes ==
  ASSUME TypeInv, NEW r \in Requests, UpdateUser(r)
  PROVE  TypeInv' /\ Frame(r)
PROOF
  <1> DEFINE u == local[r].id
  <1>1. stage[r] = "user_write" /\ NoRoleWrite
    BY DEF UpdateUser
  <1>2. CASE UserFree(u, UserWritten(r).username, UserWritten(r).email)
    <2> DEFINE written == UserWritten(r)
    <2>1. users' = [users EXCEPT ![u] = written] /\ WritesLast(r, u)
      BY <1>2 DEF UpdateUser
    <2>2. /\ u \in UserIds /\ users[u] # None /\ DirectoryTypeOK
          /\ local[r].found \in User
      BY <1>1 DEF TypeInv, StagesFit, StageFits
    <2>3. users[u] \in User /\ local[r].change \in UserChange
      BY <2>2 DEF DirectoryTypeOK, Local
    <2>4. written \in User
      BY <2>2, <2>3, ChangedUserType DEF UserWritten
    <2> HIDE DEF written
    <2>5. /\ users' \in [UserIds -> User \cup {None}]
          /\ \A v \in UserIds : users[v] # None => users'[v] # None
          /\ \A v \in UserIds : users'[v] # users[v] => v = u
      BY <2>1, <2>2, <2>4, DirectoryAssumption DEF DirectoryTypeOK
    <2>6. /\ roles' \in [RoleIds -> Role \cup {None}] /\ roles' = roles
          /\ freshRoles' \subseteq RoleIds
          /\ \A y \in freshRoles' : roles'[y] = None
      BY <1>1, <2>2 DEF DirectoryTypeOK, NoRoleWrite
    <2>7. /\ Moves(r) /\ stage'[r] = "idle"
          /\ \A s \in Requests \ {r} : u \in unseen'[s]
      BY <2>1, <2>2, WritesLastMoves DEF Documents
    <2>8. Frame(r)
      BY <2>5, <2>6, <2>7 DEF Frame, Marked, Kept
    <2> QED
      BY <2>5, <2>6, <2>7, <2>8, IdleFits, StepKeepsTypes
  <1>3. CASE ~UserFree(u, UserWritten(r).username, UserWritten(r).email)
    BY <1>1, <1>3, AnswerKeepsTypes DEF UpdateUser
  <1> QED
    BY <1>2, <1>3

LEMMA HandleKeepsTypes ==
  ASSUME TypeInv, NEW r \in Requests, HandleRequest(r)
  PROVE  TypeInv' /\ Frame(r)
PROOF
  <1>1. CASE CreateRoleStep(r)
    BY <1>1, CreateFindKeepsTypes, CreateKeepsTypes, AnswerKeepsTypes
    DEF CreateRoleStep, CreateNewRoleFails
  <1>2. CASE UpdateRoleStep(r)
    BY <1>2, UpdateDuplicateKeepsTypes, UpdateFindKeepsTypes, UpdateRoleKeepsTypes
    DEF UpdateRoleStep
  <1>3. CASE DeleteRoleStep(r)
    BY <1>3, DeleteFindKeepsTypes, DeleteHoldersKeepsTypes, DeleteExistingKeepsTypes,
       ReplaceKeepsTypes, WithdrawKeepsTypes, MarkKeepsTypes
    DEF DeleteRoleStep
  <1>4. CASE UserStep(r)
    BY <1>4, UserFindKeepsTypes, UpdateUserKeepsTypes DEF UserStep
  <1>5. CASE RequestFails(r)
    BY <1>5, AnswerKeepsTypes DEF RequestFails
  <1> QED
    BY <1>1, <1>2, <1>3, <1>4, <1>5 DEF HandleRequest

\* After the process is gone no request is in a stage.
LEMMA LostKeepsTypes ==
  ASSUME TypeInv, HandlersLost
  PROVE  TypeInv' /\ \A r \in Requests : stage'[r] = "idle"
PROOF
  <1>1. \A r \in Requests : stage'[r] = "idle"
    BY DEF HandlersLost
  <1>2. DirectoryTypeOK'
    BY LocalTypes
    DEF HandlersLost, TypeInv, DirectoryTypeOK, NoRoleWrite, NoUserWrite, Stages
  <1>3. StagesFit'
    BY <1>1, IdleFits DEF StagesFit
  <1> QED
    BY <1>1, <1>2, <1>3 DEF TypeInv

LEMMA InitTypes == DirectoryInit => TypeInv
PROOF
  <1> SUFFICES ASSUME DirectoryInit PROVE TypeInv
    OBVIOUS
  <1>1. DirectoryTypeOK
    BY LocalTypes, DirectoryAssumption DEF DirectoryInit, DirectoryTypeOK, Stages
  <1>2. StagesFit
    BY DEF DirectoryInit, StagesFit, StageFits, UpdateStages, DeleteStages
  <1> QED
    BY <1>1, <1>2 DEF TypeInv

\* Every step is one of a request, loses all handlers, or changes nothing.
LEMMA StepCases ==
  ASSUME TypeInv, [DirectoryNext(SUBSET Permissions)]_directoryVars
  PROVE  \/ \E r \in Requests : HandleRequest(r)
         \/ \E r \in Requests, caller \in SUBSET Permissions : ReceiveRequest(r, caller)
         \/ HandlersLost
         \/ UNCHANGED directoryVars
  BY DEF DirectoryNext, DeleteRoleUnhandled, DirectoryCrash

LEMMA StutterKeepsTypes ==
  ASSUME TypeInv, UNCHANGED directoryVars
  PROVE  TypeInv'
PROOF
  <1>1. DirectoryTypeOK'
    BY DEF TypeInv, DirectoryTypeOK, directoryVars
  <1>2. StagesFit'
    BY DEF TypeInv, StagesFit, StageFits, directoryVars
  <1> QED
    BY <1>1, <1>2 DEF TypeInv

LEMMA NextKeepsTypes ==
  ASSUME TypeInv, [DirectoryNext(SUBSET Permissions)]_directoryVars
  PROVE  TypeInv'
  BY StepCases, HandleKeepsTypes, ReceiveKeepsTypes, LostKeepsTypes,
     StutterKeepsTypes

LEMMA TypesHold == DirectorySpec => []TypeInv
PROOF
  <1>1. DirectoryInit => TypeInv
    BY InitTypes
  <1>2. TypeInv /\ [DirectoryNext(SUBSET Permissions)]_directoryVars => TypeInv'
    BY NextKeepsTypes
  <1> QED
    BY <1>1, <1>2, PTL DEF DirectorySpec

\* The collections hold documents of their schemas whatever the requests do at
\* the same time, and every handler, at every await, the values its next call
\* needs: no write puts a null or a document of the other collection in place.
THEOREM DirectoryTypeCorrect == DirectorySpec => []DirectoryTypeOK
PROOF
  <1>1. TypeInv => DirectoryTypeOK
    BY DEF TypeInv
  <1> QED
    BY <1>1, TypesHold, PTL

=============================================================================
