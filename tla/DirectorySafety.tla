-------------------------- MODULE DirectorySafety --------------------------
(***************************************************************************)
(* The safety properties of Directory for every instance.  What the locals *)
(* of a handler say of the collections is an invariant of that request     *)
(* alone, up to the documents it has not seen: the frame of DirectoryProofs *)
(* gives it for the steps of all the others, and the steps of the request  *)
(* itself are looked at one by one.                                        *)
(***************************************************************************)
EXTENDS DirectoryProofs

\* The name a handler is about to store was free when it looked.
NameFree(r) ==
  stage[r] \in {"create_save", "update_find", "update_write"} =>
    \A x \in RoleIds :
      /\ Live(x)
      /\ roles[x].role = local[r].body.role
      /\ x # local[r].id
      => x \in unseen[r]

\* The document that is to be written whole is the one that is stored.
FoundFits(r) ==
  /\ stage[r] = "update_write" =>
       \/ local[r].found = roles[local[r].id]
       \/ local[r].id \in unseen[r]
  /\ stage[r] = "user_write" =>
       \/ users[local[r].id].username # AdminName
       \/ local[r].id \in unseen[r]

\* The users that may still have the role, once the holders have been read.
ToWithdraw(r) ==
  CASE stage[r] \in {"delete_existing", "delete_replace"} -> local[r].holders
    [] stage[r] = "delete_withdraw" -> local[r].todo
    [] OTHER -> {}

Withdraws(r) ==
  stage[r] \in {"delete_existing", "delete_replace", "delete_withdraw",
                "delete_mark"} =>
    \A u \in UserIds \ unseen[r] :
      users[u] # None /\ local[r].id \in users[u].role => u \in ToWithdraw(r)

\* The operations were made of the roles that exist.
ExistingFits(r) ==
  stage[r] = "delete_replace" =>
    \A x \in RoleIds \ unseen[r] : Live(x) => x \in local[r].existing

\* The users that have not had their new roles yet.
ToGive(r) == IF stage[r] = "delete_replace" THEN local[r].todo ELSE {}

Replaces(r) ==
  stage[r] \in {"delete_replace", "delete_withdraw", "delete_mark"} =>
    \A u \in local[r].holders \ (unseen[r] \cup ToGive(r)) :
      \A x \in local[r].plan[u] \ (unseen[r] \cup {local[r].id}) :
        Live(x) => x \in users[u].role

HandlerInv(r) ==
  NameFree(r) /\ FoundFits(r) /\ Withdraws(r) /\ ExistingFits(r) /\ Replaces(r)

DirectoryInv == TypeInv /\ \A r \in Requests : HandlerInv(r)

-----------------------------------------------------------------------------
(* The steps of others. *)

\* A step that leaves request s where it is and whatever it writes unseen by s.
LeavesAlone(s) ==
  /\ stage'[s] = stage[s] /\ local'[s] = local[s]
  /\ unseen[s] \subseteq unseen'[s]
  /\ \A x \in RoleIds : x \notin unseen'[s] => roles'[x] = roles[x]
  /\ \A u \in UserIds : u \notin unseen'[s] => users'[u] = users[u]

LEMMA LeftAloneKeeps ==
  ASSUME TypeInv, NEW s \in Requests, LeavesAlone(s), HandlerInv(s)
  PROVE  HandlerInv(s)'
PROOF
  <1>1. /\ stage'[s] = stage[s] /\ local'[s] = local[s]
        /\ unseen[s] \subseteq unseen'[s]
    BY DEF LeavesAlone
  <1>2. /\ \A x \in RoleIds : x \notin unseen'[s] => roles'[x] = roles[x]
        /\ \A u \in UserIds : u \notin unseen'[s] => users'[u] = users[u]
    BY DEF LeavesAlone
  <1>3. /\ local[s] \in Local /\ StageFits(s)
        /\ local[s].holders \subseteq UserIds
        /\ \A u \in UserIds : local[s].plan[u] \subseteq RoleIds
    BY DEF TypeInv, DirectoryTypeOK, StagesFit, Local, Plan
  <1>4. \A x \in RoleIds \ unseen'[s] : x \notin unseen[s] /\ (Live(x)' <=> Live(x))
    BY <1>1, <1>2 DEF Live
  <1>5. NameFree(s)'
    BY <1>1, <1>2, <1>4 DEF HandlerInv, NameFree
  <1>6. FoundFits(s)'
    BY <1>1, <1>2, <1>3 DEF HandlerInv, FoundFits, StageFits, UpdateStages
  <1>7. Withdraws(s)'
    BY <1>1, <1>2 DEF HandlerInv, Withdraws, ToWithdraw
  <1>8. ExistingFits(s)'
    BY <1>1, <1>4 DEF HandlerInv, ExistingFits
  <1>9. Replaces(s)'
    <2> SUFFICES ASSUME stage'[s] \in {"delete_replace", "delete_withdraw", "delete_mark"},
                        NEW u \in local'[s].holders \ (unseen'[s] \cup ToGive(s)'),
                        NEW x \in local'[s].plan[u] \ (unseen'[s] \cup {local'[s].id}),
                        Live(x)'
                 PROVE  x \in users'[u].role
      BY DEF Replaces
    <2>1. u \in UserIds /\ x \in RoleIds /\ users'[u] = users[u] /\ Live(x)
      BY <1>1, <1>2, <1>3, <1>4
    <2>2. u \in local[s].holders \ (unseen[s] \cup ToGive(s))
      BY <1>1 DEF ToGive
    <2>3. x \in local[s].plan[u] \ (unseen[s] \cup {local[s].id})
      BY <1>1
    <2> QED
      BY <1>1, <2>1, <2>2, <2>3 DEF HandlerInv, Replaces
  <1> QED
    BY <1>5, <1>6, <1>7, <1>8, <1>9 DEF HandlerInv

LEMMA OthersKeep ==
  ASSUME TypeInv, NEW r \in Requests, Frame(r), NEW s \in Requests \ {r},
         HandlerInv(s)
  PROVE  HandlerInv(s)'
  BY LeftAloneKeeps DEF Frame, Moves, Marked, LeavesAlone

-----------------------------------------------------------------------------
(* The steps of the request itself. *)

\* What is asked of a handler depends on its stage.
LEMMA QuietStages ==
  ASSUME NEW r \in Requests,
         stage'[r] \in {"idle", "create_find", "update_duplicate", "delete_find",
                        "delete_holders", "user_find"}
  PROVE  HandlerInv(r)'
  BY DEF HandlerInv, NameFree, FoundFits, Withdraws, ExistingFits, Replaces

LEMMA AnswerKeeps ==
  ASSUME TypeInv, NEW r \in Requests, Answer(r)
  PROVE  HandlerInv(r)'
  BY AnswerMoves, QuietStages DEF TypeInv

LEMMA WritesLastKeeps ==
  ASSUME TypeInv, NEW r \in Requests, NEW d \in Documents, WritesLast(r, d)
  PROVE  HandlerInv(r)'
  BY WritesLastMoves, QuietStages DEF TypeInv

LEMMA CreateKeeps ==
  ASSUME TypeInv, NEW r \in Requests, CreateRoleStep(r)
  PROVE  HandlerInv(r)'
PROOF
  <1>1. ASSUME CreateRoleFind(r), RolesNamed(local[r].body.role, None) = {}
        PROVE  HandlerInv(r)'
    <2>1. /\ Advance(r, "create_save") /\ Reads(r, RoleIds) /\ Keep(r, local[r])
          /\ local[r] \in Local /\ roles' = roles
      BY <1>1, KeepsLocal DEF CreateRoleFind, NoRoleWrite
    <2>2. stage'[r] = "create_save" /\ local'[r] = local[r]
      BY <2>1, ReadMoves DEF Stages, WriteStages
    <2>3. \A x \in RoleIds : ~(Live(x) /\ roles[x].role = local[r].body.role)
      BY <1>1, DirectoryAssumption DEF RolesNamed
    <2>4. NameFree(r)'
      BY <2>1, <2>2, <2>3 DEF NameFree, Live
    <2> QED
      BY <2>2, <2>4 DEF HandlerInv, FoundFits, Withdraws, ExistingFits, Replaces
  <1>2. ASSUME CreateNewRole(r)
        PROVE  HandlerInv(r)'
    BY <1>2, WritesLastKeeps DEF CreateNewRole, TypeInv, DirectoryTypeOK, Documents
  <1> QED
    BY <1>1, <1>2, AnswerKeeps DEF CreateRoleStep, CreateRoleFind, CreateNewRoleFails

LEMMA UpdateKeeps ==
  ASSUME TypeInv, NEW r \in Requests, HandlerInv(r), UpdateRoleStep(r)
  PROVE  HandlerInv(r)'
PROOF
  <1> DEFINE x == local[r].id
             l == [local[r] EXCEPT !.found = roles[x]]
  <1>1. ASSUME UpdateRoleDuplicate(r), RolesNamed(local[r].body.role, x) = {}
        PROVE  HandlerInv(r)'
    <2>1. /\ Advance(r, "update_find") /\ Reads(r, RoleIds) /\ Keep(r, local[r])
          /\ local[r] \in Local /\ roles' = roles
      BY <1>1, KeepsLocal DEF UpdateRoleDuplicate, NoRoleWrite
    <2>2. stage'[r] = "update_find" /\ local'[r] = local[r]
      BY <2>1, ReadMoves DEF Stages, ReadStages
    <2>3. NameFree(r)'
      BY <1>1, <2>1, <2>2 DEF NameFree, Live, RolesNamed
    <2> QED
      BY <2>2, <2>3 DEF HandlerInv, FoundFits, Withdraws, ExistingFits, Replaces
  <1>2. ASSUME UpdateRoleFind(r), roles[x] # None
        PROVE  HandlerInv(r)'
    <2>1. /\ Advance(r, "update_write") /\ Reads(r, {x}) /\ Keep(r, l)
          /\ local[r] \in Local /\ stage[r] = "update_find" /\ roles' = roles
      BY <1>2, KeepsLocal DEF UpdateRoleFind, NoRoleWrite
    <2>2. x \in RoleIds
      BY <2>1 DEF TypeInv, StagesFit, StageFits, UpdateStages
    <2>3. roles[x] \in Role
      BY <1>2, <2>2 DEF TypeInv, DirectoryTypeOK
    <2>4. /\ l \in Local /\ l.id = x /\ l.found = roles[x]
          /\ l.body = local[r].body
      BY <2>1, <2>3 DEF Local
    <2> HIDE DEF l
    <2>5. /\ stage'[r] = "update_write" /\ local'[r] = l
          /\ unseen'[r] = unseen[r] \ {x}
      BY <2>1, <2>4, ReadMoves DEF Stages, WriteStages
    <2>6. NameFree(r)'
      BY <2>1, <2>4, <2>5 DEF HandlerInv, NameFree, Live
    <2>7. FoundFits(r)'
      BY <2>1, <2>4, <2>5 DEF FoundFits
    <2> QED
      BY <2>5, <2>6, <2>7 DEF HandlerInv, Withdraws, ExistingFits, Replaces
  <1>3. ASSUME FindRoleByIdAndUpdate(r)
        PROVE  HandlerInv(r)'
    <2>1. x \in RoleIds
      BY <1>3 DEF FindRoleByIdAndUpdate, TypeInv, StagesFit, StageFits, UpdateStages
    <2> QED
      BY <1>3, <2>1, WritesLastKeeps DEF FindRoleByIdAndUpdate, Documents
  <1> QED
    BY <1>1, <1>2, <1>3, AnswerKeeps
    DEF UpdateRoleStep, UpdateRoleDuplicate, UpdateRoleFind

LEMMA UserKeeps ==
  ASSUME TypeInv, NEW r \in Requests, UserStep(r)
  PROVE  HandlerInv(r)'
PROOF
  <1> DEFINE u == local[r].id
             l == [local[r] EXCEPT !.found = users[u]]
  <1>1. ASSUME UserFind(r), ~Answer(r)
        PROVE  HandlerInv(r)'
    <2>1. /\ Advance(r, "user_write") /\ Reads(r, {u}) /\ Keep(r, l)
          /\ local[r] \in Local /\ stage[r] = "user_find" /\ users' = users
          /\ users[u] # None /\ users[u].username # AdminName
      BY <1>1, KeepsLocal DEF UserFind, NoUserWrite, IsBuiltIn
    <2>2. u \in UserIds
      BY <2>1 DEF TypeInv, StagesFit, StageFits
    <2>3. users[u] \in User
      BY <2>1, <2>2 DEF TypeInv, DirectoryTypeOK
    <2>4. l \in Local /\ l.id = u
      BY <2>1, <2>3 DEF Local
    <2> HIDE DEF l
    <2>5. stage'[r] = "user_write" /\ local'[r] = l
      BY <2>1, <2>4, ReadMoves DEF Stages, WriteStages
    <2>6. FoundFits(r)'
      BY <2>1, <2>4, <2>5 DEF FoundFits
    <2> QED
      BY <2>5, <2>6 DEF HandlerInv, NameFree, Withdraws, ExistingFits, Replaces
  <1>2. ASSUME UpdateUser(r)
        PROVE  HandlerInv(r)'
    <2>1. u \in UserIds
      BY <1>2 DEF UpdateUser, TypeInv, StagesFit, StageFits
    <2> QED
      BY <1>2, <2>1, WritesLastKeeps, AnswerKeeps DEF UpdateUser, Documents
  <1> QED
    BY <1>1, <1>2, AnswerKeeps DEF UserStep

\* What each step of the deletion leaves in the locals and the marks.
LEMMA HoldersStep ==
  ASSUME TypeInv, NEW r \in Requests, DeleteRoleHolders(r)
  PROVE  /\ local'[r].id = local[r].id
         /\ local'[r].holders = Holders(local[r].id)
         /\ local'[r].plan = local[r].plan
         /\ \/ stage'[r] = "delete_existing"
            \/ /\ stage'[r] = "delete_withdraw"
               /\ local[r].plan = NoPlan
               /\ local'[r].todo = Holders(local[r].id)
         /\ users' = users /\ roles' = roles
PROOF
  <1>1. local[r] \in Local /\ DirectoryTypeOK
    BY KeepsLocal DEF TypeInv
  <1>2. users' = users /\ roles' = roles
    BY DEF DeleteRoleHolders, NoUserWrite, NoRoleWrite
  <1> DEFINE holders == Holders(local[r].id)
             here == [local[r] EXCEPT !.holders = holders, !.todo = holders]
             there == [local[r] EXCEPT !.holders = holders]
  <1>3. holders \in SUBSET UserIds
    BY DEF Holders
  <1>4. \/ Keep(r, here) /\ Advance(r, "delete_withdraw") /\ local[r].plan = NoPlan
        \/ Keep(r, there) /\ Advance(r, "delete_existing")
    BY DEF DeleteRoleHolders
  <1> HIDE DEF holders
  <1>5. /\ here \in Local /\ here.id = local[r].id /\ here.holders = holders
        /\ here.todo = holders /\ here.plan = local[r].plan
        /\ there \in Local /\ there.id = local[r].id /\ there.holders = holders
        /\ there.plan = local[r].plan
    BY <1>1, <1>3 DEF Local
  <1> HIDE DEF here, there
  <1>6. \/ /\ local'[r] = here /\ stage'[r] = "delete_withdraw"
           /\ local[r].plan = NoPlan
        \/ local'[r] = there /\ stage'[r] = "delete_existing"
    BY <1>1, <1>4, <1>5, Control DEF Stages, ReadStages, WriteStages
  <1> QED
    BY <1>2, <1>5, <1>6 DEF holders

LEMMA HoldersKeeps ==
  ASSUME TypeInv, NEW r \in Requests, DeleteRoleHolders(r)
  PROVE  HandlerInv(r)'
PROOF
  <1>1. Withdraws(r)'
    BY HoldersStep DEF Withdraws, ToWithdraw, Holders
  <1>2. Replaces(r)'
    <2> SUFFICES ASSUME local[r].plan = NoPlan, local'[r].plan = NoPlan
                 PROVE  Replaces(r)'
      BY HoldersStep DEF Replaces
    <2>1. local'[r].holders \subseteq UserIds
      BY HoldersStep DEF Holders
    <2> QED
      BY <2>1 DEF Replaces, NoPlan
  <1> QED
    BY <1>1, <1>2, HoldersStep DEF HandlerInv, NameFree, FoundFits, ExistingFits

LEMMA ExistingStep ==
  ASSUME TypeInv, NEW r \in Requests, DeleteRoleExisting(r)
  PROVE  /\ stage[r] = "delete_existing"
         /\ local'[r].id = local[r].id
         /\ local'[r].holders = local[r].holders
         /\ local'[r].plan = local[r].plan
         /\ local'[r].existing = ExistingRoles
         /\ \/ /\ stage'[r] = "delete_replace"
               /\ local'[r].todo = ToReplace(r)
            \/ /\ stage'[r] = "delete_withdraw"
               /\ ToReplace(r) = {}
               /\ local'[r].todo = local[r].holders
         /\ unseen'[r] = unseen[r] \ RoleIds
         /\ users' = users /\ roles' = roles
PROOF
  <1>1. local[r] \in Local /\ DirectoryTypeOK
    BY KeepsLocal DEF TypeInv
  <1>2. /\ users' = users /\ roles' = roles /\ stage[r] = "delete_existing"
        /\ Reads(r, RoleIds)
    BY DEF DeleteRoleExisting, NoUserWrite, NoRoleWrite
  <1>3. unseen'[r] = unseen[r] \ RoleIds
    BY <1>1, <1>2, Marks
  <1>4. PICK todo \in SUBSET UserIds :
          /\ Keep(r, [local[r] EXCEPT !.existing = ExistingRoles, !.todo = todo])
          /\ \/ Advance(r, "delete_replace") /\ todo = ToReplace(r)
             \/ /\ Advance(r, "delete_withdraw")
                /\ ToReplace(r) = {} /\ todo = local[r].holders
    <2>1. local[r].holders \in SUBSET UserIds /\ ToReplace(r) \in SUBSET UserIds
      BY <1>1 DEF Local, ToReplace
    <2> QED
      BY <2>1 DEF DeleteRoleExisting
  <1> DEFINE l == [local[r] EXCEPT !.existing = ExistingRoles, !.todo = todo]
  <1>5. /\ l \in Local /\ l.id = local[r].id /\ l.holders = local[r].holders
        /\ l.plan = local[r].plan /\ l.existing = ExistingRoles /\ l.todo = todo
    <2>1. ExistingRoles \in SUBSET RoleIds
      BY DEF ExistingRoles
    <2> QED
      BY <1>1, <1>4, <2>1 DEF Local
  <1>6. Keep(r, l)
    BY <1>4
  <1> HIDE DEF l
  <1>7. /\ local'[r] = l
        /\ \/ stage'[r] = "delete_replace" /\ todo = ToReplace(r)
           \/ /\ stage'[r] = "delete_withdraw"
              /\ ToReplace(r) = {} /\ todo = local[r].holders
    BY <1>1, <1>4, <1>5, <1>6, Control DEF Stages, WriteStages
  <1> QED
    BY <1>2, <1>3, <1>5, <1>7

LEMMA ExistingKeeps ==
  ASSUME TypeInv, NEW r \in Requests, HandlerInv(r), DeleteRoleExisting(r)
  PROVE  HandlerInv(r)'
PROOF
  <1>1. Withdraws(r)'
    <2> SUFFICES ASSUME NEW u \in UserIds \ unseen'[r], users'[u] # None,
                        local'[r].id \in users'[u].role
                 PROVE  u \in ToWithdraw(r)'
      BY DEF Withdraws
    <2>1. u \notin unseen[r]
      BY ExistingStep, DirectoryAssumption
    <2>2. u \in local[r].holders
      BY <2>1, ExistingStep DEF HandlerInv, Withdraws, ToWithdraw
    <2> QED
      BY <2>2, ExistingStep DEF ToWithdraw
  <1>2. ExistingFits(r)'
    BY ExistingStep DEF ExistingFits, ExistingRoles, Live
  <1>3. Replaces(r)'
    <2> SUFFICES ASSUME NEW u \in local'[r].holders \ (unseen'[r] \cup ToGive(r)')
                 PROVE  local'[r].plan[u] = {}
      BY DEF Replaces
    <2>1. u \notin ToReplace(r)
      BY ExistingStep DEF ToGive
    <2> QED
      BY <2>1, ExistingStep DEF ToReplace
  <1> QED
    BY <1>1, <1>2, <1>3, ExistingStep DEF HandlerInv, NameFree, FoundFits

\* What the write of one user leaves behind.
UserWrittenBy(r, u, held) ==
  /\ stage'[r] = stage[r]
  /\ local'[r].id = local[r].id
  /\ local'[r].holders = local[r].holders
  /\ local'[r].plan = local[r].plan
  /\ local'[r].existing = local[r].existing
  /\ local'[r].todo = local[r].todo \ {u}
  /\ unseen'[r] = unseen[r]
  /\ roles' = roles
  /\ users'[u].role = held
  /\ \A v \in UserIds \ {u} : users'[v] = users[v]

\* One user of a bulk write.
LEMMA UserByUserStep ==
  ASSUME TypeInv, NEW r \in Requests, NEW u \in local[r].todo,
         stage[r] \in {"delete_replace", "delete_withdraw"},
         NEW held \in SUBSET RoleIds, users' = [users EXCEPT ![u].role = held],
         Keep(r, [local[r] EXCEPT !.todo = @ \ {u}]),
         Writes(r, u), UNCHANGED stage, NoRoleWrite
  PROVE  UserWrittenBy(r, u, held)
PROOF
  <1>1. local[r] \in Local /\ DirectoryTypeOK
    BY KeepsLocal DEF TypeInv
  <1>2. /\ \A v \in local[r].holders : users[v] # None
        /\ local[r].todo \subseteq local[r].holders
    BY DEF TypeInv, StagesFit, StageFits
  <1>3. u \in UserIds /\ users[u] \in User
    BY <1>1, <1>2 DEF DirectoryTypeOK, Local
  <1> DEFINE l == [local[r] EXCEPT !.todo = @ \ {u}]
  <1>4. /\ l \in Local /\ l.id = local[r].id /\ l.holders = local[r].holders
        /\ l.plan = local[r].plan /\ l.existing = local[r].existing
        /\ l.todo = local[r].todo \ {u}
    BY <1>1 DEF Local
  <1> HIDE DEF l
  <1>5. local'[r] = l
    BY <1>1, <1>4, Control DEF l
  <1>6. unseen'[r] = unseen[r]
    BY <1>1, <1>3, Marks DEF Documents
  <1>7. users'[u].role = held /\ \A v \in UserIds \ {u} : users'[v] = users[v]
    BY <1>1, <1>3 DEF DirectoryTypeOK, User
  <1> QED
    BY <1>2, <1>3, <1>4, <1>5, <1>6, <1>7 DEF NoRoleWrite, UserWrittenBy

\* A bulk write has reached all its users.
LEMMA BulkEnds ==
  ASSUME TypeInv, NEW r \in Requests, NEW next \in Stages,
         NEW todo \in {local[r].todo, local[r].holders},
         Keep(r, [local[r] EXCEPT !.todo = todo]), Advance(r, next),
         UNCHANGED unseen, NoRoleWrite, NoUserWrite
  PROVE  /\ stage'[r] = next
         /\ local'[r].id = local[r].id
         /\ local'[r].holders = local[r].holders
         /\ local'[r].plan = local[r].plan
         /\ local'[r].todo = todo
         /\ unseen' = unseen
         /\ roles' = roles /\ users' = users
PROOF
  <1>1. local[r] \in Local /\ DirectoryTypeOK
    BY KeepsLocal DEF TypeInv
  <1> DEFINE l == [local[r] EXCEPT !.todo = todo]
  <1>2. /\ l \in Local /\ l.id = local[r].id /\ l.holders = local[r].holders
        /\ l.plan = local[r].plan /\ l.todo = todo
    BY <1>1 DEF Local
  <1> HIDE DEF l
  <1>3. local'[r] = l /\ stage'[r] = next
    BY <1>1, <1>2, Control DEF l
  <1> QED
    BY <1>2, <1>3 DEF NoRoleWrite, NoUserWrite

LEMMA ReplaceKeeps ==
  ASSUME TypeInv, NEW r \in Requests, HandlerInv(r), BulkUpdateUserRoles(r)
  PROVE  HandlerInv(r)'
PROOF
  <1>1. /\ local[r] \in Local /\ stage[r] = "delete_replace" /\ NoRoleWrite
        /\ local[r].todo \subseteq local[r].holders
        /\ users \in [UserIds -> User \cup {None}]
        /\ \A u \in local[r].holders : users[u] # None
    BY KeepsLocal
    DEF BulkUpdateUserRoles, TypeInv, StagesFit, StageFits, DirectoryTypeOK
  <1>2. /\ local[r].holders \subseteq UserIds
        /\ \A u \in UserIds : local[r].plan[u] \subseteq RoleIds
    BY <1>1 DEF Local, Plan
  <1>3. ASSUME NEW u \in local[r].todo,
               users' = [users EXCEPT ![u].role =
                           @ \cup (local[r].plan[u] \cap local[r].existing)],
               Keep(r, [local[r] EXCEPT !.todo = @ \ {u}]),
               Writes(r, u), UNCHANGED stage
        PROVE  HandlerInv(r)'
    <2> DEFINE held == users[u].role \cup (local[r].plan[u] \cap local[r].existing)
    <2>1. u \in UserIds /\ users[u] \in User
      BY <1>1, <1>2
    <2>2. held \in SUBSET RoleIds
      BY <1>2, <2>1 DEF User
    <2>3. users' = [users EXCEPT ![u].role = held]
      BY <1>1, <1>3, <2>1 DEF User
    <2>4. held = users[u].role \cup (local[r].plan[u] \cap local[r].existing)
      OBVIOUS
    <2> HIDE DEF held
    <2>5. /\ stage'[r] = "delete_replace"
          /\ local'[r].id = local[r].id
          /\ local'[r].holders = local[r].holders
          /\ local'[r].plan = local[r].plan
          /\ local'[r].existing = local[r].existing
          /\ local'[r].todo = local[r].todo \ {u}
          /\ unseen'[r] = unseen[r]
          /\ roles' = roles
          /\ users'[u].role = held
          /\ \A v \in UserIds \ {u} : users'[v] = users[v]
      <3>1. stage[r] \in {"delete_replace", "delete_withdraw"} /\ NoRoleWrite
        BY <1>1
      <3>2. UserWrittenBy(r, u, held)
        BY <1>3, <2>2, <2>3, <3>1, UserByUserStep
      <3> QED
        BY <1>1, <3>2 DEF UserWrittenBy
    <2>6. Withdraws(r)'
      <3> SUFFICES ASSUME NEW v \in UserIds \ unseen'[r], users'[v] # None,
                          local'[r].id \in users'[v].role
                   PROVE  v \in local[r].holders
        BY <2>5 DEF Withdraws, ToWithdraw
      <3>1. CASE v = u
        BY <3>1, <1>1
      <3>2. CASE v # u
        BY <3>2, <1>1, <2>5 DEF HandlerInv, Withdraws, ToWithdraw
      <3> QED
        BY <3>1, <3>2
    <2>7. ExistingFits(r)'
      BY <1>1, <2>5 DEF HandlerInv, ExistingFits, Live
    <2>8. Replaces(r)'
      <3> SUFFICES ASSUME NEW v \in local[r].holders \ unseen[r],
                          v \notin local[r].todo \ {u},
                          NEW x \in local[r].plan[v] \ (unseen[r] \cup {local[r].id}),
                          Live(x)
                   PROVE  x \in users'[v].role
        BY <2>5 DEF Replaces, ToGive, Live
      <3>1. CASE v = u
        BY <3>1, <1>1, <1>2, <2>1, <2>4, <2>5 DEF HandlerInv, ExistingFits
      <3>2. CASE v # u
        BY <3>2, <1>1, <1>2, <2>5 DEF HandlerInv, Replaces, ToGive
      <3> QED
        BY <3>1, <3>2
    <2> QED
      BY <2>5, <2>6, <2>7, <2>8 DEF HandlerInv, NameFree, FoundFits
  <1>4. ASSUME local[r].todo = {},
               Keep(r, [local[r] EXCEPT !.todo = local[r].holders]),
               Advance(r, "delete_withdraw"), NoUserWrite, UNCHANGED unseen
        PROVE  HandlerInv(r)'
    <2>1. /\ stage'[r] = "delete_withdraw"
          /\ local'[r].id = local[r].id
          /\ local'[r].holders = local[r].holders
          /\ local'[r].plan = local[r].plan
          /\ local'[r].todo = local[r].holders
          /\ unseen' = unseen
          /\ roles' = roles /\ users' = users
      <3>1. "delete_withdraw" \in Stages
        BY DEF Stages, WriteStages
      <3> QED
        BY <1>1, <1>4, <3>1, BulkEnds
    <2>2. Withdraws(r)'
      BY <1>1, <2>1 DEF HandlerInv, Withdraws, ToWithdraw
    <2>3. Replaces(r)'
      BY <1>1, <1>4, <2>1 DEF HandlerInv, Replaces, ToGive, Live
    <2> QED
      BY <2>1, <2>2, <2>3 DEF HandlerInv, NameFree, FoundFits, ExistingFits
  <1> QED
    BY <1>3, <1>4 DEF BulkUpdateUserRoles

LEMMA WithdrawKeeps ==
  ASSUME TypeInv, NEW r \in Requests, HandlerInv(r), DeleteRoleFromUsers(r)
  PROVE  HandlerInv(r)'
PROOF
  <1>1. /\ local[r] \in Local /\ stage[r] = "delete_withdraw" /\ NoRoleWrite
        /\ local[r].todo \subseteq local[r].holders
        /\ users \in [UserIds -> User \cup {None}]
        /\ \A u \in local[r].holders : users[u] # None
    BY KeepsLocal
    DEF DeleteRoleFromUsers, TypeInv, StagesFit, StageFits, DirectoryTypeOK
  <1>2. local[r].holders \subseteq UserIds
    BY <1>1 DEF Local
  <1>3. ASSUME NEW u \in local[r].todo,
               users' = [users EXCEPT ![u].role = @ \ {local[r].id}],
               Keep(r, [local[r] EXCEPT !.todo = @ \ {u}]),
               Writes(r, u), UNCHANGED stage
        PROVE  HandlerInv(r)'
    <2> DEFINE held == users[u].role \ {local[r].id}
    <2>1. u \in UserIds /\ users[u] \in User
      BY <1>1, <1>2
    <2>2. held \in SUBSET RoleIds
      BY <2>1 DEF User
    <2>3. users' = [users EXCEPT ![u].role = held]
      BY <1>1, <1>3, <2>1 DEF User
    <2>4. held = users[u].role \ {local[r].id}
      OBVIOUS
    <2> HIDE DEF held
    <2>5. /\ stage'[r] = "delete_withdraw"
          /\ local'[r].id = local[r].id
          /\ local'[r].holders = local[r].holders
          /\ local'[r].plan = local[r].plan
          /\ local'[r].todo = local[r].todo \ {u}
          /\ unseen'[r] = unseen[r]
          /\ roles' = roles
          /\ users'[u].role = held
          /\ \A v \in UserIds \ {u} : users'[v] = users[v]
      <3>1. stage[r] \in {"delete_replace", "delete_withdraw"} /\ NoRoleWrite
        BY <1>1
      <3>2. UserWrittenBy(r, u, held)
        BY <1>3, <2>2, <2>3, <3>1, UserByUserStep
      <3> QED
        BY <1>1, <3>2 DEF UserWrittenBy
    <2>6. Withdraws(r)'
      <3> SUFFICES ASSUME NEW v \in UserIds \ unseen'[r], users'[v] # None,
                          local'[r].id \in users'[v].role
                   PROVE  v \in local[r].todo \ {u}
        BY <2>5 DEF Withdraws, ToWithdraw
      <3>1. v # u
        BY <2>4, <2>5
      <3> QED
        BY <3>1, <1>1, <2>5 DEF HandlerInv, Withdraws, ToWithdraw
    <2>7. Replaces(r)'
      <3> SUFFICES ASSUME NEW v \in local[r].holders \ unseen[r],
                          NEW x \in local[r].plan[v] \ (unseen[r] \cup {local[r].id}),
                          Live(x)
                   PROVE  x \in users'[v].role
        BY <2>5 DEF Replaces, ToGive, Live
      <3>1. x \in users[v].role
        BY <1>1 DEF HandlerInv, Replaces, ToGive
      <3> QED
        BY <3>1, <1>2, <2>4, <2>5
    <2> QED
      BY <2>5, <2>6, <2>7 DEF HandlerInv, NameFree, FoundFits, ExistingFits
  <1>4. ASSUME local[r].todo = {}, Advance(r, "delete_mark"), NoUserWrite,
               UNCHANGED <<local, unseen>>
        PROVE  HandlerInv(r)'
    <2>1. /\ stage'[r] = "delete_mark" /\ local' = local /\ unseen' = unseen
          /\ roles' = roles /\ users' = users
      BY <1>1, <1>4, Control DEF TypeInv, Stages, WriteStages, NoRoleWrite, NoUserWrite
    <2>2. Withdraws(r)'
      BY <1>1, <1>4, <2>1 DEF HandlerInv, Withdraws, ToWithdraw
    <2>3. Replaces(r)'
      BY <1>1, <2>1 DEF HandlerInv, Replaces, ToGive, Live
    <2> QED
      BY <2>1, <2>2, <2>3 DEF HandlerInv, NameFree, FoundFits, ExistingFits
  <1> QED
    BY <1>3, <1>4 DEF DeleteRoleFromUsers

LEMMA DeleteKeeps ==
  ASSUME TypeInv, NEW r \in Requests, HandlerInv(r), DeleteRoleStep(r)
  PROVE  HandlerInv(r)'
PROOF
  <1>1. CASE DeleteRoleFind(r)
    <2>1. Answer(r) \/ Advance(r, "delete_holders")
      BY <1>1 DEF DeleteRoleFind
    <2>2. CASE Advance(r, "delete_holders")
      BY <2>2, Control, QuietStages DEF TypeInv, Stages, ReadStages
    <2> QED
      BY <2>1, <2>2, AnswerKeeps
  <1>2. CASE DeleteRoleMark(r)
    <2>1. local[r].id \in RoleIds
      BY <1>2 DEF DeleteRoleMark, TypeInv, StagesFit, StageFits, DeleteStages
    <2> QED
      BY <1>2, <2>1, WritesLastKeeps DEF DeleteRoleMark, Documents
  <1> QED
    BY <1>1, <1>2, HoldersKeeps, ExistingKeeps, ReplaceKeeps, WithdrawKeeps
    DEF DeleteRoleStep

LEMMA HandleKeeps ==
  ASSUME TypeInv, NEW r \in Requests, HandlerInv(r), HandleRequest(r)
  PROVE  HandlerInv(r)'
  BY CreateKeeps, UpdateKeeps, DeleteKeeps, UserKeeps, AnswerKeeps
  DEF HandleRequest, RequestFails

\* A request that arrives has read nothing yet.
LEMMA ReceiveKeeps ==
  ASSUME TypeInv, NEW r \in Requests, NEW caller, ReceiveRequest(r, caller)
  PROVE  HandlerInv(r)'
PROOF
  <1>1. PICK next \in {"create_find", "update_duplicate", "delete_find", "user_find"} :
          Advance(r, next)
    BY DEF ReceiveRequest, PostRole, PatchRole, PatchRoleDelete, PatchUser,
           PatchWholeUser, Begin
  <1> QED
    BY <1>1, Control, QuietStages DEF TypeInv, Stages, ReadStages

-----------------------------------------------------------------------------
(* The invariant. *)

LEMMA NextKeepsInv ==
  ASSUME DirectoryInv, [DirectoryNext(SUBSET Permissions)]_directoryVars
  PROVE  DirectoryInv'
PROOF
  <1>1. TypeInv /\ TypeInv'
    BY NextKeepsTypes DEF DirectoryInv
  <1>2. ASSUME NEW r \in Requests, HandleRequest(r)
        PROVE  \A s \in Requests : HandlerInv(s)'
    BY <1>1, <1>2, HandleKeepsTypes, HandleKeeps, OthersKeep DEF DirectoryInv
  <1>3. ASSUME NEW r \in Requests, NEW caller \in SUBSET Permissions,
               ReceiveRequest(r, caller)
        PROVE  \A s \in Requests : HandlerInv(s)'
    BY <1>1, <1>3, ReceiveKeepsTypes, ReceiveKeeps, OthersKeep DEF DirectoryInv
  <1>4. ASSUME HandlersLost
        PROVE  \A s \in Requests : HandlerInv(s)'
    BY <1>1, <1>4, LostKeepsTypes, QuietStages
  <1>5. ASSUME UNCHANGED directoryVars, NEW s \in Requests
        PROVE  HandlerInv(s)'
    <2>1. HandlerInv(s)
      BY DEF DirectoryInv
    <2> QED
      BY <1>5, <2>1
      DEF directoryVars, HandlerInv, NameFree, FoundFits, Withdraws, ToWithdraw,
          ExistingFits, Replaces, ToGive, Live
  <1> QED
    BY <1>1, <1>2, <1>3, <1>4, <1>5, StepCases DEF DirectoryInv

LEMMA StartFits == DirectoryInit => DirectoryInv
  BY InitTypes
  DEF DirectoryInit, DirectoryInv, HandlerInv, NameFree, FoundFits, Withdraws,
      ExistingFits, Replaces

LEMMA DirectoryInvHolds == DirectorySpec => []DirectoryInv
PROOF
  <1>1. DirectoryInv /\ [DirectoryNext(SUBSET Permissions)]_directoryVars
        => DirectoryInv'
    BY NextKeepsInv
  <1> QED
    BY <1>1, StartFits, PTL DEF DirectorySpec

\* A role marked deleted has been withdrawn from every user, but for those
\* that another request wrote after deleteRole read the users with the role,
\* for every plan and every number of requests at the same time.
THEOREM DeletionWithdraws == DirectorySpec => []DeletedRoleIsWithdrawn
PROOF
  <1>1. DirectoryInv => DeletedRoleIsWithdrawn
    BY DEF DirectoryInv, HandlerInv, Withdraws, ToWithdraw, DeletedRoleIsWithdrawn
  <1> QED
    BY <1>1, DirectoryInvHolds, PTL

\* The holders deleteRole read have the roles of the plan that are still there
\* when it marks the role deleted, up to what others wrote since.
THEOREM DeletionReplaces == DirectorySpec => []ReplacementsAreGiven
PROOF
  <1>1. DirectoryInv => ReplacementsAreGiven
    BY DEF DirectoryInv, HandlerInv, Replaces, ToGive, ReplacementsAreGiven
  <1> QED
    BY <1>1, DirectoryInvHolds, PTL

\* The name createRole or updateRole is about to store was no other role's when
\* it looked for duplicates: only a concurrent write can give it to two.
THEOREM DuplicateChecksHold == DirectorySpec => []DuplicateCheckSawNoRole
PROOF
  <1>1. DirectoryInv => DuplicateCheckSawNoRole
    BY DEF DirectoryInv, HandlerInv, NameFree, DuplicateCheckSawNoRole
  <1> QED
    BY <1>1, DirectoryInvHolds, PTL

-----------------------------------------------------------------------------
(* What a step may not do. *)

\* The writes of roles that exist: of one role, by an update or a deletion.
LEMMA RoleWrites ==
  ASSUME DirectoryInv, NEW r \in Requests, HandleRequest(r),
         NEW x \in RoleIds, roles[x] # None, roles'[x] # roles[x]
  PROVE  /\ x = local[r].id
         /\ \/ roles'[x].is_delete = TRUE
            \/ /\ stage[r] = "update_write"
               /\ roles'[x] = UpdatedRole(local[r].found, local[r].body)
PROOF
  <1>1. DirectoryTypeOK /\ roles[x] \in Role
    BY DEF DirectoryInv, TypeInv, DirectoryTypeOK
  <1>2. CASE CreateNewRole(r)
    BY <1>1, <1>2 DEF CreateNewRole, DirectoryTypeOK
  <1>3. CASE FindRoleByIdAndUpdate(r)
    BY <1>1, <1>3 DEF FindRoleByIdAndUpdate, DirectoryTypeOK
  <1>4. CASE DeleteRoleMark(r)
    BY <1>1, <1>4 DEF DeleteRoleMark, DirectoryTypeOK, Role
  <1> QED
    BY <1>2, <1>3, <1>4
    DEF HandleRequest, CreateRoleStep, CreateRoleFind, CreateNewRoleFails,
        UpdateRoleStep, UpdateRoleDuplicate, UpdateRoleFind, DeleteRoleStep,
        DeleteRoleFind, DeleteRoleHolders, DeleteRoleExisting, BulkUpdateUserRoles,
        DeleteRoleFromUsers, UserStep, UserFind, UpdateUser, RequestFails, NoRoleWrite

\* Steps that are not of a handler write nothing.
LEMMA OthersWriteNothing ==
  ASSUME TypeInv, [DirectoryNext(SUBSET Permissions)]_directoryVars,
         \A r \in Requests : ~HandleRequest(r)
  PROVE  roles' = roles /\ users' = users
  BY StepCases
  DEF ReceiveRequest, PostRole, PatchRole, PatchRoleDelete, PatchUser,
      PatchWholeUser, Begin, HandlersLost, NoRoleWrite, NoUserWrite, directoryVars

ComesBackByUpdate(x) ==
  /\ roles[x] # None
  /\ roles[x].is_delete
  /\ ~roles'[x].is_delete
  => \E r \in Requests :
       /\ stage[r] = "update_write"
       /\ local[r].id = x
       /\ local[r].body.is_delete = FALSE \/ x \in unseen[r]

LEMMA RoleComesBackByUpdate ==
  ASSUME DirectoryInv, [DirectoryNext(SUBSET Permissions)]_directoryVars,
         NEW x \in RoleIds
  PROVE  ComesBackByUpdate(x)
PROOF
  <1> SUFFICES ASSUME roles[x] # None, roles[x].is_delete, ~roles'[x].is_delete
               PROVE  \E r \in Requests :
                        /\ stage[r] = "update_write"
                        /\ local[r].id = x
                        /\ local[r].body.is_delete = FALSE \/ x \in unseen[r]
    BY DEF ComesBackByUpdate
  <1>1. PICK r \in Requests : HandleRequest(r)
    BY OthersWriteNothing DEF DirectoryInv
  <1>2. /\ stage[r] = "update_write" /\ x = local[r].id
        /\ roles'[x] = UpdatedRole(local[r].found, local[r].body)
    BY <1>1, RoleWrites
  <1>3. /\ local[r].body.is_delete \in BOOLEAN \cup {None}
        /\ roles'[x].is_delete =
             Given(local[r].body.is_delete, local[r].found.is_delete)
    BY <1>2
    DEF DirectoryInv, TypeInv, DirectoryTypeOK, Local, RoleChange, UpdatedRole
  <1>4. local[r].found = roles[x] \/ x \in unseen[r]
    BY <1>2 DEF DirectoryInv, HandlerInv, FoundFits
  <1>5. CASE local[r].body.is_delete = None
    BY <1>2, <1>3, <1>4, <1>5 DEF Given
  <1>6. CASE local[r].body.is_delete # None
    BY <1>2, <1>3, <1>6 DEF Given
  <1> QED
    BY <1>5, <1>6

\* A deleted role comes back only by an update that asks for it, or by one that
\* read the role before its deletion and writes back is_delete with the rest.
THEOREM DeletedRolesStay == DirectorySpec => DeletedRoleComesBackByUpdate
PROOF
  <1>1. DirectoryInv /\ [DirectoryNext(SUBSET Permissions)]_directoryVars
        => [\A x \in RoleIds : ComesBackByUpdate(x)]_directoryVars
    BY RoleComesBackByUpdate
  <1> QED
    BY <1>1, DirectoryInvHolds, PTL
    DEF DirectorySpec, DeletedRoleComesBackByUpdate, ComesBackByUpdate

\* The writes of users by a step of a handler.
LEMMA UserWrites ==
  ASSUME NEW r \in Requests, HandleRequest(r), users' # users
  PROVE  BulkUpdateUserRoles(r) \/ DeleteRoleFromUsers(r) \/ UpdateUser(r)
  BY DEF HandleRequest, CreateRoleStep, CreateRoleFind, CreateNewRole,
         CreateNewRoleFails, UpdateRoleStep, UpdateRoleDuplicate, UpdateRoleFind,
         FindRoleByIdAndUpdate, DeleteRoleStep, DeleteRoleFind, DeleteRoleHolders,
         DeleteRoleExisting, DeleteRoleMark, UserStep, UserFind, RequestFails,
         NoUserWrite

BuiltInWriter(r, u) ==
  \/ /\ stage[r] \in {"delete_replace", "delete_withdraw"}
     /\ u \in local[r].todo
     /\ users'[u] = [users[u] EXCEPT !.role = users'[u].role]
  \/ /\ stage[r] = "user_write"
     /\ u = local[r].id
     /\ u \in unseen[r]

BuiltInIsKept(u) ==
  /\ users[u] # None
  /\ users[u].username = AdminName
  /\ users'[u] # users[u]
  => \E r \in Requests : BuiltInWriter(r, u)

\* A bulk write that changes user u has u among those it has yet to write,
\* and changes its roles alone.
LEMMA BulkWritesRoles ==
  ASSUME users \in [UserIds -> User \cup {None}],
         NEW r \in Requests, NEW u \in UserIds, users[u] \in User,
         NEW v \in local[r].todo, NEW rights,
         users' = [users EXCEPT ![v].role = rights],
         users'[u] # users[u]
  PROVE  /\ u \in local[r].todo
         /\ users'[u] = [users[u] EXCEPT !.role = users'[u].role]
PROOF
  <1>1. u = v
    OBVIOUS
  <1>2. users'[u] = [users[u] EXCEPT !.role = rights]
    BY <1>1
  <1> QED
    BY <1>1, <1>2 DEF User

LEMMA BuiltInStepKeeps ==
  ASSUME DirectoryInv, [DirectoryNext(SUBSET Permissions)]_directoryVars,
         NEW u \in UserIds
  PROVE  BuiltInIsKept(u)
PROOF
  <1> SUFFICES ASSUME users[u] # None, users[u].username = AdminName,
                      users'[u] # users[u]
               PROVE  \E r \in Requests : BuiltInWriter(r, u)
    BY DEF BuiltInIsKept
  <1>1. PICK r \in Requests : HandleRequest(r)
    BY OthersWriteNothing DEF DirectoryInv
  <1>2. users \in [UserIds -> User \cup {None}] /\ users[u] \in User
    BY DEF DirectoryInv, TypeInv, DirectoryTypeOK
  <1>3. CASE BulkUpdateUserRoles(r)
    <2>1. PICK v \in local[r].todo :
            users' = [users EXCEPT ![v].role =
                        @ \cup (local[r].plan[v] \cap local[r].existing)]
      BY <1>3 DEF BulkUpdateUserRoles, NoUserWrite
    <2> DEFINE rights == users[v].role \cup (local[r].plan[v] \cap local[r].existing)
    <2>2. users' = [users EXCEPT ![v].role = rights]
      BY <2>1
    <2> HIDE DEF rights
    <2> QED
      BY <1>2, <1>3, <2>2, BulkWritesRoles DEF BulkUpdateUserRoles, BuiltInWriter
  <1>4. CASE DeleteRoleFromUsers(r)
    <2>1. PICK v \in local[r].todo :
            users' = [users EXCEPT ![v].role = @ \ {local[r].id}]
      BY <1>4 DEF DeleteRoleFromUsers, NoUserWrite
    <2> DEFINE rights == users[v].role \ {local[r].id}
    <2>2. users' = [users EXCEPT ![v].role = rights]
      BY <2>1
    <2> HIDE DEF rights
    <2> QED
      BY <1>2, <1>4, <2>2, BulkWritesRoles DEF DeleteRoleFromUsers, BuiltInWriter
  <1>5. CASE UpdateUser(r)
    <2>1. stage[r] = "user_write"
      BY <1>5 DEF UpdateUser
    <2>2. u = local[r].id
      BY <1>2, <1>5, <2>1 DEF UpdateUser, NoUserWrite
    <2>3. u \in unseen[r]
      BY <2>1, <2>2 DEF DirectoryInv, HandlerInv, FoundFits
    <2> QED
      BY <2>1, <2>2, <2>3 DEF BuiltInWriter
  <1> QED
    BY <1>1, <1>3, <1>4, <1>5, UserWrites

\* The built-in account changes only in its roles, as a holder of a role
\* under deletion, or by an update of it that looked at it before it had the
\* name of that account.
THEOREM BuiltInAccountStays == DirectorySpec => BuiltInAccountIsKept
PROOF
  <1>1. DirectoryInv /\ [DirectoryNext(SUBSET Permissions)]_directoryVars
        => [\A u \in UserIds : BuiltInIsKept(u)]_directoryVars
    BY BuiltInStepKeeps
  <1> QED
    BY <1>1, DirectoryInvHolds, PTL
    DEF DirectorySpec, BuiltInAccountIsKept, BuiltInIsKept, BuiltInWriter

TakesOneRole(r) ==
  stage[r] \in DeleteStages =>
    \A u \in UserIds :
      /\ users[u] # None
      /\ local'[r] # local[r]
      => users[u].role \ {local[r].id} \subseteq users'[u].role

LEMMA DeletionStepTakesOneRole ==
  ASSUME DirectoryInv, [DirectoryNext(SUBSET Permissions)]_directoryVars,
         NEW r \in Requests
  PROVE  TakesOneRole(r)
PROOF
  <1> SUFFICES ASSUME stage[r] \in DeleteStages,
                      NEW u \in UserIds, users[u] # None, local'[r] # local[r]
               PROVE  users[u].role \ {local[r].id} \subseteq users'[u].role
    BY DEF TakesOneRole
  <1>1. TypeInv /\ users \in [UserIds -> User \cup {None}]
    BY DEF DirectoryInv, TypeInv, DirectoryTypeOK
  <1>2. CASE users' = users
    BY <1>2
  <1>3. CASE users' # users
    <2>1. PICK s \in Requests : HandleRequest(s)
      BY <1>1, <1>3, OthersWriteNothing
    <2>2. s = r
      BY <1>1, <2>1, HandleKeepsTypes DEF Frame, Moves
    <2>3. BulkUpdateUserRoles(r) \/ DeleteRoleFromUsers(r)
      BY <1>3, <2>1, <2>2, UserWrites DEF UpdateUser, DeleteStages
    <2>4. users[u] \in User
      BY <1>1
    <2>5. CASE BulkUpdateUserRoles(r)
      <3>1. PICK v \in local[r].todo :
              users' = [users EXCEPT ![v].role =
                          @ \cup (local[r].plan[v] \cap local[r].existing)]
        BY <1>3, <2>5 DEF BulkUpdateUserRoles, NoUserWrite
      <3>2. CASE u = v
        <4>1. users'[u] = [users[u] EXCEPT !.role =
                             @ \cup (local[r].plan[v] \cap local[r].existing)]
          BY <1>1, <3>1, <3>2
        <4> QED
          BY <2>4, <4>1 DEF User
      <3>3. CASE u # v
        BY <1>1, <3>1, <3>3
      <3> QED
        BY <3>2, <3>3
    <2>6. CASE DeleteRoleFromUsers(r)
      <3>1. PICK v \in local[r].todo :
              users' = [users EXCEPT ![v].role = @ \ {local[r].id}]
        BY <1>3, <2>6 DEF DeleteRoleFromUsers, NoUserWrite
      <3>2. CASE u = v
        <4>1. users'[u] = [users[u] EXCEPT !.role = @ \ {local[r].id}]
          BY <1>1, <3>1, <3>2
        <4> QED
          BY <2>4, <4>1 DEF User
      <3>3. CASE u # v
        BY <1>1, <3>1, <3>3
      <3> QED
        BY <3>2, <3>3
    <2> QED
      BY <2>3, <2>5, <2>6
  <1> QED
    BY <1>2, <1>3

\* A user's roles survive the deletion of another role: its bulk writes take
\* none away, its withdrawal takes the deleted one only.
THEOREM DeletionTakesNoOtherRole == DirectorySpec => DeletionTakesOneRole
PROOF
  <1>1. DirectoryInv /\ [DirectoryNext(SUBSET Permissions)]_directoryVars
        => [\A r \in Requests : TakesOneRole(r)]_directoryVars
    BY DeletionStepTakesOneRole
  <1> QED
    BY <1>1, DirectoryInvHolds, PTL
    DEF DirectorySpec, DeletionTakesOneRole, TakesOneRole

=============================================================================
