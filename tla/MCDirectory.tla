---------------------------- MODULE MCDirectory ----------------------------
(***************************************************************************)
(* A small instance of Directory: the built-in account and a second user,  *)
(* one role for both and room for a second one.                            *)
(***************************************************************************)
EXTENDS Directory, TLC

CONSTANTS x1, x2, u1, u2, r1, r2, admin, bob, clerk, manager, e1, e2

TwoRoles == {x1, x2}
TwoUsers == {u1, u2}
TwoUserNames == {admin, bob}
TwoEmails == {e1, e2}
TwoRoleNames == {clerk, manager}
TwoRequests == {r1, r2}

OneStoredRole ==
  [x \in TwoRoles |->
     IF x = x1
     THEN [role |-> manager, permissions |-> {"ADMIN"}, is_delete |-> FALSE]
     ELSE None]

TwoStoredUsers ==
  [u \in TwoUsers |->
     IF u = u1 THEN [username |-> admin, email |-> e1, role |-> {x1}]
               ELSE [username |-> bob, email |-> e2, role |-> {}]]

\* A clerk role beside the manager role.
OneNewRole == {[role |-> clerk, permissions |-> {"SHOW_ROLE"}]}

\* Rename to clerk, and undelete with that name.
TwoRoleChanges ==
  {[role |-> clerk, permissions |-> {}, is_delete |-> d] : d \in {None, FALSE}}

\* No replacement, and the second role for the second user.
TwoPlans == {NoPlan, [NoPlan EXCEPT ![u2] = {x2}]}

\* Give the first role.
OneUserChange == {[NoUserChange EXCEPT !.role = {x1}]}

\* Another email, with the roles as they were read.
OneWholeUser == {[NoUserChange EXCEPT !.username = bob, !.email = e2]}

AdminAndEditor == {{"ADMIN"}, {"EDIT_USER"}}

MCNext == DirectoryNext(AdminAndEditor)

MCSpec == DirectoryInit /\ [][MCNext]_directoryVars

RequestSymmetry == Permutations(Requests)

=============================================================================
