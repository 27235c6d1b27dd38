----------------------------- MODULE MCSessions -----------------------------
(***************************************************************************)
(* A small instance of Sessions: a database with the default role only,    *)
(* the built-in account to be created at the start and one more user.      *)
(***************************************************************************)
EXTENDS Sessions, TLC

CONSTANTS x1, x2, u1, u2, r1, s1, l1, admin, bob, Admin, clerk, e1, e2

TwoRoles == {x1, x2}
TwoRoleNames == {Admin, clerk}
TwoUsers == {u1, u2}
TwoUserNames == {admin, bob}
TwoEmails == {e1, e2}
OneRequest == {r1}
OneSignup == {s1}
OneLogin == {l1}
Nothing == {}

DefaultRoleOnly ==
  [x \in TwoRoles |->
     IF x = x1
     THEN [role |-> clerk, permissions |-> {"EDIT_USER"}, is_delete |-> FALSE]
     ELSE None]

NoUser == [u \in TwoUsers |-> None]

OnePlan == {NoPlan}

OneNewUser == {[NoUserChange EXCEPT !.username = bob, !.email = e2]}

\* The name of the second user with the email of the built-in account.
OneWholeUser == {[NoUserChange EXCEPT !.username = bob, !.email = e1]}

ByName == {[username |-> n, email |-> None] : n \in TwoUserNames}

=============================================================================
