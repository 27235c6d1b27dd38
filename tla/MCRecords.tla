----------------------------- MODULE MCRecords -----------------------------
(***************************************************************************)
(* A small instance of Listing: three stored documents, one of them        *)
(* withdrawn, and two ids to give out; two callers with two methods in     *)
(* all, and a client that asks for pages of one or two rows or for         *)
(* everything.                                                             *)
(***************************************************************************)
EXTENDS Listing, TLC

CONSTANTS d1, d2, d3, d4, d5, c1, c2

FiveIds == {d1, d2, d3, d4, d5}

\* A new name, no name with a withdrawal, a restoration.
ThreeBodies ==
  {[name |-> "n2", is_delete |-> None], [name |-> Empty, is_delete |-> "true"],
   [name |-> None, is_delete |-> "false"]}

Doc(name, deleted, time) ==
  [name |-> name, is_delete |-> deleted, changed_by |-> Empty, created_on |-> time]

\* A new document may have the date of the newest one.
ThreeStored == d1 :> Doc("n1", "true", 1) @@ d2 :> Doc("n1", "false", 2)
                 @@ d3 :> Doc("n1", "false", 3) @@ d4 :> None @@ d5 :> None

\* A query parameter is any integer.
FirstPages == {-1, 0, 1, 2}
PageSizes == {-1, 0, 1, 2}

TwoCallers == {c1, c2}

Symmetry == Permutations(TwoCallers) \cup Permutations({d4, d5})

=============================================================================
