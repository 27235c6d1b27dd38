------------------------------ MODULE Listing ------------------------------
(***************************************************************************)
(* The list endpoints over the documents of Records: a client that walks   *)
(* through a list page by page (GET ?start=..&size=..) while others write. *)
(* The endpoints of users and roles list what is not marked as deleted,    *)
(* newest first, and number the rows from the oldest document up.          *)
(***************************************************************************)
EXTENDS Records

CONSTANTS
  Starts,       \* the pages a client may ask for first
  Sizes         \* the sizes of a page it may ask for

ASSUME ListingAssumption == Starts \subseteq Int /\ Sizes \subseteq Int

VARIABLE reader   \* the client: its place in the list and what it has seen

listingVars == <<recordsVars, reader>>

----------------------------------------------------------------------------
(* One page.                                                               *)

\* getUserFilters and getRolesFilters without a search key.
Matching == {id \in Ids : docs[id] # None /\ docs[id].is_delete = "false"}

\* Mutant: pages counted from zero.
Paginator_FromZero(skip, limit) ==
  [skip |-> skip * limit, limited |-> limit > 0]

\* The stages $skip and $limit; a size that is not positive asks for all.
Paginator(skip, limit) ==
  [skip |-> IF skip # 0 /\ limit # 0 THEN (skip - 1) * limit ELSE 0,
   limited |-> limit > 0]

\* Mutant: the rows of the page itself are counted off as well.
StartingIndex_AfterPage(start, size, count) == count - start * size

\* The number of the first row of a page.
StartingIndex(start, size, count) == count - (start - 1) * size

\* MongoDB refuses a negative $skip.
Refused(start, size) == LET p == Paginator(start, size) IN p.limited /\ p.skip < 0

\* The orders the aggregation may return: $sort is by created_on only, so
\* documents of the same millisecond come in any order, in each query anew.
Sorted(ids) ==
  {s \in [1 .. Cardinality(ids) -> ids] :
     \A i, j \in DOMAIN s :
       i < j => s[i] # s[j] /\ docs[s[i]].created_on >= docs[s[j]].created_on}

\* The rows of a page with their numbers.
Rows(sorted, start, size) ==
  LET p == Paginator(start, size)
      first == IF p.limited THEN p.skip + 1 ELSE 1
      last == IF p.limited /\ p.skip + size < Len(sorted)
              THEN p.skip + size ELSE Len(sorted)
  IN  {[id |-> sorted[i],
        index |-> StartingIndex(start, size, Len(sorted)) - (i - first)] :
       i \in first .. last}

----------------------------------------------------------------------------
(* The client.                                                             *)

\* The documents of the list whose created_on no other one shares.
Alone == {id \in Matching :
            \A other \in Matching \ {id} :
              docs[other].created_on # docs[id].created_on}

\* A client opens the list.
OpenList ==
  /\ reader.status = "closed"
  /\ \E start \in Starts, size \in Sizes :
       reader' = [status |-> "open", first |-> start, start |-> start,
                  size |-> size, seen |-> {}, standing |-> Alone,
                  left |-> FALSE, joined |-> {}]
  /\ UNCHANGED recordsVars

\* filterDocumentsWithPagination: one aggregation reads the page and the
\* count.  The client goes on until a page is not full.
GetPage ==
  /\ reader.status = "open"
  /\ IF Refused(reader.start, reader.size)
     THEN reader' = [reader EXCEPT !.status = "refused"]
     ELSE \E sorted \in Sorted(Matching) :
            LET rows == Rows(sorted, reader.start, reader.size)
                full == reader.size > 0 /\ Cardinality(rows) = reader.size
            IN  reader' = [reader EXCEPT !.seen = @ \cup rows,
                                         !.start = @ + 1,
                                         !.status = IF full THEN "open" ELSE "read"]
  /\ UNCHANGED recordsVars

\* The client is done with the list, or has been shown an error.
CloseList ==
  /\ reader.status \in {"read", "refused"}
  /\ reader' = [status |-> "closed"]
  /\ UNCHANGED recordsVars

\* A step of the methods, as an open list sees it.
WriteBeside ==
  /\ RecordsNext
  /\ reader' = IF reader.status \in {"closed", "refused"} THEN reader
               ELSE [reader EXCEPT
                      !.standing = @ \cap Alone',
                      !.left = @ \/ ~(Matching \subseteq Matching'),
                      !.joined = @ \cup (Matching' \ Matching)]

ListingInit == RecordsInit /\ reader = [status |-> "closed"]

ListingNext == OpenList \/ GetPage \/ CloseList \/ WriteBeside

ListingSpec == ListingInit /\ [][ListingNext]_listingVars

----------------------------------------------------------------------------
(* What a client may rely on.                                              *)

FromTheTop == reader.first \in {0, 1} \/ reader.size <= 0

\* A client that reads the pages of a list from the top to the end has seen
\* every document that was in the list all the time and shares its
\* created_on with no other, if no document left the list meanwhile.  New
\* documents push rows to later pages, never past the client.
PageWalkMissesNone ==
  (reader.status = "read" /\ FromTheTop /\ ~reader.left) =>
    \A id \in reader.standing : \E row \in reader.seen : row.id = id

\* The number of a row is the rank of its document counted from the oldest,
\* whatever page it was met on: since the client opened the list the rank
\* can only have grown, and only by documents that came to the list with a
\* date that is not newer.  They need not be restored ones: a new document
\* has the date of its construction, and is stored later.  There are two
\* exceptions: page 0 has the rows of page 1 under other numbers, and a
\* negative size asks for all the rows whatever the page, but numbers them
\* right on page 1 only.
RowNumberIsRank ==
  (/\ reader.status \in {"open", "read"}
   /\ ~reader.left
   /\ \/ reader.first >= 1 /\ reader.size > 0
      \/ reader.first = 1 \/ reader.size = 0) =>
     \A row \in reader.seen :
       row.id \in reader.standing =>
         LET older == {id \in Matching :
                         docs[id].created_on <= docs[row.id].created_on}
         IN  row.index \in Cardinality(older \ reader.joined) .. Cardinality(older)

=============================================================================
