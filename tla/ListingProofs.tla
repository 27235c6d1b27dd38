--------------------------- MODULE ListingProofs ---------------------------
(***************************************************************************)
(* The lists of Listing for every instance.  In a sorted list the place of *)
(* a document whose date no other one shares is a number of documents: of  *)
(* the newer ones, counted from the top, and of the older ones, counted    *)
(* from the end.  A document that comes to the list adds to one of the two *)
(* and takes from none, which is why a walk from the top misses nothing    *)
(* and why only the older ones that joined can make a rank outgrow the     *)
(* number a row was given.                                                 *)
(***************************************************************************)
EXTENDS Listing, RecordsProofs

Row == [id : Ids, index : Int]

Reader ==
  [status : {"closed"}]
  \cup [status : {"open", "read", "refused"}, first : Int, start : Int, size : Int,
        seen : SUBSET Row, standing : SUBSET Ids, left : BOOLEAN, joined : SUBSET Ids]

Reading == reader.status \in {"open", "read"}

\* How many documents of the list are at least as new, and at least as old.
FromTop(id) ==
  Cardinality({x \in Matching : docs[x].created_on >= docs[id].created_on})
Older(id) == {x \in Matching : docs[x].created_on <= docs[id].created_on}
FromEnd(id) == Cardinality(Older(id))

\* The older ones that were in the list when the client opened it.
OldFromEnd(id) == Cardinality(Older(id) \ reader.joined)

\* What the client has seen and asks for next; a list asked for as a whole
\* is read at once.
ReaderFits ==
  Reading => /\ reader.standing \subseteq Alone
             /\ reader.first <= reader.start
             /\ reader.status = "open" /\ reader.size <= 0 => reader.start = reader.first

\* The rows to come are further down than those skipped.
WalkOn ==
  (reader.status = "open" /\ FromTheTop /\ ~reader.left) =>
    \A id \in reader.standing :
      \/ \E row \in reader.seen : row.id = id
      \/ reader.size <= 0
      \/ FromTop(id) > Paginator(reader.start, reader.size).skip

ListingInv ==
  /\ RecordsInv
  /\ reader \in Reader
  /\ ReaderFits
  /\ WalkOn
  /\ PageWalkMissesNone
  /\ RowNumberIsRank

-----------------------------------------------------------------------------
(* Sorted lists. *)

LEMMA MatchingIsFinite ==
  ASSUME RecordsTypes
  PROVE  /\ IsFiniteSet(Matching) /\ Cardinality(Matching) \in Nat
         /\ Matching \subseteq Ids
         /\ \A id \in Matching : docs[id] \in Document /\ docs[id].created_on \in Nat
PROOF
  <1>1. Matching \subseteq Ids /\ \A id \in Matching : docs[id] \in Document
    BY DEF Matching, RecordsTypes, Version
  <1>2. \A id \in Matching : docs[id].created_on \in Nat
    BY <1>1 DEF Document
  <1>3. IsFiniteSet(Matching)
    BY <1>1, RecordsAssumption, FS_Subset
  <1> QED
    BY <1>1, <1>2, <1>3, FS_CardinalityType

\* A list has every document once.
LEMMA SortedIsComplete ==
  ASSUME RecordsTypes, NEW s \in Sorted(Matching), NEW n, n = Cardinality(Matching)
  PROVE  /\ n \in Nat /\ s \in [1 .. n -> Matching] /\ Len(s) = n
         /\ \A i, j \in 1 .. n :
              i < j => s[i] # s[j] /\ docs[s[i]].created_on >= docs[s[j]].created_on
         /\ \A i, j \in 1 .. n : s[i] = s[j] => i = j
         /\ \A id \in Matching : \E i \in 1 .. n : s[i] = id
PROOF
  <1>1. n \in Nat /\ IsFiniteSet(Matching)
    BY MatchingIsFinite
  <1>2. /\ s \in [1 .. n -> Matching]
        /\ \A i, j \in 1 .. n :
             i < j => s[i] # s[j] /\ docs[s[i]].created_on >= docs[s[j]].created_on
    BY DEF Sorted
  <1>3. Len(s) = n
    <2>1. s \in Seq(Matching)
      BY <1>1, <1>2, SeqDef
    <2>2. Len(s) \in Nat /\ DOMAIN s = 1 .. Len(s) /\ DOMAIN s = 1 .. n
      BY <1>2, <2>1, LenProperties
    <2> QED BY <1>1, <2>2
  <1>4. \A i, j \in 1 .. n : s[i] = s[j] => i = j
    BY <1>1, <1>2
  <1>5. s \in Injection(1 .. n, Matching)
    BY <1>2, <1>4 DEF Injection, IsInjective
  <1>6. Cardinality(1 .. n) = Cardinality(Matching)
    BY <1>1, FS_Interval
  <1>7. s \in Surjection(1 .. n, Matching)
    BY <1>1, <1>5, <1>6, FS_Injection
  <1>8. \A id \in Matching : \E i \in 1 .. n : s[i] = id
    BY <1>7 DEF Surjection
  <1> QED
    BY <1>1, <1>2, <1>3, <1>4, <1>8

\* The documents between two places of a list; how many they are, when none
\* is there twice.
Part(s, a, b) == {s[i] : i \in a .. b}

LEMMA PlacesAreCounted ==
  ASSUME NEW s, NEW n \in Nat,
         \A i, j \in 1 .. n : s[i] = s[j] => i = j,
         NEW a \in 1 .. n, NEW b \in a .. n
  PROVE  Cardinality(Part(s, a, b)) = b - a + 1
PROOF
  <1> DEFINE T == {s[i] : i \in a .. b}
             f == [i \in a .. b |-> s[i]]
  <1>1. a .. b \subseteq 1 .. n
    OBVIOUS
  <1>2. f \in Bijection(a .. b, T)
    <2>1. f \in Surjection(a .. b, T)
      BY DEF Surjection
    <2>2. f \in Injection(a .. b, T)
      BY <1>1 DEF Injection, IsInjective
    <2> QED BY <2>1, <2>2 DEF Bijection
  <1>3. IsFiniteSet(a .. b) /\ Cardinality(a .. b) = b - a + 1
    BY FS_Interval
  <1> HIDE DEF T
  <1>4. Cardinality(T) = Cardinality(a .. b)
    BY <1>2, <1>3, FS_Bijection DEF ExistsBijection
  <1> QED
    BY <1>3, <1>4 DEF T, Part

\* The place of a document that shares its date with no other.
LEMMA PlaceIsRank ==
  ASSUME RecordsTypes, NEW s \in Sorted(Matching), NEW n, n = Cardinality(Matching),
         NEW i \in 1 .. n, s[i] \in Alone
  PROVE  FromTop(s[i]) = i /\ FromEnd(s[i]) = n - i + 1
PROOF
  <1>1. /\ n \in Nat /\ s \in [1 .. n -> Matching]
        /\ \A k, j \in 1 .. n :
             k < j => s[k] # s[j] /\ docs[s[k]].created_on >= docs[s[j]].created_on
        /\ \A k, j \in 1 .. n : s[k] = s[j] => k = j
        /\ \A id \in Matching : \E k \in 1 .. n : s[k] = id
    BY SortedIsComplete
  <1>2. \A k \in 1 .. n : docs[s[k]].created_on \in Nat
    BY <1>1, MatchingIsFinite
  <1>3. \A k \in 1 .. n : k # i => docs[s[k]].created_on # docs[s[i]].created_on
    BY <1>1 DEF Alone
  <1> DEFINE Above == {x \in Matching : docs[x].created_on >= docs[s[i]].created_on}
             Below == {x \in Matching : docs[x].created_on <= docs[s[i]].created_on}
  <1>4. \A k \in 1 .. n :
          /\ docs[s[k]].created_on >= docs[s[i]].created_on <=> k <= i
          /\ docs[s[k]].created_on <= docs[s[i]].created_on <=> k >= i
    <2> SUFFICES ASSUME NEW k \in 1 .. n
                 PROVE  /\ docs[s[k]].created_on >= docs[s[i]].created_on <=> k <= i
                        /\ docs[s[k]].created_on <= docs[s[i]].created_on <=> k >= i
      OBVIOUS
    <2>1. CASE k < i
      BY <1>1, <1>2, <1>3, <2>1
    <2>2. CASE k > i
      BY <1>1, <1>2, <1>3, <2>2
    <2>3. CASE k = i
      BY <1>2, <2>3
    <2> QED BY <1>1, <2>1, <2>2, <2>3
  <1>5. Above = Part(s, 1, i)
    <2>1. \A k \in 1 .. i : k \in 1 .. n /\ k <= i
      BY <1>1
    <2>2. ASSUME NEW k \in 1 .. i PROVE s[k] \in Above
      BY <1>1, <1>4, <2>1
    <2>3. ASSUME NEW x \in Above PROVE \E k \in 1 .. i : x = s[k]
      <3>1. PICK k \in 1 .. n : s[k] = x
        BY <1>1
      <3>2. k <= i
        BY <1>4, <3>1
      <3> QED BY <3>1, <3>2
    <2> QED BY <2>2, <2>3 DEF Part
  <1>6. Below = Part(s, i, n)
    <2>1. \A k \in i .. n : k \in 1 .. n /\ k >= i
      BY <1>1
    <2>2. ASSUME NEW k \in i .. n PROVE s[k] \in Below
      BY <1>1, <1>4, <2>1
    <2>3. ASSUME NEW x \in Below PROVE \E k \in i .. n : x = s[k]
      <3>1. PICK k \in 1 .. n : s[k] = x
        BY <1>1
      <3>2. k >= i
        BY <1>4, <3>1
      <3> QED BY <3>1, <3>2
    <2> QED BY <2>2, <2>3 DEF Part
  <1>7. 1 \in 1 .. n /\ i \in 1 .. i /\ i \in 1 .. n /\ n \in i .. n
    BY <1>1
  <1>8. \A a \in 1 .. n : \A b \in a .. n : Cardinality(Part(s, a, b)) = b - a + 1
    BY ONLY <1>1, PlacesAreCounted
  <1> HIDE DEF Above, Below
  <1>9. Cardinality(Above) = i
    <2>1. Cardinality(Above) = i - 1 + 1
      BY <1>5, <1>7, <1>8
    <2> QED BY <1>1, <2>1
  <1>10. Cardinality(Below) = n - i + 1
    BY <1>6, <1>7, <1>8
  <1> QED
    BY <1>9, <1>10 DEF FromTop, FromEnd, Older, Above, Below

-----------------------------------------------------------------------------
(* The lists while others write. *)

\* A document keeps its date.
Dated(id) ==
  docs[id] # None /\ docs'[id] # None => docs'[id].created_on = docs[id].created_on

LEMMA StepsDateDocuments ==
  ASSUME RecordsInv, [RecordsNext]_recordsVars
  PROVE  \A id \in Ids : Dated(id)
PROOF
  <1>0. docs \in [Ids -> Version] /\ RecordsTypes
    BY DEF RecordsInv, RecordsTypes
  <1>1. CASE UNCHANGED docs
    BY <1>0, <1>1 DEF Dated
  <1>2. ASSUME NEW c \in Callers, SaveDocument(c)
        PROVE  \A id \in Ids : Dated(id)
    <2>1. PICK id \in Ids :
            Fresh(id) /\ \E new : docs' = [docs EXCEPT ![id] = new]
      BY <1>2 DEF SaveDocument, Write
    <2>2. docs[id] = None
      <3>1. history[id] = <<None>> /\ docs[id] = history[id][LastVersion(id)]
        BY <2>1 DEF Fresh, RecordsInv, LastIsStored
      <3> QED BY <3>1 DEF LastVersion
    <2>3. \A other \in Ids \ {id} : docs'[other] = docs[other]
      BY <1>0, <2>1
    <2> QED BY <2>2, <2>3 DEF Dated
  <1>3. ASSUME NEW c \in Callers, UpdateWrite(c), docs' # docs
        PROVE  \A id \in Ids : Dated(id)
    <2>1. PICK id \in Ids, body \in Bodies :
            calls[c].stage = "write" /\ calls[c].id = id /\ calls[c].body = body
      BY <1>0, <1>3, CallTypes DEF UpdateWrite
    <2>2. /\ docs[id] # None
          /\ docs' = [docs EXCEPT ![id] = Merged(docs[id], body, c)]
      BY <1>3, <2>1 DEF UpdateWrite, Write
    <2>3. docs[id] \in Document
      BY <1>0, <2>2 DEF Version
    <2>4. Merged(docs[id], body, c).created_on = docs[id].created_on
      BY <2>3, StoredIsDocument
    <2>5. \A other \in Ids \ {id} : docs'[other] = docs[other]
      BY <1>0, <2>2
    <2> QED BY <1>0, <2>2, <2>4, <2>5 DEF Dated
  <1>4. ASSUME NEW c \in Callers, NEW id \in Ids, NEW logged \in BOOLEAN,
               HardDelete(c, id, logged)
        PROVE  \A x \in Ids : Dated(x)
    <2>1. docs' = docs \/ docs' = [docs EXCEPT ![id] = None]
      BY <1>4 DEF HardDelete, Write
    <2>2. \A x \in Ids : docs'[x] = docs[x] \/ docs'[x] = None
      BY <1>0, <2>1
    <2> QED BY <2>2 DEF Dated
  <1>5. ASSUME NEW c \in Callers, Method(c)
        PROVE  \A id \in Ids : Dated(id)
    <2>1. CASE \/ \E body \in Bodies : AddNewDocument(c, body)
               \/ \E id \in Ids, body \in Bodies : UpdateFind(c, id, body)
      BY <1>1, <2>1 DEF AddNewDocument, UpdateFind
    <2>2. CASE CreateLog(c) \/ MethodFails(c)
      BY <1>1, <2>2 DEF CreateLog, MethodFails
    <2>3. CASE UpdateWrite(c) /\ docs' = docs
      BY <1>1, <2>3
    <2> QED
      BY <1>2, <1>3, <1>4, <1>5, <2>1, <2>2, <2>3 DEF Method
  <1> QED
    BY <1>1, <1>5 DEF RecordsNext, RecordsCrash, recordsVars

\* The numbers of the older documents.
LEMMA RanksAreNumbers ==
  ASSUME RecordsTypes, NEW id
  PROVE  /\ OldFromEnd(id) \in Int /\ FromEnd(id) \in Int
         /\ OldFromEnd(id) <= FromEnd(id)
PROOF
  <1> DEFINE old == Older(id) \ reader.joined
  <1>1. IsFiniteSet(Older(id)) /\ old \subseteq Older(id)
    BY MatchingIsFinite, FS_Subset DEF Older
  <1> HIDE DEF old
  <1>2. IsFiniteSet(old) /\ Cardinality(old) <= Cardinality(Older(id))
    BY <1>1, FS_Subset
  <1> QED
    BY <1>1, <1>2, FS_CardinalityType DEF OldFromEnd, FromEnd, old

\* Documents that come to the list push a document away from the top or from
\* the end, and those of the start stay on their side of it.
LEMMA RanksBeside ==
  ASSUME RecordsTypes, RecordsTypes', \A x \in Ids : Dated(x),
         Matching \subseteq Matching',
         reader'.joined = reader.joined \cup (Matching' \ Matching),
         NEW id \in Alone, id \in Alone'
  PROVE  /\ FromTop(id) \in Nat /\ FromTop(id)' \in Nat
         /\ FromTop(id) <= FromTop(id)'
         /\ OldFromEnd(id)' = OldFromEnd(id)
         /\ FromEnd(id)' \in Int /\ FromEnd(id) <= FromEnd(id)'
PROOF
  <1>1. /\ IsFiniteSet(Matching) /\ Matching \subseteq Ids
        /\ \A x \in Matching : docs[x] \in Document /\ docs[x].created_on \in Nat
    BY MatchingIsFinite
  <1>2. /\ IsFiniteSet(Matching') /\ Matching' \subseteq Ids
    <2>1. Matching' \subseteq Ids
      BY DEF Matching
    <2> QED BY <2>1, RecordsAssumption, FS_Subset
  <1>3. id \in Matching /\ id \in Matching'
    BY DEF Alone
  <1>4. \A x \in Matching : docs'[x].created_on = docs[x].created_on
    BY <1>1 DEF Dated, Matching
  <1> DEFINE Newer == {x \in Matching : docs[x].created_on >= docs[id].created_on}
             NewerThen == {x \in Matching' : docs'[x].created_on >= docs'[id].created_on}
             OlderThen == {x \in Matching' : docs'[x].created_on <= docs'[id].created_on}
  <1>5. Newer \subseteq NewerThen /\ IsFiniteSet(NewerThen)
    BY <1>2, <1>3, <1>4, FS_Subset
  <1>6. Older(id) \subseteq OlderThen /\ IsFiniteSet(OlderThen)
    BY <1>2, <1>3, <1>4, FS_Subset DEF Older
  <1>7. OlderThen \ reader'.joined = Older(id) \ reader.joined
    <2>1. \A x \in OlderThen : x \in Matching => x \in Older(id)
      BY <1>3, <1>4 DEF Older
    <2>2. \A x \in Older(id) : x \in Matching
      BY DEF Older
    <2>3. \A x \in OlderThen : x \in Matching'
      OBVIOUS
    <2> HIDE DEF OlderThen
    <2> QED BY <1>6, <2>1, <2>2, <2>3
  <1> HIDE DEF Newer, NewerThen, OlderThen
  <1>8. /\ Cardinality(Newer) \in Nat /\ Cardinality(NewerThen) \in Nat
        /\ Cardinality(Newer) <= Cardinality(NewerThen)
    <2>1. Cardinality(Newer) <= Cardinality(NewerThen) /\ IsFiniteSet(Newer)
      BY <1>5, FS_Subset
    <2> QED BY <1>5, <2>1, FS_CardinalityType
  <1>9. Cardinality(OlderThen) \in Int /\ Cardinality(Older(id)) <= Cardinality(OlderThen)
    BY <1>6, FS_Subset, FS_CardinalityType
  <1> QED
    BY <1>7, <1>8, <1>9
       DEF FromTop, FromEnd, OldFromEnd, Older, Newer, NewerThen, OlderThen

-----------------------------------------------------------------------------
(* One page. *)

\* The places of the rows of a page.
FirstPlace(start, size) == IF size > 0 THEN Paginator(start, size).skip + 1 ELSE 1
LastPlace(start, size, n) ==
  IF size > 0 /\ Paginator(start, size).skip + size < n
  THEN Paginator(start, size).skip + size ELSE n

RowAt(s, start, size, i) ==
  [id |-> s[i],
   index |-> StartingIndex(start, size, Len(s)) - (i - FirstPlace(start, size))]

\* What is skipped: nothing, or the rows of the pages before.
LEMMA SkippedRows ==
  ASSUME NEW start \in Int, NEW size \in Int
  PROVE  /\ Paginator(start, size).skip \in Int
         /\ Paginator(start, size).limited <=> size > 0
         /\ start # 0 /\ size # 0 => Paginator(start, size).skip = (start - 1) * size
         /\ start = 0 \/ size = 0 => Paginator(start, size).skip = 0
         /\ start = 1 => Paginator(start, size).skip = 0
         /\ start >= 0 /\ size > 0 =>
              Paginator(start + 1, size).skip <= Paginator(start, size).skip + size
PROOF
  <1>1. (start - 1) * size \in Int /\ start * size \in Int
        /\ start * size = (start - 1) * size + size
    OBVIOUS
  <1>2. Paginator(start, size).skip = IF start # 0 /\ size # 0 THEN (start - 1) * size ELSE 0
    BY DEF Paginator
  <1>3. Paginator(start + 1, size).skip =
          IF start + 1 # 0 /\ size # 0 THEN start * size ELSE 0
    <2>1. start + 1 - 1 = start
      OBVIOUS
    <2> QED BY <2>1 DEF Paginator
  <1>4. start = 1 => (start - 1) * size = 0
    OBVIOUS
  <1>5. start = 0 => start * size = 0
    OBVIOUS
  <1>6. Paginator(start, size).limited <=> size > 0
    BY DEF Paginator
  <1>7. /\ Paginator(start, size).skip \in Int
        /\ start # 0 /\ size # 0 => Paginator(start, size).skip = (start - 1) * size
        /\ start = 0 \/ size = 0 => Paginator(start, size).skip = 0
        /\ start = 1 => Paginator(start, size).skip = 0
    BY <1>1, <1>2, <1>4
  <1>8. ASSUME start >= 0, size > 0
        PROVE  Paginator(start + 1, size).skip <= Paginator(start, size).skip + size
    <2>1. Paginator(start + 1, size).skip = start * size
      BY <1>3, <1>8
    <2>2. CASE start = 0
      BY <1>5, <1>7, <1>8, <2>1, <2>2
    <2>3. CASE start # 0
      BY <1>1, <1>7, <1>8, <2>1, <2>3
    <2> QED BY <2>2, <2>3
  <1> QED
    BY <1>6, <1>7, <1>8

LEMMA RowsOfPage ==
  ASSUME RecordsTypes, NEW s \in Sorted(Matching), NEW n, n = Cardinality(Matching),
         NEW start \in Int, NEW size \in Int, ~Refused(start, size)
  PROVE  /\ n \in Nat /\ Len(s) = n
         /\ FirstPlace(start, size) \in Nat /\ FirstPlace(start, size) >= 1
         /\ LastPlace(start, size, n) \in Int /\ LastPlace(start, size, n) <= n
         /\ Rows(s, start, size) =
              {RowAt(s, start, size, i) :
                 i \in FirstPlace(start, size) .. LastPlace(start, size, n)}
         /\ Rows(s, start, size) \subseteq Row
PROOF
  <1>1. /\ n \in Nat /\ s \in [1 .. n -> Matching] /\ Len(s) = n
    BY SortedIsComplete
  <1>2. /\ Paginator(start, size).skip \in Int
        /\ Paginator(start, size).limited <=> size > 0
    BY SkippedRows
  <1>3. size > 0 => Paginator(start, size).skip >= 0
    BY <1>2 DEF Refused
  <1>4. /\ FirstPlace(start, size) \in Nat /\ FirstPlace(start, size) >= 1
        /\ LastPlace(start, size, n) \in Int /\ LastPlace(start, size, n) <= n
    BY <1>1, <1>2, <1>3 DEF FirstPlace, LastPlace
  <1>5. Rows(s, start, size) =
          {RowAt(s, start, size, i) :
             i \in FirstPlace(start, size) .. LastPlace(start, size, n)}
    BY <1>1, <1>2 DEF Rows, RowAt, FirstPlace, LastPlace
  <1>6. ASSUME NEW i \in FirstPlace(start, size) .. LastPlace(start, size, n)
        PROVE  RowAt(s, start, size, i) \in Row
    <2>1. i \in 1 .. n
      BY <1>1, <1>4
    <2>2. s[i] \in Ids
      BY <1>1, <2>1, MatchingIsFinite
    <2>3. StartingIndex(start, size, Len(s)) \in Int
      BY <1>1 DEF StartingIndex
    <2> QED BY <1>4, <2>1, <2>2, <2>3 DEF RowAt, Row
  <1> QED
    BY <1>1, <1>4, <1>5, <1>6

\* A row of a document that shares its date with no other has its rank, and
\* a document that is not skipped is on the page or further down.
LEMMA PageShowsRanks ==
  ASSUME RecordsTypes, NEW s \in Sorted(Matching), NEW start \in Int, NEW size \in Int,
         ~Refused(start, size)
  PROVE  /\ \A row \in Rows(s, start, size) :
              row.id \in Alone /\ (start = 1 \/ size = 0 \/ (start >= 1 /\ size > 0)) =>
                row.index = FromEnd(row.id)
         /\ \A id \in Alone :
              \/ \E row \in Rows(s, start, size) : row.id = id
              \/ /\ size > 0
                 /\ \/ FromTop(id) <= Paginator(start, size).skip
                    \/ /\ FromTop(id) > Paginator(start, size).skip + size
                       /\ Cardinality(Rows(s, start, size)) = size
PROOF
  <1> DEFINE n == Cardinality(Matching)
             a == FirstPlace(start, size)
             b == LastPlace(start, size, n)
             rows == Rows(s, start, size)
             R(i) == RowAt(s, start, size, i)
             skip == Paginator(start, size).skip
  <1>1. /\ n \in Nat /\ s \in [1 .. n -> Matching] /\ Len(s) = n
        /\ \A i, j \in 1 .. n : s[i] = s[j] => i = j
        /\ \A id \in Matching : \E i \in 1 .. n : s[i] = id
    BY SortedIsComplete
  <1>2. /\ a \in Nat /\ a >= 1 /\ b \in Int /\ b <= n
        /\ rows = {R(i) : i \in a .. b}
    BY RowsOfPage
  <1>3. /\ skip \in Int
        /\ start # 0 /\ size # 0 => skip = (start - 1) * size
        /\ start = 0 \/ size = 0 => skip = 0
        /\ start = 1 => skip = 0
    BY SkippedRows
  <1>4. \A i \in 1 .. n : s[i] \in Alone => FromTop(s[i]) = i /\ FromEnd(s[i]) = n - i + 1
    BY PlaceIsRank
  <1>5. \A i : R(i).id = s[i] /\ R(i).index = n - (start - 1) * size - (i - a)
    BY <1>1 DEF RowAt, StartingIndex
  <1>6. a = IF size > 0 THEN skip + 1 ELSE 1
    BY DEF FirstPlace
  <1>7. b = IF size > 0 /\ skip + size < n THEN skip + size ELSE n
    BY DEF LastPlace
  <1> HIDE DEF n, a, b, rows, R, skip
  <1>8. ASSUME NEW row \in rows, row.id \in Alone,
               start = 1 \/ size = 0 \/ (start >= 1 /\ size > 0)
        PROVE  row.index = FromEnd(row.id)
    <2>1. PICK i \in a .. b : row = R(i)
      BY <1>2
    <2>2. i \in 1 .. n /\ i \in Int
      BY <1>1, <1>2
    <2>3. FromEnd(row.id) = n - i + 1
      BY <1>4, <1>5, <1>8, <2>1, <2>2
    <2>4. (start - 1) * size \in Int /\ (start = 1 \/ size = 0 => (start - 1) * size = 0)
      OBVIOUS
    <2>5. (start - 1) * size = a - 1
      <3>1. CASE size > 0
        BY <1>3, <1>6, <1>8, <2>4, <3>1
      <3>2. CASE ~(size > 0)
        BY <1>6, <1>8, <2>4, <3>2
      <3> QED BY <3>1, <3>2
    <2>6. row.index = n - (a - 1) - (i - a)
      BY <1>5, <2>1, <2>5
    <2> QED
      BY <1>1, <1>2, <2>2, <2>3, <2>6
  <1>9. ASSUME NEW id \in Alone, \A row \in rows : row.id # id
        PROVE  /\ size > 0
               /\ \/ FromTop(id) <= skip
                  \/ FromTop(id) > skip + size /\ Cardinality(rows) = size
    <2>1. PICK i \in 1 .. n : s[i] = id
      BY <1>1 DEF Alone
    <2>2. i \in Int /\ FromTop(id) = i
      BY <1>1, <1>4, <2>1
    <2>3. i \notin a .. b
      BY <1>2, <1>5, <1>9, <2>1
    <2>4. CASE i < a
      BY <1>1, <1>3, <1>6, <2>1, <2>2, <2>4
    <2>5. CASE i > b
      <3>1. size > 0 /\ b = skip + size /\ a = skip + 1
        BY <1>1, <1>6, <1>7, <2>1, <2>5
      <3>2. b - a + 1 = size /\ a \in 1 .. n /\ b \in a .. n
        BY <1>1, <1>2, <1>3, <2>1, <2>5, <3>1
      <3> DEFINE f == [j \in 1 .. n |-> R(j)]
      <3>3. Cardinality(rows) = size
        <4>1. \A j, k \in 1 .. n : f[j] = f[k] => j = k
          <5> SUFFICES ASSUME NEW j \in 1 .. n, NEW k \in 1 .. n, R(j) = R(k)
                       PROVE  j = k
            OBVIOUS
          <5>1. s[j] = s[k]
            BY <1>5
          <5> QED BY <1>1, <5>1
        <4>2. rows = Part(f, a, b)
          <5>1. \A j \in a .. b : j \in 1 .. n
            BY <1>1, <1>2
          <5> QED BY <1>2, <5>1 DEF Part
        <4> HIDE DEF f
        <4> QED BY <1>1, <3>2, <4>1, <4>2, PlacesAreCounted
      <3> QED
        BY <1>3, <2>2, <2>5, <3>1, <3>3
    <2> QED
      BY <1>2, <2>2, <2>3, <2>4, <2>5
  <1> QED
    BY <1>8, <1>9 DEF rows, skip

-----------------------------------------------------------------------------
(* The steps of the client. *)

LEMMA ReaderTypes ==
  ASSUME reader \in Reader
  PROVE  /\ reader.status \in {"closed", "open", "read", "refused"}
         /\ reader.status = "closed" => reader = [status |-> "closed"]
         /\ reader.status # "closed" =>
              /\ reader.first \in Int /\ reader.start \in Int /\ reader.size \in Int
              /\ reader.seen \subseteq Row /\ reader.standing \subseteq Ids
              /\ reader.left \in BOOLEAN /\ reader.joined \subseteq Ids
  BY DEF Reader

\* The first place is 1.
LEMMA PlacesAreNumbers ==
  ASSUME RecordsTypes, NEW id \in Alone
  PROVE  FromTop(id) \in Nat /\ FromTop(id) >= 1
PROOF
  <1> DEFINE Newer == {x \in Matching : docs[x].created_on >= docs[id].created_on}
  <1>1. IsFiniteSet(Newer)
    BY MatchingIsFinite, FS_Subset
  <1>2. id \in Newer
    BY MatchingIsFinite DEF Alone
  <1> HIDE DEF Newer
  <1>3. Cardinality(Newer) \in Nat /\ Cardinality(Newer) # 0
    BY <1>1, <1>2, FS_CardinalityType, FS_EmptySet
  <1> QED
    BY <1>3 DEF FromTop, Newer

\* What the client may rely on speaks of an open list only.
LEMMA NothingShown ==
  ASSUME reader' \in Reader, reader'.status \notin {"open", "read"}
  PROVE  ReaderFits' /\ WalkOn' /\ PageWalkMissesNone' /\ RowNumberIsRank'
  BY DEF ReaderFits, Reading, WalkOn, PageWalkMissesNone, RowNumberIsRank

LEMMA OpenKeepsInv ==
  ASSUME ListingInv, OpenList
  PROVE  reader' \in Reader /\ ReaderFits' /\ WalkOn' /\ PageWalkMissesNone' /\ RowNumberIsRank'
PROOF
  <1>1. PICK start \in Starts, size \in Sizes :
          reader' = [status |-> "open", first |-> start, start |-> start,
                     size |-> size, seen |-> {}, standing |-> Alone,
                     left |-> FALSE, joined |-> {}]
    BY DEF OpenList
  <1>2. start \in Int /\ size \in Int
    BY ListingAssumption
  <1>3. RecordsTypes /\ docs' = docs
    BY DEF ListingInv, RecordsInv, OpenList, recordsVars
  <1>4. Alone \subseteq Ids /\ Alone' = Alone
    BY <1>3, MatchingIsFinite DEF Alone, Matching
  <1>5. reader' \in Reader
    BY <1>1, <1>2, <1>4 DEF Reader
  <1>6. ReaderFits'
    BY <1>1, <1>2, <1>4 DEF ReaderFits, Reading
  <1>7. \A id \in Alone : FromTop(id) \in Nat /\ FromTop(id) >= 1
    BY <1>3, PlacesAreNumbers
  <1>8. WalkOn'
    <2> SUFFICES ASSUME start \in {0, 1} \/ size <= 0, NEW id \in Alone, size > 0
                 PROVE  FromTop(id)' > Paginator(start, size).skip
      BY <1>1, <1>2, <1>4 DEF WalkOn, FromTheTop
    <2>1. Paginator(start, size).skip = 0
      <3>1. start = 0 \/ start = 1
        BY <1>2
      <3> QED BY <1>2, <3>1, SkippedRows
    <2>2. FromTop(id)' = FromTop(id)
      BY <1>3 DEF FromTop, Matching
    <2> QED BY <1>7, <2>1, <2>2
  <1>9. PageWalkMissesNone' /\ RowNumberIsRank'
    BY <1>1 DEF PageWalkMissesNone, RowNumberIsRank
  <1> QED
    BY <1>5, <1>6, <1>8, <1>9

\* One page more.
LEMMA PageKeepsInv ==
  ASSUME ListingInv, GetPage
  PROVE  reader' \in Reader /\ ReaderFits' /\ WalkOn' /\ PageWalkMissesNone' /\ RowNumberIsRank'
PROOF
  <1>1. RecordsTypes /\ docs' = docs /\ reader \in Reader /\ reader.status = "open"
    BY DEF ListingInv, RecordsInv, GetPage, recordsVars
  <1>2. PICK start \in Int, size \in Int : start = reader.start /\ size = reader.size
    BY <1>1, ReaderTypes
  <1>3. reader.first \in Int /\ reader.seen \subseteq Row /\ reader.standing \subseteq Ids
        /\ reader.left \in BOOLEAN /\ reader.joined \subseteq Ids
    BY <1>1, ReaderTypes
  <1>4. CASE Refused(start, size)
    <2>1. reader' = [reader EXCEPT !.status = "refused"]
      BY <1>2, <1>4 DEF GetPage
    <2>2. reader' \in Reader /\ reader'.status = "refused"
      BY <1>1, <2>1 DEF Reader
    <2> QED BY <2>2, NothingShown
  <1>5. CASE ~Refused(start, size)
    <2>1. PICK s \in Sorted(Matching) :
            LET rows == Rows(s, start, size)
                full == size > 0 /\ Cardinality(rows) = size
            IN  reader' = [reader EXCEPT !.seen = @ \cup rows,
                                         !.start = @ + 1,
                                         !.status = IF full THEN "open" ELSE "read"]
      BY <1>2, <1>5 DEF GetPage
    <2> DEFINE rows == Rows(s, start, size)
               full == size > 0 /\ Cardinality(rows) = size
    <2>2. /\ rows \subseteq Row
          /\ \A row \in rows :
               row.id \in Alone /\ (start = 1 \/ size = 0 \/ (start >= 1 /\ size > 0)) =>
                 row.index = FromEnd(row.id)
          /\ \A id \in Alone :
               \/ \E row \in rows : row.id = id
               \/ /\ size > 0
                  /\ \/ FromTop(id) <= Paginator(start, size).skip
                     \/ /\ FromTop(id) > Paginator(start, size).skip + size
                        /\ Cardinality(rows) = size
      BY <1>1, <1>5, RowsOfPage, PageShowsRanks
    <2> HIDE DEF rows
    <2>3. /\ reader' \in Reader
          /\ reader'.status = IF full THEN "open" ELSE "read"
          /\ reader'.first = reader.first /\ reader'.start = start + 1 /\ reader'.size = size
          /\ reader'.seen = reader.seen \cup rows /\ reader'.standing = reader.standing
          /\ reader'.left = reader.left /\ reader'.joined = reader.joined
      <3>1. reader \in [status : {"closed", "open", "read", "refused"}, first : Int,
                        start : Int, size : Int, seen : SUBSET Row, standing : SUBSET Ids,
                        left : BOOLEAN, joined : SUBSET Ids]
        BY <1>1 DEF Reader
      <3>2. PICK status \in {"open", "read"} : status = IF full THEN "open" ELSE "read"
        OBVIOUS
      <3>3. PICK seen \in SUBSET Row : seen = reader.seen \cup rows
        BY <1>3, <2>2
      <3>4. reader' = [reader EXCEPT !.seen = seen, !.start = start + 1, !.status = status]
        BY <1>2, <2>1, <3>2, <3>3 DEF rows
      <3>5. start + 1 \in Int
        OBVIOUS
      <3>6. reader' \in [status : {"open", "read", "refused"}, first : Int, start : Int,
                         size : Int, seen : SUBSET Row, standing : SUBSET Ids,
                         left : BOOLEAN, joined : SUBSET Ids]
        BY <3>1, <3>4, <3>5
      <3> QED BY <1>2, <3>1, <3>2, <3>3, <3>4, <3>6 DEF Reader
    <2>4. reader.standing \subseteq Alone /\ reader.first <= start
          /\ (size <= 0 => start = reader.first)
      BY <1>1, <1>2 DEF ListingInv, ReaderFits, Reading
    <2>5. Alone' = Alone /\ Matching' = Matching
      BY <1>1 DEF Alone, Matching
    <2>6. \A id : FromTop(id)' = FromTop(id) /\ Older(id)' = Older(id)
      BY <1>1 DEF FromTop, Older, Matching
    <2>7. ReaderFits'
      BY <1>3, <2>3, <2>4, <2>5 DEF ReaderFits, Reading
    \* A document that is not skipped and not seen yet is further down.
    <2>8. ASSUME FromTheTop, ~reader.left, NEW id \in reader.standing
          PROVE  \/ \E row \in reader'.seen : row.id = id
                 \/ full /\ FromTop(id) > Paginator(start + 1, size).skip
      <3>1. id \in Alone /\ FromTop(id) \in Nat
        BY <1>1, <2>4, <2>8, PlacesAreNumbers
      <3>2. \/ \E row \in reader.seen : row.id = id
            \/ size <= 0
            \/ FromTop(id) > Paginator(start, size).skip
        BY <1>1, <1>2, <2>8 DEF ListingInv, WalkOn
      <3>3. size > 0 => start >= 0
        BY <1>2, <1>3, <2>4, <2>8 DEF FromTheTop
      <3>4. /\ Paginator(start, size).skip \in Int /\ Paginator(start + 1, size).skip \in Int
            /\ size > 0 =>
                 Paginator(start + 1, size).skip <= Paginator(start, size).skip + size
        BY <3>3, SkippedRows
      <3>5. CASE \E row \in reader'.seen : row.id = id
        BY <3>5
      <3>6. CASE ~ \E row \in reader'.seen : row.id = id
        <4>1. /\ size > 0
              /\ \/ FromTop(id) <= Paginator(start, size).skip
                 \/ /\ FromTop(id) > Paginator(start, size).skip + size
                    /\ Cardinality(rows) = size
          BY <2>2, <2>3, <3>1, <3>6
        <4>2. FromTop(id) > Paginator(start, size).skip
          BY <2>3, <3>2, <3>6, <4>1
        <4> QED
          BY <3>1, <3>4, <4>1, <4>2
      <3> QED BY <3>5, <3>6
    <2>9. FromTheTop' <=> FromTheTop
      BY <1>2, <2>3 DEF FromTheTop
    <2>10. WalkOn' /\ PageWalkMissesNone'
      BY <2>3, <2>6, <2>8, <2>9 DEF WalkOn, PageWalkMissesNone
    <2>11. ASSUME (reader.first >= 1 /\ size > 0) \/ reader.first = 1 \/ size = 0,
                  ~reader.left,
                  NEW row \in reader'.seen, row.id \in reader.standing
           PROVE  row.index \in OldFromEnd(row.id) .. FromEnd(row.id)
      <3>1. CASE row \in reader.seen
        BY <1>1, <1>2, <2>11, <3>1
           DEF ListingInv, RowNumberIsRank, OldFromEnd, FromEnd, Older
      <3>2. CASE row \in rows
        <4>1. start = 1 \/ size = 0 \/ (start >= 1 /\ size > 0)
          BY <1>3, <2>4, <2>11
        <4>2. row.index = FromEnd(row.id)
          BY <2>2, <2>4, <2>11, <3>2, <4>1
        <4> QED BY <1>1, <4>2, RanksAreNumbers
      <3> QED BY <2>3, <2>11, <3>1, <3>2
    <2>12. RowNumberIsRank'
      BY <1>1, <2>3, <2>6, <2>11 DEF RowNumberIsRank, OldFromEnd, FromEnd, Older, Matching
    <2> QED BY <2>3, <2>7, <2>10, <2>12
  <1> QED
    BY <1>4, <1>5

\* A write of the methods, next to an open list.
LEMMA WriteBesideKeepsInv ==
  ASSUME ListingInv, WriteBeside, RecordsTypes'
  PROVE  reader' \in Reader /\ ReaderFits' /\ WalkOn' /\ PageWalkMissesNone' /\ RowNumberIsRank'
PROOF
  <1>1. RecordsTypes /\ reader \in Reader
    BY DEF ListingInv, RecordsInv
  <1>2. \A id \in Ids : Dated(id)
    BY StepsDateDocuments DEF ListingInv, WriteBeside
  <1>3. CASE reader.status \in {"closed", "refused"}
    <2>1. reader' = reader
      BY <1>3 DEF WriteBeside
    <2> QED BY <1>1, <1>3, <2>1, NothingShown
  <1>4. CASE reader.status \in {"open", "read"}
    <2>1. /\ reader.first \in Int /\ reader.start \in Int /\ reader.size \in Int
          /\ reader.seen \subseteq Row /\ reader.standing \subseteq Ids
          /\ reader.left \in BOOLEAN /\ reader.joined \subseteq Ids
      BY <1>1, <1>4, ReaderTypes
    <2>2. PICK standing \in SUBSET Ids, left \in BOOLEAN, joined \in SUBSET Ids :
            /\ standing = reader.standing \cap Alone'
            /\ left = (reader.left \/ ~(Matching \subseteq Matching'))
            /\ joined = reader.joined \cup (Matching' \ Matching)
      <3>1. Matching' \subseteq Ids
        BY DEF Matching
      <3> QED BY <2>1, <3>1
    <2>3. reader' = [reader EXCEPT !.standing = standing, !.left = left, !.joined = joined]
      BY <1>4, <2>2 DEF WriteBeside
    <2>4. reader \in [status : {"open", "read", "refused"}, first : Int, start : Int,
                      size : Int, seen : SUBSET Row, standing : SUBSET Ids,
                      left : BOOLEAN, joined : SUBSET Ids]
      BY <1>1, <1>4 DEF Reader
    <2>5. /\ reader' \in Reader
          /\ reader'.status = reader.status /\ reader'.first = reader.first
          /\ reader'.start = reader.start /\ reader'.size = reader.size
          /\ reader'.seen = reader.seen /\ reader'.standing = standing
          /\ reader'.left = left /\ reader'.joined = joined
      BY <2>3, <2>4 DEF Reader
    <2>6. ~left => ~reader.left /\ Matching \subseteq Matching'
      BY <2>2
    <2>8. standing \subseteq reader.standing /\ standing \subseteq Alone' /\ standing \subseteq Alone
      BY <1>4, <2>2 DEF ListingInv, ReaderFits, Reading
    <2>9. ReaderFits'
      BY <1>4, <2>5, <2>8 DEF ListingInv, ReaderFits, Reading
    <2>10. FromTheTop' <=> FromTheTop
      BY <2>5 DEF FromTheTop
    <2>11. ASSUME ~left, NEW id \in standing
           PROVE  /\ FromTop(id) \in Nat /\ FromTop(id)' \in Nat
                  /\ FromTop(id) <= FromTop(id)'
                  /\ OldFromEnd(id) \in Int /\ FromEnd(id) \in Int
                  /\ OldFromEnd(id)' = OldFromEnd(id)
                  /\ FromEnd(id)' \in Int /\ FromEnd(id) <= FromEnd(id)'
      <3>1. id \in Alone /\ id \in Alone' /\ Matching \subseteq Matching'
            /\ reader'.joined = reader.joined \cup (Matching' \ Matching)
        BY <2>2, <2>5, <2>6, <2>8, <2>11
      <3> QED BY <1>1, <1>2, <3>1, RanksBeside, RanksAreNumbers
    <2>12. WalkOn'
      <3> SUFFICES ASSUME reader.status = "open", FromTheTop, ~left, NEW id \in standing,
                          ~ \E row \in reader.seen : row.id = id, reader.size > 0
                   PROVE  FromTop(id)' > Paginator(reader.start, reader.size).skip
        BY <2>1, <2>5, <2>10 DEF WalkOn
      <3>1. FromTop(id) > Paginator(reader.start, reader.size).skip
        BY <2>1, <2>6, <2>8 DEF ListingInv, WalkOn
      <3>2. Paginator(reader.start, reader.size).skip \in Int
        BY <2>1, SkippedRows
      <3> QED BY <2>11, <3>1, <3>2
    <2>13. PageWalkMissesNone'
      BY <2>5, <2>6, <2>8, <2>10 DEF ListingInv, PageWalkMissesNone
    <2>14. ASSUME (reader.first >= 1 /\ reader.size > 0) \/ reader.first = 1 \/ reader.size = 0,
                  ~left, NEW row \in reader.seen, row.id \in standing
           PROVE  row.index \in OldFromEnd(row.id)' .. FromEnd(row.id)'
      <3>1. row.index \in OldFromEnd(row.id) .. FromEnd(row.id)
        BY <1>4, <2>6, <2>8, <2>14
           DEF ListingInv, RowNumberIsRank, OldFromEnd, FromEnd, Older
      <3> QED BY <2>11, <2>14, <3>1
    <2>15. RowNumberIsRank'
      BY <2>5, <2>14 DEF RowNumberIsRank, OldFromEnd, FromEnd, Older
    <2> QED BY <2>5, <2>9, <2>12, <2>13, <2>15
  <1> QED
    BY <1>1, <1>3, <1>4, ReaderTypes

-----------------------------------------------------------------------------
(* The theorems. *)

LEMMA ListingStart ==
  ASSUME ListingInit
  PROVE  ListingInv
PROOF
  <1>1. RecordsInit /\ reader = [status |-> "closed"]
    BY DEF ListingInit
  <1>2. RecordsInv
    BY <1>1, RecordsStart
  <1>3. reader \in Reader /\ reader.status = "closed"
    BY <1>1 DEF Reader
  <1> QED
    BY <1>2, <1>3 DEF ListingInv, ReaderFits, Reading, WalkOn, PageWalkMissesNone,
                      RowNumberIsRank

LEMMA ListingStep ==
  ASSUME ListingInv, [ListingNext]_listingVars
  PROVE  ListingInv'
PROOF
  <1>1. [RecordsNext]_recordsVars
    BY DEF ListingNext, OpenList, GetPage, CloseList, WriteBeside, listingVars
  <1>2. RecordsInv' /\ RecordsTypes'
    BY <1>1, RecordsStep DEF ListingInv, RecordsInv
  <1>4. CASE OpenList
    BY <1>2, <1>4, OpenKeepsInv DEF ListingInv
  <1>5. CASE GetPage
    BY <1>2, <1>5, PageKeepsInv DEF ListingInv
  <1>6. CASE WriteBeside
    BY <1>2, <1>6, WriteBesideKeepsInv DEF ListingInv
  <1>7. CASE CloseList
    <2>1. reader' \in Reader /\ reader'.status = "closed"
      BY <1>7 DEF CloseList, Reader
    <2> QED BY <1>2, <2>1, NothingShown DEF ListingInv
  <1>8. CASE UNCHANGED listingVars
    <2>1. reader' = reader /\ docs' = docs
      BY <1>8 DEF listingVars, recordsVars
    <2> QED
      BY <1>2, <2>1
         DEF ListingInv, ReaderFits, Reading, WalkOn, FromTheTop, FromTop, Alone, Matching,
             PageWalkMissesNone, RowNumberIsRank
  <1> QED
    BY <1>4, <1>5, <1>6, <1>7, <1>8 DEF ListingNext

\* Whatever the methods write between two pages, the reader is as far down the
\* list as the pages it has read, and the rows it holds are where the documents
\* written since have left them.
THEOREM ListingInvariant == ListingSpec => []ListingInv
  BY ListingStart, ListingStep, PTL DEF ListingSpec

\* A client that reads lists leaves the methods alone, so that what is proved
\* of the log holds beside it.
THEOREM ListingImplementsRecords == ListingSpec => RecordsSpec
  <1>1. ListingInit => RecordsInit
    BY DEF ListingInit
  <1>2. [ListingNext]_listingVars => [RecordsNext]_recordsVars
    BY DEF ListingNext, OpenList, GetPage, CloseList, WriteBeside, listingVars
  <1> QED
    BY <1>1, <1>2, PTL DEF ListingSpec, RecordsSpec

\* A client that reads the pages from the top to the end misses no document
\* that stood in the list all the time under a date of its own.
THEOREM WalkMissesNone == ListingSpec => []PageWalkMissesNone
  <1>1. ListingInv => PageWalkMissesNone
    BY DEF ListingInv
  <1> QED
    BY <1>1, ListingInvariant, PTL

\* The number of a row is the rank its document had when the row was read:
\* since then only documents that came to the list with an older date, or
\* the same one, can have raised the rank, and nothing can have lowered it.
THEOREM RowsAreNumberedByRank == ListingSpec => []RowNumberIsRank
  <1>1. ListingInv => RowNumberIsRank
    BY DEF ListingInv
  <1> QED
    BY <1>1, ListingInvariant, PTL

=============================================================================
