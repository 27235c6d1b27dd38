--------------------------- MODULE RecordsProofs ---------------------------
(***************************************************************************)
(* The activity log of Records for every instance: the log only tells      *)
(* modifications that happened, and it tells every change of a document    *)
(* but the excused ones.  The entry a method will store is made one call   *)
(* or two before, so that the inductive invariant speaks of the entries    *)
(* the methods hold as LogIsTrue and LogIsComplete do of those stored.     *)
(***************************************************************************)
EXTENDS Records, FiniteSetTheorems, SequenceTheorems, TLAPS

Version == Document \cup {None}

LogEntry == [id : Ids,
             action : {"BASIC_ADD_DOCUMENT", "BASIC_UPDATE_DOCUMENT",
                       "BASIC_DELETE_DOCUMENT"},
             modifications : SUBSET Modification]

Call ==
  {Idle}
  \cup [stage : {"insert"}, body : Bodies, created_on : Nat]
  \cup [stage : {"write"}, id : Ids, body : Bodies, old : Version, version : Nat]
  \cup [stage : {"log"}, id : Ids, version : Nat, entry : LogEntry]

RecordsTypes ==
  /\ docs \in [Ids -> Version]
  /\ clock \in Nat
  /\ history \in [Ids -> Seq(Version)]
  /\ calls \in [Callers -> Call]
  /\ made \in Nat
  /\ log \subseteq LogEntry

\* The collection is the last of the versions.
LastIsStored ==
  \A id \in Ids : LastVersion(id) >= 1 /\ docs[id] = history[id][LastVersion(id)]

\* The text a document is printed as under a key.
TextOf(doc, f) == Printed(Deconstruct(doc), f)

\* One modification is true: LogIsTrue for an entry on the document id.
ModificationIsTrue(id, m) ==
  \/ m.old_value = "false" /\ m.new_value = "false"
  \/ /\ m.old_value # m.new_value
     /\ \E j \in 2 .. LastVersion(id) : \E i \in 1 .. j - 1 :
          /\ TextOf(history[id][i], m.field_name) = m.old_value
          /\ TextOf(history[id][j], m.field_name) = m.new_value

EntryIsTrue(e) == \A m \in e.modifications : ModificationIsTrue(e.id, m)

\* The modification of a field between a version and the one before.
Told(id, i, f) ==
  [field_name |-> f, old_value |-> TextOf(history[id][i - 1], f),
   new_value |-> TextOf(history[id][i], f)]

\* The entry tells all that the version i of the document changed.
Tells(e, id, i) == \A f \in ChangedFields(id, i) : Told(id, i, f) \in e.modifications

\* What an update read is a version of the document.
WriteFits(c) ==
  calls[c].stage = "write" =>
    /\ calls[c].version \in 1 .. LastVersion(calls[c].id)
    /\ calls[c].old = history[calls[c].id][calls[c].version]

\* A document deleted for good: no method gives the id out again.
Gone(id) == docs[id] = None /\ ~Fresh(id)

\* The entry that a method has yet to store is one the log may have, and
\* tells the version the method wrote; an update whose document was deleted
\* meanwhile wrote none.
LogFits(c) ==
  calls[c].stage = "log" =>
    LET id == calls[c].id
        i == calls[c].version
        e == calls[c].entry
    IN  /\ e.id = id
        /\ EntryIsTrue(e)
        /\ \/ i \in 2 .. LastVersion(id) /\ (<<id, i>> \in excused \/ Tells(e, id, i))
           \/ i \notin 2 .. LastVersion(id) /\ Gone(id)

CallsFit == \A c \in Callers : WriteFits(c) /\ LogFits(c)

\* LogIsComplete, for one version.
VersionIsLogged(id, i) ==
  \/ <<id, i>> \in excused
  \/ \E c \in Callers : /\ calls[c].stage = "log"
                        /\ calls[c].id = id /\ calls[c].version = i
  \/ \A f \in ChangedFields(id, i) :
       \E e \in log : e.id = id /\ Told(id, i, f) \in e.modifications

RecordsInv ==
  /\ RecordsTypes
  /\ LastIsStored
  /\ CallsFit
  /\ \A e \in log : EntryIsTrue(e)
  /\ \A id \in Ids : \A i \in 2 .. LastVersion(id) : VersionIsLogged(id, i)

-----------------------------------------------------------------------------
(* The modifications between two documents. *)

\* The texts of a document: its given fields, and Empty for the others.
LEMMA TextIsField ==
  ASSUME NEW doc, NEW f \in Fields
  PROVE  /\ DOMAIN Deconstruct(doc) \subseteq Fields
         /\ f \in DOMAIN Deconstruct(doc) <=> TextOf(doc, f) # Empty
         /\ TextOf(doc, f) =
              IF doc # None /\ f \in DOMAIN doc /\ doc[f] # None THEN doc[f] ELSE Empty
PROOF
  <1>1. CASE doc = None
    <2>1. DOMAIN Deconstruct(doc) = {}
      BY <1>1 DEF Deconstruct
    <2> QED BY <1>1, <2>1 DEF TextOf, Printed
  <1>2. CASE doc # None
    <2> DEFINE given == {g \in Fields \cap DOMAIN doc : doc[g] \notin {Empty, None}}
    <2>1. Deconstruct(doc) = [g \in given |-> doc[g]]
      BY <1>2 DEF Deconstruct
    <2>2. DOMAIN Deconstruct(doc) = given
      BY <2>1
    <2>3. f \in given => Deconstruct(doc)[f] = doc[f]
      BY <2>1
    <2> QED BY <1>2, <2>2, <2>3 DEF TextOf, Printed
  <1> QED BY <1>1, <1>2

\* The texts of what the model holds are texts.
LEMMA TextsAreTexts ==
  ASSUME NEW doc \in Version \cup Body, NEW f \in Fields
  PROVE  TextOf(doc, f) \in Texts
PROOF
  <1>1. CASE doc = None
    BY <1>1, TextIsField DEF Texts
  <1>2. CASE doc \in Document
    BY <1>2, TextIsField DEF Document, Fields, Texts
  <1>3. CASE doc \in Body
    BY <1>3, TextIsField DEF Body, Fields, Texts
  <1> QED BY <1>1, <1>2, <1>3 DEF Version

\* A modification is found where the texts differ, and where both are "false".
LEMMA ModificationsAreDifferences ==
  ASSUME NEW new \in Version \cup Body, NEW old \in Version \cup Body
  PROVE  /\ DetectModifications(new, old) \subseteq Modification
         /\ \A m \in DetectModifications(new, old) :
              /\ m.old_value = TextOf(old, m.field_name)
              /\ m.new_value = TextOf(new, m.field_name)
              /\ \/ m.old_value = "false" /\ m.new_value = "false"
                 \/ m.old_value # m.new_value
         /\ \A f \in Fields : TextOf(old, f) # TextOf(new, f) =>
              [field_name |-> f, old_value |-> TextOf(old, f),
               new_value |-> TextOf(new, f)] \in DetectModifications(new, old)
PROOF
  <1> DEFINE N == Deconstruct(new)
             O == Deconstruct(old)
             keys == DOMAIN N \cup DOMAIN O
             changed == {f \in keys : Falsy(O, f) \/ Falsy(N, f) \/ O[f] # N[f]}
             M(f) == [field_name |-> f, old_value |-> Printed(O, f),
                      new_value |-> Printed(N, f)]
  <1>1. DetectModifications(new, old) = {M(f) : f \in changed}
    BY DEF DetectModifications
  <1>2. \A f : M(f).field_name = f /\ M(f).old_value = TextOf(old, f)
               /\ M(f).new_value = TextOf(new, f)
    BY DEF TextOf
  <1>3. \A f \in keys :
          /\ f \in Fields
          /\ TextOf(old, f) \in Texts /\ TextOf(new, f) \in Texts
          /\ f \in DOMAIN O <=> TextOf(old, f) # Empty
          /\ f \in DOMAIN N <=> TextOf(new, f) # Empty
    <2>1. keys \subseteq Fields
      BY TextIsField DEF Fields
    <2> QED BY <2>1, TextIsField, TextsAreTexts
  <1>4. \A f \in changed : M(f) \in Modification
    BY <1>3 DEF Modification, TextOf
  <1>5. \A f \in changed :
          \/ TextOf(old, f) = "false" /\ TextOf(new, f) = "false"
          \/ TextOf(old, f) # TextOf(new, f)
    <2> SUFFICES ASSUME NEW f \in changed, TextOf(old, f) = TextOf(new, f)
                 PROVE  TextOf(old, f) = "false"
      OBVIOUS
    <2>1. f \in DOMAIN O /\ f \in DOMAIN N
      BY <1>3
    <2>2. O[f] = N[f]
      BY <2>1 DEF TextOf, Printed
    <2> QED BY <2>1, <2>2 DEF TextOf, Printed, Falsy
  <1>6. ASSUME NEW f \in Fields, TextOf(old, f) # TextOf(new, f)
        PROVE  f \in changed
    <2>1. f \in keys
      BY <1>6, TextIsField
    <2>2. f \in DOMAIN O /\ f \in DOMAIN N => O[f] # N[f]
      BY <1>6 DEF TextOf, Printed
    <2> QED BY <2>1, <2>2 DEF Falsy
  <1> HIDE DEF changed, M
  <1>7. \A f : M(f) = [field_name |-> f, old_value |-> TextOf(old, f),
                       new_value |-> TextOf(new, f)]
    BY DEF M, TextOf
  <1> QED BY <1>1, <1>2, <1>4, <1>5, <1>6, <1>7-----------------------------------------------------------------------------
(* The versions of a document. *)

\* What MongoDB stores has the types of the schema; no update changes the
\* date of creation.
LEMMA StoredIsDocument ==
  ASSUME NEW body \in Bodies, NEW user \in Callers
  PROVE  /\ \A time \in Nat : Inserted(body, user, time) \in Document
         /\ \A doc \in Document : /\ Merged(doc, body, user) \in Document
                                  /\ Merged(doc, body, user).created_on = doc.created_on
  BY RecordsAssumption DEF Body, Document, Inserted, Merged

\* The versions there are stay, whatever comes after them.
Extended ==
  \A id \in Ids :
    /\ LastVersion(id) <= LastVersion(id)'
    /\ \A i \in 1 .. LastVersion(id) : history'[id][i] = history[id][i]

\* One document gets one version more.
LEMMA WriteAppends ==
  ASSUME RecordsTypes, LastIsStored, NEW id \in Ids, NEW version \in Version,
         Write(id, version)
  PROVE  /\ docs' \in [Ids -> Version] /\ history' \in [Ids -> Seq(Version)]
         /\ LastIsStored'
         /\ Extended
         /\ LastVersion(id)' = LastVersion(id) + 1
         /\ history'[id][LastVersion(id) + 1] = version
         /\ \A other \in Ids \ {id} : docs'[other] = docs[other] /\ history'[other] = history[other]
PROOF
  <1>1. /\ docs' = [docs EXCEPT ![id] = version]
        /\ history' = [history EXCEPT ![id] = Append(@, version)]
    BY DEF Write
  <1>2. /\ docs \in [Ids -> Version] /\ history \in [Ids -> Seq(Version)]
    BY DEF RecordsTypes
  <1>3. /\ Append(history[id], version) \in Seq(Version)
        /\ Len(Append(history[id], version)) = Len(history[id]) + 1
        /\ \A i \in 1 .. Len(history[id]) : Append(history[id], version)[i] = history[id][i]
        /\ Append(history[id], version)[Len(history[id]) + 1] = version
    BY <1>2, AppendProperties
  <1>4. docs' \in [Ids -> Version] /\ history' \in [Ids -> Seq(Version)]
    BY <1>1, <1>2, <1>3
  <1>5. docs'[id] = version /\ history'[id] = Append(history[id], version)
    BY <1>1, <1>2
  <1>6. \A other \in Ids \ {id} : docs'[other] = docs[other] /\ history'[other] = history[other]
    BY <1>1, <1>2
  <1>7. \A other \in Ids : LastVersion(other) \in Nat
    BY <1>2, LenProperties DEF LastVersion
  <1>8. LastIsStored'
    <2> SUFFICES ASSUME NEW other \in Ids
                 PROVE  LastVersion(other)' >= 1
                        /\ docs'[other] = history'[other][LastVersion(other)']
      BY DEF LastIsStored
    <2>1. CASE other = id
      BY <2>1, <1>3, <1>5, <1>7 DEF LastVersion
    <2>2. CASE other # id
      BY <2>2, <1>6, <1>7 DEF LastVersion, LastIsStored
    <2> QED BY <2>1, <2>2
  <1>9. Extended
    <2> SUFFICES ASSUME NEW other \in Ids
                 PROVE  /\ LastVersion(other) <= LastVersion(other)'
                        /\ \A i \in 1 .. LastVersion(other) :
                             history'[other][i] = history[other][i]
      BY DEF Extended
    <2>1. CASE other = id
      BY <2>1, <1>3, <1>5, <1>7 DEF LastVersion
    <2>2. CASE other # id
      BY <2>2, <1>6, <1>7 DEF LastVersion
    <2> QED BY <2>1, <2>2
  <1>10. LastVersion(id)' = LastVersion(id) + 1
         /\ history'[id][LastVersion(id) + 1] = version
    BY <1>3, <1>5 DEF LastVersion
  <1> QED BY <1>4, <1>6, <1>8, <1>9, <1>10

\* No version, when nothing is written.
LEMMA NothingAppended ==
  ASSUME RecordsTypes, UNCHANGED history
  PROVE  Extended
  <1>1. \A id \in Ids : LastVersion(id) \in Nat
    BY LenProperties DEF LastVersion, RecordsTypes
  <1> QED BY <1>1 DEF Extended, LastVersion

\* A modification that was true stays true.
LEMMA TruthIsKept ==
  ASSUME RecordsTypes, RecordsTypes', Extended, NEW e \in LogEntry, EntryIsTrue(e)
  PROVE  EntryIsTrue(e)'
PROOF
  <1> SUFFICES ASSUME NEW m \in e.modifications, ModificationIsTrue(e.id, m)
               PROVE  ModificationIsTrue(e.id, m)'
    BY DEF EntryIsTrue
  <1>0. e.id \in Ids
    BY DEF LogEntry
  <1>1. CASE m.old_value = "false" /\ m.new_value = "false"
    BY <1>1 DEF ModificationIsTrue
  <1>2. CASE ~(m.old_value = "false" /\ m.new_value = "false")
    <2>1. PICK j \in 2 .. LastVersion(e.id) : \E i \in 1 .. j - 1 :
            /\ TextOf(history[e.id][i], m.field_name) = m.old_value
            /\ TextOf(history[e.id][j], m.field_name) = m.new_value
      BY <1>2 DEF ModificationIsTrue
    <2>2. PICK i \in 1 .. j - 1 :
            /\ TextOf(history[e.id][i], m.field_name) = m.old_value
            /\ TextOf(history[e.id][j], m.field_name) = m.new_value
      BY <2>1
    <2>3. LastVersion(e.id) \in Nat /\ LastVersion(e.id)' \in Nat
      BY <1>0, LenProperties DEF LastVersion, RecordsTypes
    <2>4. i \in 1 .. LastVersion(e.id) /\ j \in 1 .. LastVersion(e.id)
          /\ j \in 2 .. LastVersion(e.id)'
      BY <2>3, <1>0 DEF Extended
    <2>5. history'[e.id][i] = history[e.id][i] /\ history'[e.id][j] = history[e.id][j]
      BY <2>4, <1>0 DEF Extended
    <2>6. m.old_value # m.new_value
      BY <1>2 DEF ModificationIsTrue
    <2> QED BY <2>2, <2>4, <2>5, <2>6 DEF ModificationIsTrue, TextOf
  <1> QED BY <1>1, <1>2

\* What a version changed does not change any more.
LEMMA ChangesAreKept ==
  ASSUME RecordsTypes, Extended, NEW id \in Ids, NEW i \in 2 .. LastVersion(id)
  PROVE  /\ ChangedFields(id, i)' = ChangedFields(id, i)
         /\ \A f : Told(id, i, f)' = Told(id, i, f)
PROOF
  <1>1. i - 1 \in 1 .. LastVersion(id) /\ i \in 1 .. LastVersion(id)
    BY LenProperties DEF LastVersion, RecordsTypes
  <1>2. history'[id][i - 1] = history[id][i - 1] /\ history'[id][i] = history[id][i]
    BY <1>1 DEF Extended
  <1> QED BY <1>2 DEF ChangedFields, Told, VersionOf, TextOf

-----------------------------------------------------------------------------
(* What a step leaves to the other methods. *)

\* An entry that is held stays held, is stored or is excused.
Handled(c) ==
  calls[c].stage = "log" =>
    \/ calls'[c] = calls[c]
    \/ <<calls[c].id, calls[c].version>> \in excused'
    \/ calls[c].entry \in log'

Beside ==
  /\ Extended
  /\ \A id \in Ids : Gone(id) => docs'[id] = docs[id] /\ history'[id] = history[id]
  /\ excused \subseteq excused' /\ log \subseteq log'
  /\ \A c \in Callers : Handled(c)

\* The types of what a call holds.
LEMMA CallTypes ==
  ASSUME RecordsTypes, NEW c \in Callers
  PROVE  /\ calls[c].stage \in {"idle", "insert", "write", "log"}
         /\ calls[c].stage = "idle" => calls[c] = Idle
         /\ calls[c].stage = "insert" =>
              calls[c].body \in Bodies /\ calls[c].created_on \in Nat
         /\ calls[c].stage = "write" =>
              /\ calls[c].id \in Ids /\ calls[c].body \in Bodies
              /\ calls[c].old \in Version /\ calls[c].version \in Nat
         /\ calls[c].stage = "log" =>
              /\ calls[c].id \in Ids /\ calls[c].version \in Nat
              /\ calls[c].entry \in LogEntry
  BY DEF RecordsTypes, Call, Idle

LEMMA OthersAreKept ==
  ASSUME RecordsInv, RecordsTypes', Beside
  PROVE  /\ \A c \in Callers : calls'[c] = calls[c] => WriteFits(c)' /\ LogFits(c)'
         /\ \A e \in log : EntryIsTrue(e)'
         /\ \A id \in Ids : \A i \in 2 .. LastVersion(id) : VersionIsLogged(id, i)'
PROOF
  <1>0. RecordsTypes /\ Extended
    BY DEF RecordsInv, Beside
  <1>1. \A id \in Ids : LastVersion(id) \in Nat /\ LastVersion(id)' \in Nat
                        /\ LastVersion(id) <= LastVersion(id)'
    BY <1>0, LenProperties DEF LastVersion, RecordsTypes, Extended
  <1>2. ASSUME NEW c \in Callers, calls'[c] = calls[c]
        PROVE  WriteFits(c)'
    <2> SUFFICES ASSUME calls[c].stage = "write"
                 PROVE  /\ calls[c].version \in 1 .. Len(history'[calls[c].id])
                        /\ calls[c].old = history'[calls[c].id][calls[c].version]
      BY <1>2 DEF WriteFits, LastVersion
    <2>1. calls[c].id \in Ids
      BY <1>0, CallTypes
    <2>2. calls[c].version \in 1 .. LastVersion(calls[c].id)
          /\ calls[c].old = history[calls[c].id][calls[c].version]
      BY DEF RecordsInv, CallsFit, WriteFits
    <2> QED BY <1>0, <1>1, <2>1, <2>2 DEF Extended, LastVersion
  <1>3. ASSUME NEW c \in Callers, calls'[c] = calls[c]
        PROVE  LogFits(c)'
    <2> SUFFICES ASSUME calls[c].stage = "log"
                 PROVE  LogFits(c)'
      BY <1>3 DEF LogFits
    <2>1. PICK id \in Ids, i \in Nat, e \in LogEntry :
            calls[c].id = id /\ calls[c].version = i /\ calls[c].entry = e
      BY <1>0, CallTypes
    <2>2. /\ e.id = id
          /\ EntryIsTrue(e)
          /\ \/ i \in 2 .. LastVersion(id) /\ (<<id, i>> \in excused \/ Tells(e, id, i))
             \/ i \notin 2 .. LastVersion(id) /\ Gone(id)
      BY <2>1 DEF RecordsInv, CallsFit, LogFits
    <2>3. EntryIsTrue(e)'
      BY <1>0, <2>2, TruthIsKept
    <2>4. CASE /\ i \in 2 .. LastVersion(id)
               /\ <<id, i>> \in excused \/ Tells(e, id, i)
      <3>1. i \in 2 .. LastVersion(id)'
        BY <1>1, <2>4
      <3>2. <<id, i>> \in excused' \/ Tells(e, id, i)'
        BY <1>0, <2>4, ChangesAreKept DEF Beside, Tells
      <3> QED
        BY <1>3, <2>1, <2>2, <2>3, <3>1, <3>2 DEF LogFits
    <2>5. CASE i \notin 2 .. LastVersion(id) /\ Gone(id)
      <3>1. docs'[id] = docs[id] /\ history'[id] = history[id]
        BY <2>5 DEF Beside
      <3>2. i \notin 2 .. LastVersion(id)' /\ Gone(id)'
        BY <2>5, <3>1 DEF Gone, Fresh, LastVersion
      <3> QED
        BY <1>3, <2>1, <2>2, <2>3, <3>2 DEF LogFits
    <2> QED
      BY <2>2, <2>4, <2>5
  <1>4. ASSUME NEW e \in log
        PROVE  EntryIsTrue(e)'
    BY <1>0, TruthIsKept DEF RecordsInv, RecordsTypes
  <1>5. ASSUME NEW id \in Ids, NEW i \in 2 .. LastVersion(id)
        PROVE  VersionIsLogged(id, i)'
    <2>1. /\ ChangedFields(id, i)' = ChangedFields(id, i)
          /\ \A f : Told(id, i, f)' = Told(id, i, f)
      BY <1>0, ChangesAreKept
    <2>2. VersionIsLogged(id, i)
      BY DEF RecordsInv
    <2>3. CASE <<id, i>> \in excused
      BY <2>3 DEF Beside, VersionIsLogged
    <2>4. CASE \A f \in ChangedFields(id, i) :
                 \E e \in log : e.id = id /\ Told(id, i, f) \in e.modifications
      BY <2>1, <2>4 DEF Beside, VersionIsLogged
    <2>5. ASSUME NEW c \in Callers, calls[c].stage = "log",
                 calls[c].id = id, calls[c].version = i
          PROVE  VersionIsLogged(id, i)'
      <3>1. Handled(c)
        BY DEF Beside
      <3>2. CASE calls'[c] = calls[c]
        BY <2>5, <3>2 DEF VersionIsLogged
      <3>3. CASE <<id, i>> \in excused'
        BY <3>3 DEF VersionIsLogged
      <3>4. CASE <<id, i>> \notin excused' /\ calls[c].entry \in log'
        <4>1. LogFits(c)
          BY DEF RecordsInv, CallsFit
        <4>2. calls[c].entry.id = id /\ Tells(calls[c].entry, id, i)
          BY <2>5, <3>4, <4>1 DEF LogFits, Beside
        <4> QED
          BY <2>1, <3>4, <4>2 DEF VersionIsLogged, Tells
      <3> QED
        BY <2>5, <3>1, <3>2, <3>3, <3>4 DEF Handled
    <2> QED
      BY <2>2, <2>3, <2>4, <2>5 DEF VersionIsLogged
  <1> QED
    BY <1>2, <1>3, <1>4, <1>5
-----------------------------------------------------------------------------
(* The steps. *)

\* A write with an entry to come keeps the invariant, if the entry tells
\* the truth and all of the version written.
LEMMA LoggedWriteKeepsInv ==
  ASSUME RecordsInv, NEW c \in Callers, calls[c].stage # "log",
         NEW id \in Ids, ~Gone(id), NEW version \in Version,
         NEW v \in Nat, v = LastVersion(id) + 1,
         NEW e \in LogEntry, e.id = id,
         Write(id, version), Goes(c, Logging(id, v, e)),
         log' = log, excused \subseteq excused', clock' \in Nat, made' \in Nat,
         EntryIsTrue(e)',
         <<id, v>> \in excused' \/ Tells(e, id, v)'
  PROVE  RecordsInv'
PROOF
  <1>0. RecordsTypes /\ LastIsStored
    BY DEF RecordsInv
  <1>1. /\ docs' \in [Ids -> Version] /\ history' \in [Ids -> Seq(Version)]
        /\ LastIsStored'
        /\ Extended
        /\ LastVersion(id)' = v
        /\ history'[id][v] = version
        /\ \A other \in Ids \ {id} : docs'[other] = docs[other] /\ history'[other] = history[other]
    BY <1>0, WriteAppends
  <1>2. \A x \in Ids : LastVersion(x) \in Nat /\ LastVersion(x) >= 1
    BY <1>0, LenProperties DEF LastVersion, RecordsTypes, LastIsStored
  <1>3. Logging(id, v, e) \in Call
    BY <1>2 DEF Logging, Call
  <1>4. /\ calls' \in [Callers -> Call]
        /\ calls'[c] = Logging(id, v, e)
        /\ \A d \in Callers \ {c} : calls'[d] = calls[d]
    BY <1>0, <1>3 DEF Goes, RecordsTypes
  <1>5. RecordsTypes'
    BY <1>0, <1>1, <1>4 DEF RecordsTypes
  <1>6. Beside
    <2>1. \A x \in Ids : Gone(x) => x # id
      OBVIOUS
    <2>2. \A d \in Callers : Handled(d)
      BY <1>4 DEF Handled
    <2> QED BY <1>1, <2>1, <2>2 DEF Beside
  <1>7. /\ \A d \in Callers : calls'[d] = calls[d] => WriteFits(d)' /\ LogFits(d)'
        /\ \A x \in log : EntryIsTrue(x)'
        /\ \A x \in Ids : \A i \in 2 .. LastVersion(x) : VersionIsLogged(x, i)'
    BY <1>5, <1>6, OthersAreKept
  <1>8. WriteFits(c)'
    BY <1>4 DEF Logging, WriteFits
  <1>9. LogFits(c)'
    <2>1. v \in 2 .. LastVersion(id)'
      BY <1>1, <1>2
    <2> QED
      BY <1>4, <2>1 DEF LogFits, Logging
  <1>10. CallsFit'
    BY <1>4, <1>7, <1>8, <1>9 DEF CallsFit
  <1>11. ASSUME NEW x \in Ids, NEW i \in 2 .. LastVersion(x)'
         PROVE  VersionIsLogged(x, i)'
    <2>1. CASE i \in 2 .. LastVersion(x)
      BY <1>7, <2>1
    <2>2. CASE i \notin 2 .. LastVersion(x)
      <3>1. x = id
        BY <1>1, <1>2, <2>2 DEF LastVersion
      <3>2. i = v
        BY <1>1, <1>2, <2>2, <3>1
      <3> QED
        BY <1>4, <3>1, <3>2 DEF VersionIsLogged, Logging
    <2> QED BY <2>1, <2>2
  <1> QED
    BY <1>1, <1>5, <1>7, <1>10, <1>11 DEF RecordsInv

\* A write without an entry, which the version is excused for.
LEMMA ExcusedWriteKeepsInv ==
  ASSUME RecordsInv, NEW c \in Callers, calls[c].stage # "log",
         NEW id \in Ids, ~Gone(id), NEW version \in Version,
         NEW v \in Nat, v = LastVersion(id) + 1,
         Write(id, version), calls' = calls \/ Goes(c, Idle),
         log' = log, excused' = excused \cup {<<id, v>>},
         clock' \in Nat, made' \in Nat
  PROVE  RecordsInv'
PROOF
  <1>0. RecordsTypes /\ LastIsStored
    BY DEF RecordsInv
  <1>1. /\ docs' \in [Ids -> Version] /\ history' \in [Ids -> Seq(Version)]
        /\ LastIsStored'
        /\ Extended
        /\ LastVersion(id)' = v
        /\ \A other \in Ids \ {id} : docs'[other] = docs[other] /\ history'[other] = history[other]
    BY <1>0, WriteAppends
  <1>2. \A x \in Ids : LastVersion(x) \in Nat
    BY <1>0, LenProperties DEF LastVersion, RecordsTypes
  <1>3. /\ calls' \in [Callers -> Call]
        /\ \A d \in Callers : calls'[d] = calls[d] \/ (d = c /\ calls'[d] = Idle)
    <2>1. Idle \in Call /\ calls \in [Callers -> Call]
      BY <1>0 DEF RecordsTypes, Call
    <2>2. CASE calls' = calls
      BY <2>1, <2>2
    <2>3. CASE calls' = [calls EXCEPT ![c] = Idle]
      BY <2>1, <2>3
    <2> QED BY <2>2, <2>3 DEF Goes
  <1>4. RecordsTypes'
    BY <1>0, <1>1, <1>3 DEF RecordsTypes
  <1>5. Beside
    <2>1. \A x \in Ids : Gone(x) => x # id
      OBVIOUS
    <2>2. \A d \in Callers : Handled(d)
      BY <1>3 DEF Handled
    <2> QED BY <1>1, <2>1, <2>2 DEF Beside
  <1>6. /\ \A d \in Callers : calls'[d] = calls[d] => WriteFits(d)' /\ LogFits(d)'
        /\ \A x \in log : EntryIsTrue(x)'
        /\ \A x \in Ids : \A i \in 2 .. LastVersion(x) : VersionIsLogged(x, i)'
    BY <1>4, <1>5, OthersAreKept
  <1>7. CallsFit'
    <2>1. ASSUME NEW d \in Callers, calls'[d] = Idle
          PROVE  WriteFits(d)' /\ LogFits(d)'
      <3>1. calls'[d].stage = "idle"
        BY <2>1 DEF Idle
      <3> QED BY <3>1 DEF WriteFits, LogFits
    <2> QED BY <1>3, <1>6, <2>1 DEF CallsFit
  <1>8. ASSUME NEW x \in Ids, NEW i \in 2 .. LastVersion(x)'
        PROVE  VersionIsLogged(x, i)'
    <2>1. CASE i \in 2 .. LastVersion(x)
      BY <1>6, <2>1
    <2>2. CASE i \notin 2 .. LastVersion(x)
      <3>1. x = id
        BY <1>1, <1>2, <2>2 DEF LastVersion
      <3>2. i = v
        BY <1>1, <1>2, <2>2, <3>1
      <3> QED
        BY <3>1, <3>2 DEF VersionIsLogged
    <2> QED BY <2>1, <2>2
  <1> QED
    BY <1>1, <1>4, <1>6, <1>7, <1>8 DEF RecordsInv

\* A step that writes no document.
LEMMA QuietStepKeepsInv ==
  ASSUME RecordsInv, UNCHANGED <<docs, history>>, clock' \in Nat, made' \in Nat,
         calls' \in [Callers -> Call],
         \A c \in Callers : Handled(c) /\ (calls'[c] = calls[c] \/ (WriteFits(c)' /\ LogFits(c)')),
         log \subseteq log', log' \subseteq LogEntry,
         \A e \in log' \ log : EntryIsTrue(e),
         excused \subseteq excused'
  PROVE  RecordsInv'
PROOF
  <1>0. RecordsTypes /\ LastIsStored
    BY DEF RecordsInv
  <1>1. RecordsTypes' /\ LastIsStored'
    BY <1>0 DEF RecordsTypes, LastIsStored, LastVersion
  <1>2. Beside
    BY <1>0, NothingAppended DEF Beside
  <1>3. /\ \A c \in Callers : calls'[c] = calls[c] => WriteFits(c)' /\ LogFits(c)'
        /\ \A x \in log : EntryIsTrue(x)'
        /\ \A x \in Ids : \A i \in 2 .. LastVersion(x) : VersionIsLogged(x, i)'
    BY <1>1, <1>2, OthersAreKept
  <1>4. \A e \in log' : EntryIsTrue(e)'
    <2>1. \A e \in log' \ log : EntryIsTrue(e)'
      BY <1>0, <1>1, <1>2, TruthIsKept DEF Beside
    <2> QED BY <1>3, <2>1
  <1>5. CallsFit'
    BY <1>3 DEF CallsFit
  <1>6. \A x \in Ids : \A i \in 2 .. LastVersion(x)' : VersionIsLogged(x, i)'
    BY <1>3 DEF LastVersion
  <1> QED
    BY <1>1, <1>4, <1>5, <1>6 DEF RecordsInv

\* The entry of a document that goes from one version to a later one is true,
\* and tells all of the change if it is the next one.
LEMMA DetectedIsTrue ==
  ASSUME NEW h \in Seq(Version), NEW i \in 1 .. Len(h), NEW j \in 1 .. Len(h), i < j,
         NEW id \in Ids, history'[id] = h,
         NEW action \in {"BASIC_UPDATE_DOCUMENT", "BASIC_DELETE_DOCUMENT"}
  PROVE  \E e \in LogEntry :
           /\ e = Entry(id, action, DetectModifications(h[j], h[i]))
           /\ e.id = id
           /\ EntryIsTrue(e)'
           /\ i = j - 1 => Tells(e, id, j)'
PROOF
  <1>1. h[i] \in Version /\ h[j] \in Version
    BY ElementOfSeq
  <1> DEFINE M == DetectModifications(h[j], h[i])
  <1>2. /\ M \subseteq Modification
        /\ \A m \in M :
             /\ m.old_value = TextOf(h[i], m.field_name)
             /\ m.new_value = TextOf(h[j], m.field_name)
             /\ \/ m.old_value = "false" /\ m.new_value = "false"
                \/ m.old_value # m.new_value
        /\ \A f \in Fields : TextOf(h[i], f) # TextOf(h[j], f) =>
             [field_name |-> f, old_value |-> TextOf(h[i], f),
              new_value |-> TextOf(h[j], f)] \in M
    BY <1>1, ModificationsAreDifferences
  <1>3. PICK e \in LogEntry : e = Entry(id, action, M) /\ e.id = id /\ e.modifications = M
    <2>1. Entry(id, action, M) \in LogEntry
      BY <1>2 DEF Entry, LogEntry
    <2> QED BY <2>1 DEF Entry
  <1> HIDE DEF M
  <1>4. LastVersion(id)' = Len(h) /\ j \in 2 .. Len(h) /\ i \in 1 .. j - 1
    BY LenProperties DEF LastVersion
  <1>5. ASSUME NEW m \in M
        PROVE  ModificationIsTrue(id, m)'
    <2>1. CASE m.old_value # m.new_value
      BY <1>2, <1>4, <2>1 DEF ModificationIsTrue
    <2> QED BY <1>2, <2>1 DEF ModificationIsTrue
  <1>6. EntryIsTrue(e)'
    BY <1>3, <1>5 DEF EntryIsTrue
  <1>7. ASSUME i = j - 1
        PROVE  Tells(e, id, j)'
    <2> SUFFICES ASSUME NEW f \in ChangedFields(id, j)'
                 PROVE  Told(id, j, f)' \in M
      BY <1>3 DEF Tells
    <2>1. f \in Fields /\ TextOf(h[i], f) # TextOf(h[j], f)
      BY <1>7 DEF ChangedFields, VersionOf, TextOf
    <2>2. Told(id, j, f)' = [field_name |-> f, old_value |-> TextOf(h[i], f),
                             new_value |-> TextOf(h[j], f)]
      BY <1>7 DEF Told
    <2> QED BY <1>2, <2>1, <2>2
  <1> QED
    BY <1>3, <1>6, <1>7 DEF M

-----------------------------------------------------------------------------
(* The methods keep the invariant. *)

\* A document is constructed; nothing is stored yet.
LEMMA AddKeepsInv ==
  ASSUME RecordsInv, NEW c \in Callers, NEW body \in Bodies, AddNewDocument(c, body)
  PROVE  RecordsInv'
PROOF
  <1>0. RecordsTypes
    BY DEF RecordsInv
  <1>1. PICK time \in {clock, clock + 1} :
          clock' = time /\ Goes(c, [stage |-> "insert", body |-> body, created_on |-> time])
    BY DEF AddNewDocument
  <1>2. /\ time \in Nat /\ made' \in Nat /\ calls[c].stage = "idle"
        /\ UNCHANGED <<docs, log, history, excused>> /\ log \subseteq LogEntry
    BY <1>0, <1>1 DEF RecordsTypes, AddNewDocument, Calling, Idle
  <1>3. [stage |-> "insert", body |-> body, created_on |-> time] \in Call
    BY <1>2 DEF Call
  <1>4. /\ calls' \in [Callers -> Call] /\ calls'[c].stage = "insert"
        /\ \A d \in Callers \ {c} : calls'[d] = calls[d]
    BY <1>0, <1>1, <1>3 DEF Goes, RecordsTypes
  <1>5. WriteFits(c)' /\ LogFits(c)'
    BY <1>4 DEF WriteFits, LogFits
  <1>6. \A d \in Callers : Handled(d) /\ (calls'[d] = calls[d] \/ (WriteFits(d)' /\ LogFits(d)'))
    BY <1>2, <1>4, <1>5 DEF Handled
  <1> QED
    BY <1>1, <1>2, <1>4, <1>6, QuietStepKeepsInv

LEMMA SaveKeepsInv ==
  ASSUME RecordsInv, NEW c \in Callers, SaveDocument(c)
  PROVE  RecordsInv'
PROOF
  <1>0. RecordsTypes /\ LastIsStored
    BY DEF RecordsInv
  <1>1. PICK id \in Ids, body \in Bodies, time \in Nat :
          /\ calls[c].stage = "insert" /\ Fresh(id)
          /\ Write(id, Inserted(body, c, time))
          /\ UNCHANGED <<clock, made, log, excused>>
          /\ Goes(c, Logging(id, LastVersion(id) + 1,
                             Entry(id, "BASIC_ADD_DOCUMENT",
                                   DetectModifications(body, None))))
    <2>1. calls[c].body \in Bodies /\ calls[c].created_on \in Nat
      BY <1>0, CallTypes DEF SaveDocument
    <2> QED BY <2>1 DEF SaveDocument
  <1> DEFINE doc == Inserted(body, c, time)
             M == DetectModifications(body, None)
  <1>2. /\ time \in Nat /\ doc \in Document /\ doc \in Version /\ doc # None
        /\ body \in Body /\ None \in Version /\ clock' \in Nat /\ made' \in Nat
    BY <1>0, <1>1, StoredIsDocument, RecordsAssumption DEF RecordsTypes, Version
  <1>3. LastVersion(id) = 1 /\ history[id][1] = None
    BY <1>1 DEF Fresh, LastVersion
  <1>4. /\ M \subseteq Modification
        /\ \A m \in M :
             /\ m.old_value = TextOf(None, m.field_name)
             /\ m.new_value = TextOf(body, m.field_name)
             /\ \/ m.old_value = "false" /\ m.new_value = "false"
                \/ m.old_value # m.new_value
        /\ \A f \in Fields : TextOf(None, f) # TextOf(body, f) =>
             [field_name |-> f, old_value |-> TextOf(None, f),
              new_value |-> TextOf(body, f)] \in M
    BY <1>2, ModificationsAreDifferences
  <1>5. PICK e \in LogEntry : /\ e = Entry(id, "BASIC_ADD_DOCUMENT", M)
                              /\ e.id = id /\ e.modifications = M
    <2>1. Entry(id, "BASIC_ADD_DOCUMENT", M) \in LogEntry
      BY <1>4 DEF Entry, LogEntry
    <2> QED BY <2>1 DEF Entry
  <1>6. /\ history' \in [Ids -> Seq(Version)]
        /\ LastVersion(id)' = 2
        /\ history'[id][1] = None /\ history'[id][2] = doc
    <2>1. Write(id, doc)
      BY <1>1
    <2> HIDE DEF doc
    <2>2. /\ history' \in [Ids -> Seq(Version)] /\ Extended
          /\ LastVersion(id)' = LastVersion(id) + 1
          /\ history'[id][LastVersion(id) + 1] = doc
      BY <1>0, <1>2, <2>1, WriteAppends
    <2> QED BY <1>3, <2>2 DEF Extended
  <1> HIDE DEF M
  <1>7. \A f \in Fields : TextOf(None, f) = Empty
    BY TextIsField
  \* What the body gives is stored; what it leaves open may be supplied.
  <1>8. \A f \in Fields :
          /\ TextOf(body, f) # Empty => TextOf(doc, f) = TextOf(body, f)
          /\ TextOf(body, f) = Empty =>
               \/ TextOf(doc, f) = Empty
               \/ f = "is_delete" /\ TextOf(doc, f) = "false"
               \/ f = "changed_by"
    <2>1. TextOf(body, "changed_by") = Empty
      BY <1>2, TextIsField DEF Fields, Body
    <2>2. /\ TextOf(body, "name") = IF body.name = None THEN Empty ELSE body.name
          /\ TextOf(body, "is_delete") = IF body.is_delete = None THEN Empty ELSE body.is_delete
      <3>1. body # None /\ DOMAIN body = {"name", "is_delete"}
        BY <1>2, RecordsAssumption DEF Body
      <3>2. "name" \in Fields /\ "is_delete" \in Fields
        BY DEF Fields
      <3> QED BY <3>1, <3>2, TextIsField
    <2>3. /\ body.name # None => TextOf(doc, "name") = body.name
          /\ body.name = None => TextOf(doc, "name") = Empty
          /\ body.is_delete # None => TextOf(doc, "is_delete") = body.is_delete
          /\ body.is_delete = None => TextOf(doc, "is_delete") \in {"false", Empty}
      BY <1>2, TextIsField DEF Fields, Document, Inserted
    <2> QED BY <2>1, <2>2, <2>3 DEF Fields
  <1>9. EntryIsTrue(e)'
    <2>1. ASSUME NEW m \in M
          PROVE  ModificationIsTrue(id, m)'
      <3>1. m.field_name \in Fields
        BY <1>4 DEF Modification
      <3>2. m.old_value = Empty /\ m.new_value = TextOf(body, m.field_name)
        BY <1>4, <1>7, <3>1
      <3>3. m.new_value # Empty
        BY <1>4, <3>2 DEF Empty
      <3>4. m.new_value = TextOf(doc, m.field_name)
        BY <1>8, <3>1, <3>2, <3>3
      <3> QED
        BY <1>6, <1>7, <3>1, <3>2, <3>3, <3>4 DEF ModificationIsTrue
    <2> QED BY <1>5, <2>1 DEF EntryIsTrue
  <1>10. Tells(e, id, 2)'
    <2> SUFFICES ASSUME NEW f \in ChangedFields(id, 2)'
                 PROVE  Told(id, 2, f)' \in e.modifications
      BY DEF Tells
    <2>1. /\ f \in Fields /\ f # "changed_by"
          /\ f = "is_delete" => TextOf(doc, f) # "false"
          /\ TextOf(doc, f) # Empty
      BY <1>6, <1>7 DEF ChangedFields, VersionOf, TextOf
    <2>2. TextOf(body, f) = TextOf(doc, f)
      BY <1>8, <2>1
    <2>3. Told(id, 2, f)' = [field_name |-> f, old_value |-> TextOf(None, f),
                             new_value |-> TextOf(doc, f)]
      BY <1>6 DEF Told
    <2> QED
      BY <1>4, <1>5, <1>7, <2>1, <2>2, <2>3
  <1>11. ~Gone(id) /\ calls[c].stage # "log"
    BY <1>1 DEF Gone
  <1>12. Goes(c, Logging(id, 2, e)) /\ log' = log /\ excused' = excused
    BY <1>1, <1>3, <1>5 DEF M
  <1> QED
    <2>1. 2 = LastVersion(id) + 1
      BY <1>3
    <2> QED
      BY <1>1, <1>2, <1>5, <1>9, <1>10, <1>11, <1>12, <2>1, LoggedWriteKeepsInv

LEMMA FindKeepsInv ==
  ASSUME RecordsInv, NEW c \in Callers, NEW id \in Ids, NEW body \in Bodies,
         UpdateFind(c, id, body)
  PROVE  RecordsInv'
PROOF
  <1>0. RecordsTypes /\ LastIsStored
    BY DEF RecordsInv
  <1> DEFINE call == [stage |-> "write", id |-> id, body |-> body, old |-> docs[id],
                      version |-> LastVersion(id)]
  <1>1. /\ LastVersion(id) \in Nat /\ LastVersion(id) >= 1
        /\ docs[id] \in Version /\ docs[id] = history[id][LastVersion(id)]
    BY <1>0, LenProperties DEF LastVersion, RecordsTypes, LastIsStored
  <1>2. call \in Call
    BY <1>1 DEF Call
  <1>3. /\ calls' = [calls EXCEPT ![c] = call]
        /\ calls[c].stage = "idle" /\ made' \in Nat
        /\ UNCHANGED <<docs, clock, log, history, excused>>
    BY <1>0 DEF UpdateFind, Calling, Goes, Idle, RecordsTypes
  <1>4. /\ calls' \in [Callers -> Call] /\ calls'[c] = call
        /\ \A d \in Callers \ {c} : calls'[d] = calls[d]
    BY <1>0, <1>2, <1>3 DEF RecordsTypes
  <1>5. WriteFits(c)' /\ LogFits(c)'
    BY <1>1, <1>3, <1>4 DEF WriteFits, LogFits, LastVersion
  <1>6. \A d \in Callers : Handled(d) /\ (calls'[d] = calls[d] \/ (WriteFits(d)' /\ LogFits(d)'))
    BY <1>3, <1>4, <1>5 DEF Handled
  <1> QED
    BY <1>0, <1>3, <1>4, <1>6, QuietStepKeepsInv DEF RecordsTypes

\* A method ends; its last call writes no document.
LEMMA EndKeepsInv ==
  ASSUME RecordsInv, NEW c \in Callers, Goes(c, Idle), UNCHANGED <<docs, history>>,
         clock' \in Nat, made' \in Nat, Handled(c),
         log \subseteq log', log' \subseteq LogEntry,
         \A e \in log' \ log : EntryIsTrue(e), excused \subseteq excused'
  PROVE  RecordsInv'
PROOF
  <1>1. calls \in [Callers -> Call] /\ Idle \in Call
    BY DEF RecordsInv, RecordsTypes, Call
  <1>2. /\ calls' \in [Callers -> Call] /\ calls'[c] = Idle
        /\ \A d \in Callers \ {c} : calls'[d] = calls[d]
    BY <1>1 DEF Goes
  <1>3. WriteFits(c)' /\ LogFits(c)'
    BY <1>2 DEF WriteFits, LogFits, Idle
  <1>4. \A d \in Callers : Handled(d) /\ (calls'[d] = calls[d] \/ (WriteFits(d)' /\ LogFits(d)'))
    BY <1>2, <1>3 DEF Handled
  <1> QED
    BY <1>2, <1>4, QuietStepKeepsInv

LEMMA CreateLogKeepsInv ==
  ASSUME RecordsInv, NEW c \in Callers, CreateLog(c)
  PROVE  RecordsInv'
PROOF
  <1>1. /\ calls[c].stage = "log" /\ log' = log \cup {calls[c].entry}
        /\ Goes(c, Idle) /\ UNCHANGED <<docs, clock, made, history, excused>>
    BY DEF CreateLog
  <1>2. /\ calls[c].entry \in LogEntry /\ log \subseteq LogEntry
        /\ clock \in Nat /\ made \in Nat
    BY <1>1, CallTypes DEF RecordsInv, RecordsTypes
  <1>3. EntryIsTrue(calls[c].entry)
    BY <1>1 DEF RecordsInv, CallsFit, LogFits
  <1>4. Handled(c)
    BY <1>1 DEF Handled
  <1>5. \A e \in log' \ log : EntryIsTrue(e)
    BY <1>1, <1>3
  <1> QED
    BY <1>1, <1>2, <1>4, <1>5, EndKeepsInv

LEMMA FailureKeepsInv ==
  ASSUME RecordsInv, NEW c \in Callers, MethodFails(c)
  PROVE  RecordsInv'
PROOF
  <1>1. /\ Goes(c, Idle) /\ UNCHANGED <<docs, clock, made, log, history>>
        /\ excused \subseteq excused'
        /\ calls[c].stage = "log" => <<calls[c].id, calls[c].version>> \in excused'
    BY DEF MethodFails
  <1>2. log \subseteq LogEntry /\ clock \in Nat /\ made \in Nat
    BY DEF RecordsInv, RecordsTypes
  <1> QED
    BY <1>1, <1>2, EndKeepsInv DEF Handled

LEMMA CrashKeepsInv ==
  ASSUME RecordsInv, RecordsCrash
  PROVE  RecordsInv'
PROOF
  <1>1. /\ calls' = [c \in Callers |-> Idle] /\ UNCHANGED <<docs, clock, made, log, history>>
        /\ excused \subseteq excused'
        /\ \A c \in Callers : calls[c].stage = "log" =>
             <<calls[c].id, calls[c].version>> \in excused'
    BY DEF RecordsCrash
  <1>2. log \subseteq LogEntry /\ clock \in Nat /\ made \in Nat
    BY DEF RecordsInv, RecordsTypes
  <1>3. calls' \in [Callers -> Call] /\ \A c \in Callers : calls'[c] = Idle
    BY <1>1 DEF Call
  <1>4. \A c \in Callers : Handled(c) /\ WriteFits(c)' /\ LogFits(c)'
    BY <1>1, <1>3 DEF Handled, WriteFits, LogFits, Idle
  <1> QED
    BY <1>1, <1>2, <1>3, <1>4, QuietStepKeepsInv

LEMMA UpdateWriteKeepsInv ==
  ASSUME RecordsInv, NEW c \in Callers, UpdateWrite(c)
  PROVE  RecordsInv'
PROOF
  <1>0. RecordsTypes /\ LastIsStored
    BY DEF RecordsInv
  <1>1. PICK id \in Ids, body \in Bodies, old \in Version, read \in Nat :
          /\ calls[c].stage = "write" /\ calls[c].id = id /\ calls[c].body = body
          /\ calls[c].old = old /\ calls[c].version = read
    BY <1>0, CallTypes DEF UpdateWrite
  <1>2. read \in 1 .. LastVersion(id) /\ old = history[id][read]
    BY <1>1 DEF RecordsInv, CallsFit, WriteFits
  <1>3. /\ LastVersion(id) \in Nat /\ LastVersion(id) >= 1 /\ history[id] \in Seq(Version)
        /\ docs[id] \in Version /\ docs[id] = history[id][LastVersion(id)]
    BY <1>0, LenProperties DEF LastVersion, RecordsTypes, LastIsStored
  <1>4. PICK v \in Nat : v = LastVersion(id) + 1
    BY <1>3
  <1>5. clock \in Nat /\ made \in Nat /\ UNCHANGED <<clock, made, log>> /\ log \subseteq LogEntry
    BY <1>0 DEF UpdateWrite, RecordsTypes
  <1> DEFINE new == IF docs[id] = None THEN None ELSE Merged(docs[id], body, c)
             e == Entry(id, "BASIC_UPDATE_DOCUMENT", DetectModifications(new, old))
  <1>6. /\ IF new = None THEN UNCHANGED <<docs, history>> ELSE Write(id, new)
        /\ Goes(c, IF old = None THEN Idle ELSE Logging(id, v, e))
        /\ excused' = IF new # None /\ LastVersion(id) # read
                      THEN excused \cup {<<id, v>>} ELSE excused
    BY <1>1, <1>4 DEF UpdateWrite, UpdateEntry
  <1>7. new \in Version /\ (new = None <=> docs[id] = None)
    BY <1>3, StoredIsDocument, RecordsAssumption DEF Version
  <1> HIDE DEF new
  <1>8. CASE new # None
    <2>1. ~Gone(id) /\ Write(id, new)
      BY <1>6, <1>7, <1>8 DEF Gone
    <2>2. /\ history' \in [Ids -> Seq(Version)] /\ Extended
          /\ LastVersion(id)' = v /\ history'[id][v] = new
      BY <1>0, <1>4, <1>7, <2>1, WriteAppends
    <2>3. CASE old = None
      <3>1. LastVersion(id) # read
        BY <1>2, <1>3, <1>7, <1>8, <2>3
      <3>2. excused' = excused \cup {<<id, v>>} /\ Goes(c, Idle)
        BY <1>6, <1>8, <2>3, <3>1
      <3> QED
        BY <1>1, <1>4, <1>5, <1>7, <2>1, <3>2, ExcusedWriteKeepsInv
    <2>4. CASE old # None
      <3>1. PICK entry \in LogEntry :
              /\ entry = e /\ entry.id = id
              /\ EntryIsTrue(entry)'
              /\ read = v - 1 => Tells(entry, id, v)'
        <4>1. /\ read \in 1 .. Len(history'[id]) /\ v \in 1 .. Len(history'[id])
              /\ read < v /\ history'[id] \in Seq(Version)
              /\ history'[id][read] = old
          BY <1>2, <1>3, <1>4, <2>2 DEF Extended, LastVersion
        <4>2. PICK entry \in LogEntry :
                /\ entry = Entry(id, "BASIC_UPDATE_DOCUMENT",
                                 DetectModifications(history'[id][v], history'[id][read]))
                /\ entry.id = id
                /\ EntryIsTrue(entry)'
                /\ read = v - 1 => Tells(entry, id, v)'
          BY <4>1, DetectedIsTrue
        <4>3. entry = e
          BY <2>2, <4>1, <4>2
        <4> QED
          BY <4>2, <4>3
      <3>2. <<id, v>> \in excused' \/ Tells(entry, id, v)'
        BY <1>3, <1>4, <1>6, <1>8, <3>1
      <3>3. excused \subseteq excused' /\ Goes(c, Logging(id, v, entry))
        BY <1>6, <2>4, <3>1
      <3> QED
        BY <1>1, <1>4, <1>5, <1>7, <2>1, <3>1, <3>2, <3>3, LoggedWriteKeepsInv
    <2> QED BY <2>3, <2>4
  <1>9. CASE new = None
    <2>1. UNCHANGED <<docs, history>> /\ excused' = excused
      BY <1>6, <1>9
    <2>2. CASE old = None
      <3>1. Goes(c, Idle) /\ Handled(c)
        BY <1>1, <1>6, <2>2 DEF Handled
      <3> QED
        BY <1>5, <2>1, <3>1, EndKeepsInv
    <2>3. CASE old # None
      <3>1. read < LastVersion(id)
        BY <1>2, <1>3, <1>7, <1>9, <2>3
      <3>2. Gone(id)'
        BY <1>3, <1>7, <1>9, <2>1, <3>1, <1>2 DEF Gone, Fresh, LastVersion
      <3>3. PICK entry \in LogEntry : entry = e /\ entry.id = id /\ EntryIsTrue(entry)'
        <4>1. /\ read \in 1 .. Len(history'[id])
              /\ LastVersion(id) \in 1 .. Len(history'[id])
              /\ read < LastVersion(id) /\ history'[id] \in Seq(Version)
              /\ history'[id][read] = old /\ history'[id][LastVersion(id)] = new
          BY <1>2, <1>3, <1>7, <1>9, <2>1, <3>1 DEF LastVersion
        <4>2. PICK entry \in LogEntry :
                /\ entry = Entry(id, "BASIC_UPDATE_DOCUMENT",
                                 DetectModifications(history'[id][LastVersion(id)],
                                                     history'[id][read]))
                /\ entry.id = id
                /\ EntryIsTrue(entry)'
          BY <4>1, DetectedIsTrue
        <4>3. entry = e
          BY <4>1, <4>2
        <4> QED
          BY <4>2, <4>3
      <3>4. Logging(id, v, entry) \in Call
        BY DEF Logging, Call
      <3>5. /\ calls' \in [Callers -> Call] /\ calls'[c] = Logging(id, v, entry)
            /\ \A d \in Callers \ {c} : calls'[d] = calls[d]
        BY <1>0, <1>6, <2>3, <3>3, <3>4 DEF Goes, RecordsTypes
      <3>6. v \notin 2 .. LastVersion(id)'
        BY <1>3, <1>4, <2>1 DEF LastVersion
      <3>7. WriteFits(c)' /\ LogFits(c)'
        BY <3>2, <3>3, <3>5, <3>6 DEF WriteFits, LogFits, Logging
      <3>8. \A d \in Callers : Handled(d) /\ (calls'[d] = calls[d] \/ (WriteFits(d)' /\ LogFits(d)'))
        BY <1>1, <3>5, <3>7 DEF Handled
      <3> QED
        BY <1>5, <2>1, <3>5, <3>8, QuietStepKeepsInv
    <2> QED BY <2>2, <2>3
  <1> QED
    BY <1>8, <1>9

LEMMA DeleteKeepsInv ==
  ASSUME RecordsInv, NEW c \in Callers, NEW id \in Ids, NEW logged \in BOOLEAN,
         HardDelete(c, id, logged)
  PROVE  RecordsInv'
PROOF
  <1>0. RecordsTypes /\ LastIsStored
    BY DEF RecordsInv
  <1>1. /\ calls[c].stage = "idle" /\ clock' \in Nat /\ made' \in Nat
        /\ UNCHANGED <<clock, log>> /\ log \subseteq LogEntry
        /\ calls \in [Callers -> Call]
    BY <1>0 DEF HardDelete, Calling, Idle, RecordsTypes
  <1>2. /\ LastVersion(id) \in Nat /\ LastVersion(id) >= 1 /\ history[id] \in Seq(Version)
        /\ docs[id] \in Version /\ docs[id] = history[id][LastVersion(id)]
    BY <1>0, LenProperties DEF LastVersion, RecordsTypes, LastIsStored
  <1>3. PICK v \in Nat : v = LastVersion(id) + 1
    BY <1>2
  <1>4. CASE docs[id] = None
    <2>1. UNCHANGED <<docs, calls, history, excused>>
      BY <1>4 DEF HardDelete
    <2>2. \A d \in Callers : Handled(d)
      BY <2>1 DEF Handled
    <2> QED
      BY <1>1, <2>1, <2>2, QuietStepKeepsInv
  <1>5. CASE docs[id] # None /\ ~logged
    <2>1. /\ Write(id, None) /\ calls' = calls
          /\ excused' = excused \cup {<<id, v>>}
      BY <1>3, <1>5 DEF HardDelete
    <2> QED
      BY <1>1, <1>3, <1>5, <2>1, ExcusedWriteKeepsInv DEF Gone, Version
  <1>6. CASE docs[id] # None /\ logged
    <2> DEFINE e == Entry(id, "BASIC_DELETE_DOCUMENT", DetectModifications(None, docs[id]))
    <2>1. Write(id, None) /\ Goes(c, Logging(id, v, e)) /\ excused' = excused
      BY <1>3, <1>6 DEF HardDelete
    <2>2. /\ history' \in [Ids -> Seq(Version)] /\ Extended
          /\ LastVersion(id)' = v /\ history'[id][v] = None
      BY <1>0, <1>3, <2>1, WriteAppends DEF Version
    <2>3. PICK entry \in LogEntry :
            entry = e /\ entry.id = id /\ EntryIsTrue(entry)' /\ Tells(entry, id, v)'
      <3>1. /\ v - 1 \in 1 .. Len(history'[id]) /\ v \in 1 .. Len(history'[id])
            /\ v - 1 < v /\ history'[id] \in Seq(Version)
            /\ history'[id][v - 1] = docs[id]
        BY <1>2, <1>3, <2>2 DEF Extended, LastVersion
      <3>2. PICK entry \in LogEntry :
              /\ entry = Entry(id, "BASIC_DELETE_DOCUMENT",
                               DetectModifications(history'[id][v], history'[id][v - 1]))
              /\ entry.id = id
              /\ EntryIsTrue(entry)'
              /\ v - 1 = v - 1 => Tells(entry, id, v)'
        BY <3>1, DetectedIsTrue
      <3> QED
        BY <2>2, <3>1, <3>2
    <2>4. Goes(c, Logging(id, v, entry))
      BY <2>1, <2>3
    <2> QED
      BY <1>1, <1>3, <1>6, <2>1, <2>3, <2>4, LoggedWriteKeepsInv DEF Gone, Version
  <1> QED
    BY <1>4, <1>5, <1>6

-----------------------------------------------------------------------------
(* The start, and the theorems. *)

\* A finite set of integers has a largest one: the element with the fewest
\* above it.
LEMMA LargestExists ==
  ASSUME NEW S, S \subseteq Int, IsFiniteSet(S), S # {}
  PROVE  Max(S) \in S /\ \A y \in S : Max(S) >= y
PROOF
  <1> DEFINE Above(x) == {y \in S : y > x}
             Sets == {Above(x) : x \in S}
  <1>1. \A x : Above(x) \in SUBSET S
    OBVIOUS
  <1>2. \A x, y : y \in Above(x) <=> y \in S /\ y > x
    OBVIOUS
  <1> HIDE DEF Above
  <1>3. /\ IsWellFoundedOn(StrictSubsetOrdering(S), FiniteSubsetsOf(S))
        /\ FiniteSubsetsOf(S) = SUBSET S
    BY FS_StrictSubsetOrderingWellFounded, FS_FiniteSubsetsOfFinite
  <1>4. Sets \subseteq FiniteSubsetsOf(S) /\ Sets # {}
    <2>1. Sets \subseteq SUBSET S
      BY <1>1
    <2> QED BY <1>3, <2>1
  <1> HIDE DEF Sets
  <1>5. PICK low \in Sets : \A other \in Sets : ~(<<other, low>> \in StrictSubsetOrdering(S))
    <2>1. ASSUME NEW R, NEW B, IsWellFoundedOn(R, B), Sets \subseteq B
          PROVE  \E x \in Sets : \A y \in Sets : ~(<<y, x>> \in R)
      BY <1>4, <2>1, WFMin, Zenon
    <2> QED BY <1>3, <1>4, <2>1, Zenon
  <1>6. PICK x \in S : low = Above(x)
    BY DEF Sets
  <1>7. ASSUME NEW y \in S, y > x
        PROVE  FALSE
    <2>1. x \in Int /\ y \in Int /\ \A z \in S : z \in Int
      OBVIOUS
    <2>2. y \in Above(x) /\ y \notin Above(y)
      BY <1>2, <1>7, <2>1
    <2>3. Above(y) \subseteq Above(x)
      <3> SUFFICES ASSUME NEW z \in Above(y) PROVE z \in Above(x)
        OBVIOUS
      <3>1. z \in S /\ z > y
        BY <1>2
      <3>2. z > x
        BY <1>7, <2>1, <3>1
      <3> QED BY <1>2, <3>1, <3>2
    <2>4. <<Above(y), low>> \in StrictSubsetOrdering(S)
      BY <1>1, <1>6, <2>2, <2>3 DEF StrictSubsetOrdering
    <2>5. Above(y) \in Sets
      BY DEF Sets
    <2> QED BY <1>5, <2>4, <2>5
  <1>8. \A y \in S : x >= y
    BY <1>7
  <1> QED
    BY <1>8 DEF Max

\* The clock starts at the newest document.
LEMMA ClockStartsAtNewest ==
  ASSUME RecordsInit
  PROVE  /\ clock \in Nat
         /\ \A id \in Ids : docs[id] # None => docs[id].created_on <= clock
PROOF
  <1> DEFINE given == {i \in Ids : Stored[i] # None}
             times == {Stored[id].created_on : id \in given}
             f == [id \in given |-> Stored[id].created_on]
  <1>1. IsFiniteSet(given)
    BY RecordsAssumption, FS_Subset
  <1>2. f \in Surjection(given, times)
    BY DEF Surjection
  <1>3. IsFiniteSet(times)
    BY <1>1, <1>2, FS_Surjection
  <1>4. \A id \in given : Stored[id].created_on \in Nat
    BY RecordsAssumption DEF Document
  <1>5. {0} \cup times \subseteq Nat /\ IsFiniteSet({0} \cup times)
    <2>1. {0} \cup times = times \cup {0}
      OBVIOUS
    <2> QED BY <1>3, <1>4, <2>1, FS_AddElement
  <1>6. clock = Max({0} \cup times) /\ docs = Stored
    BY DEF RecordsInit
  <1> HIDE DEF times
  <1>7. clock \in {0} \cup times /\ \A t \in {0} \cup times : clock >= t
    <2>1. {0} \cup times \subseteq Int /\ {0} \cup times # {}
      BY <1>5
    <2> QED BY <1>5, <1>6, <2>1, LargestExists
  <1> QED
    BY <1>4, <1>5, <1>6, <1>7 DEF times

LEMMA RecordsStart ==
  ASSUME RecordsInit
  PROVE  RecordsInv
PROOF
  <1>1. /\ docs = Stored /\ calls = [c \in Callers |-> Idle] /\ made = 0 /\ log = {}
        /\ history = [id \in Ids |-> <<Stored[id]>>]
    BY DEF RecordsInit
  <1>2. \A id \in Ids : Stored[id] \in Version /\ <<Stored[id]>> \in Seq(Version)
    BY RecordsAssumption DEF Version
  <1>3. RecordsTypes
    <2>1. history \in [Ids -> Seq(Version)]
      BY <1>1, <1>2
    <2>2. calls \in [Callers -> Call]
      BY <1>1 DEF Call
    <2> QED
      BY <1>1, <1>2, <2>1, <2>2, ClockStartsAtNewest, RecordsAssumption DEF RecordsTypes, Version
  <1>4. \A id \in Ids : LastVersion(id) = 1 /\ history[id][1] = Stored[id]
    BY <1>1 DEF LastVersion
  <1>5. LastIsStored
    BY <1>1, <1>4 DEF LastIsStored
  <1>6. CallsFit
    BY <1>1 DEF CallsFit, WriteFits, LogFits, Idle
  <1> QED
    BY <1>1, <1>3, <1>4, <1>5, <1>6 DEF RecordsInv

\* Every step keeps the invariant.
LEMMA RecordsStep ==
  ASSUME RecordsInv, [RecordsNext]_recordsVars
  PROVE  RecordsInv'
PROOF
  <1>1. CASE RecordsCrash
    BY <1>1, CrashKeepsInv
  <1>2. ASSUME NEW c \in Callers, Method(c)
        PROVE  RecordsInv'
    BY <1>2, AddKeepsInv, SaveKeepsInv, FindKeepsInv, UpdateWriteKeepsInv, DeleteKeepsInv,
       CreateLogKeepsInv, FailureKeepsInv DEF Method
  <1>3. CASE UNCHANGED recordsVars
    <2>1. UNCHANGED <<docs, clock, calls, made, log, history, excused>>
      BY <1>3 DEF recordsVars
    <2>2. \A c \in Callers : Handled(c)
      BY <2>1 DEF Handled
    <2> QED
      BY <2>1, <2>2, QuietStepKeepsInv DEF RecordsInv, RecordsTypes
  <1> QED
    BY <1>1, <1>2, <1>3 DEF RecordsNext

\* What the methods hold between their calls satisfies, at every moment, what is
\* said of the stored entries and versions.
THEOREM RecordsInvariant == RecordsSpec => []RecordsInv
  BY RecordsStart, RecordsStep, PTL DEF RecordsSpec

\* The collection is the last of the versions and the log has the shape of
\* its schema, whatever the methods of the callers do between their calls.
THEOREM RecordsTypeCorrect == RecordsSpec => []RecordsTypeOK
  <1>1. RecordsInv => RecordsTypeOK
    <2> SUFFICES ASSUME RecordsInv PROVE RecordsTypeOK
      OBVIOUS
    <2>1. RecordsTypes /\ LastIsStored
      BY DEF RecordsInv
    <2>2. \A c \in Callers : calls[c].stage \in {"idle", "insert", "write", "log"}
      BY <2>1, CallTypes
    <2>3. \A e \in log : e.id \in Ids /\ e.modifications \subseteq Modification
      BY <2>1 DEF RecordsTypes, LogEntry
    <2> QED
      BY <2>1, <2>2, <2>3 DEF RecordsTypeOK, RecordsTypes, LastIsStored, Version
  <1> QED
    BY <1>1, RecordsInvariant, PTL

\* Whatever runs concurrently, fails or crashes, the log tells no
\* modification that a document did not go through.
THEOREM LogTellsTheTruth == RecordsSpec => []LogIsTrue
  <1>1. RecordsInv => LogIsTrue
    BY DEF RecordsInv, LogIsTrue, EntryIsTrue, ModificationIsTrue, VersionOf, TextOf
  <1> QED
    BY <1>1, RecordsInvariant, PTL

\* Every change of a document is in the log once the method that made it has
\* ended, but for the excused versions.
THEOREM LogTellsAll == RecordsSpec => []LogIsComplete
  <1>1. RecordsInv => LogIsComplete
    BY DEF RecordsInv, LogIsComplete, VersionIsLogged, Told, VersionOf, TextOf
  <1> QED
    BY <1>1, RecordsInvariant, PTL

=============================================================================
