------------------------------ MODULE Records ------------------------------
(***************************************************************************)
(* CommonDatabaseService: the base class of the database services of       *)
(* rooms, bookings, roles and users, with the activity log its writing     *)
(* methods keep.  A caller runs one method at a time; every call the       *)
(* method makes to MongoDB is a step of its own, so that the methods of    *)
(* two callers interleave between their calls.  The endpoints call         *)
(* hardDelete alone of these methods, without parameters for the log; they *)
(* store new documents as addNewDocument does, in two steps.               *)
(*                                                                         *)
(* A value is represented by the text it is printed as, which is what the  *)
(* log compares and keeps: Empty stands for '', null, undefined and 0.     *)
(* The fields the log is blind to (_id, last_modified_on, __v) and the     *)
(* date of creation, which no method changes, are not printed.             *)
(***************************************************************************)
EXTENDS Integers, FiniteSetsExt, Sequences

CONSTANTS
  Ids,          \* the ids MongoDB can give to documents
  Names,        \* the texts of the field "name", Empty excluded
  Callers,      \* the requests under way; a caller is also the logged user
  Bodies,       \* the documents and partial documents the callers pass
  Stored,       \* the collection at the start
  MaxCalls,     \* bound: how many methods are called in all
  Faults,       \* a subset of {"write", "crash"}
  None          \* null: no document, a field not given

Empty == ""

Texts == Names \cup {Empty, "true", "false"} \cup Callers

\* The fields the log reports.
Fields == {"name", "is_delete", "changed_by"}

Document == [name : Names \cup {Empty}, is_delete : {"true", "false"},
             changed_by : Callers \cup {Empty}, created_on : Nat]

Body == [name : Names \cup {Empty, None}, is_delete : {"true", "false", None}]

ASSUME RecordsAssumption ==
  /\ IsFiniteSet(Ids)
  /\ None \notin Document \cup Body
  /\ Bodies \subseteq Body
  /\ Stored \in [Ids -> Document \cup {None}]
  /\ MaxCalls \in Nat
  /\ Faults \subseteq {"write", "crash"}

VARIABLES
  docs,         \* the collection: a document or None for every id
  clock,        \* the newest created_on given to a document
  calls,        \* what each caller is doing
  made,         \* how many methods have been called
  log,          \* the entries of the activity log
  history,      \* auxiliary: the successive versions of every id
  excused       \* auxiliary: the versions whose entry may be missing or late

recordsVars == <<docs, clock, calls, made, log, history, excused>>

Idle == [stage |-> "idle"]

----------------------------------------------------------------------------
(* The modifications between two documents.                                *)

\* A document as key-value pairs, without those whose value is falsy but
\* not false.
Deconstruct(doc) ==
  IF doc = None THEN << >>
  ELSE LET given == {f \in Fields \cap DOMAIN doc : doc[f] \notin {Empty, None}}
       IN  [f \in given |-> doc[f]]

Falsy(pairs, f) == f \notin DOMAIN pairs \/ pairs[f] = "false"

Printed(pairs, f) == IF f \in DOMAIN pairs THEN pairs[f] ELSE Empty

\* Mutant: an unset value on the other side is not a change.
DetectModifications_BothSet(newDoc, oldDoc) ==
  LET new == Deconstruct(newDoc)
      old == Deconstruct(oldDoc)
      changed == {f \in DOMAIN new \cap DOMAIN old : old[f] # new[f]}
  IN  {[field_name |-> f, old_value |-> Printed(old, f),
        new_value |-> Printed(new, f)] : f \in changed}

\* Two values are compared when both are truthy; a key with a falsy value
\* on one side or both is always a change.
DetectModifications(newDoc, oldDoc) ==
  LET new == Deconstruct(newDoc)
      old == Deconstruct(oldDoc)
      keys == DOMAIN new \cup DOMAIN old
      changed == {f \in keys : Falsy(old, f) \/ Falsy(new, f) \/ old[f] # new[f]}
  IN  {[field_name |-> f, old_value |-> Printed(old, f),
        new_value |-> Printed(new, f)] : f \in changed}

----------------------------------------------------------------------------
(* MongoDB: the versions of a document.                                    *)

\* Mutant: an insert without the defaults of the schema.
Inserted_NoDefaults(body, user, time) ==
  [name |-> body.name, is_delete |-> body.is_delete,
   changed_by |-> user, created_on |-> time]

\* The document of an insert: what the body gives, the defaults of the
\* schema, and the user of the log parameters as its author.
Inserted(body, user, time) ==
  [name |-> IF body.name = None THEN Empty ELSE body.name,
   is_delete |-> IF body.is_delete = None THEN "false" ELSE body.is_delete,
   changed_by |-> user, created_on |-> time]

\* The document of a findOneAndUpdate: the fields of the body are replaced.
Merged(doc, body, user) ==
  [doc EXCEPT !.name = IF body.name = None THEN @ ELSE body.name,
              !.is_delete = IF body.is_delete = None THEN @ ELSE body.is_delete,
              !.changed_by = user]

Write(id, version) ==
  /\ docs' = [docs EXCEPT ![id] = version]
  /\ history' = [history EXCEPT ![id] = Append(@, version)]

LastVersion(id) == Len(history[id])

\* An id MongoDB has never given out.
Fresh(id) == history[id] = <<None>>

----------------------------------------------------------------------------
(* The methods.                                                            *)

Calling(c) ==
  /\ calls[c] = Idle
  /\ made < MaxCalls
  /\ made' = made + 1

Goes(c, call) == calls' = [calls EXCEPT ![c] = call]

Entry(id, action, modifications) ==
  [id |-> id, action |-> action, modifications |-> modifications]

\* A method that has yet to store the entry for a version it wrote.
Logging(id, version, entry) ==
  [stage |-> "log", id |-> id, version |-> version, entry |-> entry]

\* new Model(..): the default of created_on is the time at which the
\* document is constructed; documents of one millisecond share it.
AddNewDocument(c, body) ==
  /\ Calling(c)
  /\ \E time \in {clock, clock + 1} :
       /\ clock' = time
       /\ Goes(c, [stage |-> "insert", body |-> body, created_on |-> time])
  /\ UNCHANGED <<docs, log, history, excused>>

\* save: the document is stored with the date it was constructed at, after
\* younger ones if their save was faster.  The entry tells what the caller
\* passed, not what was stored.
SaveDocument(c) ==
  LET call == calls[c]
  IN  /\ call.stage = "insert"
      /\ \E id \in Ids :
           /\ Fresh(id)
           /\ Write(id, Inserted(call.body, c, call.created_on))
           /\ Goes(c, Logging(id, LastVersion(id) + 1,
                              Entry(id, "BASIC_ADD_DOCUMENT",
                                    DetectModifications(call.body, None))))
      /\ UNCHANGED <<clock, made, log, excused>>

\* findOne: the document as it was before the update.
UpdateFind(c, id, body) ==
  /\ Calling(c)
  /\ Goes(c, [stage |-> "write", id |-> id, body |-> body, old |-> docs[id],
              version |-> LastVersion(id)])
  /\ UNCHANGED <<docs, clock, log, history, excused>>

\* Mutant: the entry compares with the body of the update.
UpdateEntry_OfBody(call, new) ==
  Entry(call.id, "BASIC_UPDATE_DOCUMENT",
        DetectModifications(call.body, call.old))

\* The entry of an update compares what the two calls returned.
UpdateEntry(call, new) ==
  Entry(call.id, "BASIC_UPDATE_DOCUMENT", DetectModifications(new, call.old))

\* findOneAndUpdate: a document deleted meanwhile stays deleted, and the
\* entry then says that every field was emptied.
UpdateWrite(c) ==
  LET call == calls[c]
      id == call.id
      new == IF docs[id] = None THEN None ELSE Merged(docs[id], call.body, c)
      overtaken == LastVersion(id) # call.version
  IN  /\ call.stage = "write"
      /\ IF new = None THEN UNCHANGED <<docs, history>> ELSE Write(id, new)
      /\ Goes(c, IF call.old = None THEN Idle
                 ELSE Logging(id, LastVersion(id) + 1, UpdateEntry(call, new)))
      /\ excused' = IF new # None /\ overtaken
                    THEN excused \cup {<<id, LastVersion(id) + 1>>}
                    ELSE excused
      /\ UNCHANGED <<clock, made, log>>

\* findByIdAndDelete; the endpoints of rooms and bookings pass no
\* parameters for the log, and then there is no entry.
HardDelete(c, id, logged) ==
  /\ Calling(c)
  /\ IF docs[id] = None
     THEN UNCHANGED <<docs, calls, history, excused>>
     ELSE /\ Write(id, None)
          /\ IF logged
             THEN /\ Goes(c, Logging(id, LastVersion(id) + 1,
                                     Entry(id, "BASIC_DELETE_DOCUMENT",
                                           DetectModifications(None, docs[id]))))
                  /\ UNCHANGED excused
             ELSE /\ excused' = excused \cup {<<id, LastVersion(id) + 1>>}
                  /\ UNCHANGED calls
  /\ UNCHANGED <<clock, log>>

\* The last call of every logged method.
CreateLog(c) ==
  /\ calls[c].stage = "log"
  /\ log' = log \cup {calls[c].entry}
  /\ Goes(c, Idle)
  /\ UNCHANGED <<docs, clock, made, history, excused>>

\* A call to MongoDB fails and the method throws.  What it had written
\* stays; without its entry if it was the entry that failed.
MethodFails(c) ==
  /\ calls[c].stage \in {"insert", "write", "log"}
  /\ "write" \in Faults
  /\ Goes(c, Idle)
  /\ excused' = IF calls[c].stage = "log"
                THEN excused \cup {<<calls[c].id, calls[c].version>>}
                ELSE excused
  /\ UNCHANGED <<docs, clock, made, log, history>>

\* The process dies: every method is lost.
RecordsCrash ==
  /\ "crash" \in Faults
  /\ calls # [c \in Callers |-> Idle]
  /\ calls' = [c \in Callers |-> Idle]
  /\ excused' = excused \cup {<<calls[c].id, calls[c].version>> :
                              c \in {d \in Callers : calls[d].stage = "log"}}
  /\ UNCHANGED <<docs, clock, made, log, history>>

Method(c) ==
  \/ \E body \in Bodies : AddNewDocument(c, body)
  \/ SaveDocument(c)
  \/ \E id \in Ids, body \in Bodies : UpdateFind(c, id, body)
  \/ UpdateWrite(c)
  \/ \E id \in Ids, logged \in BOOLEAN : HardDelete(c, id, logged)
  \/ CreateLog(c)
  \/ MethodFails(c)

RecordsInit ==
  /\ docs = Stored
  /\ clock = Max({0} \cup {Stored[id].created_on : id \in {i \in Ids : Stored[i] # None}})
  /\ calls = [c \in Callers |-> Idle]
  /\ made = 0
  /\ log = {}
  /\ history = [id \in Ids |-> <<Stored[id]>>]
  /\ excused = {}

RecordsNext == RecordsCrash \/ \E c \in Callers : Method(c)

RecordsSpec == RecordsInit /\ [][RecordsNext]_recordsVars

----------------------------------------------------------------------------
(* What the log is worth.                                                  *)

Modification == [field_name : Fields, old_value : Texts, new_value : Texts]

VersionOf(id, i) == Deconstruct(history[id][i])

\* Documents keep the schema's types and the collection is the last of the
\* versions; an entry has the shape of the log schema.
RecordsTypeOK ==
  /\ docs \in [Ids -> Document \cup {None}]
  /\ clock \in Nat
  /\ \A id \in Ids : docs[id] = history[id][LastVersion(id)]
  /\ \A c \in Callers : calls[c].stage \in {"idle", "insert", "write", "log"}
  /\ \A e \in log : e.id \in Ids /\ e.modifications \subseteq Modification

\* Whatever runs concurrently, fails or crashes, a modification in the log
\* is one the document went through: it had the old text in one version and
\* the new text in a later one.  The only modification that tells no change
\* is that of a flag that is false on both sides.
LogIsTrue ==
  \A e \in log : \A m \in e.modifications :
    \/ m.old_value = "false" /\ m.new_value = "false"
    \/ /\ m.old_value # m.new_value
       /\ \E j \in 2 .. LastVersion(e.id) : \E i \in 1 .. j - 1 :
            /\ Printed(VersionOf(e.id, i), m.field_name) = m.old_value
            /\ Printed(VersionOf(e.id, j), m.field_name) = m.new_value

\* The changes an entry must tell: those of the texts, but for the values
\* that the service and the schema supply to a new document.
ChangedFields(id, i) ==
  LET old == VersionOf(id, i - 1)
      new == VersionOf(id, i)
      supplied == IF history[id][i - 1] # None THEN {}
                  ELSE {"changed_by"} \cup
                       (IF Printed(new, "is_delete") = "false"
                        THEN {"is_delete"} ELSE {})
  IN  {f \in Fields \ supplied : Printed(old, f) # Printed(new, f)}

\* Every change of a document is in the log as soon as the method that made
\* it has ended, unless the entry was lost (a failed write, a crash), none
\* was asked for, or another write came between the two calls of an update.
LogIsComplete ==
  \A id \in Ids : \A i \in 2 .. LastVersion(id) :
    \/ <<id, i>> \in excused
    \/ \E c \in Callers : /\ calls[c].stage = "log"
                          /\ calls[c].id = id /\ calls[c].version = i
    \/ \A f \in ChangedFields(id, i) : \E e \in log :
         /\ e.id = id
         /\ [field_name |-> f, old_value |-> Printed(VersionOf(id, i - 1), f),
             new_value |-> Printed(VersionOf(id, i), f)] \in e.modifications

=============================================================================
