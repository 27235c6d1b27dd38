# TLA+ models of the hotel backend

This directory models the parts of the NestJS hotel backend that change state
and can go wrong when requests overlap, calls fail or the process restarts. The
modules are translated from the code in `src/` (paths below are relative to
the repository root); TLC checks small instances, TLAPS proves the main safety
results for every instance.

## 1. The system

One Node.js process serves HTTP requests over one MongoDB database. A handler
runs until its next `await`; in between, any other handler may run. There are no
transactions, no locks and no queues: the handlers meet only in the collections.
Each call to the database is atomic for one document.

| component | state it keeps | operations | talks to | what makes it correct |
|---|---|---|---|---|
| bookings | `bookings` | create, update, check-in/out, delete, list | rooms, email, calendar | no double booking; deleted stays deleted; flags have their times; guests are told |
| rooms | `rooms`, unique index on `room_number` | create, update, set status, delete, list | written for bookings by the booking service | numbers unique; deleted stays deleted; no booking writes a room behind the staff's back |
| email service | none | four send functions, errors caught | SMTP | a send never breaks a request |
| Google Calendar | OAuth client in memory | authorise, add event | Google, called over HTTP by bookings | a failure never breaks a request |
| booking.com and Agoda | none | fetch reservations | HTTP | nothing is stored |
| roles | `roles` | create, update, delete (with replacement in users) | users | duplicate checks; a deleted role is withdrawn from its users, who get what the plan gives; a deletion is not undone by accident |
| users | `users`, unique indexes on username and email | bootstrap, create with credential, update | roles, authentication | a user has a credential; names and emails unique; the built-in account stays |
| authentication | `auth_credentials`; signed tokens held by clients | login, refresh, validate | users, roles | a token carries permissions its user had at a login, and needs a password |
| activity logs | `logs` | create, list | common database service | an entry tells what changed, and every change has one |
| common database service | none | find, list by pages, insert, update and delete with log | every collection | see activity logs; a list read page by page is complete |
| pure helpers | none | pagination, numbering, cleaning, diffing | | |
| start and restart | list of failed modules | start (creates the built-in account), restart | roles, users | documents survive; the built-in account exists |
| guards, DTOs, configuration, logging | none | | | |

What is hard: requests that overlap (every check is separated from its write by
an `await`), documents used after they have changed, reads whose failure looks
like an empty result, writes whose failure looks like success, mails and calendar
calls in the middle of a sequence of writes, and restarts between two of them.
`PROJECT.json` lists each such place with its line.

## 2. Modules

| module | what it is |
|---|---|
| `Rooms` | the rooms collection and the four room endpoints that write it |
| `Bookings` | the bookings collection and its four endpoints, beside those of `Rooms` (which it extends) |
| `MCRooms`, `MCBookings` | small instances for TLC; the `.cfg` files choose bodies, concurrency and faults |
| `RoomCalendar` | abstract: who has which room when, reserved and released atomically |
| `Directory` | the roles and users collections and the guarded endpoints that change them |
| `Accounts` | the start of the process and the creation of users, beside `Directory` (which it extends) |
| `Sessions` | login, refresh and the check of a token, over `Accounts`: the callers of the endpoints are the holders of tokens |
| `Records` | the writing methods of `CommonDatabaseService` and the activity log |
| `Listing` | a client that reads a list page by page while the methods of `Records` run |
| `MCDirectory`, `MCSessions`, `MCRecords` | small instances of the last five |
| `RoomsProofs` | invariant and theorems of `Rooms` |
| `BookingsProofs` | `Bookings` implements `Rooms`; type invariant; admission: what a stored or moved booking has been checked against |
| `BookingsLifecycle` | deletion, cancellation mail, timestamps; one request at a time, `Bookings` implements `RoomCalendar`: no double booking |
| `DirectoryProofs` | types of `Directory`, and the frame of its steps |
| `DirectorySafety` | deletion of roles, duplicate checks, writes of whole documents |
| `SessionsProofs` | what `Directory` guarantees beside `Accounts`; `Sessions` implements `Accounts`; users, passwords, the built-in account, tokens |
| `RecordsProofs` | the log tells what happened to the documents, all of it and nothing else |
| `ListingProofs` | `Listing` implements `Records`; what a client that reads page by page sees |

### How the code is read

* A **request** is a state machine. `stage[r]` names the call the handler makes
  next, `local[r]` holds what it keeps in local variables. Receiving a request
  (`PostBooking`, `PatchBooking`, ...) leads to the first `await`; each action
  after that is one call and the code up to the next one. A request slot that has
  answered is used again, so that runs contain unbounded sequences of requests.
  Two calls are merged into one step when nothing that matters can happen
  between them: the second read in `findBookingByIdAndUpdate` (its result is not
  used) and the two calls of `handleBookingStatusChange` (the second never
  writes).
* **Answers** (200, 400, 500) are not kept. A refused request goes back to `idle`.
* A **document** keeps the fields the properties tell apart. The booking flags
  `is_checked_in`, `is_checked_out` are the set `checked`, the times
  `checked_in_at`, `checked_out_at` the set `stamped`. A body is a partial
  document with `None` for a field left out; a body without an email is refused
  like one without a room, before anything is read, and neither is modelled.
  Invalid dates never reach the database (the save rejects them).
* **Mail and calendar**: all errors are caught and all results ignored. Making
  the call is a member of `notices[b]`. The reply of the calendar is a step of its
  own (`CreateReply`), because it may never come (see Fairness).
* **Failures** are chosen by the constant `Faults`. `"read"` and `"write"` let a
  database call fail, with whatever the code makes of it: `findOverlappingBookings`
  returns an empty list, `findRoomByRoomNumber` returns null, an update or save
  returns null, `findById` and `filterDocuments` throw. `"crash"` lets the process
  die between any two steps.
* The **unique index** of `room_number` is taken as built (mongoose builds it at
  start); it is a guard on every write of a number (`NumberFree`).
* `unseen[r]` is **auxiliary**: the documents written since request `r` made the
  read on which its admission rests, or missed by that read because it failed. It
  appears in no guard. It lets a property say precisely what a check guarantees in
  a system without transactions: nothing stood in the way *at the time of the read*.
* `HandleBookingStatusChange` contains the room update as the code makes it, with
  `null` for the logged user. `FindRoomByIdAndUpdate` does nothing without a user,
  since the code's access to `loggedUser._id` throws inside its `try`.

The directory modules follow the same conventions, with a few of their own:

* A **role** keeps name, permissions and `is_delete`; a **user** the two fields
  with a unique index and its roles. Of the permissions, those that guard an
  endpoint of these modules are kept (`SHOW_ROLE` stands for the others).
  `Allowed` is `PermissionGuard`: one of the required permissions is enough.
* `bulkWrite` and `updateMany` are atomic for each document only, so
  `BulkUpdateUserRoles` and `DeleteRoleFromUsers` take a step for each user, in any
  order, and a failure or a crash can come between two of them.
* `PATCH /users` with an id and `PATCH /users/:id` are one state machine
  (`UserFind`, `UpdateUser`); `whole` tells whether the document that was read is
  written back. `deleteRolePermissionHandler` is not awaited: for a caller it
  rejects, the unhandled rejection ends the process (`DeleteRoleUnhandled`).
* The **start** (`Boot...`) runs `onModuleInit` before requests are served. A crash
  is followed by a new start. Failures of the start are remembered in
  `boot.failed`, which is what the process would have to know to notice them.
* `credentials` is the set of users with a document in `auth_credentials`.
  Passwords are right or wrong: `LoginFails` is always possible.
* A **token** is a payload. Anybody who holds one may use it and refresh it until
  it expires; access and refresh token hold the same and are signed with the same
  key, so they are one token. `Callers` is `JwtStrategy.validate`: the user must
  still exist, the permissions are those of the token. In `Sessions` they are the
  only callers of the endpoints of `Directory` and `Accounts`.
* In `Records` a new document gets its `created_on` when it is constructed
  (`AddNewDocument`) and is stored by a later call (`SaveDocument`), as mongoose's
  `default: Date.now` and the awaited `save` have it: documents can be stored in
  another order than that of their dates. `clock` is the newest date given out.
* **The logged methods are not in use.** Of `addNewDocument`, `updateDocument` and
  `hardDelete` the endpoints call only `hardDelete`, and without the parameters that
  would make it log. `Records` models them as the library they are meant to be;
  what is said of the log below is true of these methods, and says nothing of the
  program as it runs today. The lists of `Listing` are in use; they rest on the
  insertions, updates and deletions alone.
* In `Records` every value is the text it is printed as, which is what
  `detectModifications` compares and keeps. `history` (auxiliary) holds all
  versions of every document, `excused` the versions whose entry may be missing
  because the entry's write failed, the process died, no entry was asked for, or
  another write came between the two calls of `updateDocument`.
* The client of `Listing` is external. It goes on until a page is not full, as the
  user interface does; documents with one `created_on` come in any order.

Operators called "Variant of X" are versions of X with a plausible mistake. They
are used by no specification; putting one in the place of X makes a property fail,
which shows that the property depends on that code.

## 3. What TLC checks

| run | instance | properties |
|---|---|---|
| `rooms` | 3 rooms, 2 numbers, 2 requests, all faults | `RoomsTypeOK`, `RoomNumbersUnique`, `DeletedRoomStaysDeleted` |
| `admission` | 2 rooms, 2 bookings, 3 days, 2 requests, failing reads | `BookingsTypeOK`, `AdmissionSawNoConflict` |
| `lifecycle` | 1 room, 1 booking, 2 booking requests, 1 room request, all faults | `CreationSawRoomInService`, `CheckedHasTimestamp`, `DeletionWasAnnounced`, `RoomsSpec`, `DeletedBookingStaysDeleted` |
| `serial` | 2 rooms, 2 bookings, 1 request, failing writes and crashes | `NoDoubleBooking`, `BookingsKeepCalendar` |
| `live` | 1 room, 2 bookings, 2 booking requests, failing writes, fairness | `RequestsAnswered`, `StoredBookingAnnounced` |
| `directory` | 2 roles, 2 users, 2 requests, all faults | `DirectoryTypeOK`, `DeletedRoleIsWithdrawn`, `ReplacementsAreGiven`, `DuplicateCheckSawNoRole`, `DeletionTakesOneRole`, `DeletedRoleComesBackByUpdate`, `BuiltInAccountIsKept` |
| `sessions` | 2 roles, 2 users, 1 request of each kind, all faults | `SessionsTypeOK`, `UsersStayDistinct`, `PasswordUnlessInterrupted`, `BuiltInAccountExists`, `LoginGrantsWhatRolesHold`, `TokensComeFromLogins`, `TokensNeedPassword` |
| `records` | 3 documents and 2 free ids, 2 callers, 2 methods, a client, failing writes and crashes | `RecordsTypeOK`, `LogIsTrue`, `LogIsComplete`, `PageWalkMissesNone`, `RowNumberIsRank` |
| `double_booking` | 2 concurrent creates | violates `NoDoubleBooking` |
| `stale_move` | 2 rooms, 2 concurrent updates of one booking | violates `MoveIsStoredWhereChecked` |
| `occupied` | one create | violates `ConfirmationOccupiesRoom` |
| `cancel_mail` | 2 concurrent updates | violates `CancellationIsAnnounced` |

**Admission.** `createBooking` and `updateBooking` read the rooms, then the
overlapping confirmed bookings, then write. `AdmissionSawNoConflict` says what
this is worth, for the booking that will be stored (`BookingToStore`: for an update
the body merged into the booking as it is at the write): each confirmed
booking in its way was written after the read that let the request through, or
that read failed. It covers the two reads `updateBooking` combines. The one excuse is
`MovedMeanwhile`: the check was made for the booking `updateBooking` had read, and
another update has moved it to another room or other dates since. Without the
excuse (`MoveIsStoredWhereChecked`) the property is false: in `stale_move` one
update moves the booking to the second room, and the other, admitted for the first
room, stores its dates in the second, over a booking confirmed there before either
began. The instance has two rooms and bodies that change one or the other. The same idea
for rooms is `CreationSawRoomInService`.

**Double booking.** `NoDoubleBooking` is what a hotel wants. It holds
(`serial`) with one booking request at a time, reads that do not fail and no
body that confirms a booking without dates or a room. `double_booking` drops the first
condition. The second is needed because a failing read looks like a free room, the
third because a pending booking blocks nobody: a confirmed one is stored beside it,
and a body with only a status (`booking.controller.ts`:275) then confirms the first
without a check. No run meets these two: they are excluded by name, in the
instance and in the theorem.

**The calendar.** `RoomCalendar` has one variable, the stay each booking has
reserved, and two actions: reserve a stay that is free, release a booking. The
refinement mapping `CalendarOfBookings` gives every stored booking that is
confirmed its room and dates, and every other one none. `BookingsKeepCalendar`
says that the handlers, with all their reads, mails and failing writes, implement
it under the three conditions: each step is a reservation of a free stay, a
release, or nothing to the calendar. `NoDoubleBooking` is its invariant
`Exclusive`, seen through the mapping.

**The directory.** Nothing in these endpoints is atomic over two documents, and the
properties say what is left: a user who still has a role when it is marked deleted
was written by another request after the holders were read
(`DeletedRoleIsWithdrawn`); the others have the replacements that were still there
(`ReplacementsAreGiven`) and lost nothing else (`DeletionTakesOneRole`); a
deleted role comes back only by an update that asks for it or that had read the
role before and writes it whole (`DeletedRoleComesBackByUpdate`); a name that is
taken twice was taken since the lookup (`DuplicateCheckSawNoRole`); the built-in
account changes only in its roles, by a deletion that has it on its list, or by an
update of that very user that read it before it got the built-in name
(`BuiltInAccountIsKept`).

**Accounts and sessions.** `PasswordUnlessInterrupted` is what two writes without a
transaction are worth: a user without a password is one whose second write is
pending, failed or was cut off, and the last two are for good. The start repairs
neither. `LoginGrantsWhatRolesHold` allows for writes between the two reads of a
login. `TokensComeFromLogins` states the consequence of `refresh` copying the old
payload: a token never holds less, or more, than some login put into one.

**Records and lists.** `LogIsTrue` and `LogIsComplete` are the two directions of
what a log is for. `PageWalkMissesNone` holds for a reader from the top while
documents are added, and needs its condition that none leaves the list: then
rows move up past the reader. `RowNumberIsRank`: the number of a row was the
rank of its document, counted from the oldest, when the page was read; afterwards
the rank is larger by at most the documents that joined the list with an older or
equal date, which need not be restored ones, since a new document may be stored
after a younger one; where none joins, number and rank agree on every page. It has
two exceptions: page 0 has
the rows of page 1 with other numbers, and a negative size, which `paginator` takes
like 0 for everything, numbers the rows right on page 1 only, since
`responseOrderMaker` multiplies by it. The second exception was found by the proof.

**Flags and times.** `CheckedHasTimestamp` is stated where the bodies of create
and update leave the two flags alone (`FlagsOnlyByCheck`), as the endpoints are
meant; the code does not reject such bodies, and then the flag has no time.

**Findings.** The four violation runs each contradict a comment or a message of the
code: concurrent creates are both admitted; a booking moved by another request is
stored where nothing was checked; a confirmed booking never makes its room occupied; a
cancellation can be announced as an update. A consequence of the third is that `RoomsSpec` and the theorem behind it hold: the booking service never writes a
room. Passing a user there (the variant `HandleBookingStatusChange_AsStaff`) makes it
fail, and would end a maintenance that staff has set, so whoever repairs that finding
has to look at the status of the room too. One more follows from reading `UpdateReadOthers`, without any
interleaving: `updateBooking` accepts a room that only has no overlapping booking,
under maintenance or not.

### Bounds

`BookingIds` and `RoomIds` bound the number of documents ever created: an insert
fails when no id is fresh (commented in `CreateFails` and `CreateNewRoomFails`).
One booking is enough for properties of one document; two for a conflict, since a
conflict is between two bookings. Three days give overlapping, touching and
disjoint stays; two rooms let an update move a booking into the way of one that was
never in its own. Two concurrent requests suffice for every interleaving hazard
listed, which all involve a reader and one writer; a third would only repeat the
writer, which can send again. Request slots are reused without bound.

In `directory` one user holds the role to be deleted and one may be given it; one
name is free, so that two requests can compete for it; the bodies are few (they
are listed in `MCDirectory`) but let each request interfere with each other. In
`sessions` one handler of each kind runs beside the start, the crash and the
expiry of tokens: the hazards are between different kinds of handlers. The second
role id is there for the start to create. `MaxCalls` bounds the methods called in
`records` by two, the smallest number with a conflict; two free ids let the two
documents constructed by them be stored in the reverse order of their dates. One of
the three documents is withdrawn and can be restored; with two created ones the list
has two pages of two rows. The first page is one of -1, 0, 1 and 2, since a list need not be
read from the top.

Requests,
bookings, rooms and numbers are permuted by the symmetry sets where all of them
are interchangeable; `live` uses no symmetry.

### Fairness

`FairSpec` gives each request slot weak fairness of `HandleRequest`, but for the reply
of the calendar: a call to the database or to the mail server settles (the driver and
the mail client time out), and the event loop resumes the handler. The `POST` to the
calendar has no timeout: `HttpModule` is imported without options
(`booking.module.ts`:37), axios has none by default, and `createCalenderEvent` adds
none. So `CreateReply` is not fair, and `RequestsAnswered` says that a request is
answered or waits there (`AwaitsCalendar`). `StoredBookingAnnounced` needs the calls to
be made, not to return: it holds with two requests of which one waits for ever.
Nothing forces a client to send a request, the room endpoints
have no fairness, and crashes are not forced. `StoredBookingAnnounced` is checked
where reads do not fail and the process stays up: with either, the code drops the
remaining notices and nothing retries.

## 4. What is proved

For all constants that satisfy `RoomsAssumption`, `BookingsAssumption`,
`DirectoryAssumption`, `AccountsAssumption`, `SessionsAssumption` and
`RecordsAssumption` (typed bodies, `None` distinct from every value, initial
collections that respect their unique indexes, ids of two collections disjoint;
in `Records` a finite number of ids, because the model counts documents):

| theorem | module | says |
|---|---|---|
| `RoomsTypeCorrect`, `RoomNumbersStayUnique`, `DeletionIsFinal` | `RoomsProofs` | the three properties of `rooms` |
| `BookingsImplementRooms` | `BookingsProofs` | `Spec => RoomsSpec` |
| `BookingsTypeCorrect` | `BookingsProofs` | `Spec => []BookingsTypeOK` |
| `AdmissionIsSound` | `BookingsProofs` | `Spec => []AdmissionSawNoConflict` |
| `CreationIsInService` | `BookingsProofs` | `Spec => []CreationSawRoomInService` |
| `BookingDeletionIsFinal` | `BookingsLifecycle` | `Spec => DeletedBookingStaysDeleted` |
| `DeletionIsAnnounced` | `BookingsLifecycle` | `Spec => []DeletionWasAnnounced` |
| `CheckedIsStamped` | `BookingsLifecycle` | `Spec => []CheckedHasTimestamp` |
| `BookingsImplementCalendar` | `BookingsLifecycle` | `Serial => (Spec => BookingsKeepCalendar)` |
| `SerialBookingsNeverClash` | `BookingsLifecycle` | `Serial => (Spec => []NoDoubleBooking)` |
| `DirectoryTypeCorrect` | `DirectoryProofs` | `DirectorySpec => []DirectoryTypeOK` |
| `DeletionWithdraws` | `DirectorySafety` | `DirectorySpec => []DeletedRoleIsWithdrawn` |
| `DeletionReplaces` | `DirectorySafety` | `DirectorySpec => []ReplacementsAreGiven` |
| `DuplicateChecksHold` | `DirectorySafety` | `DirectorySpec => []DuplicateCheckSawNoRole` |
| `DeletionTakesNoOtherRole` | `DirectorySafety` | `DirectorySpec => DeletionTakesOneRole` |
| `DeletedRolesStay` | `DirectorySafety` | `DirectorySpec => DeletedRoleComesBackByUpdate` |
| `BuiltInAccountStays` | `DirectorySafety` | `DirectorySpec => BuiltInAccountIsKept` |
| `AccountsKeepDirectory` | `SessionsProofs` | `AccountsSpec =>` the six properties above, of invariants and steps |
| `SessionsImplementAccounts` | `SessionsProofs` | `SessionsSpec => AccountsSpec` |
| `SessionsTypeCorrect` | `SessionsProofs` | `SessionsSpec => []SessionsTypeOK` |
| `UsersAreDistinct` | `SessionsProofs` | `SessionsSpec => []UsersStayDistinct` |
| `PasswordsAreStored` | `SessionsProofs` | `SessionsSpec => []PasswordUnlessInterrupted` |
| `BuiltInAccountStands` | `SessionsProofs` | `SessionsSpec => []BuiltInAccountExists` |
| `LoginsGrantRoles` | `SessionsProofs` | `SessionsSpec => []LoginGrantsWhatRolesHold` |
| `TokensAreFromLogins` | `SessionsProofs` | `SessionsSpec => []TokensComeFromLogins` |
| `TokensNeedTheirPassword` | `SessionsProofs` | `SessionsSpec => []TokensNeedPassword` |
| `RecordsTypeCorrect` | `RecordsProofs` | `RecordsSpec => []RecordsTypeOK` |
| `LogTellsTheTruth` | `RecordsProofs` | `RecordsSpec => []LogIsTrue` |
| `LogTellsAll` | `RecordsProofs` | `RecordsSpec => []LogIsComplete` |
| `ListingImplementsRecords` | `ListingProofs` | `ListingSpec => RecordsSpec` |
| `WalkMissesNone` | `ListingProofs` | `ListingSpec => []PageWalkMissesNone` |
| `RowsAreNumberedByRank` | `ListingProofs` | `ListingSpec => []RowNumberIsRank` |

`Serial` of `BookingsLifecycle` is `OneRequestAtATime /\ NoUncheckedConfirmation /\
"read" \notin Faults`: the conditions under which the code can keep its promise at
all. The run `double_booking` shows what happens without the first.

The argument. `RoomsIndInv` adds to the types that a request which reaches an
update or a deletion names a room. `BookingStepsKeepRooms` shows that no booking
step changes the variables of `Rooms`, so that every step of the whole is a step or
a stutter of `Rooms`: the theorems about rooms carry over. `TypeInv` adds
`StageFits`: which bookings, bodies and reads a request holds at each stage;
without it a write could name no booking. `StepsHaveFrame` says once what a step
of one request leaves to the others: their stages and locals, the rooms, documents
changed only if marked unseen, notices and timestamps that only grow, deleted
bookings that stay deleted. Each invariant is then proved for the acting request
action by action, and for all others from the frame. The strengthenings:
`AdmissionInv` records what the first of `updateBooking`'s two reads found while
the second is pending, and after it what was found for the stay requested, which is
the stay stored unless the booking was moved meanwhile; `RoomSeenInv` what the rooms read found; `AnnouncedInv` that
`DeleteBooking` has sent its mail before its later stages; `StampedInv` that a side
about to be set without a time already has one in the collection.

The calendar. Under `Serial` nothing is written behind a handler's back: `Fresh`
says that the document it read is the one stored (`Snapshot`) and that no booking is
unseen when it is admitted (`SawAll`). With `AdmissionInv` the write then reserves a
free stay, releases one or changes no stay, action by action, and failing writes and
crashes are stutters. That a calendar so written is exclusive is a theorem of
`RoomCalendar` alone (`CalendarIsExclusive`), and `NoDoubleBooking` is its image.

The directory. `StageFits` of `DirectoryProofs` says what the locals of a handler
hold at each stage and that the documents they name are there; `Frame` what a step
leaves to the other requests: stages, locals, no document removed, and every
document it wrote marked unseen by them. `HandlerInv` of `DirectorySafety` is the
invariant of one request, true of the documents it has seen: `NameFree` after the
duplicate check, `FoundFits` between a read and the write it feeds, `ToWithdraw`
(the users that may still have the role: the holders, then those the `$pull` has not
reached, then none), `ExistingFits` and `ToGive` the same for the replacements.
Because it speaks of seen documents only, the steps of others keep it by `Frame`
(`OthersKeep`), and each step of the request is one lemma. The action properties
follow from it at the step that writes. The same invariant holds in the whole process
(`AccountsKeepDirectory`): every other step either is one of `Directory` or stores a
document under a new id (`DocumentAdded`), and then each handler has been told that it
has not seen it or, during the start, is not there.

Accounts and sessions. `AccountInv` adds to `TypeInv` that nothing is served before
the process is up (`NotServing`), that a stored user is in exactly one of
`credentials`, `Pending` and `interrupted` and nobody else is in any (`Placed`), and
that no two `createUser` calls under way have stored one user (`PendingApart`):
without these a failing second write could take the password of a user who has one.
`AdminKept` is why the built-in account survives: while it exists no other user can
get its name (`UserFree`), so that no update that passed `UserFind` is about to write
it. For the endpoints of `Directory` a step is known only by what it does to users
(`HandlerUserWrites`: all names kept, or one user replaced as the indexes allow).
`SessionInv` adds that a token is one that was issued and its user has a credential
(`TokensFit`), and what each login holds at each of its stages, up to the documents
overwritten since (`LoginFits`). The callers of `Sessions` are sets of permissions
because tokens have their type, which is all `SessionsImplementAccounts` needs.

The log. `LogIsTrue` and `LogIsComplete` speak of stored entries and of versions
whose method has ended; `RecordsInv` says the same of the entries that methods hold
between their calls. `WriteFits`: what `updateDocument` read is a version of the
document, not necessarily the last. `LogFits`: the entry to be stored is true, and
tells the version the method made unless that version is excused, or tells of a
document that another method deleted for good. `VersionIsLogged` lets a version wait
for a method that is under way. A modification that was true stays true, because
versions are only appended (`TruthIsKept`); `DetectedIsTrue` is the lemma about
`detectModifications`, for any version it compares with. A document under
construction is in no collection and bears on none of this (`AddKeepsInv`);
`SaveKeepsInv` is the step that stores it.

The list. `ListingInv` ties positions to dates. In a list sorted by `created_on`,
newest first, a document whose date is its own stands behind exactly the newer ones
(`PlaceIsRank`; a sorted sequence of a finite set, counted without induction by
mapping places to documents, `PlacesAreCounted`). `WalkOn` then says that a document the
reader has yet to see has more documents at least as new than the pages already read
hold: documents that join only add to that number, and none leaves. A joining
document may have any date. `RanksBeside` is what the numbers rest on: the older
documents that did not join since the list was opened stay the same
(`OldFromEnd`), and those there are can only become more (`FromEnd`), so a number
between the two stays between them. Nothing is assumed of the order of dates.

Only model-checked: the two liveness properties, `RequestsAnswered` and
`StoredBookingAnnounced` (liveness under fairness is beyond the prover). Every
invariant and action property that a passing run checks is a theorem. The four
violations are TLC's: a counterexample is a behaviour of a small instance.

## 5. Not modelled, and the plan

Left out for good:

* The importers for booking.com and Agoda and the OAuth client: they keep nothing in
  the database (`syncBookings` answers with the number of reservations it was
  given; `AgodaService` is registered in no module), so they have no state to
  relate to anything.
* The HTML of the mails, date and phone formats, regular expressions of search keys,
  the spreadsheet export: text.
* Endpoints that return what one query finds. Lists by pages are the exception,
  because a list is read by several of them.
* `bulkHardDelete`, `filterAndDelete`, `rolesValidationHandler`,
  `createMongoSetObjectForEntitiesWithObjects`, `cleanEmptyValues`,
  `countObjectFields`: nothing calls them.
* Response DTOs, configuration, logging and the declarative parts of NestJS.

Abstracted, and what that leaves out: usernames are trimmed for the lookup of
`createOrUpdateUser` and not for the write, and emails are lower-cased by the login
only, so an account can exist whose email no login matches; names are atoms here.
mongoose turns the `$addToSet` of an array that `updateUserRoles` asks for into one
of its members (`$each`), and so does the model. A plan that names a user with no roles is taken like
one that does not name the user. Nested values in `detectModifications` and bodies
with an `_id` are not modelled.

Next: what the admission of a booking and the maintenance of its room still promise
each other when both are changed at once, of which `CreationSawRoomInService` is one
half; and the pure functions of `Listing` for
every list, of which the theorems use the instances a reader meets.
