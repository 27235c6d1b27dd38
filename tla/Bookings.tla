------------------------------ MODULE Bookings ------------------------------
(***************************************************************************)
(* The bookings collection and the endpoints of the booking controller     *)
(* that change it, running beside the room endpoints of Rooms.  A handler  *)
(* stops at every `await', so that a request is a state machine whose      *)
(* stage says which call it makes next and whose locals hold what it read. *)
(*                                                                         *)
(* A booking keeps the fields the properties tell apart.  The two flags    *)
(* is_checked_in and is_checked_out are the set `checked' of sides that    *)
(* are true, the two timestamps checked_in_at and checked_out_at the set   *)
(* `stamped' of sides that have one.  Customer, telephone, note and origin *)
(* are left out, and so is a body without an email address, which is       *)
(* refused like one without a room before anything is read.                *)
(*                                                                         *)
(* An answer (200, 400, 500) is not kept: a request that is answered goes  *)
(* back to "idle", and its stages say which answer it was on its way to.   *)
(***************************************************************************)
EXTENDS Rooms

CONSTANTS
  BookingIds,     \* ObjectIds the driver may give to new bookings
  Requests,       \* requests to the booking endpoints that may be in flight
  Days,           \* the dates, in order
  CreateBodies,   \* bodies of POST /bookings
  UpdateBodies,   \* bodies of PATCH /bookings/:id
  CheckBodies     \* bodies of PATCH /bookings/check/:id

BookingStatuses == {"pending", "confirmed", "completed", "canceled"}

Sides == {"in", "out"}

Booking == [room_id   : RoomIds,
            clock_in  : Days,
            clock_out : Days,
            status    : BookingStatuses,
            checked   : SUBSET Sides,
            stamped   : SUBSET Sides]

\* Partial<IBooking>: None for a field left out; `check' and `uncheck' are
\* the sides whose flag the body sets to true and to false.
BookingPatch == [room_id   : RoomIds \cup {None},
                 clock_in  : Days \cup {None},
                 clock_out : Days \cup {None},
                 status    : BookingStatuses \cup {None},
                 check     : SUBSET Sides,
                 uncheck   : SUBSET Sides]

\* A new booking must have the required fields of the schema.
NewBooking == {p \in BookingPatch :
                 p.room_id # None /\ p.clock_in # None /\ p.clock_out # None}

ASSUME BookingsAssumption ==
  /\ Days \subseteq Int
  /\ None \notin Booking
  /\ None \notin [room : RoomIds, from : Days, to : Days]
  /\ None \notin BookingIds
  /\ None \notin Days
  /\ None \notin BookingStatuses
  /\ BookingIds \cap RoomIds = {}
  /\ CreateBodies \subseteq NewBooking
  /\ UpdateBodies \subseteq BookingPatch
  /\ CheckBodies \subseteq BookingPatch

(***************************************************************************)
(* `notices' are the calls a handler makes about a booking to the mail     *)
(* server and to Google Calendar.  Their errors are caught and their       *)
(* results ignored, so that making the call is all there is to it.         *)
(*                                                                         *)
(* `unseen' is auxiliary: the documents written since the reads on which   *)
(* the request's admission rests, and every document while it has no such  *)
(* reads.                                                                  *)
(***************************************************************************)
VARIABLES
  bookings,       \* the collection: a document, or None, at every id
  freshBookings,  \* the ids no document has had yet
  stage,          \* the call each request makes next
  local,          \* what each handler holds in its local variables
  notices,        \* the calls about each booking to the outside
  unseen

bookingVars == <<bookings, freshBookings, stage, local, notices, unseen>>

vars == <<roomVars, bookingVars>>

Stages ==
  {"idle",
   "create_rooms", "create_overlaps", "create_insert", "create_mail",
   "create_handle", "create_calendar", "create_reply",
   "update_find", "update_rooms", "update_overlaps", "update_others",
   "update_write", "update_mail", "update_handle",
   "check_find", "check_write", "check_mail",
   "delete_find", "delete_mail", "delete_handle", "delete_remove"}

Notices == {"confirmation", "update", "cancellation", "check", "event"}

EmptyBookingPatch ==
  [room_id |-> None, clock_in |-> None, clock_out |-> None, status |-> None,
   check |-> {}, uncheck |-> {}]

\* id: path parameter, or id of the new booking.  current: the booking as the
\* handler first read it.  available: the rooms not under maintenance, then
\* those of them that are free.  stamp: the timestamps added to the body.
\* saved: the status in the document the write returned.
Local == [id        : BookingIds \cup {None},
          body      : BookingPatch,
          current   : Booking \cup {None},
          available : SUBSET RoomIds,
          stamp     : SUBSET Sides,
          saved     : BookingStatuses \cup {None}]

NoLocal == [id |-> None, body |-> EmptyBookingPatch, current |-> None,
            available |-> {}, stamp |-> {}, saved |-> None]

Documents == BookingIds \cup RoomIds

BookingsTypeOK ==
  /\ RoomsTypeOK
  /\ bookings \in [BookingIds -> Booking \cup {None}]
  /\ freshBookings \subseteq BookingIds
  /\ \A b \in freshBookings : bookings[b] = None
  /\ stage \in [Requests -> Stages]
  /\ local \in [Requests -> Local]
  /\ notices \in [BookingIds -> SUBSET Notices]
  /\ unseen \in [Requests -> SUBSET Documents]

Init ==
  /\ RoomsInit
  /\ bookings = [b \in BookingIds |-> None]
  /\ freshBookings = BookingIds
  /\ stage = [r \in Requests |-> "idle"]
  /\ local = [r \in Requests |-> NoLocal]
  /\ notices = [b \in BookingIds |-> {}]
  /\ unseen = [r \in Requests |-> Documents]

-----------------------------------------------------------------------------
(* The database service and the booking service. *)

Overlapping(stay, other) ==
  /\ other.clock_in < stay.clock_out
  /\ other.clock_out > stay.clock_in

\* Variant of FindOverlappingBookings: only a start within the stay counts.
FindOverlappingBookings_StartsWithin(stay, excluded) ==
  {b \in BookingIds :
     /\ bookings[b] # None
     /\ bookings[b].status = "confirmed"
     /\ b # excluded
     /\ bookings[b].clock_in >= stay.clock_in
     /\ bookings[b].clock_in < stay.clock_out}

FindOverlappingBookings(stay, excluded) ==
  {b \in BookingIds :
     /\ bookings[b] # None
     /\ bookings[b].status = "confirmed"
     /\ b # excluded
     /\ Overlapping(stay, bookings[b])}

\* Variant of RoomsOf: ObjectIds compared as objects, none of them equal.
RoomsOf_ByReference(found) == {}

RoomsOf(found) == {bookings[b].room_id : b \in found}

\* Variant of RoomsInService: the status that is filtered out is another.
RoomsInService_NotOccupied ==
  {x \in RoomIds : rooms[x] # None /\ rooms[x].status # "occupied"}

\* The rooms getAvailableRooms keeps of all those it read.
RoomsInService ==
  {x \in RoomIds : rooms[x] # None /\ rooms[x].status # "maintenance"}

\* The room and dates a body asks for, with those of the booking as it was
\* read for what the body leaves out.
RequestedStay(body, current) ==
  [room_id   |-> Given(body.room_id, current.room_id),
   clock_in  |-> Given(body.clock_in, current.clock_in),
   clock_out |-> Given(body.clock_out, current.clock_out)]

\* Variant of NeedsAvailabilityCheck: a change of room alone is not checked.
NeedsAvailabilityCheck_Dates(body) ==
  body.clock_in # None \/ body.clock_out # None

NeedsAvailabilityCheck(body) ==
  body.room_id # None \/ body.clock_in # None \/ body.clock_out # None

CreatedBooking(body) ==
  [room_id |-> body.room_id, clock_in |-> body.clock_in,
   clock_out |-> body.clock_out,
   status  |-> Given(body.status, "pending"),
   checked |-> body.check, stamped |-> {}]

\* Variant of UpdatedBooking: a date the body leaves out is written as null.
UpdatedBooking_Overwrites(booking, body, stamp) ==
  [room_id   |-> Given(body.room_id, booking.room_id),
   clock_in  |-> body.clock_in,
   clock_out |-> Given(body.clock_out, booking.clock_out),
   status    |-> Given(body.status, booking.status),
   checked   |-> (booking.checked \ body.uncheck) \cup body.check,
   stamped   |-> booking.stamped \cup stamp]

\* Variant of UpdatedBooking: a timestamp that is not set now is cleared.
UpdatedBooking_ClearsStamps(booking, body, stamp) ==
  [room_id   |-> Given(body.room_id, booking.room_id),
   clock_in  |-> Given(body.clock_in, booking.clock_in),
   clock_out |-> Given(body.clock_out, booking.clock_out),
   status    |-> Given(body.status, booking.status),
   checked   |-> (booking.checked \ body.uncheck) \cup body.check,
   stamped   |-> stamp]

\* The stored document after an update with `body' and the timestamps `stamp'.
UpdatedBooking(booking, body, stamp) ==
  [room_id   |-> Given(body.room_id, booking.room_id),
   clock_in  |-> Given(body.clock_in, booking.clock_in),
   clock_out |-> Given(body.clock_out, booking.clock_out),
   status    |-> Given(body.status, booking.status),
   checked   |-> (booking.checked \ body.uncheck) \cup body.check,
   stamped   |-> booking.stamped \cup stamp]

\* The room status a booking's change of status asks for; None for no change.
RoomStatusFor(newStatus, oldStatus) ==
  IF newStatus = "confirmed" THEN "occupied"
  ELSE IF oldStatus = "confirmed" THEN "available" ELSE None

\* Variant of HandleBookingStatusChange: a real user is passed.
HandleBookingStatusChange_AsStaff(b, newStatus, oldStatus) ==
  IF b # None /\ bookings[b] # None /\ RoomStatusFor(newStatus, oldStatus) # None
  THEN FindRoomByIdAndUpdate(bookings[b].room_id,
         [EmptyRoomPatch EXCEPT !.status = RoomStatusFor(newStatus, oldStatus)],
         Staff)
  ELSE UNCHANGED rooms

\* The booking service passes null for the logged user.
HandleBookingStatusChange(b, newStatus, oldStatus) ==
  IF b # None /\ bookings[b] # None /\ RoomStatusFor(newStatus, oldStatus) # None
  THEN FindRoomByIdAndUpdate(bookings[b].room_id,
         [EmptyRoomPatch EXCEPT !.status = RoomStatusFor(newStatus, oldStatus)],
         None)
  ELSE UNCHANGED rooms

-----------------------------------------------------------------------------
(* Steps of a handler. *)

Advance(r, next) == stage' = [stage EXCEPT ![r] = next]

Keep(r, locals) == local' = [local EXCEPT ![r] = locals]

\* A 400 or a 500, or the end of the handler.
Answer(r) ==
  /\ Advance(r, "idle")
  /\ Keep(r, NoLocal)
  /\ unseen' = [unseen EXCEPT ![r] = Documents]

\* Document d was written by request r, whose admission is then used up.
Written(r, d) ==
  unseen' = [s \in Requests |-> IF s = r THEN Documents ELSE unseen[s] \cup {d}]

Notify(b, notice) ==
  notices' = IF b = None THEN notices
             ELSE [notices EXCEPT ![b] = @ \cup {notice}]

NoBookingWrite == UNCHANGED <<bookings, freshBookings>>
NoRoomWrite == UNCHANGED roomVars

Begin(r, next, id, body) ==
  /\ stage[r] = "idle"
  /\ Advance(r, next)
  /\ Keep(r, [NoLocal EXCEPT !.id = id, !.body = body])
  /\ NoBookingWrite /\ NoRoomWrite
  /\ UNCHANGED <<notices, unseen>>

\* A read or a write that throws before anything has been stored.
Rejected(r, at, fault) ==
  /\ stage[r] = at
  /\ fault \in Faults
  /\ Answer(r)
  /\ NoBookingWrite /\ NoRoomWrite
  /\ UNCHANGED notices

\* The first read of getAvailableRooms, for both handlers that call it.
ReadRooms(r, at, next) ==
  /\ stage[r] = at
  /\ Advance(r, next)
  /\ Keep(r, [local[r] EXCEPT !.available = RoomsInService])
  /\ unseen' = [unseen EXCEPT ![r] = @ \ RoomIds]
  /\ NoBookingWrite /\ NoRoomWrite
  /\ UNCHANGED notices

\* What a read of the overlapping bookings returns: the error of a read that
\* fails is caught, and nothing is found.
OverlapResults(stay, excluded) ==
  {FindOverlappingBookings(stay, excluded)}
    \cup {found \in {{}} : "read" \in Faults}

\* The bookings that a read which returned `found' did not see.
MissedBy(found, stay, excluded) ==
  IF found = FindOverlappingBookings(stay, excluded) THEN {} ELSE BookingIds

-----------------------------------------------------------------------------
(* POST /bookings *)

PostBooking(r, body) == Begin(r, "create_rooms", None, body)

CreateReadRooms(r) == ReadRooms(r, "create_rooms", "create_overlaps")

CreateReadOverlaps(r) ==
  LET body == local[r].body IN
  /\ stage[r] = "create_overlaps"
  /\ \E found \in OverlapResults(body, None) :
       IF body.room_id \in local[r].available \ RoomsOf(found)
       THEN /\ Advance(r, "create_insert")
            /\ Keep(r, [local[r] EXCEPT !.available = {}])
            /\ unseen' = [unseen EXCEPT ![r] =
                            (@ \ BookingIds) \cup MissedBy(found, body, None)]
       ELSE Answer(r)
  /\ NoBookingWrite /\ NoRoomWrite
  /\ UNCHANGED notices

CreateInsert(r) ==
  /\ stage[r] = "create_insert"
  /\ \E b \in freshBookings :
       LET booking == CreatedBooking(local[r].body) IN
       /\ bookings' = [bookings EXCEPT ![b] = booking]
       /\ freshBookings' = freshBookings \ {b}
       /\ Written(r, b)
       /\ Keep(r, [NoLocal EXCEPT !.id = b, !.saved = booking.status])
  /\ Advance(r, "create_mail")
  /\ NoRoomWrite
  /\ UNCHANGED notices

CreateMail(r) ==
  /\ stage[r] = "create_mail"
  /\ Notify(local[r].id, "confirmation")
  /\ Advance(r, IF local[r].saved = "confirmed" THEN "create_handle"
                                                ELSE "create_calendar")
  /\ NoBookingWrite /\ NoRoomWrite
  /\ UNCHANGED <<local, unseen>>

\* Variant of CreateHandle: it answers at once, without the calendar.
CreateHandle_Answers(r) ==
  /\ stage[r] = "create_handle"
  /\ HandleBookingStatusChange(local[r].id, "confirmed", None)
  /\ Answer(r)
  /\ NoBookingWrite
  /\ UNCHANGED <<freshRooms, roomRequests, notices>>

CreateHandle(r) ==
  /\ stage[r] = "create_handle"
  /\ HandleBookingStatusChange(local[r].id, "confirmed", None)
  /\ Advance(r, "create_calendar")
  /\ NoBookingWrite
  /\ UNCHANGED <<freshRooms, roomRequests, local, notices, unseen>>

CreateCalendar(r) ==
  /\ stage[r] = "create_calendar"
  /\ Notify(local[r].id, "event")
  /\ Advance(r, "create_reply")
  /\ NoBookingWrite /\ NoRoomWrite
  /\ UNCHANGED <<local, unseen>>

\* The call returns, or throws and the error is caught.
CreateReply(r) ==
  /\ stage[r] = "create_reply"
  /\ Answer(r)
  /\ NoBookingWrite /\ NoRoomWrite
  /\ UNCHANGED notices

\* An error of the rooms read, of the save or of the booking read that
\* handleBookingStatusChange makes is a 500; that last one comes after the
\* booking has been stored.
CreateFails(r) ==
  \/ Rejected(r, "create_rooms", "read")
  \/ Rejected(r, "create_insert", "write")
  \/ Rejected(r, "create_handle", "read")
  \/ /\ stage[r] = "create_insert"
     /\ freshBookings = {}       \* bound: the model has run out of ids
     /\ Answer(r)
     /\ NoBookingWrite /\ NoRoomWrite
     /\ UNCHANGED notices

CreateStep(r) ==
  \/ CreateReadRooms(r)
  \/ CreateReadOverlaps(r)
  \/ CreateInsert(r)
  \/ CreateMail(r)
  \/ CreateHandle(r)
  \/ CreateCalendar(r)
  \/ CreateReply(r)
  \/ CreateFails(r)

-----------------------------------------------------------------------------
(* PATCH /bookings/:id *)

PatchBooking(r, b, body) == Begin(r, "update_find", b, body)

UpdateFind(r) ==
  LET booking == bookings[local[r].id] IN
  /\ stage[r] = "update_find"
  /\ IF booking = None
     THEN Answer(r)
     ELSE /\ Keep(r, [local[r] EXCEPT !.current = booking])
          /\ Advance(r, IF NeedsAvailabilityCheck(local[r].body)
                        THEN "update_rooms" ELSE "update_write")
          /\ UNCHANGED unseen
  /\ NoBookingWrite /\ NoRoomWrite
  /\ UNCHANGED notices

UpdateReadRooms(r) == ReadRooms(r, "update_rooms", "update_overlaps")

UpdateReadOverlaps(r) ==
  LET stay == RequestedStay(local[r].body, local[r].current) IN
  /\ stage[r] = "update_overlaps"
  /\ \E found \in OverlapResults(stay, None) :
       /\ Keep(r, [local[r] EXCEPT !.available = @ \ RoomsOf(found)])
       /\ unseen' = [unseen EXCEPT ![r] =
                       (@ \ BookingIds) \cup MissedBy(found, stay, None)]
  /\ Advance(r, "update_others")
  /\ NoBookingWrite /\ NoRoomWrite
  /\ UNCHANGED notices

\* The second read leaves the booking itself out; its answer counts only
\* when the first one did not leave the room available.
UpdateReadOthers(r) ==
  LET stay == RequestedStay(local[r].body, local[r].current)
      self == local[r].id IN
  /\ stage[r] = "update_others"
  /\ \E found \in OverlapResults(stay, self) :
       IF \/ stay.room_id \in local[r].available
          \/ stay.room_id \notin RoomsOf(found)
       THEN /\ Advance(r, "update_write")
            /\ Keep(r, [local[r] EXCEPT !.available = {}])
            /\ unseen' =
                 IF stay.room_id \in local[r].available THEN unseen
                 ELSE [unseen EXCEPT ![r] =
                        (@ \ BookingIds) \cup MissedBy(found, stay, self)]
       ELSE Answer(r)
  /\ NoBookingWrite /\ NoRoomWrite
  /\ UNCHANGED notices

\* Variant of UpdateWrite: the booking as first read is saved as a whole.
UpdateWrite_SavesWhole(r) ==
  LET b == local[r].id IN
  /\ stage[r] = "update_write"
  /\ bookings' = [bookings EXCEPT
                   ![b] = UpdatedBooking(local[r].current, local[r].body, {})]
  /\ Keep(r, [local[r] EXCEPT !.saved =
                Given(local[r].body.status, local[r].current.status)])
  /\ Written(r, b)
  /\ Advance(r, "update_mail")
  /\ NoRoomWrite
  /\ UNCHANGED <<freshBookings, notices>>

\* The result is the updated document spread into an object: for a booking
\* that is gone it holds no field, but it is not null.
UpdateWrite(r) ==
  LET b == local[r].id IN
  /\ stage[r] = "update_write"
  /\ IF bookings[b] = None
     THEN /\ UNCHANGED bookings
          /\ Keep(r, [local[r] EXCEPT !.id = None])
          /\ unseen' = [unseen EXCEPT ![r] = Documents]
     ELSE /\ bookings' = [bookings EXCEPT
                            ![b] = UpdatedBooking(@, local[r].body, {})]
          /\ Keep(r, [local[r] EXCEPT !.saved =
                        Given(local[r].body.status, bookings[b].status)])
          /\ Written(r, b)
  /\ Advance(r, "update_mail")
  /\ NoRoomWrite
  /\ UNCHANGED <<freshBookings, notices>>

\* isStatusChanging compares the body with the booking as it was first read.
IsStatusChanging(r) ==
  /\ local[r].body.status # None
  /\ local[r].body.status # local[r].current.status

UpdateNotice(r) ==
  IF IsStatusChanging(r) /\ local[r].saved = "canceled"
  THEN "cancellation" ELSE "update"

UpdateMail(r) ==
  /\ stage[r] = "update_mail"
  /\ Notify(local[r].id, UpdateNotice(r))
  /\ IF IsStatusChanging(r)
     THEN Advance(r, "update_handle") /\ UNCHANGED <<local, unseen>>
     ELSE Answer(r)
  /\ NoBookingWrite /\ NoRoomWrite

UpdateHandle(r) ==
  /\ stage[r] = "update_handle"
  /\ HandleBookingStatusChange(local[r].id, local[r].saved,
                               local[r].current.status)
  /\ Answer(r)
  /\ NoBookingWrite
  /\ UNCHANGED <<freshRooms, roomRequests, notices>>

\* findBookingByIdAndUpdate reads the booking once more before it writes, so
\* that the failure of either call ends the update.
UpdateFails(r) ==
  \/ Rejected(r, "update_find", "read")
  \/ Rejected(r, "update_rooms", "read")
  \/ Rejected(r, "update_write", "read")
  \/ Rejected(r, "update_write", "write")
  \/ Rejected(r, "update_handle", "read")

UpdateStep(r) ==
  \/ UpdateFind(r)
  \/ UpdateReadRooms(r)
  \/ UpdateReadOverlaps(r)
  \/ UpdateReadOthers(r)
  \/ UpdateWrite(r)
  \/ UpdateMail(r)
  \/ UpdateHandle(r)
  \/ UpdateFails(r)

-----------------------------------------------------------------------------
(* PATCH /bookings/check/:id *)

PatchCheck(r, b, body) == Begin(r, "check_find", b, body)

\* A side the body sets gets a timestamp when the booking was read without.
CheckFind(r) ==
  LET booking == bookings[local[r].id] IN
  /\ stage[r] = "check_find"
  /\ IF booking = None
     THEN Answer(r)
     ELSE /\ Keep(r, [local[r] EXCEPT
                        !.stamp = local[r].body.check \ booking.checked])
          /\ Advance(r, "check_write")
          /\ UNCHANGED unseen
  /\ NoBookingWrite /\ NoRoomWrite
  /\ UNCHANGED notices

CheckWrite(r) ==
  LET b == local[r].id IN
  /\ stage[r] = "check_write"
  /\ IF bookings[b] = None
     THEN UNCHANGED <<bookings, unseen>>
     ELSE /\ bookings' = [bookings EXCEPT
                 ![b] = UpdatedBooking(@, local[r].body, local[r].stamp)]
          /\ Written(r, b)
  /\ Keep(r, IF local[r].stamp = {} THEN NoLocal
             ELSE IF bookings[b] = None THEN [local[r] EXCEPT !.id = None]
             ELSE local[r])
  /\ Advance(r, IF local[r].stamp = {} THEN "idle" ELSE "check_mail")
  /\ NoRoomWrite
  /\ UNCHANGED <<freshBookings, notices>>

\* Variant of CheckMail: it waits for a booking that may be gone.
CheckMail_Waits(r) ==
  /\ stage[r] = "check_mail"
  /\ local[r].id # None
  /\ Notify(local[r].id, "check")
  /\ Answer(r)
  /\ NoBookingWrite /\ NoRoomWrite

CheckMail(r) ==
  /\ stage[r] = "check_mail"
  /\ Notify(local[r].id, "check")
  /\ Answer(r)
  /\ NoBookingWrite /\ NoRoomWrite

CheckFails(r) ==
  \/ Rejected(r, "check_find", "read")
  \/ Rejected(r, "check_write", "read")
  \/ Rejected(r, "check_write", "write")

CheckStep(r) == CheckFind(r) \/ CheckWrite(r) \/ CheckMail(r) \/ CheckFails(r)

-----------------------------------------------------------------------------
(* DELETE /bookings/:id *)

DeleteBooking(r, b) == Begin(r, "delete_find", b, EmptyBookingPatch)

\* Variant of DeleteFind: only confirmed bookings are announced.
DeleteFind_ConfirmedOnly(r) ==
  LET booking == bookings[local[r].id] IN
  /\ stage[r] = "delete_find"
  /\ IF booking = None
     THEN Answer(r)
     ELSE /\ Keep(r, [local[r] EXCEPT !.current = booking])
          /\ Advance(r, IF booking.status = "confirmed" THEN "delete_mail"
                                                        ELSE "delete_remove")
          /\ UNCHANGED unseen
  /\ NoBookingWrite /\ NoRoomWrite
  /\ UNCHANGED notices

DeleteFind(r) ==
  LET booking == bookings[local[r].id] IN
  /\ stage[r] = "delete_find"
  /\ IF booking = None
     THEN Answer(r)
     ELSE /\ Keep(r, [local[r] EXCEPT !.current = booking])
          /\ Advance(r, "delete_mail")
          /\ UNCHANGED unseen
  /\ NoBookingWrite /\ NoRoomWrite
  /\ UNCHANGED notices

DeleteMail(r) ==
  /\ stage[r] = "delete_mail"
  /\ Notify(local[r].id, "cancellation")
  /\ Advance(r, IF local[r].current.status = "confirmed" THEN "delete_handle"
                                                         ELSE "delete_remove")
  /\ NoBookingWrite /\ NoRoomWrite
  /\ UNCHANGED <<local, unseen>>

DeleteHandle(r) ==
  /\ stage[r] = "delete_handle"
  /\ HandleBookingStatusChange(local[r].id, "canceled", "confirmed")
  /\ Advance(r, "delete_remove")
  /\ NoBookingWrite
  /\ UNCHANGED <<freshRooms, roomRequests, local, notices, unseen>>

DeleteRemove(r) ==
  LET b == local[r].id IN
  /\ stage[r] = "delete_remove"
  /\ bookings' = [bookings EXCEPT ![b] = None]
  /\ Written(r, b)
  /\ Keep(r, NoLocal)
  /\ Advance(r, "idle")
  /\ NoRoomWrite
  /\ UNCHANGED <<freshBookings, notices>>

DeleteFails(r) ==
  \/ Rejected(r, "delete_find", "read")
  \/ Rejected(r, "delete_handle", "read")
  \/ Rejected(r, "delete_remove", "write")

DeleteStep(r) ==
  \/ DeleteFind(r)
  \/ DeleteMail(r)
  \/ DeleteHandle(r)
  \/ DeleteRemove(r)
  \/ DeleteFails(r)

-----------------------------------------------------------------------------

ReceiveRequest(r) ==
  \/ \E body \in CreateBodies : PostBooking(r, body)
  \/ \E b \in BookingIds \ freshBookings :
       \/ \E body \in UpdateBodies : PatchBooking(r, b, body)
       \/ \E body \in CheckBodies : PatchCheck(r, b, body)
       \/ DeleteBooking(r, b)

HandleRequest(r) ==
  CreateStep(r) \/ UpdateStep(r) \/ CheckStep(r) \/ DeleteStep(r)

BookingsStep == \E r \in Requests : ReceiveRequest(r) \/ HandleRequest(r)

\* A request to a room endpoint runs beside them.
RoomEndpointStep ==
  /\ RoomsStep
  /\ unseen' = [r \in Requests |->
                  unseen[r] \cup {x \in RoomIds : rooms'[x] # rooms[x]}]
  /\ UNCHANGED <<bookings, freshBookings, stage, local, notices>>

\* The process dies or is restarted: every handler is gone, what it stored stays.
Crash ==
  /\ RoomsCrash
  /\ stage' = [r \in Requests |-> "idle"]
  /\ local' = [r \in Requests |-> NoLocal]
  /\ unseen' = [r \in Requests |-> Documents]
  /\ UNCHANGED <<bookings, freshBookings, notices>>

Next == BookingsStep \/ RoomEndpointStep \/ Crash

Spec == Init /\ [][Next]_vars

(***************************************************************************)
(* A call to MongoDB or to the mail server settles, with a result or an    *)
(* error, and the event loop then resumes the handler.  The call to the    *)
(* calendar has no timeout, neither axios' nor one of the code, so that    *)
(* its reply may never come: CreateReply is not fair.  Nothing makes a     *)
(* client send a request.                                                  *)
(***************************************************************************)
AwaitsCalendar(r) == stage[r] = "create_reply"

FairSpec ==
  Spec /\ \A r \in Requests : WF_vars(HandleRequest(r) /\ ~AwaitsCalendar(r))

-----------------------------------------------------------------------------
(* Properties. *)

\* The stay that the availability check is about.
StayOf(r) == RequestedStay(local[r].body, local[r].current)

\* Request r has been let through and writes next; an update of a booking
\* that is gone writes nothing.
AboutToStore(r) ==
  \/ stage[r] = "create_insert"
  \/ /\ stage[r] = "update_write"
     /\ NeedsAvailabilityCheck(local[r].body)
     /\ bookings[local[r].id] # None

\* What it will store: an update merges its body into the booking as it is
\* then, not as updateBooking has read it.
BookingToStore(r) ==
  IF stage[r] = "create_insert" THEN CreatedBooking(local[r].body)
  ELSE UpdatedBooking(bookings[local[r].id], local[r].body, {})

\* Another request has changed the room or the dates of the booking since
\* updateBooking read it, and the body leaves that change standing.
MovedMeanwhile(r) ==
  /\ stage[r] = "update_write"
  /\ RequestedStay(local[r].body, bookings[local[r].id]) # StayOf(r)

MeetsUnseenOnly(r) ==
  \A b \in FindOverlappingBookings(BookingToStore(r), local[r].id) :
    bookings[b].room_id = BookingToStore(r).room_id => b \in unseen[r]

\* A booking about to be stored, or to be moved to other dates or to another
\* room, has no confirmed booking in its way but those written after the read
\* of the overlapping bookings that let the request through, or missed because
\* that read failed.  For an update this holds of what it will store as long
\* as no other request has moved the booking since updateBooking read it.
AdmissionSawNoConflict ==
  \A r \in Requests :
    AboutToStore(r) => MovedMeanwhile(r) \/ MeetsUnseenOnly(r)

\* The same without that condition, as the refusal "Selected room is not
\* available for the chosen dates" says: what an update stores does not lie
\* over a booking that was confirmed before the check was made.
MoveIsStoredWhereChecked ==
  \A r \in Requests :
    stage[r] = "update_write" /\ AboutToStore(r) => MeetsUnseenOnly(r)

\* A booking about to be stored is for a room that exists and is not under
\* maintenance, unless that room was written after createBooking read the
\* rooms.
CreationSawRoomInService ==
  \A r \in Requests :
    stage[r] = "create_insert" =>
      LET x == local[r].body.room_id IN
      \/ x \in unseen[r]
      \/ rooms[x] # None /\ rooms[x].status # "maintenance"

\* "If status changed to confirmed, update room status to occupied": once
\* handleBookingStatusChange has run for a new confirmed booking, its room is
\* occupied.
ConfirmationOccupiesRoom ==
  [][\A r \in Requests :
       stage[r] = "create_handle" /\ stage'[r] = "create_calendar" =>
         \A b \in BookingIds :
           /\ b = local[r].id
           /\ bookings[b] # None
           /\ rooms[bookings[b].room_id] # None
           => rooms'[bookings[b].room_id].status = "occupied"]_vars

\* "If status changed to cancelled, send cancellation email": an update that
\* turns a booking into a canceled one goes on to send the cancellation mail.
CancellationIsAnnounced ==
  [][\A r \in Requests :
       stage[r] = "update_write" /\ stage'[r] = "update_mail" =>
         \A b \in BookingIds :
           /\ b = local[r].id
           /\ bookings[b] # None
           /\ bookings[b].status # "canceled"
           /\ bookings'[b].status = "canceled"
           => UpdateNotice(r)' = "cancellation"]_vars

\* The flags of a booking are set by the check endpoint alone.
FlagsOnlyByCheck ==
  \A body \in CreateBodies \cup UpdateBodies : body.check = {}

\* A booking that is checked in has the time of its check-in, and so for
\* check-out, although updateCheckInState decides whether to stamp the time on
\* a booking it read before the write.
CheckedHasTimestamp ==
  FlagsOnlyByCheck =>
    \A b \in BookingIds :
      bookings[b] # None => bookings[b].checked \subseteq bookings[b].stamped

\* No booking disappears without a cancellation mail having been sent for it,
\* whatever fails or crashes in DeleteBooking: the mail is sent first.
DeletionWasAnnounced ==
  \A b \in BookingIds \ freshBookings :
    bookings[b] = None => "cancellation" \in notices[b]

\* A late update or check-in never brings a deleted booking back.
DeletedBookingStaysDeleted ==
  [][\A b \in BookingIds \ freshBookings :
       bookings[b] = None => bookings'[b] = None]_vars

\* No room has two confirmed bookings whose dates overlap.
NoDoubleBooking ==
  \A b, c \in BookingIds :
    /\ b # c
    /\ bookings[b] # None /\ bookings[c] # None
    /\ bookings[b].status = "confirmed" /\ bookings[c].status = "confirmed"
    /\ bookings[b].room_id = bookings[c].room_id
    => ~Overlapping(bookings[b], bookings[c])

\* What keeps NoDoubleBooking true: one booking request at a time, reads that
\* do not fail, and no body that confirms a booking, or writes its dates or
\* room, around the availability check.
OneRequestAtATime == \A r, s \in Requests : r = s

NoUncheckedConfirmation ==
  /\ \A body \in UpdateBodies :
       body.status = "confirmed" => NeedsAvailabilityCheck(body)
  /\ \A body \in CheckBodies :
       body.status # "confirmed" /\ ~NeedsAvailabilityCheck(body)

\* Confirmed bookings as the stays of a calendar of rooms.
HeldStay(booking) ==
  IF booking # None /\ booking.status = "confirmed"
  THEN [room |-> booking.room_id, from |-> booking.clock_in,
        to |-> booking.clock_out]
  ELSE None

CalendarOfBookings == [b \in BookingIds |-> HeldStay(bookings[b])]

Calendar == INSTANCE RoomCalendar WITH
              Slots <- BookingIds, Rooms <- RoomIds, calendar <- CalendarOfBookings

\* Under the same conditions the confirmed bookings are a calendar of rooms
\* without conflicts: each write of a handler reserves a free stay, releases
\* one or leaves the calendar alone, although the handler decides on reads
\* it has made several steps before.
BookingsKeepCalendar == Calendar!Spec

\* Every request to a booking endpoint is answered, whatever becomes of the
\* booking and of the requests beside it, but for a creation whose call to the
\* calendar gets no reply.
RequestsAnswered ==
  \A r \in Requests :
    stage[r] # "idle" ~> stage[r] = "idle" \/ AwaitsCalendar(r)

\* The guest of a stored booking is in the end sent the confirmation, and the
\* booking sent to the calendar, when no read fails and the process stays up,
\* even when the calls to the calendar for other bookings get no reply.
StoredBookingAnnounced ==
  \A b \in BookingIds :
    b \notin freshBookings ~> {"confirmation", "event"} \subseteq notices[b]

=============================================================================
