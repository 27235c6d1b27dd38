--------------------------- MODULE BookingsProofs ---------------------------
(***************************************************************************)
(* Bookings for every set of requests, documents, days, bodies and faults: *)
(* it implements Rooms, its variables have their types, and a booking that *)
(* is stored or moved was admitted rightly.  The argument for the last is  *)
(* the same for each property: what a step of request r does to the        *)
(* invariant of r itself is looked at action by action, and what it does   *)
(* to the invariant of any other request follows from a frame, which says  *)
(* that r touches nothing of theirs and marks whatever it writes as unseen. *)
(***************************************************************************)
EXTENDS Bookings, RoomsProofs

-----------------------------------------------------------------------------
(* The rooms seen from the booking endpoints. *)

\* Because the booking service passes null for the logged user, a change of a
\* booking's status writes no room.
LEMMA HandleWritesNoRoom ==
  ASSUME NEW b, NEW newStatus, NEW oldStatus,
         HandleBookingStatusChange(b, newStatus, oldStatus)
  PROVE  UNCHANGED rooms
  BY DEF HandleBookingStatusChange, FindRoomByIdAndUpdate, CanUpdateRoom

\* A booking endpoint leaves the room component where it is.
LEMMA BookingStepsKeepRooms ==
  ASSUME NEW r \in Requests, ReceiveRequest(r) \/ HandleRequest(r)
  PROVE  UNCHANGED roomVars
PROOF
  <1>1. CASE ReceiveRequest(r)
    BY <1>1
       DEF ReceiveRequest, PostBooking, PatchBooking, PatchCheck, DeleteBooking,
           Begin, NoRoomWrite
  <1>2. CASE CreateStep(r)
    BY <1>2, HandleWritesNoRoom
       DEF CreateStep, CreateReadRooms, CreateReadOverlaps, CreateInsert,
           CreateMail, CreateHandle, CreateCalendar, CreateReply,
           CreateFails, ReadRooms,
           Rejected, NoRoomWrite, roomVars
  <1>3. CASE UpdateStep(r)
    BY <1>3, HandleWritesNoRoom
       DEF UpdateStep, UpdateFind, UpdateReadRooms, UpdateReadOverlaps,
           UpdateReadOthers, UpdateWrite, UpdateMail, UpdateHandle, UpdateFails,
           ReadRooms, Rejected, NoRoomWrite, roomVars
  <1>4. CASE CheckStep(r)
    BY <1>4
       DEF CheckStep, CheckFind, CheckWrite, CheckMail, CheckFails, Rejected,
           NoRoomWrite
  <1>5. CASE DeleteStep(r)
    BY <1>5, HandleWritesNoRoom
       DEF DeleteStep, DeleteFind, DeleteMail, DeleteHandle, DeleteRemove,
           DeleteFails, Rejected, NoRoomWrite, roomVars
  <1> QED
    BY <1>1, <1>2, <1>3, <1>4, <1>5 DEF HandleRequest

\* Every step of the whole system is a step, or a stutter, of the rooms alone.
LEMMA NextImplementsRooms == [Next]_vars => [RoomsNext]_roomVars
PROOF
  <1> SUFFICES ASSUME [Next]_vars PROVE [RoomsNext]_roomVars
    OBVIOUS
  <1>1. CASE BookingsStep
    BY <1>1, BookingStepsKeepRooms DEF BookingsStep
  <1>2. CASE RoomEndpointStep
    BY <1>2 DEF RoomEndpointStep, RoomsNext
  <1>3. CASE Crash
    BY <1>3 DEF Crash, RoomsNext
  <1>4. CASE UNCHANGED vars
    BY <1>4 DEF vars
  <1> QED
    BY <1>1, <1>2, <1>3, <1>4 DEF Next

\* The system with bookings implements the rooms alone: no booking endpoint
\* changes a room, so that all that is proved of Rooms holds here too.
THEOREM BookingsImplementRooms == Spec => RoomsSpec
  <1>1. Init => RoomsInit
    BY DEF Init
  <1> QED
    BY <1>1, NextImplementsRooms, PTL DEF Spec, RoomsSpec

-----------------------------------------------------------------------------
(* The types, with what a request's stage says of its locals. *)

NamingStages == {"update_find", "update_rooms", "update_overlaps",
                 "update_others", "update_write", "check_find", "check_write",
                 "delete_find", "delete_mail", "delete_handle", "delete_remove",
                 "create_mail", "create_handle", "create_calendar"}

\* Request r names a booking that has been stored, holds the booking it read,
\* and has the body of its endpoint, whenever its stage relies on that.
StageFits(r) ==
  LET l == local[r] IN
  /\ stage[r] \in NamingStages =>
       l.id \in BookingIds \ freshBookings
  /\ stage[r] \in {"update_mail", "update_handle", "check_mail"} =>
       l.id \in (BookingIds \ freshBookings) \cup {None}
  /\ stage[r] \in {"create_rooms", "create_overlaps", "create_insert"} =>
       l.body \in CreateBodies /\ l.id = None /\ l.current = None
  /\ stage[r] \in {"update_find", "update_rooms", "update_overlaps",
                   "update_others", "update_write"} => l.body \in UpdateBodies
  /\ stage[r] \in {"check_find", "check_write"} => l.body \in CheckBodies
  /\ stage[r] \in {"update_rooms", "update_overlaps", "update_others",
                   "update_write"} => l.current \in Booking

StagesFit == \A r \in Requests : StageFits(r)

TypeInv ==
  /\ bookings \in [BookingIds -> Booking \cup {None}]
  /\ freshBookings \subseteq BookingIds
  /\ \A b \in freshBookings : bookings[b] = None
  /\ stage \in [Requests -> Stages]
  /\ local \in [Requests -> Local]
  /\ notices \in [BookingIds -> SUBSET Notices]
  /\ unseen \in [Requests -> SUBSET Documents]
  /\ StagesFit

\* A merged or a created document is a booking.
LEMMA UpdatedBookingType ==
  ASSUME NEW booking \in Booking, NEW body \in BookingPatch,
         NEW stamp \in SUBSET Sides
  PROVE  UpdatedBooking(booking, body, stamp) \in Booking
  BY BookingsAssumption, RoomsAssumption
     DEF UpdatedBooking, Given, Booking, BookingPatch

LEMMA CreatedBookingType ==
  ASSUME NEW body \in NewBooking
  PROVE  CreatedBooking(body) \in Booking
  BY BookingsAssumption
     DEF CreatedBooking, Given, Booking, NewBooking, BookingPatch, BookingStatuses

\* What the steps store in a request's locals.
LEMMA LocalTypes ==
  /\ NoLocal \in Local
  /\ \A id \in BookingIds \cup {None}, body \in BookingPatch :
       [NoLocal EXCEPT !.id = id, !.body = body] \in Local
  /\ \A id \in BookingIds, s \in BookingStatuses :
       [NoLocal EXCEPT !.id = id, !.saved = s] \in Local
  /\ \A l \in Local, c \in Booking : [l EXCEPT !.current = c] \in Local
  /\ \A l \in Local, a \in SUBSET RoomIds : [l EXCEPT !.available = a] \in Local
  /\ \A l \in Local, s \in SUBSET Sides : [l EXCEPT !.stamp = s] \in Local
  /\ \A l \in Local, s \in BookingStatuses : [l EXCEPT !.saved = s] \in Local
  /\ \A l \in Local : [l EXCEPT !.id = None] \in Local
PROOF
  <1>1. EmptyBookingPatch \in BookingPatch
    BY DEF EmptyBookingPatch, BookingPatch
  <1>2. NoLocal \in Local
    BY <1>1 DEF NoLocal, Local
  <1>3. \A id \in BookingIds \cup {None}, body \in BookingPatch :
          [NoLocal EXCEPT !.id = id, !.body = body] \in Local
    BY DEF NoLocal, Local
  <1>4. \A id \in BookingIds, s \in BookingStatuses :
          [NoLocal EXCEPT !.id = id, !.saved = s] \in Local
    BY <1>1 DEF NoLocal, Local
  <1>5. \A l \in Local, c \in Booking : [l EXCEPT !.current = c] \in Local
    BY DEF Local
  <1>6. \A l \in Local, a \in SUBSET RoomIds :
          [l EXCEPT !.available = a] \in Local
    BY DEF Local
  <1>7. \A l \in Local, s \in SUBSET Sides : [l EXCEPT !.stamp = s] \in Local
    BY DEF Local
  <1>8. \A l \in Local, s \in BookingStatuses : [l EXCEPT !.saved = s] \in Local
    BY DEF Local
  <1>9. \A l \in Local : [l EXCEPT !.id = None] \in Local
    BY DEF Local
  <1> QED
    BY <1>2, <1>3, <1>4, <1>5, <1>6, <1>7, <1>8, <1>9

LEMMA BodiesAreTyped ==
  /\ CreateBodies \subseteq NewBooking
  /\ NewBooking \subseteq BookingPatch
  /\ UpdateBodies \subseteq BookingPatch
  /\ CheckBodies \subseteq BookingPatch
  /\ EmptyBookingPatch \in BookingPatch
  BY BookingsAssumption DEF NewBooking, EmptyBookingPatch, BookingPatch

\* A step of request r that sets its stage and locals to values that have the
\* type and fit each other, and writes well-typed documents, keeps TypeInv.
LEMMA OwnStepKeepsTypes ==
  ASSUME TypeInv, NEW r \in Requests,
         NEW next \in Stages, NEW locals \in Local,
         Advance(r, next), Keep(r, locals),
         bookings' \in [BookingIds -> Booking \cup {None}],
         freshBookings' \subseteq freshBookings,
         \A b \in freshBookings' : bookings'[b] = None,
         notices' \in [BookingIds -> SUBSET Notices],
         unseen' \in [Requests -> SUBSET Documents],
         StageFits(r)'
  PROVE  TypeInv'
PROOF
  <1>1. /\ stage' \in [Requests -> Stages]
        /\ local' \in [Requests -> Local]
        /\ \A s \in Requests \ {r} : stage'[s] = stage[s] /\ local'[s] = local[s]
    BY DEF TypeInv, Advance, Keep
  <1>2. \A s \in Requests \ {r} : StageFits(s)'
    BY <1>1 DEF TypeInv, StagesFit, StageFits
  <1> QED
    BY <1>1, <1>2 DEF TypeInv, StagesFit

\* An answer, with nothing written, fits.
LEMMA AnswerKeepsTypes ==
  ASSUME TypeInv, NEW r \in Requests, Answer(r),
         bookings' \in [BookingIds -> Booking \cup {None}],
         freshBookings' \subseteq freshBookings,
         \A b \in freshBookings' : bookings'[b] = None,
         notices' \in [BookingIds -> SUBSET Notices]
  PROVE  TypeInv'
PROOF
  <1>1. unseen' \in [Requests -> SUBSET Documents]
    BY DEF Answer, TypeInv
  <1>2. StageFits(r)'
    BY DEF Answer, Advance, Keep, TypeInv, StageFits, NamingStages
  <1> QED
    BY <1>1, <1>2, LocalTypes, OwnStepKeepsTypes DEF Answer, Stages

LEMMA RejectedKeepsTypes ==
  ASSUME TypeInv, NEW r \in Requests, NEW at, NEW fault, Rejected(r, at, fault)
  PROVE  TypeInv'
  BY AnswerKeepsTypes DEF Rejected, NoBookingWrite, TypeInv

LEMMA NotifyKeepsTypes ==
  ASSUME TypeInv, NEW b \in BookingIds \cup {None}, NEW notice \in Notices,
         Notify(b, notice)
  PROVE  notices' \in [BookingIds -> SUBSET Notices]
  BY DEF Notify, TypeInv

LEMMA WrittenKeepsTypes ==
  ASSUME TypeInv, NEW r \in Requests, NEW b \in BookingIds, Written(r, b)
  PROVE  unseen' \in [Requests -> SUBSET Documents]
  BY DEF Written, TypeInv, Documents

LEMMA ReceiveKeepsTypes ==
  ASSUME TypeInv, NEW r \in Requests, ReceiveRequest(r)
  PROVE  TypeInv'
PROOF
  <1>1. ASSUME NEW next \in Stages, NEW id \in BookingIds \cup {None},
               NEW body \in BookingPatch, Begin(r, next, id, body),
               \/ /\ next = "create_rooms" /\ id = None /\ body \in CreateBodies
               \/ /\ id \in BookingIds \ freshBookings
                  /\ \/ next = "update_find" /\ body \in UpdateBodies
                     \/ next = "check_find" /\ body \in CheckBodies
                     \/ next = "delete_find"
        PROVE  TypeInv'
    <2> DEFINE locals == [NoLocal EXCEPT !.id = id, !.body = body]
    <2>1. /\ locals \in Local
          /\ locals.id = id /\ locals.body = body /\ locals.current = None
      BY LocalTypes DEF NoLocal
    <2>2. Advance(r, next) /\ Keep(r, locals)
      BY <1>1 DEF Begin
    <2> HIDE DEF locals
    <2>3. stage'[r] = next /\ local'[r] = locals /\ UNCHANGED freshBookings
      BY <1>1, <2>2 DEF Advance, Keep, TypeInv, Begin, NoBookingWrite
    <2>4. StageFits(r)'
      BY <1>1, <2>1, <2>3 DEF StageFits, NamingStages
    <2> QED
      BY <1>1, <2>1, <2>2, <2>4, OwnStepKeepsTypes
         DEF Begin, NoBookingWrite, TypeInv
  <1> QED
    BY <1>1, BodiesAreTyped
       DEF ReceiveRequest, PostBooking, PatchBooking, PatchCheck, DeleteBooking,
           Stages

LEMMA ReadRoomsKeepsTypes ==
  ASSUME TypeInv, NEW r \in Requests,
         CreateReadRooms(r) \/ UpdateReadRooms(r)
  PROVE  TypeInv'
PROOF
  <1> DEFINE locals == [local[r] EXCEPT !.available = RoomsInService]
  <1>1. PICK at, next :
          /\ ReadRooms(r, at, next)
          /\ \/ at = "create_rooms" /\ next = "create_overlaps"
             \/ at = "update_rooms" /\ next = "update_overlaps"
    BY DEF CreateReadRooms, UpdateReadRooms
  <1>2. /\ locals \in Local
        /\ locals.id = local[r].id /\ locals.body = local[r].body
        /\ locals.current = local[r].current
    <2>1. local[r] \in Local /\ RoomsInService \in SUBSET RoomIds
      BY DEF TypeInv, RoomsInService
    <2>2. locals \in Local
      BY <2>1, LocalTypes
    <2> QED
      BY <2>1, <2>2 DEF Local
  <1>3. stage[r] = at /\ Advance(r, next) /\ Keep(r, locals)
    BY <1>1 DEF ReadRooms
  <1>4. unseen' \in [Requests -> SUBSET Documents]
    BY <1>1 DEF ReadRooms, TypeInv
  <1>5. UNCHANGED <<bookings, freshBookings, notices>>
    BY <1>1 DEF ReadRooms, NoBookingWrite
  <1> HIDE DEF locals
  <1>6. stage'[r] = next /\ local'[r] = locals
    BY <1>3 DEF Advance, Keep, TypeInv
  <1>7. StageFits(r)'
    BY <1>1, <1>2, <1>3, <1>5, <1>6 DEF StageFits, NamingStages, TypeInv, StagesFit
  <1> QED
    BY <1>1, <1>2, <1>3, <1>4, <1>5, <1>7, OwnStepKeepsTypes DEF TypeInv, Stages

LEMMA CreateStepKeepsTypes ==
  ASSUME TypeInv, NEW r \in Requests, CreateStep(r)
  PROVE  TypeInv'
PROOF
  <1>0. /\ local[r] \in Local /\ unseen[r] \subseteq Documents
        /\ local[r].id \in BookingIds \cup {None}
        /\ local[r].available \subseteq RoomIds
        /\ StageFits(r)
    BY DEF TypeInv, StagesFit, Local
  <1>1. CASE CreateReadRooms(r)
    BY <1>1, ReadRoomsKeepsTypes
  <1>2. CASE CreateReadOverlaps(r)
    <2>0. UNCHANGED <<bookings, freshBookings, notices>>
      BY <1>2 DEF CreateReadOverlaps, NoBookingWrite
    <2>1. CASE Answer(r)
      BY <2>0, <2>1, AnswerKeepsTypes DEF TypeInv
    <2>2. CASE /\ Advance(r, "create_insert")
               /\ Keep(r, [local[r] EXCEPT !.available = {}])
               /\ \E missed \in SUBSET BookingIds :
                    unseen' = [unseen EXCEPT ![r] = (@ \ BookingIds) \cup missed]
      <3> DEFINE locals == [local[r] EXCEPT !.available = {}]
      <3>1. locals \in Local
        BY <1>0, LocalTypes
      <3>2. /\ locals.id = local[r].id /\ locals.body = local[r].body
            /\ locals.current = local[r].current
        BY <1>0 DEF Local
      <3>3. unseen' \in [Requests -> SUBSET Documents]
        BY <2>2 DEF TypeInv, Documents
      <3>4. stage'[r] = "create_insert" /\ local'[r] = locals
        BY <2>2 DEF Advance, Keep, TypeInv
      <3> HIDE DEF locals
      <3>5. StageFits(r)'
        BY <1>0, <1>2, <3>2, <3>4 DEF StageFits, NamingStages, CreateReadOverlaps
      <3> QED
        <4>1. Keep(r, locals) /\ Advance(r, "create_insert")
          BY <2>2 DEF locals
        <4> QED
          BY <2>0, <3>1, <3>3, <3>5, <4>1, OwnStepKeepsTypes DEF TypeInv, Stages
    <2> QED
      BY <1>2, <2>1, <2>2 DEF CreateReadOverlaps, MissedBy
  <1>3. CASE CreateInsert(r)
    <2> DEFINE booking == CreatedBooking(local[r].body)
    <2>1. booking \in Booking
      BY <1>0, <1>3, BodiesAreTyped, CreatedBookingType DEF StageFits, CreateInsert
    <2>2. PICK b \in freshBookings :
            /\ bookings' = [bookings EXCEPT ![b] = booking]
            /\ freshBookings' = freshBookings \ {b}
            /\ Written(r, b)
            /\ Keep(r, [NoLocal EXCEPT !.id = b, !.saved = booking.status])
      BY <1>3 DEF CreateInsert
    <2> DEFINE locals == [NoLocal EXCEPT !.id = b, !.saved = booking.status]
    <2>3. b \in BookingIds /\ booking.status \in BookingStatuses
      BY <2>1, <2>2 DEF TypeInv, Booking
    <2>4. locals \in Local /\ locals.id = b
      BY <2>3, LocalTypes DEF NoLocal
    <2>5. Keep(r, locals) /\ Advance(r, "create_mail") /\ UNCHANGED notices
      BY <1>3, <2>2 DEF CreateInsert
    <2> HIDE DEF booking, locals
    <2>6. /\ bookings' \in [BookingIds -> Booking \cup {None}]
          /\ freshBookings' \subseteq freshBookings
          /\ \A c \in freshBookings' : bookings'[c] = None
      BY <2>1, <2>2, <2>3 DEF TypeInv
    <2>7. unseen' \in [Requests -> SUBSET Documents]
      BY <2>2, <2>3, WrittenKeepsTypes
    <2>8. stage'[r] = "create_mail" /\ local'[r] = locals
      BY <2>5 DEF Advance, Keep, TypeInv
    <2>9. StageFits(r)'
      BY <2>2, <2>3, <2>4, <2>8 DEF StageFits, NamingStages
    <2> QED
      BY <2>4, <2>5, <2>6, <2>7, <2>9, OwnStepKeepsTypes DEF TypeInv, Stages
  <1>4. CASE CreateMail(r)
    <2>1. notices' \in [BookingIds -> SUBSET Notices]
      BY <1>0, <1>4, NotifyKeepsTypes DEF CreateMail, Notices
    <2>2. PICK next \in {"create_handle", "create_calendar"} : Advance(r, next)
      BY <1>4 DEF CreateMail
    <2>3. Keep(r, local[r])
      BY <1>4 DEF CreateMail, Keep, TypeInv
    <2>4. StageFits(r)'
      BY <1>0, <1>4, <2>2 DEF StageFits, NamingStages, CreateMail, NoBookingWrite,
         Advance, TypeInv
    <2> QED
      BY <1>0, <1>4, <2>1, <2>2, <2>3, <2>4, OwnStepKeepsTypes
         DEF CreateMail, NoBookingWrite, TypeInv, Stages
  <1>5. CASE CreateHandle(r)
    <2>1. Keep(r, local[r]) /\ Advance(r, "create_calendar")
      BY <1>5 DEF CreateHandle, Keep, TypeInv
    <2>2. StageFits(r)'
      BY <1>0, <1>5, <2>1 DEF StageFits, NamingStages, CreateHandle,
         NoBookingWrite, Advance, TypeInv
    <2> QED
      BY <1>0, <1>5, <2>1, <2>2, OwnStepKeepsTypes
         DEF CreateHandle, NoBookingWrite, TypeInv, Stages
  <1>6. CASE CreateCalendar(r)
    <2>1. notices' \in [BookingIds -> SUBSET Notices]
      BY <1>0, <1>6, NotifyKeepsTypes DEF CreateCalendar, Notices
    <2>2. Keep(r, local[r]) /\ Advance(r, "create_reply")
      BY <1>6 DEF CreateCalendar, Keep, TypeInv
    <2>3. StageFits(r)'
      BY <2>2 DEF StageFits, NamingStages, Advance, TypeInv
    <2> QED
      BY <1>0, <1>6, <2>1, <2>2, <2>3, OwnStepKeepsTypes
         DEF CreateCalendar, NoBookingWrite, TypeInv, Stages
  <1>7. CASE CreateReply(r)
    BY <1>7, AnswerKeepsTypes DEF CreateReply, NoBookingWrite, TypeInv
  <1>8. CASE CreateFails(r)
    BY <1>8, RejectedKeepsTypes, AnswerKeepsTypes
       DEF CreateFails, NoBookingWrite, TypeInv
  <1> QED
    BY <1>1, <1>2, <1>3, <1>4, <1>5, <1>6, <1>7, <1>8 DEF CreateStep

\* A find that goes on with the booking it read, or answers when there is none.
LEMMA FindKeepsTypes ==
  ASSUME TypeInv, NEW r \in Requests,
         UpdateFind(r) \/ CheckFind(r) \/ DeleteFind(r)
  PROVE  TypeInv'
PROOF
  <1>0. /\ local[r] \in Local /\ StageFits(r)
        /\ UNCHANGED <<bookings, freshBookings, notices>>
    BY DEF TypeInv, StagesFit, UpdateFind, CheckFind, DeleteFind, NoBookingWrite
  <1>1. CASE Answer(r)
    BY <1>0, <1>1, AnswerKeepsTypes DEF TypeInv
  <1>2. ASSUME ~Answer(r)
        PROVE  \E next \in Stages, locals \in Local :
                 /\ Advance(r, next) /\ Keep(r, locals) /\ UNCHANGED unseen
                 /\ locals.id = local[r].id /\ locals.body = local[r].body
                 /\ local[r].id \in BookingIds \ freshBookings
                 /\ \/ /\ next \in {"update_rooms", "update_write"}
                       /\ locals.current \in Booking
                       /\ local[r].body \in UpdateBodies
                    \/ next = "check_write" /\ local[r].body \in CheckBodies
                    \/ next = "delete_mail"
    <2> DEFINE booking == bookings[local[r].id]
               stamped == [local[r] EXCEPT
                             !.stamp = local[r].body.check \ booking.checked]
               read    == [local[r] EXCEPT !.current = booking]
    <2>1. CASE UpdateFind(r) \/ DeleteFind(r)
      <3>1. booking # None /\ local[r].id \in BookingIds \ freshBookings
        BY <1>0, <1>2, <2>1
           DEF UpdateFind, DeleteFind, StageFits, NamingStages
      <3>2. booking \in Booking
        BY <3>1 DEF TypeInv
      <3>3. /\ read \in Local
            /\ read.id = local[r].id /\ read.body = local[r].body
            /\ read.current = booking
        <4>1. read \in Local
          BY <1>0, <3>2, LocalTypes
        <4> QED BY <1>0, <4>1 DEF Local
      <3>4. Keep(r, read) /\ UNCHANGED unseen
        BY <1>2, <2>1, <3>1 DEF UpdateFind, DeleteFind
      <3>5. CASE UpdateFind(r)
        <4>1. \E next \in {"update_rooms", "update_write"} : Advance(r, next)
          BY <1>2, <3>1, <3>5 DEF UpdateFind
        <4>2. local[r].body \in UpdateBodies
          BY <1>0, <3>5 DEF UpdateFind, StageFits
        <4> HIDE DEF read, booking
        <4> QED BY <3>1, <3>2, <3>3, <3>4, <4>1, <4>2 DEF Stages
      <3>6. CASE DeleteFind(r)
        <4>1. Advance(r, "delete_mail")
          BY <1>2, <3>1, <3>6 DEF DeleteFind
        <4> HIDE DEF read, booking
        <4> QED BY <3>1, <3>3, <3>4, <4>1 DEF Stages
      <3> QED BY <2>1, <3>5, <3>6
    <2>2. CASE CheckFind(r)
      <3>1. /\ Keep(r, stamped) /\ Advance(r, "check_write") /\ UNCHANGED unseen
            /\ local[r].id \in BookingIds \ freshBookings
            /\ local[r].body \in CheckBodies
        BY <1>0, <1>2, <2>2 DEF CheckFind, StageFits, NamingStages
      <3>2. local[r].body.check \ booking.checked \in SUBSET Sides
        BY <1>0 DEF Local, BookingPatch
      <3>3. stamped \in Local
        BY <1>0, <3>2, LocalTypes
      <3>4. stamped.id = local[r].id /\ stamped.body = local[r].body
        BY <1>0 DEF Local
      <3> HIDE DEF stamped
      <3> QED BY <3>1, <3>3, <3>4 DEF Stages
    <2> QED BY <2>1, <2>2
  <1>3. CASE ~Answer(r)
    <2>1. PICK next \in Stages, locals \in Local :
                 /\ Advance(r, next) /\ Keep(r, locals) /\ UNCHANGED unseen
                 /\ locals.id = local[r].id /\ locals.body = local[r].body
                 /\ local[r].id \in BookingIds \ freshBookings
                 /\ \/ /\ next \in {"update_rooms", "update_write"}
                       /\ locals.current \in Booking
                       /\ local[r].body \in UpdateBodies
                    \/ next = "check_write" /\ local[r].body \in CheckBodies
                    \/ next = "delete_mail"
      BY <1>2, <1>3
    <2>2. stage'[r] = next /\ local'[r] = locals
      BY <2>1 DEF Advance, Keep, TypeInv
    <2>3. StageFits(r)'
      BY <1>0, <2>1, <2>2 DEF StageFits, NamingStages
    <2> QED
      BY <1>0, <2>1, <2>3, OwnStepKeepsTypes DEF TypeInv
  <1> QED BY <1>1, <1>3

LEMMA UpdateStepKeepsTypes ==
  ASSUME TypeInv, NEW r \in Requests, UpdateStep(r)
  PROVE  TypeInv'
PROOF
  <1>0. /\ local[r] \in Local /\ unseen[r] \subseteq Documents
        /\ local[r].id \in BookingIds \cup {None}
        /\ local[r].available \subseteq RoomIds
        /\ StageFits(r)
    BY DEF TypeInv, StagesFit, Local
  <1>1. CASE UpdateFind(r)
    BY <1>1, FindKeepsTypes
  <1>2. CASE UpdateReadRooms(r)
    BY <1>2, ReadRoomsKeepsTypes
  \* The two reads of overlapping bookings narrow the available rooms.
  <1>3. ASSUME NEW next \in {"update_others", "update_write"},
               NEW rest \in SUBSET RoomIds,
               stage[r] \in {"update_overlaps", "update_others"},
               Advance(r, next), Keep(r, [local[r] EXCEPT !.available = rest]),
               unseen' \in [Requests -> SUBSET Documents],
               UNCHANGED <<bookings, freshBookings, notices>>
        PROVE  TypeInv'
    <2> DEFINE locals == [local[r] EXCEPT !.available = rest]
    <2>1. locals \in Local
      BY <1>0, LocalTypes
    <2>2. /\ locals.id = local[r].id /\ locals.body = local[r].body
          /\ locals.current = local[r].current
      BY <1>0 DEF Local
    <2>3. Keep(r, locals)
      BY <1>3
    <2> HIDE DEF locals
    <2>4. stage'[r] = next /\ local'[r] = locals
      BY <1>3, <2>3 DEF Advance, Keep, TypeInv
    <2>5. StageFits(r)'
      BY <1>0, <1>3, <2>2, <2>4 DEF StageFits, NamingStages
    <2> QED
      BY <1>3, <2>1, <2>3, <2>5, OwnStepKeepsTypes DEF TypeInv, Stages
  <1>4. CASE UpdateReadOverlaps(r)
    <2> DEFINE stay == RequestedStay(local[r].body, local[r].current)
    <2>1. PICK found \in OverlapResults(stay, None) :
            /\ Keep(r, [local[r] EXCEPT !.available = @ \ RoomsOf(found)])
            /\ unseen' = [unseen EXCEPT ![r] =
                            (@ \ BookingIds) \cup MissedBy(found, stay, None)]
      BY <1>4 DEF UpdateReadOverlaps
    <2>2. unseen' \in [Requests -> SUBSET Documents]
      BY <2>1 DEF TypeInv, Documents, MissedBy
    <2> QED
      BY <1>0, <1>3, <1>4, <2>1, <2>2 DEF UpdateReadOverlaps, NoBookingWrite
  <1>5. CASE UpdateReadOthers(r)
    <2>1. UNCHANGED <<bookings, freshBookings, notices>>
      BY <1>5 DEF UpdateReadOthers, NoBookingWrite
    <2>2. CASE Answer(r)
      BY <2>1, <2>2, AnswerKeepsTypes DEF TypeInv
    <2>3. CASE ~Answer(r)
      <3>1. /\ Advance(r, "update_write")
            /\ Keep(r, [local[r] EXCEPT !.available = {}])
            /\ \/ UNCHANGED unseen
               \/ \E missed \in SUBSET BookingIds :
                    unseen' = [unseen EXCEPT ![r] = (@ \ BookingIds) \cup missed]
        BY <1>5, <2>3 DEF UpdateReadOthers, MissedBy
      <3>2. unseen' \in [Requests -> SUBSET Documents]
        BY <3>1 DEF TypeInv, Documents
      <3> QED
        BY <1>3, <1>5, <2>1, <3>1, <3>2 DEF UpdateReadOthers
    <2> QED BY <2>2, <2>3
  <1>6. CASE UpdateWrite(r)
    <2> DEFINE b == local[r].id
    <2>1. /\ b \in BookingIds \ freshBookings
          /\ local[r].body \in UpdateBodies
          /\ UNCHANGED <<freshBookings, notices>>
          /\ Advance(r, "update_mail")
      BY <1>0, <1>6 DEF UpdateWrite, StageFits, NamingStages
    <2>2. CASE bookings[b] = None
      <3> DEFINE locals == [local[r] EXCEPT !.id = None]
      <3>1. locals \in Local /\ locals.id = None
        BY <1>0, LocalTypes DEF Local
      <3>2. /\ Keep(r, locals) /\ UNCHANGED bookings
            /\ unseen' = [unseen EXCEPT ![r] = Documents]
        BY <1>6, <2>2 DEF UpdateWrite
      <3> HIDE DEF locals
      <3>3. stage'[r] = "update_mail" /\ local'[r] = locals
        BY <2>1, <3>2 DEF Advance, Keep, TypeInv
      <3>4. StageFits(r)'
        BY <3>1, <3>3 DEF StageFits, NamingStages
      <3>5. unseen' \in [Requests -> SUBSET Documents]
        BY <3>2 DEF TypeInv
      <3> QED
        BY <2>1, <3>1, <3>2, <3>4, <3>5, OwnStepKeepsTypes DEF TypeInv, Stages
    <2>3. CASE bookings[b] # None
      <3> DEFINE status == Given(local[r].body.status, bookings[b].status)
                 locals == [local[r] EXCEPT !.saved = status]
                 booking == UpdatedBooking(bookings[b], local[r].body, {})
      <3>1. bookings[b] \in Booking /\ local[r].body \in BookingPatch
        BY <2>1, <2>3, BodiesAreTyped DEF TypeInv
      <3>2. status \in BookingStatuses
        BY <3>1 DEF Given, Booking, BookingPatch
      <3>3. locals \in Local /\ locals.id = b
        <4>1. locals \in Local
          BY <1>0, <3>2, LocalTypes
        <4> QED BY <1>0, <4>1 DEF Local
      <3>4. booking \in Booking
        BY <3>1, UpdatedBookingType
      <3>5. /\ Keep(r, locals) /\ Written(r, b)
            /\ bookings' = [bookings EXCEPT ![b] = booking]
        BY <1>6, <2>3 DEF UpdateWrite
      <3>6. unseen' \in [Requests -> SUBSET Documents]
        BY <2>1, <3>5, WrittenKeepsTypes
      <3> HIDE DEF locals, booking, status
      <3>7. /\ bookings' \in [BookingIds -> Booking \cup {None}]
            /\ \A c \in freshBookings' : bookings'[c] = None
        BY <2>1, <3>4, <3>5 DEF TypeInv
      <3>8. stage'[r] = "update_mail" /\ local'[r] = locals
        BY <2>1, <3>5 DEF Advance, Keep, TypeInv
      <3>9. StageFits(r)'
        BY <2>1, <3>3, <3>8 DEF StageFits, NamingStages
      <3> QED
        BY <2>1, <3>3, <3>5, <3>6, <3>7, <3>9, OwnStepKeepsTypes DEF TypeInv, Stages
    <2> QED BY <2>2, <2>3
  <1>7. CASE UpdateMail(r)
    <2>1. /\ notices' \in [BookingIds -> SUBSET Notices]
          /\ UNCHANGED <<bookings, freshBookings>>
      <3>1. UpdateNotice(r) \in Notices
        BY DEF UpdateNotice, Notices
      <3> QED
        BY <1>0, <1>7, <3>1, NotifyKeepsTypes DEF UpdateMail, NoBookingWrite
    <2>2. CASE Answer(r)
      BY <2>1, <2>2, AnswerKeepsTypes DEF TypeInv
    <2>3. CASE Advance(r, "update_handle") /\ UNCHANGED <<local, unseen>>
      <3>1. Keep(r, local[r]) /\ stage'[r] = "update_handle"
        BY <2>3 DEF Keep, Advance, TypeInv
      <3>2. StageFits(r)'
        BY <1>0, <1>7, <2>1, <2>3, <3>1
           DEF StageFits, NamingStages, UpdateMail
      <3> QED
        BY <1>0, <2>1, <2>3, <3>1, <3>2, OwnStepKeepsTypes DEF TypeInv, Stages
    <2> QED BY <1>7, <2>2, <2>3 DEF UpdateMail
  <1>8. CASE UpdateHandle(r)
    BY <1>8, AnswerKeepsTypes DEF UpdateHandle, NoBookingWrite, TypeInv
  <1>9. CASE UpdateFails(r)
    BY <1>9, RejectedKeepsTypes DEF UpdateFails
  <1> QED
    BY <1>1, <1>2, <1>4, <1>5, <1>6, <1>7, <1>8, <1>9 DEF UpdateStep

LEMMA CheckStepKeepsTypes ==
  ASSUME TypeInv, NEW r \in Requests, CheckStep(r)
  PROVE  TypeInv'
PROOF
  <1>0. local[r] \in Local /\ StageFits(r)
    BY DEF TypeInv, StagesFit
  <1>1. CASE CheckFind(r)
    BY <1>1, FindKeepsTypes
  <1>2. CASE CheckWrite(r)
    <2> DEFINE b == local[r].id
               gone == [local[r] EXCEPT !.id = None]
               booking == UpdatedBooking(bookings[b], local[r].body, local[r].stamp)
    <2>1. /\ b \in BookingIds \ freshBookings
          /\ local[r].body \in CheckBodies
          /\ UNCHANGED <<freshBookings, notices>>
      BY <1>0, <1>2 DEF CheckWrite, StageFits, NamingStages
    <2>2. /\ bookings' \in [BookingIds -> Booking \cup {None}]
          /\ \A c \in freshBookings' : bookings'[c] = None
          /\ unseen' \in [Requests -> SUBSET Documents]
      <3>1. CASE bookings[b] = None
        BY <1>2, <2>1, <3>1 DEF CheckWrite, TypeInv
      <3>2. CASE bookings[b] # None
        <4>1. bookings[b] \in Booking /\ local[r].body \in BookingPatch
          BY <2>1, <3>2, BodiesAreTyped DEF TypeInv
        <4>2. booking \in Booking
          BY <1>0, <4>1, UpdatedBookingType DEF Local
        <4>3. bookings' = [bookings EXCEPT ![b] = booking] /\ Written(r, b)
          BY <1>2, <3>2 DEF CheckWrite
        <4> HIDE DEF booking
        <4> QED
          BY <2>1, <4>2, <4>3, WrittenKeepsTypes DEF TypeInv
      <3> QED BY <3>1, <3>2
    <2>3. gone \in Local /\ gone.id = None
      BY <1>0, LocalTypes DEF Local
    <2>4. PICK next \in {"idle", "check_mail"}, locals \in {NoLocal, gone, local[r]} :
            Advance(r, next) /\ Keep(r, locals)
      BY <1>2 DEF CheckWrite
    <2>5. stage'[r] = next /\ local'[r] = locals
      BY <2>4 DEF Advance, Keep, TypeInv
    <2> HIDE DEF gone
    <2>6. locals \in Local /\ locals.id \in (BookingIds \ freshBookings) \cup {None}
      <3>1. NoLocal \in Local /\ NoLocal.id = None
        BY LocalTypes DEF NoLocal
      <3> QED
        BY <1>0, <2>1, <2>3, <2>4, <3>1
    <2>7. StageFits(r)'
      BY <2>1, <2>4, <2>5, <2>6 DEF StageFits, NamingStages
    <2> QED
      <3>1. notices' \in [BookingIds -> SUBSET Notices]
        BY <2>1 DEF TypeInv
      <3>2. freshBookings' \subseteq freshBookings /\ next \in Stages
        BY <2>1 DEF Stages
      <3> HIDE DEF booking, b
      <3> QED
        BY <2>2, <2>4, <2>6, <2>7, <3>1, <3>2, OwnStepKeepsTypes
  <1>3. CASE CheckMail(r)
    <2>1. notices' \in [BookingIds -> SUBSET Notices]
      BY <1>0, <1>3, NotifyKeepsTypes DEF CheckMail, Notices, Local
    <2> QED
      BY <1>3, <2>1, AnswerKeepsTypes DEF CheckMail, NoBookingWrite, TypeInv
  <1>4. CASE CheckFails(r)
    BY <1>4, RejectedKeepsTypes DEF CheckFails
  <1> QED
    BY <1>1, <1>2, <1>3, <1>4 DEF CheckStep

LEMMA DeleteStepKeepsTypes ==
  ASSUME TypeInv, NEW r \in Requests, DeleteStep(r)
  PROVE  TypeInv'
PROOF
  <1>0. local[r] \in Local /\ StageFits(r)
    BY DEF TypeInv, StagesFit
  <1>1. CASE DeleteFind(r)
    BY <1>1, FindKeepsTypes
  <1>2. CASE DeleteMail(r)
    <2>1. notices' \in [BookingIds -> SUBSET Notices]
      BY <1>0, <1>2, NotifyKeepsTypes DEF DeleteMail, Notices, Local
    <2>2. PICK next \in {"delete_handle", "delete_remove"} : Advance(r, next)
      BY <1>2 DEF DeleteMail
    <2>3. /\ Keep(r, local[r]) /\ stage'[r] = next
          /\ UNCHANGED <<bookings, freshBookings, local, unseen>>
          /\ stage[r] = "delete_mail"
      BY <1>2, <2>2 DEF DeleteMail, Keep, Advance, NoBookingWrite, TypeInv
    <2>4. StageFits(r)'
      BY <1>0, <2>2, <2>3 DEF StageFits, NamingStages
    <2> QED
      BY <1>0, <2>1, <2>2, <2>3, <2>4, OwnStepKeepsTypes DEF TypeInv, Stages
  <1>3. CASE DeleteHandle(r)
    <2>1. /\ Keep(r, local[r]) /\ Advance(r, "delete_remove")
          /\ stage[r] = "delete_handle" /\ stage'[r] = "delete_remove"
          /\ UNCHANGED <<bookings, freshBookings, notices, local, unseen>>
      BY <1>3 DEF DeleteHandle, Keep, Advance, NoBookingWrite, TypeInv
    <2>2. StageFits(r)'
      BY <1>0, <2>1 DEF StageFits, NamingStages
    <2> QED
      BY <1>0, <2>1, <2>2, OwnStepKeepsTypes DEF TypeInv, Stages
  <1>4. CASE DeleteRemove(r)
    <2>1. local[r].id \in BookingIds /\ UNCHANGED <<freshBookings, notices>>
      BY <1>0, <1>4 DEF DeleteRemove, StageFits, NamingStages
    <2>2. unseen' \in [Requests -> SUBSET Documents]
      BY <1>4, <2>1, WrittenKeepsTypes DEF DeleteRemove
    <2>3. /\ bookings' \in [BookingIds -> Booking \cup {None}]
          /\ \A c \in freshBookings' : bookings'[c] = None
      BY <1>4, <2>1 DEF DeleteRemove, TypeInv
    <2>4. Keep(r, NoLocal) /\ Advance(r, "idle")
      BY <1>4 DEF DeleteRemove
    <2>5. StageFits(r)'
      BY <2>4 DEF StageFits, NamingStages, Advance, TypeInv
    <2> QED
      BY <2>1, <2>2, <2>3, <2>4, <2>5, LocalTypes, OwnStepKeepsTypes
         DEF TypeInv, Stages
  <1>5. CASE DeleteFails(r)
    BY <1>5, RejectedKeepsTypes DEF DeleteFails
  <1> QED
    BY <1>1, <1>2, <1>3, <1>4, <1>5 DEF DeleteStep

LEMMA InitTypes == Init => TypeInv
  BY LocalTypes
     DEF Init, TypeInv, Stages, StagesFit, StageFits, NamingStages, Documents

LEMMA NextKeepsTypes ==
  ASSUME TypeInv, [Next]_vars
  PROVE  TypeInv'
PROOF
  <1>1. CASE BookingsStep
    BY <1>1, ReceiveKeepsTypes, CreateStepKeepsTypes, UpdateStepKeepsTypes,
       CheckStepKeepsTypes, DeleteStepKeepsTypes
       DEF BookingsStep, HandleRequest
  <1>2. CASE RoomEndpointStep
    <2>1. unseen' \in [Requests -> SUBSET Documents]
      BY <1>2 DEF RoomEndpointStep, TypeInv, Documents
    <2> QED
      BY <1>2, <2>1 DEF RoomEndpointStep, TypeInv, StagesFit, StageFits
  <1>3. CASE Crash
    BY <1>3, LocalTypes
       DEF Crash, TypeInv, Stages, StagesFit, StageFits, NamingStages, Documents
  <1>4. CASE UNCHANGED vars
    BY <1>4 DEF vars, bookingVars, TypeInv, StagesFit, StageFits
  <1> QED
    BY <1>1, <1>2, <1>3, <1>4 DEF Next

\* In every behaviour the bookings have their types, and every request names
\* a stored booking and holds what its stage relies on.
THEOREM BookingsTypeInvariant == Spec => []TypeInv
  <1>1. TypeInv /\ [Next]_vars => TypeInv'
    BY NextKeepsTypes
  <1> QED BY <1>1, InitTypes, PTL DEF Spec

\* The types of the whole system, rooms and bookings together.
THEOREM BookingsTypeCorrect == Spec => []BookingsTypeOK
  <1>1. TypeInv /\ RoomsTypeOK => BookingsTypeOK
    BY DEF TypeInv, BookingsTypeOK
  <1> QED
    BY <1>1, BookingsTypeInvariant, BookingsImplementRooms, RoomsTypeCorrect, PTL

-----------------------------------------------------------------------------
(* The frame of a step. *)

\* No document is written.
Quiet(r) ==
  /\ UNCHANGED <<bookings, freshBookings>>
  /\ \A s \in Requests \ {r} : unseen'[s] = unseen[s]

Frame(r) ==
  /\ UNCHANGED rooms
  /\ \A s \in Requests \ {r} :
       /\ stage'[s] = stage[s] /\ local'[s] = local[s]
       /\ unseen[s] \subseteq unseen'[s]
       /\ \A b \in BookingIds : bookings'[b] = bookings[b] \/ b \in unseen'[s]
  /\ freshBookings' \subseteq freshBookings
  /\ \A b \in BookingIds : notices[b] \subseteq notices'[b]
  /\ \A b \in BookingIds \ freshBookings : bookings[b] = None => bookings'[b] = None
  /\ \A b \in BookingIds :
       bookings[b] # None /\ bookings'[b] # None =>
         bookings[b].stamped \subseteq bookings'[b].stamped

WritingStep(r) ==
  CreateInsert(r) \/ UpdateWrite(r) \/ CheckWrite(r) \/ DeleteRemove(r)

\* The other requests keep their stage and locals.
LEMMA OthersStay ==
  ASSUME TypeInv, NEW r \in Requests, ReceiveRequest(r) \/ HandleRequest(r)
  PROVE  \A s \in Requests \ {r} : stage'[s] = stage[s] /\ local'[s] = local[s]
PROOF
  <1>1. CASE ReceiveRequest(r)
    BY <1>1
       DEF TypeInv, ReceiveRequest, PostBooking, PatchBooking, PatchCheck,
           DeleteBooking, Begin, Advance, Keep
  <1>2. CASE CreateStep(r)
    BY <1>2
       DEF TypeInv, CreateStep, CreateReadRooms, CreateReadOverlaps,
           CreateInsert, CreateMail, CreateHandle, CreateCalendar, CreateReply,
           CreateFails,
           ReadRooms, Rejected, Answer, Advance, Keep
  <1>3. CASE UpdateStep(r)
    BY <1>3
       DEF TypeInv, UpdateStep, UpdateFind, UpdateReadRooms, UpdateReadOverlaps,
           UpdateReadOthers, UpdateWrite, UpdateMail, UpdateHandle, UpdateFails,
           ReadRooms, Rejected, Answer, Advance, Keep
  <1>4. CASE CheckStep(r)
    BY <1>4
       DEF TypeInv, CheckStep, CheckFind, CheckWrite, CheckMail, CheckFails,
           Rejected, Answer, Advance, Keep
  <1>5. CASE DeleteStep(r)
    BY <1>5
       DEF TypeInv, DeleteStep, DeleteFind, DeleteMail, DeleteHandle,
           DeleteRemove, DeleteFails, Rejected, Answer, Advance, Keep
  <1> QED
    BY <1>1, <1>2, <1>3, <1>4, <1>5 DEF HandleRequest

\* All steps but the four that write a document are quiet.
LEMMA OtherStepsAreQuiet ==
  ASSUME TypeInv, NEW r \in Requests,
         ReceiveRequest(r) \/ HandleRequest(r), ~WritingStep(r)
  PROVE  Quiet(r)
PROOF
  <1> USE DEF Quiet, NoBookingWrite, TypeInv, WritingStep
  <1>1. CASE ReceiveRequest(r)
    BY <1>1
       DEF ReceiveRequest, PostBooking, PatchBooking, PatchCheck, DeleteBooking,
           Begin
  <1>2. CASE CreateStep(r)
    BY <1>2
       DEF CreateStep, CreateReadRooms, CreateReadOverlaps, CreateMail,
           CreateHandle, CreateCalendar, CreateReply,
           CreateFails, ReadRooms, Rejected, Answer
  <1>3. CASE UpdateStep(r)
    BY <1>3
       DEF UpdateStep, UpdateFind, UpdateReadRooms, UpdateReadOverlaps,
           UpdateReadOthers, UpdateMail, UpdateHandle, UpdateFails, ReadRooms,
           Rejected, Answer
  <1>4. CASE CheckStep(r)
    BY <1>4
       DEF CheckStep, CheckFind, CheckMail, CheckFails, Rejected, Answer
  <1>5. CASE DeleteStep(r)
    BY <1>5
       DEF DeleteStep, DeleteFind, DeleteMail, DeleteHandle, DeleteFails,
           Rejected, Answer
  <1> QED
    BY <1>1, <1>2, <1>3, <1>4, <1>5 DEF HandleRequest

\* The calls to the outside about a booking are only ever added to.
LEMMA NoticesGrow ==
  ASSUME TypeInv, NEW r \in Requests, ReceiveRequest(r) \/ HandleRequest(r)
  PROVE  \A b \in BookingIds : notices[b] \subseteq notices'[b]
PROOF
  <1>1. ASSUME NEW b, NEW notice, Notify(b, notice)
        PROVE  \A c \in BookingIds : notices[c] \subseteq notices'[c]
    BY <1>1 DEF Notify, TypeInv
  <1>2. \/ UNCHANGED notices
        \/ \E b, notice : Notify(b, notice)
    <2>1. CASE ReceiveRequest(r)
      BY <2>1
         DEF ReceiveRequest, PostBooking, PatchBooking, PatchCheck,
             DeleteBooking, Begin
    <2>2. CASE CreateStep(r)
      BY <2>2
         DEF CreateStep, CreateReadRooms, CreateReadOverlaps, CreateInsert,
             CreateMail, CreateHandle, CreateCalendar, CreateReply,
             CreateFails, ReadRooms,
             Rejected
    <2>3. CASE UpdateStep(r)
      BY <2>3
         DEF UpdateStep, UpdateFind, UpdateReadRooms, UpdateReadOverlaps,
             UpdateReadOthers, UpdateWrite, UpdateMail, UpdateHandle,
             UpdateFails, ReadRooms, Rejected
    <2>4. CASE CheckStep(r)
      BY <2>4
         DEF CheckStep, CheckFind, CheckWrite, CheckMail, CheckFails, Rejected
    <2>5. CASE DeleteStep(r)
      BY <2>5
         DEF DeleteStep, DeleteFind, DeleteMail, DeleteHandle, DeleteRemove,
             DeleteFails, Rejected
    <2> QED
      BY <2>1, <2>2, <2>3, <2>4, <2>5 DEF HandleRequest
  <1> QED BY <1>1, <1>2

\* A write changes one document, marks it for the others, never brings back a
\* deleted document and never drops a timestamp.
LEMMA WritesAreMarked ==
  ASSUME TypeInv, NEW r \in Requests, WritingStep(r)
  PROVE  /\ \A s \in Requests \ {r} :
              /\ unseen[s] \subseteq unseen'[s]
              /\ \A b \in BookingIds : bookings'[b] = bookings[b] \/ b \in unseen'[s]
         /\ freshBookings' \subseteq freshBookings
         /\ \A b \in BookingIds \ freshBookings :
              bookings[b] = None => bookings'[b] = None
         /\ \A b \in BookingIds :
              bookings[b] # None /\ bookings'[b] # None =>
                bookings[b].stamped \subseteq bookings'[b].stamped
PROOF
  <1>1. ASSUME NEW d \in BookingIds, Written(r, d),
               \A b \in BookingIds \ {d} : bookings'[b] = bookings[b]
        PROVE  \A s \in Requests \ {r} :
                 /\ unseen[s] \subseteq unseen'[s]
                 /\ \A b \in BookingIds :
                      bookings'[b] = bookings[b] \/ b \in unseen'[s]
    BY <1>1 DEF Written, TypeInv
  <1>2. CASE CreateInsert(r)
    <2>1. PICK d \in freshBookings :
            /\ bookings' = [bookings EXCEPT ![d] = CreatedBooking(local[r].body)]
            /\ freshBookings' = freshBookings \ {d}
            /\ Written(r, d)
      BY <1>2 DEF CreateInsert
    <2>2. bookings[d] = None /\ d \in BookingIds
      BY DEF TypeInv
    <2> QED
      BY <1>1, <2>1, <2>2 DEF TypeInv
  <1>3. ASSUME NEW d \in BookingIds, NEW body, NEW stamp,
               bookings[d] # None,
               bookings' = [bookings EXCEPT
                             ![d] = UpdatedBooking(bookings[d], body, stamp)]
        PROVE  /\ \A b \in BookingIds : bookings[b] = None => bookings'[b] = None
               /\ \A b \in BookingIds : bookings[b] # None =>
                    bookings[b].stamped \subseteq bookings'[b].stamped
    BY <1>3 DEF TypeInv, UpdatedBooking
  <1>4. CASE UpdateWrite(r)
    <2>1. local[r].id \in BookingIds
      BY <1>4 DEF UpdateWrite, TypeInv, StagesFit, StageFits, NamingStages
    <2>2. CASE bookings[local[r].id] = None
      BY <1>4, <2>1, <2>2 DEF UpdateWrite, TypeInv
    <2>3. CASE bookings[local[r].id] # None
      BY <1>1, <1>3, <1>4, <2>1, <2>3 DEF UpdateWrite, TypeInv
    <2> QED BY <2>2, <2>3
  <1>5. CASE CheckWrite(r)
    <2>1. local[r].id \in BookingIds
      BY <1>5 DEF CheckWrite, TypeInv, StagesFit, StageFits, NamingStages
    <2>2. CASE bookings[local[r].id] = None
      BY <1>5, <2>1, <2>2 DEF CheckWrite, TypeInv
    <2>3. CASE bookings[local[r].id] # None
      BY <1>1, <1>3, <1>5, <2>1, <2>3 DEF CheckWrite, TypeInv
    <2> QED BY <2>2, <2>3
  <1>6. CASE DeleteRemove(r)
    <2>1. local[r].id \in BookingIds
      BY <1>6 DEF DeleteRemove, TypeInv, StagesFit, StageFits, NamingStages
    <2> QED
      BY <1>1, <1>6, <2>1 DEF DeleteRemove, TypeInv
  <1> QED
    BY <1>2, <1>4, <1>5, <1>6 DEF WritingStep

LEMMA StepsHaveFrame ==
  ASSUME TypeInv, NEW r \in Requests, ReceiveRequest(r) \/ HandleRequest(r)
  PROVE  Frame(r)
PROOF
  <1>1. UNCHANGED rooms
    BY BookingStepsKeepRooms DEF roomVars
  <1>2. CASE WritingStep(r)
    BY <1>1, <1>2, OthersStay, NoticesGrow, WritesAreMarked DEF Frame
  <1>3. CASE ~WritingStep(r)
    BY <1>1, <1>3, OthersStay, NoticesGrow, OtherStepsAreQuiet DEF Frame, Quiet
  <1> QED BY <1>2, <1>3

-----------------------------------------------------------------------------
(* Admission. *)

Admitted(r) ==
  \/ stage[r] = "create_insert"
  \/ stage[r] = "update_write" /\ NeedsAvailabilityCheck(local[r].body)

\* What the check is worth for the stay it is about, with what the first of
\* the two reads of updateBooking has found when the second one is made.
AdmissionInv(r) ==
  /\ Admitted(r) =>
       \A b \in FindOverlappingBookings(StayOf(r), local[r].id) :
         bookings[b].room_id = StayOf(r).room_id => b \in unseen[r]
  /\ stage[r] = "update_others" =>
       \A b \in FindOverlappingBookings(StayOf(r), None) :
         bookings[b].room_id \in local[r].available => b \in unseen[r]

\* A step of another request keeps it: what that step writes is unseen.
LEMMA FrameKeepsAdmission ==
  ASSUME NEW r \in Requests, Frame(r), NEW s \in Requests \ {r}, AdmissionInv(s)
  PROVE  AdmissionInv(s)'
PROOF
  <1>1. /\ stage'[s] = stage[s] /\ local'[s] = local[s]
        /\ unseen[s] \subseteq unseen'[s]
        /\ \A b \in BookingIds : bookings'[b] = bookings[b] \/ b \in unseen'[s]
    BY DEF Frame
  <1>2. StayOf(s)' = StayOf(s)
    BY <1>1 DEF StayOf
  <1> QED
    BY <1>1, <1>2
       DEF AdmissionInv, Admitted, FindOverlappingBookings

\* For a new booking the stay asked for is that of the body.
LEMMA CreationStay ==
  ASSUME NEW body \in NewBooking, NEW current
  PROVE  LET stay == RequestedStay(body, current) IN
           /\ stay.room_id = body.room_id
           /\ \A excluded : FindOverlappingBookings(stay, excluded) =
                            FindOverlappingBookings(body, excluded)
  BY DEF RequestedStay, Given, NewBooking, FindOverlappingBookings, Overlapping

\* What a request that passes createBooking's check has not seen.
LEMMA CreateAdmits ==
  ASSUME TypeInv, NEW r \in Requests, CreateReadOverlaps(r)
  PROVE  AdmissionInv(r)'
PROOF
  <1> DEFINE body == local[r].body
  <1>1. /\ body \in NewBooking /\ local[r].id = None /\ local[r] \in Local
        /\ UNCHANGED bookings
    BY BodiesAreTyped
       DEF CreateReadOverlaps, TypeInv, StagesFit, StageFits, NoBookingWrite
  <1>2. CASE Answer(r)
    BY <1>2 DEF Answer, Advance, TypeInv, AdmissionInv, Admitted
  <1>3. CASE ~Answer(r)
    <2>1. PICK found \in OverlapResults(body, None) :
            /\ body.room_id \notin RoomsOf(found)
            /\ Advance(r, "create_insert")
            /\ Keep(r, [local[r] EXCEPT !.available = {}])
            /\ unseen' = [unseen EXCEPT ![r] =
                            (@ \ BookingIds) \cup MissedBy(found, body, None)]
      BY <1>3 DEF CreateReadOverlaps
    <2>2. /\ stage'[r] = "create_insert"
          /\ local'[r] = [local[r] EXCEPT !.available = {}]
          /\ unseen'[r] = (unseen[r] \ BookingIds) \cup MissedBy(found, body, None)
      BY <2>1 DEF Advance, Keep, TypeInv
    <2>3. /\ local'[r].body = body /\ local'[r].id = None
          /\ local'[r].current = local[r].current
      BY <1>1, <2>2 DEF Local
    <2>4. \A b \in FindOverlappingBookings(body, None) :
            bookings[b].room_id = body.room_id => b \in unseen'[r]
      BY <2>1, <2>2 DEF MissedBy, RoomsOf, FindOverlappingBookings
    <2>5. /\ StayOf(r)' = RequestedStay(body, local[r].current)
          /\ (FindOverlappingBookings(StayOf(r), local[r].id))' =
               FindOverlappingBookings(RequestedStay(body, local[r].current), None)
      BY <1>1, <2>3 DEF StayOf, FindOverlappingBookings
    <2>6. \A b \in (FindOverlappingBookings(StayOf(r), local[r].id))' :
            bookings'[b].room_id = (StayOf(r))'.room_id => b \in unseen'[r]
      BY <1>1, <2>4, <2>5, CreationStay
    <2> QED
      BY <2>2, <2>6 DEF AdmissionInv
  <1> QED BY <1>2, <1>3

\* The first read of updateBooking leaves available only rooms in which it
\* has seen no overlapping booking.
LEMMA FirstReadAdmits ==
  ASSUME TypeInv, NEW r \in Requests, UpdateReadOverlaps(r)
  PROVE  AdmissionInv(r)'
PROOF
  <1> DEFINE stay == StayOf(r)
  <1>1. PICK found \in OverlapResults(stay, None) :
          /\ Keep(r, [local[r] EXCEPT !.available = @ \ RoomsOf(found)])
          /\ unseen' = [unseen EXCEPT ![r] =
                          (@ \ BookingIds) \cup MissedBy(found, stay, None)]
    BY DEF UpdateReadOverlaps, StayOf
  <1>2. /\ Advance(r, "update_others") /\ UNCHANGED bookings /\ local[r] \in Local
    BY DEF UpdateReadOverlaps, NoBookingWrite, TypeInv
  <1>3. /\ stage'[r] = "update_others"
        /\ local'[r] = [local[r] EXCEPT !.available = @ \ RoomsOf(found)]
        /\ unseen'[r] = (unseen[r] \ BookingIds) \cup MissedBy(found, stay, None)
    BY <1>1, <1>2 DEF Advance, Keep, TypeInv
  <1>4. /\ local'[r].body = local[r].body /\ local'[r].current = local[r].current
        /\ local'[r].available = local[r].available \ RoomsOf(found)
    BY <1>2, <1>3 DEF Local
  <1>5. StayOf(r)' = stay
    BY <1>4 DEF StayOf
  <1> HIDE DEF stay
  <1>6. \A b \in FindOverlappingBookings(stay, None) :
          bookings[b].room_id \in local'[r].available => b \in unseen'[r]
    BY <1>3, <1>4 DEF MissedBy, RoomsOf, FindOverlappingBookings
  <1>7. (FindOverlappingBookings(StayOf(r), None))' =
          FindOverlappingBookings(stay, None)
    BY <1>2, <1>5 DEF FindOverlappingBookings
  <1> QED
    BY <1>2, <1>3, <1>6, <1>7 DEF AdmissionInv, Admitted

\* Whichever of the two reads lets an update through, it saw no booking in
\* its way but those marked as unseen.
LEMMA SecondReadAdmits ==
  ASSUME TypeInv, NEW r \in Requests, AdmissionInv(r), UpdateReadOthers(r)
  PROVE  AdmissionInv(r)'
PROOF
  <1> DEFINE stay == StayOf(r)
             self == local[r].id
  <1>1. UNCHANGED bookings /\ local[r] \in Local /\ stage[r] = "update_others"
    BY DEF UpdateReadOthers, NoBookingWrite, TypeInv
  <1>2. CASE Answer(r)
    BY <1>2 DEF Answer, Advance, TypeInv, AdmissionInv, Admitted
  <1>3. CASE ~Answer(r)
    <2>1. PICK found \in OverlapResults(stay, self) :
            /\ stay.room_id \in local[r].available \/ stay.room_id \notin RoomsOf(found)
            /\ Advance(r, "update_write")
            /\ Keep(r, [local[r] EXCEPT !.available = {}])
            /\ unseen' =
                 IF stay.room_id \in local[r].available THEN unseen
                 ELSE [unseen EXCEPT ![r] =
                        (@ \ BookingIds) \cup MissedBy(found, stay, self)]
      BY <1>3 DEF UpdateReadOthers, StayOf
    <2>2. /\ stage'[r] = "update_write"
          /\ local'[r] = [local[r] EXCEPT !.available = {}]
      BY <2>1 DEF Advance, Keep, TypeInv
    <2>3. /\ local'[r].body = local[r].body /\ local'[r].current = local[r].current
          /\ local'[r].id = self
      BY <1>1, <2>2 DEF Local
    <2>4. StayOf(r)' = stay
      BY <2>3 DEF StayOf
    <2>5. (FindOverlappingBookings(StayOf(r), local[r].id))' =
            FindOverlappingBookings(stay, self)
      BY <1>1, <2>3, <2>4 DEF FindOverlappingBookings
    <2>6. \A b \in FindOverlappingBookings(stay, self) :
            bookings[b].room_id = stay.room_id => b \in unseen'[r]
      <3>1. CASE stay.room_id \in local[r].available
        <4>1. FindOverlappingBookings(stay, self) \subseteq
                FindOverlappingBookings(stay, None)
          BY BookingsAssumption DEF FindOverlappingBookings
        <4> QED
          BY <1>1, <2>1, <3>1, <4>1 DEF AdmissionInv
      <3>2. CASE stay.room_id \notin local[r].available
        <4>1. unseen'[r] = (unseen[r] \ BookingIds) \cup MissedBy(found, stay, self)
          BY <2>1, <3>2 DEF TypeInv
        <4> HIDE DEF stay, self
        <4> QED
          BY <2>1, <3>2, <4>1 DEF MissedBy, RoomsOf, FindOverlappingBookings
      <3> QED BY <3>1, <3>2
    <2> HIDE DEF stay, self
    <2> QED
      BY <1>1, <2>2, <2>4, <2>5, <2>6 DEF AdmissionInv
  <1> QED BY <1>2, <1>3

\* No other step leads to a stage that AdmissionInv speaks of.
LEMMA OtherStepsAdmitNothing ==
  ASSUME TypeInv, NEW r \in Requests,
         ReceiveRequest(r) \/ HandleRequest(r),
         ~CreateReadOverlaps(r), ~UpdateReadOverlaps(r), ~UpdateReadOthers(r)
  PROVE  AdmissionInv(r)'
PROOF
  <1>1. CASE ReceiveRequest(r)
    BY <1>1
       DEF TypeInv, ReceiveRequest, PostBooking, PatchBooking, PatchCheck,
           DeleteBooking, Begin, Advance, AdmissionInv, Admitted
  <1>2. CASE CreateStep(r)
    BY <1>2
       DEF TypeInv, CreateStep, CreateReadRooms, CreateInsert, CreateMail,
           CreateHandle, CreateCalendar, CreateReply,
           CreateFails, ReadRooms, Rejected,
           Answer, Advance, AdmissionInv, Admitted
  <1>3. CASE UpdateFind(r)
    <2>1. CASE Answer(r)
      BY <2>1 DEF Answer, Advance, TypeInv, AdmissionInv, Admitted
    <2>2. CASE ~Answer(r)
      <3>1. /\ local'[r] = [local[r] EXCEPT !.current = bookings[local[r].id]]
            /\ stage'[r] = IF NeedsAvailabilityCheck(local[r].body)
                           THEN "update_rooms" ELSE "update_write"
        BY <1>3, <2>2 DEF UpdateFind, Keep, Advance, TypeInv
      <3>2. local'[r].body = local[r].body
        BY <3>1 DEF TypeInv, Local
      <3>3. NeedsAvailabilityCheck(local'[r].body) =
              NeedsAvailabilityCheck(local[r].body)
        BY <3>2
      <3> QED
        BY <3>1, <3>2, <3>3 DEF AdmissionInv, Admitted, NeedsAvailabilityCheck
    <2> QED BY <2>1, <2>2
  <1>4. CASE UpdateStep(r) /\ ~UpdateFind(r)
    BY <1>4
       DEF TypeInv, UpdateStep, UpdateReadRooms, UpdateWrite, UpdateMail,
           UpdateHandle, UpdateFails, ReadRooms, Rejected, Answer, Advance,
           AdmissionInv, Admitted
  <1>5. CASE CheckStep(r)
    BY <1>5
       DEF TypeInv, CheckStep, CheckFind, CheckWrite, CheckMail, CheckFails,
           Rejected, Answer, Advance, AdmissionInv, Admitted
  <1>6. CASE DeleteStep(r)
    BY <1>6
       DEF TypeInv, DeleteStep, DeleteFind, DeleteMail, DeleteHandle,
           DeleteRemove, DeleteFails, Rejected, Answer, Advance,
           AdmissionInv, Admitted
  <1> QED
    BY <1>1, <1>2, <1>3, <1>4, <1>5, <1>6 DEF HandleRequest

LEMMA NextKeepsAdmission ==
  ASSUME TypeInv, \A r \in Requests : AdmissionInv(r), [Next]_vars
  PROVE  \A r \in Requests : AdmissionInv(r)'
PROOF
  <1>1. ASSUME NEW r \in Requests, ReceiveRequest(r) \/ HandleRequest(r)
        PROVE  \A s \in Requests : AdmissionInv(s)'
    <2>1. \A s \in Requests \ {r} : AdmissionInv(s)'
      BY <1>1, StepsHaveFrame, FrameKeepsAdmission
    <2>2. AdmissionInv(r)'
      BY <1>1, CreateAdmits, FirstReadAdmits, SecondReadAdmits,
         OtherStepsAdmitNothing
    <2> QED BY <2>1, <2>2
  <1>2. CASE RoomEndpointStep
    <2>1. /\ UNCHANGED <<bookings, stage, local>>
          /\ \A r \in Requests : unseen[r] \subseteq unseen'[r]
      BY <1>2 DEF RoomEndpointStep
    <2>2. \A r \in Requests : StayOf(r)' = StayOf(r)
      BY <2>1 DEF StayOf
    <2> QED
      BY <2>1, <2>2 DEF AdmissionInv, Admitted, FindOverlappingBookings
  <1>3. CASE Crash
    BY <1>3 DEF Crash, AdmissionInv, Admitted
  <1>4. CASE UNCHANGED vars
    <2>1. \A r \in Requests : StayOf(r)' = StayOf(r)
      BY <1>4 DEF vars, bookingVars, StayOf
    <2> QED
      BY <1>4, <2>1
         DEF vars, bookingVars, AdmissionInv, Admitted, FindOverlappingBookings
  <1> QED
    BY <1>1, <1>2, <1>3, <1>4 DEF Next, BookingsStep

\* As long as the booking has not been moved meanwhile, what is stored is the
\* stay the check was about.
LEMMA StoresTheStayChecked ==
  ASSUME TypeInv, NEW r \in Requests, AboutToStore(r), ~MovedMeanwhile(r)
  PROVE  /\ Admitted(r)
         /\ BookingToStore(r).room_id = StayOf(r).room_id
         /\ BookingToStore(r).clock_in = StayOf(r).clock_in
         /\ BookingToStore(r).clock_out = StayOf(r).clock_out
PROOF
  <1>1. CASE stage[r] = "create_insert"
    <2>1. local[r].body \in NewBooking
      BY <1>1, BodiesAreTyped DEF TypeInv, StagesFit, StageFits
    <2> QED
      BY <1>1, <2>1
         DEF Admitted, BookingToStore, CreatedBooking, StayOf, RequestedStay,
             Given, NewBooking
  <1>2. CASE stage[r] = "update_write"
    <2>1. RequestedStay(local[r].body, bookings[local[r].id]) = StayOf(r)
      BY <1>2 DEF MovedMeanwhile
    <2>2. Admitted(r)
      BY <1>2 DEF AboutToStore, Admitted
    <2>3. BookingToStore(r) = UpdatedBooking(bookings[local[r].id], local[r].body, {})
      BY <1>2 DEF BookingToStore
    <2> QED
      BY <2>1, <2>2, <2>3 DEF UpdatedBooking, RequestedStay
  <1> QED
    BY <1>1, <1>2 DEF AboutToStore

LEMMA AdmissionImplied ==
  ASSUME TypeInv, NEW r \in Requests, AdmissionInv(r), AboutToStore(r)
  PROVE  MovedMeanwhile(r) \/ MeetsUnseenOnly(r)
PROOF
  <1> SUFFICES ASSUME ~MovedMeanwhile(r) PROVE MeetsUnseenOnly(r)
    OBVIOUS
  <1>1. /\ Admitted(r)
        /\ BookingToStore(r).room_id = StayOf(r).room_id
        /\ FindOverlappingBookings(BookingToStore(r), local[r].id) =
             FindOverlappingBookings(StayOf(r), local[r].id)
    BY StoresTheStayChecked DEF FindOverlappingBookings, Overlapping
  <1> QED
    BY <1>1 DEF AdmissionInv, MeetsUnseenOnly

\* Whatever runs beside it and whatever fails, a booking that is stored or
\* moved has no confirmed booking in its way but those written after the read
\* that admitted it, if no other request has moved it since it was read.
THEOREM AdmissionIsSound == Spec => []AdmissionSawNoConflict
  <1>1. Init => \A r \in Requests : AdmissionInv(r)
    BY DEF Init, AdmissionInv, Admitted
  <1>2. TypeInv /\ (\A r \in Requests : AdmissionInv(r)) /\ [Next]_vars
          => (\A r \in Requests : AdmissionInv(r))'
    BY NextKeepsAdmission
  <1>3. TypeInv /\ (\A r \in Requests : AdmissionInv(r)) => AdmissionSawNoConflict
    BY AdmissionImplied DEF AdmissionSawNoConflict
  <1> QED
    BY <1>1, <1>2, <1>3, BookingsTypeInvariant, PTL DEF Spec

-----------------------------------------------------------------------------
(* Rooms at admission. *)

InService(x) == rooms[x] # None /\ rooms[x].status # "maintenance"

\* CreationSawRoomInService for one request, strengthened with what the read of
\* the rooms has found.
RoomSeenInv(r) ==
  /\ stage[r] = "create_overlaps" =>
       \A x \in local[r].available : x \in unseen[r] \/ InService(x)
  /\ stage[r] = "create_insert" =>
       local[r].body.room_id \in unseen[r] \/ InService(local[r].body.room_id)

LEMMA OwnStepKeepsRoomSeen ==
  ASSUME TypeInv, NEW r \in Requests, RoomSeenInv(r),
         ReceiveRequest(r) \/ HandleRequest(r)
  PROVE  RoomSeenInv(r)'
PROOF
  <1>0. UNCHANGED rooms /\ local[r] \in Local
    BY BookingStepsKeepRooms DEF roomVars, TypeInv
  <1>1. CASE CreateReadRooms(r)
    <2>1. /\ stage'[r] = "create_overlaps"
          /\ local'[r] = [local[r] EXCEPT !.available = RoomsInService]
      BY <1>1 DEF CreateReadRooms, ReadRooms, Advance, Keep, TypeInv
    <2>2. local'[r].available = RoomsInService
      BY <1>0, <2>1 DEF Local
    <2> QED
      BY <1>0, <2>1, <2>2 DEF RoomSeenInv, RoomsInService, InService
  <1>2. CASE CreateReadOverlaps(r) /\ ~Answer(r)
    <2> DEFINE x == local[r].body.room_id
    <2>1. PICK missed \in SUBSET BookingIds :
            unseen' = [unseen EXCEPT ![r] = (@ \ BookingIds) \cup missed]
      BY <1>2 DEF CreateReadOverlaps, MissedBy
    <2>2. /\ stage'[r] = "create_insert" /\ x \in local[r].available
          /\ local'[r] = [local[r] EXCEPT !.available = {}]
          /\ stage[r] = "create_overlaps"
      BY <1>2 DEF CreateReadOverlaps, Advance, Keep, TypeInv
    <2>3. local'[r].body = local[r].body
      BY <1>0, <2>2 DEF Local
    <2>4. x \in unseen[r] => x \in unseen'[r]
      <3>1. x \in RoomIds
        BY <1>0, <2>2 DEF Local
      <3> QED
        BY <2>1, <3>1, BookingsAssumption DEF TypeInv
    <2> QED
      BY <1>0, <2>2, <2>3, <2>4 DEF RoomSeenInv, InService
  <1>3. CASE CreateReadOverlaps(r) /\ Answer(r)
    BY <1>3 DEF Answer, Advance, TypeInv, RoomSeenInv
  <1>4. CASE ~CreateReadRooms(r) /\ ~CreateReadOverlaps(r)
    <2>1. stage'[r] \notin {"create_overlaps", "create_insert"}
      <3>1. CASE ReceiveRequest(r)
        BY <3>1
           DEF TypeInv, ReceiveRequest, PostBooking, PatchBooking, PatchCheck,
               DeleteBooking, Begin, Advance
      <3>2. CASE CreateStep(r)
        BY <1>4, <3>2
           DEF TypeInv, CreateStep, CreateInsert, CreateMail, CreateHandle,
               CreateCalendar, CreateReply, CreateFails, Rejected, Answer, Advance
      <3>3. CASE UpdateStep(r)
        BY <3>3
           DEF TypeInv, UpdateStep, UpdateFind, UpdateReadRooms,
               UpdateReadOverlaps, UpdateReadOthers, UpdateWrite, UpdateMail,
               UpdateHandle, UpdateFails, ReadRooms, Rejected, Answer, Advance
      <3>4. CASE CheckStep(r)
        BY <3>4
           DEF TypeInv, CheckStep, CheckFind, CheckWrite, CheckMail, CheckFails,
               Rejected, Answer, Advance
      <3>5. CASE DeleteStep(r)
        BY <3>5
           DEF TypeInv, DeleteStep, DeleteFind, DeleteMail, DeleteHandle,
               DeleteRemove, DeleteFails, Rejected, Answer, Advance
      <3> QED
        BY <3>1, <3>2, <3>3, <3>4, <3>5 DEF HandleRequest
    <2> QED BY <2>1 DEF RoomSeenInv
  <1> QED BY <1>1, <1>2, <1>3, <1>4

LEMMA NextKeepsRoomSeen ==
  ASSUME TypeInv, \A r \in Requests : RoomSeenInv(r), [Next]_vars
  PROVE  \A r \in Requests : RoomSeenInv(r)'
PROOF
  <1>1. ASSUME NEW r \in Requests, ReceiveRequest(r) \/ HandleRequest(r)
        PROVE  \A s \in Requests : RoomSeenInv(s)'
    <2>1. Frame(r)
      BY <1>1, StepsHaveFrame
    <2>2. \A s \in Requests \ {r} : RoomSeenInv(s)'
      BY <2>1 DEF Frame, RoomSeenInv, InService
    <2> QED BY <1>1, <2>2, OwnStepKeepsRoomSeen
  <1>2. CASE RoomEndpointStep
    <2>1. /\ UNCHANGED <<stage, local>>
          /\ \A r \in Requests :
               unseen'[r] = unseen[r] \cup {x \in RoomIds : rooms'[x] # rooms[x]}
      BY <1>2 DEF RoomEndpointStep
    <2>2. ASSUME NEW r \in Requests, NEW x \in RoomIds,
                 x \in unseen[r] \/ InService(x)
          PROVE  x \in unseen'[r] \/ InService(x)'
      BY <2>1, <2>2 DEF InService
    <2>3. ASSUME NEW r \in Requests, stage[r] = "create_insert"
          PROVE  local[r].body.room_id \in RoomIds
      BY <2>3, BodiesAreTyped
         DEF TypeInv, StagesFit, StageFits, NewBooking, BookingPatch
    <2>4. ASSUME NEW r \in Requests
          PROVE  local[r].available \subseteq RoomIds
      BY DEF TypeInv, Local
    <2> QED
      BY <2>1, <2>2, <2>3, <2>4 DEF RoomSeenInv
  <1>3. CASE Crash
    BY <1>3 DEF Crash, RoomSeenInv
  <1>4. CASE UNCHANGED vars
    BY <1>4 DEF vars, roomVars, bookingVars, RoomSeenInv, InService
  <1> QED
    BY <1>1, <1>2, <1>3, <1>4 DEF Next, BookingsStep

\* A booking is stored only for a room that was in service when createBooking
\* read the rooms, and still is unless a room endpoint has written it since.
THEOREM CreationIsInService == Spec => []CreationSawRoomInService
  <1>1. Init => \A r \in Requests : RoomSeenInv(r)
    BY DEF Init, RoomSeenInv
  <1>2. TypeInv /\ (\A r \in Requests : RoomSeenInv(r)) /\ [Next]_vars
          => (\A r \in Requests : RoomSeenInv(r))'
    BY NextKeepsRoomSeen
  <1>3. (\A r \in Requests : RoomSeenInv(r)) => CreationSawRoomInService
    BY DEF RoomSeenInv, InService, CreationSawRoomInService
  <1> QED
    BY <1>1, <1>2, <1>3, BookingsTypeInvariant, PTL DEF Spec

=============================================================================
