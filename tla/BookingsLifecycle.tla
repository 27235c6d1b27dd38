-------------------------- MODULE BookingsLifecycle --------------------------
(***************************************************************************)
(* What happens to one booking over its life: deletion, the cancellation   *)
(* mail and the timestamps of check-in and check-out, for every instance.  *)
(* Then the stays of all bookings together: Bookings implements            *)
(* RoomCalendar, for every instance that handles one booking request at a  *)
(* time, whose reads do not fail and whose bodies confirm nothing around   *)
(* the availability check. What a handler has read is then still true when *)
(* it writes (Fresh), so that the write reserves a free stay, releases one *)
(* or changes no stay.                                                     *)
(***************************************************************************)
EXTENDS BookingsProofs

-----------------------------------------------------------------------------
(* Deletion is final. *)

\* No request writes a booking it finds deleted: the update has no upsert.
THEOREM BookingDeletionIsFinal == Spec => DeletedBookingStaysDeleted
  <1> DEFINE NoneBack == \A b \in BookingIds \ freshBookings :
                           bookings[b] = None => bookings'[b] = None
  <1>1. TypeInv /\ [Next]_vars => [NoneBack]_vars
    <2>1. ASSUME TypeInv, BookingsStep PROVE NoneBack
      BY <2>1, StepsHaveFrame DEF BookingsStep, Frame
    <2>2. ASSUME RoomEndpointStep \/ Crash PROVE NoneBack
      BY <2>2 DEF RoomEndpointStep, Crash
    <2> QED
      BY <2>1, <2>2 DEF Next
  <1> QED
    BY <1>1, BookingsTypeInvariant, PTL DEF Spec, DeletedBookingStaysDeleted

-----------------------------------------------------------------------------
(* The cancellation mail comes first. *)

\* DeletionWasAnnounced, with what DeleteBooking has done before its later
\* stages: the mail is sent before the room and the document are written.
AnnouncedInv ==
  /\ DeletionWasAnnounced
  /\ \A r \in Requests :
       stage[r] \in {"delete_handle", "delete_remove"} =>
         "cancellation" \in notices[local[r].id]

\* Only DeleteRemove makes a stored booking disappear.
LEMMA OnlyRemovalRemoves ==
  ASSUME TypeInv, NEW r \in Requests, ReceiveRequest(r) \/ HandleRequest(r),
         NEW b \in BookingIds \ freshBookings', bookings'[b] = None
  PROVE  \/ b \notin freshBookings /\ bookings[b] = None
         \/ DeleteRemove(r) /\ b = local[r].id
PROOF
  <1>0. local[r] \in Local /\ StageFits(r)
    BY DEF TypeInv, StagesFit
  <1>1. CASE CreateInsert(r)
    <2>1. PICK d \in freshBookings :
            /\ bookings' = [bookings EXCEPT ![d] = CreatedBooking(local[r].body)]
            /\ freshBookings' = freshBookings \ {d}
      BY <1>1 DEF CreateInsert
    <2>2. CreatedBooking(local[r].body) # None
      BY <1>0, <1>1, CreatedBookingType, BodiesAreTyped, BookingsAssumption
         DEF CreateInsert, StageFits
    <2> QED BY <2>1, <2>2 DEF TypeInv
  <1>2. CASE UpdateWrite(r) \/ CheckWrite(r)
    <2> DEFINE d == local[r].id
    <2>1. UNCHANGED freshBookings /\ d \in BookingIds
      BY <1>0, <1>2 DEF UpdateWrite, CheckWrite, StageFits, NamingStages
    <2>2. CASE bookings[d] = None
      BY <1>2, <2>1, <2>2 DEF UpdateWrite, CheckWrite
    <2>3. CASE bookings[d] # None
      <3>1. PICK stamp \in SUBSET Sides :
              bookings' = [bookings EXCEPT
                            ![d] = UpdatedBooking(bookings[d], local[r].body, stamp)]
        BY <1>0, <1>2, <2>3 DEF UpdateWrite, CheckWrite, Local
      <3>2. UpdatedBooking(bookings[d], local[r].body, stamp) # None
        <4>1. bookings[d] \in Booking /\ local[r].body \in BookingPatch
          BY <1>0, <2>1, <2>3 DEF TypeInv, Local
        <4> QED BY <4>1, UpdatedBookingType, BookingsAssumption
      <3> QED BY <2>1, <3>1, <3>2 DEF TypeInv
    <2> QED BY <2>2, <2>3
  <1>3. CASE DeleteRemove(r)
    BY <1>3 DEF DeleteRemove, TypeInv
  <1>4. CASE ~WritingStep(r)
    BY <1>4, OtherStepsAreQuiet DEF Quiet
  <1> QED BY <1>1, <1>2, <1>3, <1>4 DEF WritingStep

\* The handler of DeleteBooking has called the mail server by then.
LEMMA LateStagesAnnounced ==
  ASSUME TypeInv, AnnouncedInv, NEW r \in Requests,
         ReceiveRequest(r) \/ HandleRequest(r),
         stage'[r] \in {"delete_handle", "delete_remove"}
  PROVE  "cancellation" \in notices'[local'[r].id]
PROOF
  <1>1. DeleteMail(r) \/ DeleteHandle(r)
    <2>1. CASE ReceiveRequest(r)
      BY <2>1
         DEF TypeInv, ReceiveRequest, PostBooking, PatchBooking, PatchCheck,
             DeleteBooking, Begin, Advance
    <2>2. CASE CreateStep(r)
      BY <2>2
         DEF TypeInv, CreateStep, CreateReadRooms, CreateReadOverlaps,
             CreateInsert, CreateMail, CreateHandle, CreateCalendar, CreateReply,
             CreateFails,
             ReadRooms, Rejected, Answer, Advance
    <2>3. CASE UpdateStep(r)
      BY <2>3
         DEF TypeInv, UpdateStep, UpdateFind, UpdateReadRooms,
             UpdateReadOverlaps, UpdateReadOthers, UpdateWrite, UpdateMail,
             UpdateHandle, UpdateFails, ReadRooms, Rejected, Answer, Advance
    <2>4. CASE CheckStep(r)
      BY <2>4
         DEF TypeInv, CheckStep, CheckFind, CheckWrite, CheckMail, CheckFails,
             Rejected, Answer, Advance
    <2>5. CASE DeleteStep(r)
      BY <2>5
         DEF TypeInv, DeleteStep, DeleteFind, DeleteRemove, DeleteFails,
             Rejected, Answer, Advance
    <2> QED
      BY <2>1, <2>2, <2>3, <2>4, <2>5 DEF HandleRequest
  <1>2. local[r].id \in BookingIds
    BY <1>1
       DEF DeleteMail, DeleteHandle, TypeInv, StagesFit, StageFits, NamingStages
  <1>3. CASE DeleteMail(r)
    BY <1>2, <1>3, BookingsAssumption DEF DeleteMail, Notify, TypeInv
  <1>4. CASE DeleteHandle(r)
    BY <1>4 DEF DeleteHandle, AnnouncedInv
  <1> QED BY <1>1, <1>3, <1>4

LEMMA NextKeepsAnnounced ==
  ASSUME TypeInv, AnnouncedInv, [Next]_vars
  PROVE  AnnouncedInv'
PROOF
  <1>1. ASSUME NEW r \in Requests, ReceiveRequest(r) \/ HandleRequest(r)
        PROVE  AnnouncedInv'
    <2>1. Frame(r)
      BY <1>1, StepsHaveFrame
    <2>2. ASSUME NEW b \in BookingIds \ freshBookings', bookings'[b] = None
          PROVE  "cancellation" \in notices'[b]
      <3>1. "cancellation" \in notices[b]
        BY <1>1, <2>2, OnlyRemovalRemoves
           DEF AnnouncedInv, DeletionWasAnnounced, DeleteRemove
      <3> QED BY <2>1, <3>1 DEF Frame
    <2>3. ASSUME NEW s \in Requests \ {r},
                 stage'[s] \in {"delete_handle", "delete_remove"}
          PROVE  "cancellation" \in notices'[local'[s].id]
      <3>1. /\ stage[s] \in {"delete_handle", "delete_remove"}
            /\ local'[s] = local[s]
        BY <2>1, <2>3 DEF Frame
      <3>2. local[s].id \in BookingIds
        BY <3>1 DEF TypeInv, StagesFit, StageFits, NamingStages
      <3> QED BY <2>1, <3>1, <3>2 DEF AnnouncedInv, Frame
    <2> QED
      BY <1>1, <2>2, <2>3, LateStagesAnnounced
         DEF AnnouncedInv, DeletionWasAnnounced
  <1>2. CASE RoomEndpointStep
    BY <1>2 DEF RoomEndpointStep, AnnouncedInv, DeletionWasAnnounced
  <1>3. CASE Crash
    BY <1>3 DEF Crash, AnnouncedInv, DeletionWasAnnounced
  <1>4. CASE UNCHANGED vars
    BY <1>4 DEF vars, bookingVars, AnnouncedInv, DeletionWasAnnounced
  <1> QED
    BY <1>1, <1>2, <1>3, <1>4 DEF Next, BookingsStep

\* Whatever fails, crashes or runs beside it, a booking that is gone has had
\* its cancellation mail.
THEOREM DeletionIsAnnounced == Spec => []DeletionWasAnnounced
  <1>1. Init => AnnouncedInv
    BY DEF Init, AnnouncedInv, DeletionWasAnnounced
  <1>2. TypeInv /\ AnnouncedInv /\ [Next]_vars => AnnouncedInv'
    BY NextKeepsAnnounced
  <1>3. AnnouncedInv => DeletionWasAnnounced
    BY DEF AnnouncedInv
  <1> QED
    BY <1>1, <1>2, <1>3, BookingsTypeInvariant, PTL DEF Spec

-----------------------------------------------------------------------------
(* Timestamps. *)

StampedBookings ==
  \A b \in BookingIds :
    bookings[b] # None => bookings[b].checked \subseteq bookings[b].stamped

\* What updateCheckInState has decided from the booking it read: a side it is
\* about to set without a timestamp has one in the collection by now.
CheckDecided(r) ==
  stage[r] = "check_write" /\ bookings[local[r].id] # None =>
    local[r].body.check \ local[r].stamp \subseteq bookings[local[r].id].stamped

StampedInv == StampedBookings /\ \A r \in Requests : CheckDecided(r)

LEMMA WritesKeepStamps ==
  ASSUME TypeInv, StampedInv, FlagsOnlyByCheck, NEW r \in Requests,
         WritingStep(r)
  PROVE  StampedBookings'
PROOF
  <1>0. local[r] \in Local /\ StageFits(r)
    BY DEF TypeInv, StagesFit
  <1>1. CASE CreateInsert(r)
    <2>1. local[r].body.check = {}
      BY <1>0, <1>1 DEF CreateInsert, StageFits, FlagsOnlyByCheck
    <2> QED
      BY <1>1, <2>1
         DEF CreateInsert, CreatedBooking, StampedInv, StampedBookings, TypeInv
  <1>2. ASSUME NEW d \in BookingIds, NEW stamp \in SUBSET Sides,
               bookings[d] # None,
               bookings' = [bookings EXCEPT
                             ![d] = UpdatedBooking(bookings[d], local[r].body, stamp)],
               local[r].body.check \ stamp \subseteq bookings[d].stamped
        PROVE  StampedBookings'
    <2>1. bookings[d].checked \subseteq bookings[d].stamped
      BY <1>2 DEF StampedInv, StampedBookings
    <2>2. LET new == UpdatedBooking(bookings[d], local[r].body, stamp) IN
            new.checked \subseteq new.stamped
      BY <1>2, <2>1 DEF UpdatedBooking
    <2> QED
      BY <1>2, <2>2 DEF StampedInv, StampedBookings, TypeInv
  <1>3. CASE UpdateWrite(r)
    <2>1. local[r].id \in BookingIds /\ local[r].body.check = {}
      BY <1>0, <1>3 DEF UpdateWrite, StageFits, NamingStages, FlagsOnlyByCheck
    <2>2. CASE bookings[local[r].id] = None
      BY <1>3, <2>2 DEF UpdateWrite, StampedInv, StampedBookings
    <2>3. CASE bookings[local[r].id] # None
      BY <1>2, <1>3, <2>1, <2>3 DEF UpdateWrite
    <2> QED BY <2>2, <2>3
  <1>4. CASE CheckWrite(r)
    <2>1. local[r].id \in BookingIds /\ local[r].stamp \in SUBSET Sides
      BY <1>0, <1>4 DEF CheckWrite, StageFits, NamingStages, Local
    <2>2. CASE bookings[local[r].id] = None
      BY <1>4, <2>2 DEF CheckWrite, StampedInv, StampedBookings
    <2>3. CASE bookings[local[r].id] # None
      BY <1>2, <1>4, <2>1, <2>3 DEF CheckWrite, StampedInv, CheckDecided
    <2> QED BY <2>2, <2>3
  <1>5. CASE DeleteRemove(r)
    BY <1>5 DEF DeleteRemove, StampedInv, StampedBookings, TypeInv
  <1> QED BY <1>1, <1>3, <1>4, <1>5 DEF WritingStep

\* Only CheckFind leads to the write, and it has just read the booking.
LEMMA CheckFindDecides ==
  ASSUME TypeInv, StampedInv, NEW r \in Requests,
         ReceiveRequest(r) \/ HandleRequest(r)
  PROVE  CheckDecided(r)'
PROOF
  <1>1. CASE CheckFind(r) /\ stage'[r] = "check_write"
    <2>0. local[r] \in Local /\ local[r].id \in BookingIds
      BY <1>1 DEF CheckFind, TypeInv, StagesFit, StageFits, NamingStages
    <2>1. ~Answer(r)
      BY <1>1 DEF Answer, Advance, TypeInv
    <2>2. /\ bookings[local[r].id] # None
          /\ local'[r] = [local[r] EXCEPT
               !.stamp = local[r].body.check \ bookings[local[r].id].checked]
          /\ UNCHANGED bookings
      BY <1>1, <2>1 DEF CheckFind, Keep, NoBookingWrite, TypeInv
    <2>3. /\ local'[r].id = local[r].id /\ local'[r].body = local[r].body
          /\ local'[r].stamp = local[r].body.check \ bookings[local[r].id].checked
      BY <2>0, <2>2 DEF Local
    <2>4. bookings[local[r].id].checked \subseteq bookings[local[r].id].stamped
      BY <2>0, <2>2 DEF StampedInv, StampedBookings
    <2> QED
      BY <2>2, <2>3, <2>4 DEF CheckDecided
  <1>2. CASE ~CheckFind(r)
    <2>1. stage'[r] # "check_write"
      <3>1. CASE ReceiveRequest(r)
        BY <3>1
           DEF TypeInv, ReceiveRequest, PostBooking, PatchBooking, PatchCheck,
               DeleteBooking, Begin, Advance
      <3>2. CASE CreateStep(r)
        BY <3>2
           DEF TypeInv, CreateStep, CreateReadRooms, CreateReadOverlaps,
               CreateInsert, CreateMail, CreateHandle, CreateCalendar, CreateReply,
               CreateFails, ReadRooms, Rejected, Answer, Advance
      <3>3. CASE UpdateStep(r)
        BY <3>3
           DEF TypeInv, UpdateStep, UpdateFind, UpdateReadRooms,
               UpdateReadOverlaps, UpdateReadOthers, UpdateWrite, UpdateMail,
               UpdateHandle, UpdateFails, ReadRooms, Rejected, Answer, Advance
      <3>4. CASE CheckStep(r)
        BY <1>2, <3>4
           DEF TypeInv, CheckStep, CheckWrite, CheckMail, CheckFails, Rejected,
               Answer, Advance
      <3>5. CASE DeleteStep(r)
        BY <3>5
           DEF TypeInv, DeleteStep, DeleteFind, DeleteMail, DeleteHandle,
               DeleteRemove, DeleteFails, Rejected, Answer, Advance
      <3> QED
        BY <3>1, <3>2, <3>3, <3>4, <3>5 DEF HandleRequest
    <2> QED BY <2>1 DEF CheckDecided
  <1>3. CASE stage'[r] # "check_write"
    BY <1>3 DEF CheckDecided
  <1> QED BY <1>1, <1>2, <1>3

LEMMA NextKeepsStamped ==
  ASSUME TypeInv, StampedInv, FlagsOnlyByCheck, [Next]_vars
  PROVE  StampedInv'
PROOF
  <1>1. ASSUME NEW r \in Requests, ReceiveRequest(r) \/ HandleRequest(r)
        PROVE  StampedInv'
    <2>1. Frame(r)
      BY <1>1, StepsHaveFrame
    <2>2. StampedBookings'
      <3>1. CASE WritingStep(r)
        BY <3>1, WritesKeepStamps
      <3>2. CASE ~WritingStep(r)
        BY <1>1, <3>2, OtherStepsAreQuiet
           DEF Quiet, StampedInv, StampedBookings
      <3> QED BY <3>1, <3>2
    <2>3. ASSUME NEW s \in Requests \ {r}, stage'[s] = "check_write",
                 bookings'[local'[s].id] # None
          PROVE  CheckDecided(s)'
      <3>1. stage[s] = "check_write" /\ local'[s] = local[s]
        BY <2>1, <2>3 DEF Frame
      <3>2. local[s].id \in BookingIds \ freshBookings
        BY <3>1 DEF TypeInv, StagesFit, StageFits, NamingStages
      <3>3. bookings[local[s].id] # None
        BY <2>1, <2>3, <3>1, <3>2 DEF Frame
      <3>4. bookings[local[s].id].stamped \subseteq bookings'[local[s].id].stamped
        BY <2>1, <2>3, <3>1, <3>2, <3>3 DEF Frame
      <3> QED
        BY <3>1, <3>3, <3>4 DEF StampedInv, CheckDecided
    <2>4. \A s \in Requests \ {r} : CheckDecided(s)'
      BY <2>3 DEF CheckDecided
    <2> QED
      BY <1>1, <2>2, <2>4, CheckFindDecides DEF StampedInv
  <1>2. CASE RoomEndpointStep
    BY <1>2 DEF RoomEndpointStep, StampedInv, StampedBookings, CheckDecided
  <1>3. CASE Crash
    BY <1>3 DEF Crash, StampedInv, StampedBookings, CheckDecided
  <1>4. CASE UNCHANGED vars
    BY <1>4 DEF vars, bookingVars, StampedInv, StampedBookings, CheckDecided
  <1> QED
    BY <1>1, <1>2, <1>3, <1>4 DEF Next, BookingsStep

\* Where only the check endpoint sets the flags, concurrent check-ins and
\* check-outs never leave a flag set without its timestamp.
THEOREM CheckedIsStamped == Spec => []CheckedHasTimestamp
  <1>1. Init => StampedInv
    BY DEF Init, StampedInv, StampedBookings, CheckDecided
  <1>2. TypeInv /\ StampedInv /\ FlagsOnlyByCheck /\ [Next]_vars => StampedInv'
    BY NextKeepsStamped
  <1>3. FlagsOnlyByCheck /\ [Next]_vars => FlagsOnlyByCheck'
    BY DEF FlagsOnlyByCheck
  <1>4. StampedInv => CheckedHasTimestamp
    BY DEF StampedInv, StampedBookings, CheckedHasTimestamp
  <1>5. ~FlagsOnlyByCheck => CheckedHasTimestamp
    BY DEF CheckedHasTimestamp
  <1>6. ~FlagsOnlyByCheck /\ [Next]_vars => ~FlagsOnlyByCheck'
    BY DEF FlagsOnlyByCheck
  <1> QED
    BY <1>1, <1>2, <1>3, <1>4, <1>5, <1>6, BookingsTypeInvariant, PTL DEF Spec

-----------------------------------------------------------------------------
(* The conditions under which the handlers keep the calendar. *)

Serial ==
  /\ OneRequestAtATime
  /\ NoUncheckedConfirmation
  /\ "read" \notin Faults

-----------------------------------------------------------------------------
(* With one request at a time nothing is written behind its back. *)

Snapshot(r) ==
  stage[r] \in {"update_rooms", "update_overlaps", "update_others",
                "update_write"} =>
    local[r].current = bookings[local[r].id]

SawAll(r) ==
  stage[r] = "update_others" \/ Admitted(r) => unseen[r] \cap BookingIds = {}

Fresh(r) == Snapshot(r) /\ SawAll(r)

\* A read that cannot fail sees every booking.
LEMMA ReadsSeeAll ==
  ASSUME "read" \notin Faults, NEW stay, NEW excluded,
         NEW found \in OverlapResults(stay, excluded)
  PROVE  MissedBy(found, stay, excluded) = {}
  BY DEF OverlapResults, MissedBy

LEMMA CreateStaysFresh ==
  ASSUME TypeInv, "read" \notin Faults, NEW r \in Requests, CreateStep(r)
  PROVE  Fresh(r)'
PROOF
  <1>1. CASE CreateReadOverlaps(r)
    <2>1. CASE Answer(r)
      BY <2>1 DEF Answer, Advance, TypeInv, Fresh, Snapshot, SawAll, Admitted
    <2>2. CASE ~Answer(r)
      <3>1. PICK found \in OverlapResults(local[r].body, None) :
              /\ Advance(r, "create_insert")
              /\ unseen' = [unseen EXCEPT ![r] =
                   (@ \ BookingIds) \cup MissedBy(found, local[r].body, None)]
        BY <1>1, <2>2 DEF CreateReadOverlaps
      <3>2. unseen'[r] = unseen[r] \ BookingIds
        BY <3>1, ReadsSeeAll DEF TypeInv
      <3>3. stage'[r] = "create_insert"
        BY <3>1 DEF Advance, TypeInv
      <3> QED BY <3>2, <3>3 DEF Fresh, Snapshot, SawAll
    <2> QED BY <2>1, <2>2
  <1>2. CASE ~CreateReadOverlaps(r)
    BY <1>2
       DEF TypeInv, CreateStep, CreateReadRooms, CreateInsert, CreateMail,
           CreateHandle, CreateCalendar, CreateReply,
           CreateFails, ReadRooms, Rejected,
           Answer, Advance, Fresh, Snapshot, SawAll, Admitted
  <1> QED BY <1>1, <1>2

\* The steps of updateBooking up to its write.
LEMMA UpdateStaysFresh ==
  ASSUME TypeInv, "read" \notin Faults, NEW r \in Requests, Fresh(r),
         UpdateStep(r)
  PROVE  Fresh(r)'
PROOF
  <1> USE DEF Fresh
  <1>0. local[r] \in Local /\ r \in DOMAIN stage /\ r \in DOMAIN local
    BY DEF TypeInv
  <1>1. CASE Answer(r)
    BY <1>1 DEF Answer, Advance, TypeInv, Snapshot, SawAll, Admitted
  <1>2. CASE UpdateFind(r) /\ ~Answer(r)
    <2>1. /\ local'[r] = [local[r] EXCEPT !.current = bookings[local[r].id]]
          /\ stage'[r] = IF NeedsAvailabilityCheck(local[r].body)
                         THEN "update_rooms" ELSE "update_write"
          /\ UNCHANGED bookings
      BY <1>2 DEF UpdateFind, Keep, Advance, TypeInv, NoBookingWrite
    <2>2. /\ local'[r].body = local[r].body /\ local'[r].id = local[r].id
          /\ local'[r].current = bookings[local[r].id]
      BY <1>0, <2>1 DEF Local
    <2>3. NeedsAvailabilityCheck(local'[r].body) =
            NeedsAvailabilityCheck(local[r].body)
      BY <2>2
    <2>4. Snapshot(r)'
      BY <2>1, <2>2 DEF Snapshot
    <2>5. SawAll(r)'
      BY <2>1, <2>3 DEF SawAll, Admitted, NeedsAvailabilityCheck
    <2> QED BY <2>4, <2>5
  <1>3. CASE UpdateReadRooms(r)
    <2>1. /\ stage[r] = "update_rooms" /\ stage'[r] = "update_overlaps"
          /\ local'[r] = [local[r] EXCEPT !.available = RoomsInService]
          /\ UNCHANGED bookings
      BY <1>3 DEF UpdateReadRooms, ReadRooms, Keep, Advance, TypeInv, NoBookingWrite
    <2>2. local'[r].id = local[r].id /\ local'[r].current = local[r].current
      BY <1>0, <2>1 DEF Local
    <2> QED
      BY <2>1, <2>2 DEF Snapshot, SawAll, Admitted
  <1>4. CASE UpdateReadOverlaps(r)
    <2>1. PICK found \in OverlapResults(StayOf(r), None) :
            /\ Keep(r, [local[r] EXCEPT !.available = @ \ RoomsOf(found)])
            /\ unseen' = [unseen EXCEPT ![r] =
                 (@ \ BookingIds) \cup MissedBy(found, StayOf(r), None)]
      BY <1>4 DEF UpdateReadOverlaps, StayOf
    <2>2. /\ stage[r] = "update_overlaps" /\ stage'[r] = "update_others"
          /\ UNCHANGED bookings
      BY <1>4 DEF UpdateReadOverlaps, Advance, TypeInv, NoBookingWrite
    <2>3. local'[r] = [local[r] EXCEPT !.available = @ \ RoomsOf(found)]
      BY <2>1 DEF Keep, TypeInv
    <2>4. local'[r].id = local[r].id /\ local'[r].current = local[r].current
      BY <1>0, <2>3 DEF Local
    <2>5. MissedBy(found, StayOf(r), None) = {}
      BY <2>1, ReadsSeeAll
    <2>6. unseen'[r] = unseen[r] \ BookingIds
      BY <2>1, <2>5 DEF TypeInv
    <2> QED
      BY <2>2, <2>4, <2>6 DEF Snapshot, SawAll
  <1>5. CASE UpdateReadOthers(r) /\ ~Answer(r)
    <2>1. PICK found \in OverlapResults(StayOf(r), local[r].id) :
            /\ Advance(r, "update_write")
            /\ Keep(r, [local[r] EXCEPT !.available = {}])
            /\ unseen' =
                 IF StayOf(r).room_id \in local[r].available THEN unseen
                 ELSE [unseen EXCEPT ![r] = (@ \ BookingIds) \cup
                         MissedBy(found, StayOf(r), local[r].id)]
      BY <1>5 DEF UpdateReadOthers, StayOf
    <2>2. /\ stage[r] = "update_others" /\ stage'[r] = "update_write"
          /\ local'[r] = [local[r] EXCEPT !.available = {}]
          /\ UNCHANGED bookings
      BY <1>5, <2>1 DEF UpdateReadOthers, Advance, Keep, TypeInv, NoBookingWrite
    <2>3. local'[r].id = local[r].id /\ local'[r].current = local[r].current
      BY <1>0, <2>2 DEF Local
    <2>4. MissedBy(found, StayOf(r), local[r].id) = {}
      BY <2>1, ReadsSeeAll
    <2>5. unseen'[r] \cap BookingIds = {}
      BY <2>1, <2>2, <2>4 DEF TypeInv, SawAll
    <2> QED
      BY <2>2, <2>3, <2>5 DEF Snapshot, SawAll
  <1>6. CASE UpdateWrite(r) \/ UpdateMail(r) \/ UpdateHandle(r) \/ UpdateFails(r)
    BY <1>6
       DEF TypeInv, UpdateWrite, UpdateMail, UpdateHandle, UpdateFails,
           Rejected, Answer, Advance, Snapshot, SawAll, Admitted
  <1> QED
    BY <1>1, <1>2, <1>3, <1>4, <1>5, <1>6 DEF UpdateStep

LEMMA NextStaysFresh ==
  ASSUME TypeInv, Serial, \A r \in Requests : Fresh(r), [Next]_vars
  PROVE  \A r \in Requests : Fresh(r)'
PROOF
  <1>1. ASSUME NEW r \in Requests, ReceiveRequest(r) \/ HandleRequest(r)
        PROVE  \A s \in Requests : Fresh(s)'
    <2>1. CASE ReceiveRequest(r)
      <3>1. stage'[r] \in {"create_rooms", "update_find", "check_find",
                           "delete_find"}
        BY <2>1
           DEF TypeInv, ReceiveRequest, PostBooking, PatchBooking, PatchCheck,
               DeleteBooking, Begin, Advance
      <3> QED
        BY <3>1
           DEF Fresh, Snapshot, SawAll, Admitted, Serial, OneRequestAtATime
    <2>2. CASE CheckStep(r)
      BY <2>2
         DEF TypeInv, CheckStep, CheckFind, CheckWrite, CheckMail, CheckFails,
             Rejected, Answer, Advance, Fresh, Snapshot, SawAll, Admitted,
             Serial, OneRequestAtATime
    <2>3. CASE DeleteStep(r)
      BY <2>3
         DEF TypeInv, DeleteStep, DeleteFind, DeleteMail, DeleteHandle,
             DeleteRemove, DeleteFails, Rejected, Answer, Advance, Fresh,
             Snapshot, SawAll, Admitted, Serial, OneRequestAtATime
    <2>4. CASE CreateStep(r) \/ UpdateStep(r)
      BY <2>4, CreateStaysFresh, UpdateStaysFresh DEF Serial, OneRequestAtATime
    <2> QED
      BY <1>1, <2>1, <2>2, <2>3, <2>4 DEF HandleRequest
  <1>2. CASE RoomEndpointStep
    <2>1. /\ UNCHANGED <<bookings, stage, local>>
          /\ \A r \in Requests : unseen'[r] \subseteq unseen[r] \cup RoomIds
      BY <1>2 DEF RoomEndpointStep
    <2> QED
      BY <2>1, BookingsAssumption DEF Fresh, Snapshot, SawAll, Admitted
  <1>3. CASE Crash
    BY <1>3 DEF Crash, Fresh, Snapshot, SawAll, Admitted
  <1>4. CASE UNCHANGED vars
    BY <1>4 DEF vars, bookingVars, Fresh, Snapshot, SawAll, Admitted
  <1> QED
    BY <1>1, <1>2, <1>3, <1>4 DEF Next, BookingsStep

-----------------------------------------------------------------------------
(* Every write is a step of the calendar. *)

Confirmed(booking) == booking # None /\ booking.status = "confirmed"

\* A document that is written where no confirmed booking is in its way.
LEMMA WriteIsCalendarStep ==
  ASSUME TypeInv, NEW b \in BookingIds, NEW new \in Booking \cup {None},
         bookings' = [bookings EXCEPT ![b] = new],
         Confirmed(new) =>
           \A c \in BookingIds \ {b} :
             Confirmed(bookings[c]) /\ bookings[c].room_id = new.room_id =>
               ~Overlapping(new, bookings[c])
  PROVE  Calendar!Next
PROOF
  <1>1. CalendarOfBookings' = [CalendarOfBookings EXCEPT ![b] = HeldStay(new)]
    BY DEF CalendarOfBookings, HeldStay, TypeInv
  <1>2. CASE ~Confirmed(new)
    <2>1. HeldStay(new) = None
      BY <1>2 DEF HeldStay, Confirmed
    <2> QED
      BY <1>1, <2>1 DEF Calendar!Next, Calendar!Release
  <1>3. CASE Confirmed(new)
    <2> DEFINE stay == HeldStay(new)
    <2>1. stay = [room |-> new.room_id, from |-> new.clock_in,
                  to |-> new.clock_out]
      BY <1>3 DEF HeldStay, Confirmed
    <2>2. stay \in Calendar!Stay
      BY <1>3, <2>1 DEF Confirmed, Booking, Calendar!Stay
    <2>3. ASSUME NEW c \in BookingIds \ {b}, CalendarOfBookings[c] # None
          PROVE  ~Calendar!Clash(stay, CalendarOfBookings[c])
      <3>1. /\ Confirmed(bookings[c])
            /\ CalendarOfBookings[c] =
                 [room |-> bookings[c].room_id, from |-> bookings[c].clock_in,
                  to |-> bookings[c].clock_out]
        BY <2>3 DEF CalendarOfBookings, HeldStay, Confirmed
      <3>2. /\ bookings[c].clock_in \in Int /\ bookings[c].clock_out \in Int
            /\ new.clock_in \in Int /\ new.clock_out \in Int
        BY <1>3, <3>1, BookingsAssumption DEF TypeInv, Confirmed, Booking
      <3> QED
        BY <1>3, <2>1, <3>1, <3>2 DEF Calendar!Clash, Overlapping
    <2>4. Calendar!FreeFor(b, stay)
      BY <2>3 DEF Calendar!FreeFor
    <2>5. Calendar!Reserve(b, stay)
      BY <1>1, <2>4 DEF Calendar!Reserve
    <2> QED
      BY <2>2, <2>5 DEF Calendar!Next
  <1> QED BY <1>2, <1>3

\* A write that leaves room, dates and status of a booking is none at all.
LEMMA SameStayIsNoStep ==
  ASSUME TypeInv, NEW b \in BookingIds, NEW new,
         bookings' = [bookings EXCEPT ![b] = new],
         HeldStay(new) = HeldStay(bookings[b])
  PROVE  UNCHANGED CalendarOfBookings
  BY DEF CalendarOfBookings, TypeInv

\* What has been admitted, with nothing unseen, is free.
LEMMA AdmittedIsFree ==
  ASSUME NEW r \in Requests, Admitted(r), AdmissionInv(r), Fresh(r)
  PROVE  \A c \in BookingIds \ {local[r].id} :
           /\ Confirmed(bookings[c])
           /\ bookings[c].room_id = StayOf(r).room_id
           => ~Overlapping(StayOf(r), bookings[c])
  BY DEF AdmissionInv, FindOverlappingBookings, Fresh, SawAll, Confirmed

LEMMA InsertIsCalendarStep ==
  ASSUME TypeInv, NEW r \in Requests, AdmissionInv(r), Fresh(r), CreateInsert(r)
  PROVE  Calendar!Next
PROOF
  <1> DEFINE body == local[r].body
             new == CreatedBooking(body)
  <1>1. body \in NewBooking /\ local[r].id = None /\ stage[r] = "create_insert"
    BY BodiesAreTyped DEF CreateInsert, TypeInv, StagesFit, StageFits
  <1>2. PICK b \in freshBookings : bookings' = [bookings EXCEPT ![b] = new]
    BY DEF CreateInsert
  <1>3. b \in BookingIds /\ new \in Booking
    BY <1>1, <1>2, CreatedBookingType DEF TypeInv
  <1>4. /\ StayOf(r).room_id = new.room_id
        /\ StayOf(r).clock_in = new.clock_in
        /\ StayOf(r).clock_out = new.clock_out
    BY <1>1 DEF StayOf, RequestedStay, CreatedBooking, Given, NewBooking
  <1>5. \A c \in BookingIds :
          Confirmed(bookings[c]) /\ bookings[c].room_id = new.room_id =>
            ~Overlapping(new, bookings[c])
    BY <1>1, <1>4, AdmittedIsFree, BookingsAssumption
       DEF Admitted, Overlapping
  <1> HIDE DEF new
  <1> QED
    BY <1>2, <1>3, <1>5, WriteIsCalendarStep

LEMMA UpdateIsCalendarStep ==
  ASSUME TypeInv, Serial, NEW r \in Requests, AdmissionInv(r), Fresh(r),
         UpdateWrite(r)
  PROVE  Calendar!Next \/ UNCHANGED CalendarOfBookings
PROOF
  <1> DEFINE b == local[r].id
             body == local[r].body
             new == UpdatedBooking(bookings[b], body, {})
  <1>1. /\ stage[r] = "update_write" /\ b \in BookingIds
        /\ body \in UpdateBodies /\ body \in BookingPatch
    BY BodiesAreTyped
       DEF UpdateWrite, TypeInv, StagesFit, StageFits, NamingStages
  <1>2. CASE bookings[b] = None
    BY <1>2 DEF UpdateWrite, CalendarOfBookings
  <1>3. CASE bookings[b] # None
    <2>1. bookings' = [bookings EXCEPT ![b] = new]
      BY <1>3 DEF UpdateWrite, TypeInv
    <2>2. bookings[b] \in Booking
      BY <1>1, <1>3 DEF TypeInv
    <2>3. new \in Booking
      BY <1>1, <2>2, UpdatedBookingType
    <2>4. CASE NeedsAvailabilityCheck(body)
      <3>1. local[r].current = bookings[b]
        BY <1>1 DEF Fresh, Snapshot
      <3>2. /\ StayOf(r).room_id = new.room_id
            /\ StayOf(r).clock_in = new.clock_in
            /\ StayOf(r).clock_out = new.clock_out
        BY <3>1 DEF StayOf, RequestedStay, UpdatedBooking
      <3>3. \A c \in BookingIds \ {b} :
              Confirmed(bookings[c]) /\ bookings[c].room_id = new.room_id =>
                ~Overlapping(new, bookings[c])
        BY <1>1, <2>4, <3>2, AdmittedIsFree DEF Admitted, Overlapping
      <3> HIDE DEF new
      <3> QED
        BY <1>1, <2>1, <2>3, <3>3, WriteIsCalendarStep
    <2>5. CASE ~NeedsAvailabilityCheck(body)
      <3>1. /\ new.room_id = bookings[b].room_id
            /\ new.clock_in = bookings[b].clock_in
            /\ new.clock_out = bookings[b].clock_out
            /\ new.status = Given(body.status, bookings[b].status)
        BY <2>5 DEF UpdatedBooking, Given, NeedsAvailabilityCheck
      <3>2. body.status # "confirmed"
        BY <1>1, <2>5 DEF Serial, NoUncheckedConfirmation
      <3>3. CASE Confirmed(new)
        <4>1. bookings[b].status = "confirmed"
          BY <3>1, <3>2, <3>3 DEF Confirmed, Given
        <4>2. HeldStay(new) = HeldStay(bookings[b])
          BY <1>3, <3>1, <3>3, <4>1 DEF HeldStay, Confirmed
        <4> HIDE DEF new
        <4> QED
          BY <1>1, <2>1, <4>2, SameStayIsNoStep
      <3>4. CASE ~Confirmed(new)
        <4> HIDE DEF new
        <4> QED
          BY <1>1, <2>1, <2>3, <3>4, WriteIsCalendarStep
      <3> QED BY <3>3, <3>4
    <2> QED BY <2>4, <2>5
  <1> QED BY <1>2, <1>3

LEMMA CheckIsCalendarStep ==
  ASSUME TypeInv, Serial, NEW r \in Requests, CheckWrite(r)
  PROVE  Calendar!Next \/ UNCHANGED CalendarOfBookings
PROOF
  <1> DEFINE b == local[r].id
             body == local[r].body
             new == UpdatedBooking(bookings[b], body, local[r].stamp)
  <1>1. /\ b \in BookingIds /\ body \in CheckBodies /\ body \in BookingPatch
        /\ local[r].stamp \in SUBSET Sides
    BY BodiesAreTyped
       DEF CheckWrite, TypeInv, StagesFit, StageFits, NamingStages, Local
  <1>2. CASE bookings[b] = None
    BY <1>2 DEF CheckWrite, CalendarOfBookings
  <1>3. CASE bookings[b] # None
    <2>1. bookings' = [bookings EXCEPT ![b] = new]
      BY <1>3 DEF CheckWrite, TypeInv
    <2>2. bookings[b] \in Booking
      BY <1>1, <1>3 DEF TypeInv
    <2>3. new \in Booking
      BY <1>1, <2>2, UpdatedBookingType
    <2>4. ~NeedsAvailabilityCheck(body) /\ body.status # "confirmed"
      BY <1>1 DEF Serial, NoUncheckedConfirmation
    <2>5. /\ new.room_id = bookings[b].room_id
          /\ new.clock_in = bookings[b].clock_in
          /\ new.clock_out = bookings[b].clock_out
          /\ new.status = Given(body.status, bookings[b].status)
      BY <2>4 DEF UpdatedBooking, Given, NeedsAvailabilityCheck
    <2>6. CASE Confirmed(new)
      <3>1. bookings[b].status = "confirmed"
        BY <2>4, <2>5, <2>6 DEF Confirmed, Given
      <3>2. HeldStay(new) = HeldStay(bookings[b])
        BY <1>3, <2>5, <2>6, <3>1 DEF HeldStay, Confirmed
      <3> HIDE DEF new
      <3> QED
        BY <1>1, <2>1, <3>2, SameStayIsNoStep
    <2>7. CASE ~Confirmed(new)
      <3> HIDE DEF new
      <3> QED
        BY <1>1, <2>1, <2>3, <2>7, WriteIsCalendarStep
    <2> QED BY <2>6, <2>7
  <1> QED BY <1>2, <1>3

LEMMA RemovalIsCalendarStep ==
  ASSUME TypeInv, NEW r \in Requests, DeleteRemove(r)
  PROVE  Calendar!Next
PROOF
  <1>1. local[r].id \in BookingIds
    BY DEF DeleteRemove, TypeInv, StagesFit, StageFits, NamingStages
  <1>2. bookings' = [bookings EXCEPT ![local[r].id] = None]
    BY DEF DeleteRemove
  <1> QED
    BY <1>1, <1>2, WriteIsCalendarStep DEF Confirmed

LEMMA NextKeepsCalendar ==
  ASSUME TypeInv, Serial, \A r \in Requests : AdmissionInv(r) /\ Fresh(r),
         [Next]_vars
  PROVE  [Calendar!Next]_CalendarOfBookings
PROOF
  <1>1. UNCHANGED bookings => UNCHANGED CalendarOfBookings
    BY DEF CalendarOfBookings
  <1>2. ASSUME NEW r \in Requests, ReceiveRequest(r) \/ HandleRequest(r)
        PROVE  [Calendar!Next]_CalendarOfBookings
    BY <1>1, <1>2, OtherStepsAreQuiet, InsertIsCalendarStep,
       UpdateIsCalendarStep, CheckIsCalendarStep, RemovalIsCalendarStep
       DEF WritingStep, Quiet
  <1>3. CASE RoomEndpointStep \/ Crash \/ UNCHANGED vars
    BY <1>1, <1>3 DEF RoomEndpointStep, Crash, vars, bookingVars
  <1> QED
    BY <1>2, <1>3 DEF Next, BookingsStep

-----------------------------------------------------------------------------

LEMMA InitKeepsCalendar == Init => Calendar!Init
  BY DEF Init, Calendar!Init, CalendarOfBookings, HeldStay

\* When booking requests come one at a time, reads do not fail and nothing is
\* confirmed around the availability check, the confirmed bookings are a
\* calendar of rooms, through failed writes, crashes and room requests.
THEOREM BookingsImplementCalendar == Serial => (Spec => BookingsKeepCalendar)
  <1> DEFINE SerialInv == \A r \in Requests : AdmissionInv(r) /\ Fresh(r)
  <1>1. Init => SerialInv
    BY DEF Init, AdmissionInv, Admitted, Fresh, Snapshot, SawAll
  <1>2. Serial /\ TypeInv /\ SerialInv /\ [Next]_vars => SerialInv'
    BY NextKeepsAdmission, NextStaysFresh
  <1>3. Serial /\ TypeInv /\ SerialInv /\ [Next]_vars
          => [Calendar!Next]_CalendarOfBookings
    BY NextKeepsCalendar
  <1>4. ASSUME Serial PROVE Spec => BookingsKeepCalendar
    <2> HIDE DEF SerialInv
    <2>1. TypeInv /\ SerialInv /\ [Next]_vars => SerialInv'
      BY <1>2, <1>4
    <2>2. TypeInv /\ SerialInv /\ [Next]_vars
            => [Calendar!Next]_CalendarOfBookings
      BY <1>3, <1>4
    <2> QED
      BY <1>1, <2>1, <2>2, InitKeepsCalendar, BookingsTypeInvariant, PTL
         DEF Spec, BookingsKeepCalendar, Calendar!Spec
  <1> QED BY <1>4

\* A calendar never gives one night of a room to two bookings.
LEMMA CalendarIsExclusive == Calendar!Spec => []Calendar!Exclusive
PROOF
  <1>1. Calendar!Init => Calendar!Exclusive
    BY DEF Calendar!Init, Calendar!Exclusive
  <1>2. Calendar!Exclusive /\ [Calendar!Next]_CalendarOfBookings
          => Calendar!Exclusive'
    <2> SUFFICES ASSUME Calendar!Exclusive, Calendar!Next
                 PROVE  Calendar!Exclusive'
      BY DEF Calendar!Exclusive
    <2>1. CASE \E b \in BookingIds : Calendar!Release(b)
      BY <2>1 DEF Calendar!Exclusive, Calendar!Release, CalendarOfBookings
    <2>2. CASE \E b \in BookingIds, s \in Calendar!Stay : Calendar!Reserve(b, s)
      <3>1. PICK b \in BookingIds, s \in Calendar!Stay : Calendar!Reserve(b, s)
        BY <2>2
      <3>2. /\ CalendarOfBookings'[b] = s
            /\ \A c \in BookingIds \ {b} :
                 CalendarOfBookings'[c] = CalendarOfBookings[c]
        BY <3>1 DEF Calendar!Reserve, CalendarOfBookings
      <3>3. \A c \in BookingIds \ {b} :
              CalendarOfBookings[c] # None =>
                /\ ~Calendar!Clash(s, CalendarOfBookings[c])
                /\ ~Calendar!Clash(CalendarOfBookings[c], s)
        BY <3>1 DEF Calendar!Reserve, Calendar!FreeFor, Calendar!Clash
      <3> QED
        BY <3>2, <3>3 DEF Calendar!Exclusive
    <2> QED BY <2>1, <2>2 DEF Calendar!Next
  <1> QED BY <1>1, <1>2, PTL DEF Calendar!Spec

\* Under the same conditions no room is ever double-booked.
THEOREM SerialBookingsNeverClash == Serial => (Spec => []NoDoubleBooking)
  <1>1. TypeInv /\ Calendar!Exclusive => NoDoubleBooking
    <2> SUFFICES ASSUME TypeInv, Calendar!Exclusive,
                        NEW b \in BookingIds, NEW c \in BookingIds, b # c,
                        Confirmed(bookings[b]), Confirmed(bookings[c]),
                        bookings[b].room_id = bookings[c].room_id
                 PROVE  ~Overlapping(bookings[b], bookings[c])
      BY DEF NoDoubleBooking, Confirmed
    <2>1. ASSUME NEW d \in BookingIds, Confirmed(bookings[d])
          PROVE  /\ CalendarOfBookings[d] =
                      [room |-> bookings[d].room_id,
                       from |-> bookings[d].clock_in,
                       to |-> bookings[d].clock_out]
                 /\ CalendarOfBookings[d] # None
                 /\ bookings[d].clock_in \in Int /\ bookings[d].clock_out \in Int
      BY <2>1, BookingsAssumption
         DEF CalendarOfBookings, HeldStay, Confirmed, TypeInv, Booking
    <2> DEFINE s == CalendarOfBookings[b]
               t == CalendarOfBookings[c]
    <2>2. ~Calendar!Clash(s, t)
      BY <2>1 DEF Calendar!Exclusive
    <2>3. /\ s.room = bookings[b].room_id /\ t.room = bookings[c].room_id
          /\ s.from = bookings[b].clock_in /\ s.to = bookings[b].clock_out
          /\ t.from = bookings[c].clock_in /\ t.to = bookings[c].clock_out
      BY DEF CalendarOfBookings, HeldStay, Confirmed
    <2>4. /\ bookings[b].clock_in \in Int /\ bookings[b].clock_out \in Int
          /\ bookings[c].clock_in \in Int /\ bookings[c].clock_out \in Int
      BY <2>1
    <2> HIDE DEF s, t
    <2> QED
      BY <2>2, <2>3, <2>4 DEF Calendar!Clash, Overlapping
  <1>2. ASSUME Serial PROVE Spec => []NoDoubleBooking
    <2>1. Spec => Calendar!Spec
      BY <1>2, BookingsImplementCalendar DEF BookingsKeepCalendar
    <2> QED
      BY <1>1, <2>1, CalendarIsExclusive, BookingsTypeInvariant, PTL
  <1> QED BY <1>2

=============================================================================
