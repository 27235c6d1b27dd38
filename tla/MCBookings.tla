----------------------------- MODULE MCBookings -----------------------------
(***************************************************************************)
(* Small instances of Bookings: two rooms, two bookings, three days.  The  *)
(* .cfg files choose the bodies, the concurrent requests and the faults.   *)
(***************************************************************************)
EXTENDS Bookings, TLC

CONSTANTS x1, x2, n1, n2, q1, r1, r2, b1, b2

TwoRooms == {x1, x2}
TwoNumbers == {n1, n2}
TwoStoredRooms ==
  [x \in TwoRooms |-> [room_number |-> IF x = x1 THEN n1 ELSE n2,
                       status      |-> "available"]]
OneRoom == {x1}
OneStoredRoom == [x \in OneRoom |-> [room_number |-> n1, status |-> "available"]]
OneRoomRequest == {q1}
NoRoomRequest == {}
NoRoomBody == {}

OneBooking == {b1}
TwoBookings == {b1, b2}
OneRequest == {r1}
TwoRequests == {r1, r2}
ThreeDays == 1..3

NoBody == {}

\* A confirmed booking of room 1 for both nights, and one of the second night
\* only that takes the default status.
OneCreateBody ==
  {[EmptyBookingPatch EXCEPT !.room_id = x1, !.clock_in = 1, !.clock_out = 3,
                             !.status = "confirmed"]}

TwoCreateBodies ==
  {[EmptyBookingPatch EXCEPT !.room_id = x1, !.clock_in = 1, !.clock_out = 3,
                             !.status = "confirmed"],
   [EmptyBookingPatch EXCEPT !.room_id = x1, !.clock_in = 2, !.clock_out = 3]}

\* One booking for each night, in either room, confirmed.
NightCreateBodies ==
  {[EmptyBookingPatch EXCEPT !.room_id = x, !.clock_in = d, !.clock_out = d + 1,
                             !.status = "confirmed"] : x \in TwoRooms, d \in 1..2}

\* The first night in one room, the second in the other, confirmed.
TwoRoomBodies ==
  {[EmptyBookingPatch EXCEPT !.room_id = x, !.clock_in = IF x = x1 THEN 1 ELSE 2,
                             !.clock_out = IF x = x1 THEN 2 ELSE 3,
                             !.status = "confirmed"] : x \in TwoRooms}

StatusBody(status) == [EmptyBookingPatch EXCEPT !.status = status]

CancelOnly == {StatusBody("canceled")}

CancelOrReopen == {StatusBody("canceled"), StatusBody("pending")}

\* Come a day later, go to room 2, and confirm.
MovingUpdateBodies ==
  {StatusBody("confirmed"), [EmptyBookingPatch EXCEPT !.room_id = x2],
   [EmptyBookingPatch EXCEPT !.clock_in = 2, !.clock_out = 3]}

MoveOnly ==
  {[EmptyBookingPatch EXCEPT !.room_id = x2],
   [EmptyBookingPatch EXCEPT !.clock_in = 2, !.clock_out = 3]}

\* Cancel, and confirm with new dates or a new room.
CheckedUpdateBodies ==
  {StatusBody("canceled"), StatusBody("pending")}
    \cup {[EmptyBookingPatch EXCEPT !.room_id = x, !.status = "confirmed"] :
            x \in TwoRooms}
    \cup {[EmptyBookingPatch EXCEPT !.clock_in = 1, !.clock_out = d] :
            d \in 2..3}

SetSides(check, uncheck) ==
  [EmptyBookingPatch EXCEPT !.check = check, !.uncheck = uncheck]

CheckInOnly == {SetSides({"in"}, {})}

\* Check in, and take the check-in back.
CheckInAndUndo == {SetSides({"in"}, {}), SetSides({}, {"in"})}

RequestSymmetry == Permutations(Requests) \cup Permutations(BookingIds)

=============================================================================
