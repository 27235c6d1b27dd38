SPECIFICATION Spec
CONSTANTS
  RoomIds <- TwoRooms
  RoomNumbers <- TwoNumbers
  RoomRequests <- NoRoomRequest
  RoomBodies <- NoRoomBody
  InitialRooms <- TwoStoredRooms
  BookingIds <- TwoBookings
  Requests <- OneRequest
  Days <- ThreeDays
  CreateBodies <- NightCreateBodies
  UpdateBodies <- CheckedUpdateBodies
  CheckBodies <- NoBody
  Faults = {"write", "crash"}
  None = None
  Staff = Staff
  x1 = x1
  x2 = x2
  n1 = n1
  n2 = n2
  q1 = q1
  r1 = r1
  r2 = r2
  b1 = b1
  b2 = b2
INVARIANTS
  NoDoubleBooking
PROPERTIES
  BookingsKeepCalendar
SYMMETRY RequestSymmetry
