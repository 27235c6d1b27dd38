SPECIFICATION Spec
CONSTANTS
  RoomIds <- TwoRooms
  RoomNumbers <- TwoNumbers
  RoomRequests <- NoRoomRequest
  RoomBodies <- NoRoomBody
  InitialRooms <- TwoStoredRooms
  BookingIds <- TwoBookings
  Requests <- TwoRequests
  Days <- ThreeDays
  CreateBodies <- TwoRoomBodies
  UpdateBodies <- MovingUpdateBodies
  CheckBodies <- NoBody
  Faults = {"read"}
  None = None
  Staff = Staff
  x1 = x1
  x2 = x2
  n1 = n1
  n2 = n2
  q1 = q1
  r1 = r1
  r2 = r2
  b1 = b1
  b2 = b2
INVARIANTS
  BookingsTypeOK
  AdmissionSawNoConflict
SYMMETRY RequestSymmetry
