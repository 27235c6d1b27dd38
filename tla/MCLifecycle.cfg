SPECIFICATION Spec
CONSTANTS
  RoomIds <- OneRoom
  RoomNumbers <- TwoNumbers
  RoomRequests <- OneRoomRequest
  RoomBodies <- NoRoomBody
  InitialRooms <- OneStoredRoom
  BookingIds <- OneBooking
  Requests <- TwoRequests
  Days <- ThreeDays
  CreateBodies <- OneCreateBody
  UpdateBodies <- CancelOnly
  CheckBodies <- CheckInAndUndo
  Faults = {"read","write","crash"}
  None = None
  Staff = Staff
  x1 = x1
  x2 = x2
  n1 = n1
  n2 = n2
  q1 = q1
  r1 = r1
  r2 = r2
  b1 = b1
  b2 = b2
INVARIANTS
  CreationSawRoomInService
  CheckedHasTimestamp
  DeletionWasAnnounced
PROPERTIES
  RoomsSpec
  DeletedBookingStaysDeleted
SYMMETRY RequestSymmetry
