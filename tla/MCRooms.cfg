SPECIFICATION RoomsSpec
CONSTANTS
  RoomIds <- MCRoomIds
  RoomNumbers <- MCRoomNumbers
  RoomRequests <- MCRoomRequests
  RoomBodies <- MCRoomBodies
  InitialRooms <- MCInitialRooms
  Faults = {"read", "write", "crash"}
  None = None
  Staff = Staff
  x1 = x1
  x2 = x2
  x3 = x3
  q1 = q1
  q2 = q2
  n1 = n1
  n2 = n2
INVARIANTS
  RoomsTypeOK
  RoomNumbersUnique
PROPERTIES
  DeletedRoomStaysDeleted
SYMMETRY RoomSymmetry
