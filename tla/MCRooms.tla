------------------------------ MODULE MCRooms ------------------------------
(***************************************************************************)
(* Small instances of Rooms: one stored room, two numbers, two concurrent  *)
(* requests, every fault.                                                  *)
(***************************************************************************)
EXTENDS Rooms, TLC

CONSTANTS x1, x2, x3, q1, q2, n1, n2

MCRoomIds == {x1, x2, x3}
MCRoomNumbers == {n1, n2}
MCRoomRequests == {q1, q2}

MCRoomBodies ==
  {[room_number |-> n1, status |-> None],
   [room_number |-> n2, status |-> "maintenance"],
   [room_number |-> None, status |-> "occupied"]}

MCInitialRooms ==
  [x \in MCRoomIds |-> IF x = x1 THEN [room_number |-> n1, status |-> "available"]
                                 ELSE None]

RoomSymmetry == Permutations({x2, x3}) \cup Permutations(MCRoomRequests)

=============================================================================
