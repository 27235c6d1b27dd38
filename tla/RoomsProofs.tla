---------------------------- MODULE RoomsProofs ----------------------------
(***************************************************************************)
(* Rooms for every set of ids, numbers, requests and bodies: the types,    *)
(* the uniqueness of room numbers and the finality of a deletion.          *)
(***************************************************************************)
EXTENDS Rooms, TLAPS

\* The inductive invariant: the uniqueness needs the types, and nothing of
\* where the requests stand, because every write goes through the index.
RoomsInv == RoomsTypeOK /\ RoomNumbersUnique

-----------------------------------------------------------------------------
(* Facts about the database service. *)

\* Merging a patch into a room gives a room, with the number of the patch or
\* else of the room.
LEMMA MergedRoomType ==
  ASSUME NEW room \in Room, NEW patch \in RoomPatch
  PROVE  /\ MergedRoom(room, patch) \in Room
         /\ MergedRoom(room, patch).room_number =
              Given(patch.room_number, room.room_number)
  BY RoomsAssumption DEF MergedRoom, Given, Room, RoomPatch

\* A write of room x keeps the numbers distinct when its number is free for x.
LEMMA WriteKeepsNumbersDistinct ==
  ASSUME RoomsTypeOK, RoomNumbersUnique,
         NEW x \in RoomIds, NEW room \in Room,
         NumberFree(room.room_number, x)
  PROVE  DistinctNumbers([rooms EXCEPT ![x] = room])
  BY RoomsAssumption
     DEF RoomsTypeOK, RoomNumbersUnique, DistinctNumbers, NumberFree

\* An update through findRoomByIdAndUpdate keeps the collection well formed
\* and writes only the room it names.
LEMMA UpdateKeepsRooms ==
  ASSUME RoomsInv,
         NEW id \in RoomIds, NEW patch \in RoomPatch, NEW user,
         FindRoomByIdAndUpdate(id, patch, user)
  PROVE  /\ rooms' \in [RoomIds -> Room \cup {None}]
         /\ DistinctNumbers(rooms')
         /\ \A x \in RoomIds : rooms[x] = None => rooms'[x] = None
PROOF
  <1>1. CASE CanUpdateRoom(id, patch, user)
    <2> DEFINE room == MergedRoom(rooms[id], patch)
    <2>1. rooms[id] \in Room
      BY <1>1 DEF RoomsInv, RoomsTypeOK, CanUpdateRoom
    <2>2. /\ room \in Room
          /\ room.room_number = Given(patch.room_number, rooms[id].room_number)
      BY <2>1, MergedRoomType
    <2>3. NumberFree(room.room_number, id)
      BY <1>1, <2>1, <2>2, RoomsAssumption
         DEF CanUpdateRoom, NumberFree, Given, RoomsInv, RoomNumbersUnique,
             DistinctNumbers, RoomsTypeOK
    <2>4. rooms' = [rooms EXCEPT ![id] = room]
      BY <1>1 DEF FindRoomByIdAndUpdate
    <2> HIDE DEF room
    <2>5. DistinctNumbers(rooms')
      BY <2>2, <2>3, <2>4, WriteKeepsNumbersDistinct DEF RoomsInv
    <2> QED
      BY <1>1, <2>2, <2>4, <2>5 DEF RoomsInv, RoomsTypeOK, CanUpdateRoom
  <1>2. CASE ~CanUpdateRoom(id, patch, user)
    BY <1>2 DEF FindRoomByIdAndUpdate, RoomsInv, RoomsTypeOK, RoomNumbersUnique
  <1> QED BY <1>1, <1>2

-----------------------------------------------------------------------------
(* Preservation. *)

LEMMA RoomsInitInv == RoomsInit => RoomsInv
  BY RoomsAssumption
     DEF RoomsInit, RoomsInv, RoomsTypeOK, RoomNumbersUnique, RoomRequest,
         IdleRoomRequest, EmptyRoomPatch, RoomPatch, RoomStages

\* The request's own record keeps its type when it moves on or is answered.
LEMMA RoomRequestTypes ==
  ASSUME RoomsTypeOK, NEW q \in RoomRequests
  PROVE  /\ IdleRoomRequest \in RoomRequest
         /\ \A s \in RoomStages :
              Goto(q, s) => roomRequests' \in [RoomRequests -> RoomRequest]
         /\ AnswerRoom(q) => roomRequests' \in [RoomRequests -> RoomRequest]
PROOF
  <1>1. IdleRoomRequest \in RoomRequest
    BY DEF IdleRoomRequest, RoomRequest, EmptyRoomPatch, RoomPatch, RoomStages
  <1>2. ASSUME NEW s \in RoomStages, Goto(q, s)
        PROVE  roomRequests' \in [RoomRequests -> RoomRequest]
    BY <1>2 DEF Goto, RoomsTypeOK, RoomRequest
  <1>3. ASSUME AnswerRoom(q)
        PROVE  roomRequests' \in [RoomRequests -> RoomRequest]
    BY <1>1, <1>3 DEF AnswerRoom, RoomsTypeOK
  <1> QED BY <1>1, <1>2, <1>3

LEMMA ReceiveKeepsInv ==
  ASSUME RoomsInv, NEW q \in RoomRequests, ReceiveRoomRequest(q)
  PROVE  RoomsInv' /\ UNCHANGED <<rooms, freshRooms>>
PROOF
  <1>1. ASSUME NEW s \in RoomStages, NEW id \in RoomIds \cup {None},
               NEW body \in RoomPatch, BeginRoom(q, s, id, body)
        PROVE  RoomsInv' /\ UNCHANGED <<rooms, freshRooms>>
    <2>1. [stage |-> s, id |-> id, body |-> body] \in RoomRequest
      BY DEF RoomRequest
    <2> QED
      BY <1>1, <2>1 DEF BeginRoom, RoomsInv, RoomsTypeOK, RoomNumbersUnique
  <1>2. CASE \E body \in RoomBodies : PostRoom(q, body)
    BY <1>1, <1>2, RoomsAssumption DEF PostRoom, RoomStages
  <1>3. CASE \E id \in RoomIds \ freshRooms, body \in RoomBodies :
               PatchRoom(q, id, body)
    BY <1>1, <1>3, RoomsAssumption DEF PatchRoom, RoomStages
  <1>4. CASE \E id \in RoomIds \ freshRooms, status \in RoomStatuses :
               PatchRoomStatus(q, id, status)
    <2>1. \A status \in RoomStatuses :
            [EmptyRoomPatch EXCEPT !.status = status] \in RoomPatch
      BY DEF EmptyRoomPatch, RoomPatch
    <2> QED BY <1>1, <1>4, <2>1 DEF PatchRoomStatus, RoomStages
  <1>5. CASE \E id \in RoomIds \ freshRooms : DeleteRoom(q, id)
    <2>1. EmptyRoomPatch \in RoomPatch
      BY DEF EmptyRoomPatch, RoomPatch
    <2> QED BY <1>1, <1>5, <2>1 DEF DeleteRoom, RoomStages
  <1> QED
    BY <1>2, <1>3, <1>4, <1>5 DEF ReceiveRoomRequest

LEMMA CreateNewRoomKeepsInv ==
  ASSUME RoomsInv, NEW q \in RoomRequests, CreateNewRoom(q)
  PROVE  RoomsInv' /\ (\A y \in RoomIds \ freshRooms : rooms'[y] = rooms[y])
PROOF
  <1> DEFINE body == roomRequests[q].body
             room == MergedRoom([room_number |-> body.room_number,
                                 status |-> "available"], body)
  <1>1. body \in RoomPatch /\ body.room_number \in RoomNumbers
    BY DEF RoomsInv, RoomsTypeOK, RoomRequest, CreateNewRoom, RoomPatch
  <1>2. [room_number |-> body.room_number, status |-> "available"] \in Room
    BY <1>1 DEF Room, RoomStatuses
  <1>3. /\ room \in Room
        /\ room.room_number = body.room_number
    BY <1>1, <1>2, MergedRoomType DEF Given
  <1>4. PICK x \in freshRooms :
          /\ NumberFree(body.room_number, x)
          /\ rooms' = [rooms EXCEPT ![x] = room]
          /\ freshRooms' = freshRooms \ {x}
    BY DEF CreateNewRoom
  <1>5. x \in RoomIds
    BY <1>4 DEF RoomsInv, RoomsTypeOK
  <1>6. DistinctNumbers(rooms')
    <2> HIDE DEF room
    <2> QED
      BY <1>3, <1>4, <1>5, WriteKeepsNumbersDistinct DEF RoomsInv
  <1>7. roomRequests' \in [RoomRequests -> RoomRequest]
    BY RoomRequestTypes DEF CreateNewRoom, RoomsInv
  <1> HIDE DEF room, body
  <1> QED
    BY <1>3, <1>4, <1>5, <1>6, <1>7
       DEF RoomsInv, RoomsTypeOK, RoomNumbersUnique

LEMMA UpdateRoomWriteKeepsInv ==
  ASSUME RoomsInv, NEW q \in RoomRequests, UpdateRoomWrite(q),
         roomRequests[q].id \in RoomIds
  PROVE  RoomsInv' /\ (\A x \in RoomIds : rooms[x] = None => rooms'[x] = None)
PROOF
  <1>1. roomRequests[q].body \in RoomPatch
    BY DEF RoomsInv, RoomsTypeOK, RoomRequest
  <1>2. roomRequests' \in [RoomRequests -> RoomRequest] /\ UNCHANGED freshRooms
    BY RoomRequestTypes DEF UpdateRoomWrite, RoomsInv
  <1>3. CASE FindRoomByIdAndUpdate(roomRequests[q].id, roomRequests[q].body, Staff)
    BY <1>1, <1>2, <1>3, UpdateKeepsRooms
       DEF RoomsInv, RoomsTypeOK, RoomNumbersUnique
  <1>4. CASE UNCHANGED rooms
    BY <1>2, <1>4 DEF RoomsInv, RoomsTypeOK, RoomNumbersUnique
  <1> QED
    BY <1>3, <1>4 DEF UpdateRoomWrite

LEMMA HardDeleteRoomKeepsInv ==
  ASSUME RoomsInv, NEW q \in RoomRequests, HardDeleteRoom(q)
  PROVE  RoomsInv' /\ (\A x \in RoomIds : rooms[x] = None => rooms'[x] = None)
PROOF
  <1>1. roomRequests' \in [RoomRequests -> RoomRequest] /\ UNCHANGED freshRooms
    BY RoomRequestTypes DEF HardDeleteRoom, RoomsInv
  <1> QED
    BY <1>1, RoomsAssumption
       DEF HardDeleteRoom, RoomsInv, RoomsTypeOK, RoomNumbersUnique,
           DistinctNumbers

\* The steps that leave the collection alone.
LEMMA OtherStepsKeepInv ==
  ASSUME RoomsInv, NEW q \in RoomRequests,
         \/ CreateRoomFind(q)
         \/ CreateNewRoomFails(q)
         \/ UpdateRoomFind(q)
  PROVE  RoomsInv' /\ UNCHANGED <<rooms, freshRooms>>
PROOF
  <1>1. UNCHANGED <<rooms, freshRooms>>
    BY DEF CreateRoomFind, CreateNewRoomFails, UpdateRoomFind
  <1>2. roomRequests' \in [RoomRequests -> RoomRequest]
    BY RoomRequestTypes
       DEF RoomsInv, CreateRoomFind, CreateNewRoomFails, UpdateRoomFind, RoomStages
  <1> QED
    BY <1>1, <1>2 DEF RoomsInv, RoomsTypeOK, RoomNumbersUnique

\* A request that reaches the update or the deletion names a room: the part of
\* the invariant that relates a request's stage to its parameters.
RequestsNameRooms ==
  \A q \in RoomRequests :
    roomRequests[q].stage \in {"update_find", "update_write", "delete"} =>
      roomRequests[q].id \in RoomIds

RoomsIndInv == RoomsInv /\ RequestsNameRooms

LEMMA RoomsInitIndInv == RoomsInit => RoomsIndInv
  BY RoomsInitInv
     DEF RoomsInit, RoomsIndInv, RequestsNameRooms, IdleRoomRequest

\* One step of one request keeps the whole invariant and brings no deleted
\* room back.
LEMMA RoomsStepKeepsIndInv ==
  ASSUME RoomsIndInv, NEW q \in RoomRequests,
         ReceiveRoomRequest(q) \/ HandleRoomRequest(q)
  PROVE  /\ RoomsIndInv'
         /\ \A x \in RoomIds \ freshRooms : rooms[x] = None => rooms'[x] = None
PROOF
  <1> USE DEF RoomsIndInv
  <1>1. roomRequests \in [RoomRequests -> RoomRequest]
    BY DEF RoomsInv, RoomsTypeOK
  <1>2. CASE ReceiveRoomRequest(q)
    <2>1. RequestsNameRooms'
      BY <1>1, <1>2
         DEF RequestsNameRooms, ReceiveRoomRequest, PostRoom, PatchRoom,
             PatchRoomStatus, DeleteRoom, BeginRoom
    <2> QED BY <1>2, <2>1, ReceiveKeepsInv
  <1>3. CASE HandleRoomRequest(q)
    <2>1. RequestsNameRooms'
      <3>1. CASE AnswerRoom(q)
        BY <1>1, <3>1 DEF RequestsNameRooms, AnswerRoom, IdleRoomRequest
      <3>2. CASE CreateRoomFind(q) /\ Goto(q, "create_insert")
        BY <1>1, <3>2 DEF RequestsNameRooms, Goto
      <3>3. CASE UpdateRoomFind(q) /\ Goto(q, "update_write")
        <4>1. roomRequests[q].stage = "update_find"
          BY <3>3 DEF UpdateRoomFind
        <4> QED
          BY <1>1, <3>3, <4>1 DEF RequestsNameRooms, Goto
      <3> QED
        BY <1>3, <3>1, <3>2, <3>3
           DEF HandleRoomRequest, CreateRoomFind, CreateNewRoom,
               CreateNewRoomFails, UpdateRoomFind, UpdateRoomWrite, HardDeleteRoom
    <2>2. CASE CreateNewRoom(q)
      BY <2>1, <2>2, CreateNewRoomKeepsInv
    <2>3. CASE UpdateRoomWrite(q)
      <3>1. roomRequests[q].id \in RoomIds
        BY <2>3 DEF UpdateRoomWrite, RequestsNameRooms
      <3> QED BY <2>1, <2>3, <3>1, UpdateRoomWriteKeepsInv
    <2>4. CASE HardDeleteRoom(q)
      BY <2>1, <2>4, HardDeleteRoomKeepsInv
    <2>5. CASE CreateRoomFind(q) \/ CreateNewRoomFails(q) \/ UpdateRoomFind(q)
      BY <2>1, <2>5, OtherStepsKeepInv
    <2> QED
      BY <1>3, <2>2, <2>3, <2>4, <2>5 DEF HandleRoomRequest
  <1> QED BY <1>2, <1>3

\* Any step of the component, a crash and a stuttering step included.
LEMMA RoomsNextKeepsIndInv ==
  ASSUME RoomsIndInv, [RoomsNext]_roomVars
  PROVE  /\ RoomsIndInv'
         /\ \A x \in RoomIds \ freshRooms : rooms[x] = None => rooms'[x] = None
PROOF
  <1>1. CASE RoomsStep
    BY <1>1, RoomsStepKeepsIndInv DEF RoomsStep
  <1>2. CASE RoomsCrash
    <2>1. IdleRoomRequest \in RoomRequest
      BY DEF IdleRoomRequest, RoomRequest, EmptyRoomPatch, RoomPatch, RoomStages
    <2> QED
      BY <1>2, <2>1
         DEF RoomsCrash, RoomsIndInv, RoomsInv, RoomsTypeOK, RoomNumbersUnique,
             RequestsNameRooms, IdleRoomRequest
  <1>3. CASE UNCHANGED roomVars
    BY <1>3
       DEF roomVars, RoomsIndInv, RoomsInv, RoomsTypeOK, RoomNumbersUnique,
           RequestsNameRooms
  <1> QED BY <1>1, <1>2, <1>3 DEF RoomsNext

-----------------------------------------------------------------------------
(* Theorems. *)

\* In every behaviour the variables have their types and every request that
\* reaches a write names a room.
THEOREM RoomsInvariant == RoomsSpec => []RoomsIndInv
  <1>1. RoomsInit => RoomsIndInv
    BY RoomsInitIndInv
  <1>2. RoomsIndInv /\ [RoomsNext]_roomVars => RoomsIndInv'
    BY RoomsNextKeepsIndInv
  <1> QED BY <1>1, <1>2, PTL DEF RoomsSpec

\* The types of the collection and of the requests, for every instance.
THEOREM RoomsTypeCorrect == RoomsSpec => []RoomsTypeOK
  <1>1. RoomsIndInv => RoomsTypeOK
    BY DEF RoomsIndInv, RoomsInv
  <1> QED BY <1>1, RoomsInvariant, PTL

\* No interleaving of createRoom and updateRoom, and no failing lookup, gives
\* two rooms the same number.
THEOREM RoomNumbersStayUnique == RoomsSpec => []RoomNumbersUnique
  <1>1. RoomsIndInv => RoomNumbersUnique
    BY DEF RoomsIndInv, RoomsInv
  <1> QED BY <1>1, RoomsInvariant, PTL

\* A room that was deleted stays deleted, whatever was under way for it.
THEOREM DeletionIsFinal == RoomsSpec => DeletedRoomStaysDeleted
  <1>1. RoomsIndInv /\ [RoomsNext]_roomVars =>
          [\A x \in RoomIds \ freshRooms : rooms[x] = None => rooms'[x] = None]_roomVars
    BY RoomsNextKeepsIndInv
  <1> QED
    BY <1>1, RoomsInvariant, PTL DEF RoomsSpec, DeletedRoomStaysDeleted

=============================================================================
