------------------------------- MODULE Rooms -------------------------------
(***************************************************************************)
(* The rooms collection of the hotel backend and the four endpoints of the *)
(* room controller that change it.  A request is a small state machine:    *)
(* every `await' of its handler ends a step, and between two steps any     *)
(* other request may run.                                                  *)
(*                                                                         *)
(* A document is a record of the fields the properties tell apart: name,   *)
(* type, capacity, price, description, amenities and images are left out.  *)
(***************************************************************************)
EXTENDS Integers

CONSTANTS
  RoomIds,        \* ObjectIds the driver may give to new rooms
  RoomNumbers,    \* values of the room_number field
  RoomRequests,   \* requests to the room endpoints that may be in flight
  RoomBodies,     \* bodies of POST /rooms and PATCH /rooms/:id
  InitialRooms,   \* the collection when the process starts
  Staff,          \* the logged user a guarded endpoint hands to its handler
  Faults,         \* which of "read", "write" and "crash" the run lets happen
  None            \* null: no document, no user, a field a body leaves out

RoomStatuses == {"available", "occupied", "maintenance"}

Room == [room_number : RoomNumbers, status : RoomStatuses]

RoomPatch == [room_number : RoomNumbers \cup {None},
              status      : RoomStatuses \cup {None}]

(***************************************************************************)
(* Two documents of the collection never share a room number: the unique   *)
(* index of the schema.                                                    *)
(***************************************************************************)
DistinctNumbers(collection) ==
  \A x, y \in RoomIds :
    /\ collection[x] # None
    /\ collection[y] # None
    /\ collection[x].room_number = collection[y].room_number
    => x = y

ASSUME RoomsAssumption ==
  /\ None \notin Room
  /\ None \notin RoomIds
  /\ None \notin RoomNumbers
  /\ None \notin RoomStatuses
  /\ Staff # None
  /\ RoomBodies \subseteq RoomPatch
  /\ InitialRooms \in [RoomIds -> Room \cup {None}]
  /\ DistinctNumbers(InitialRooms)

VARIABLES
  rooms,          \* the collection: a document, or None, at every id
  freshRooms,     \* the ids no document has had yet
  roomRequests    \* where each request stands in its handler

roomVars == <<rooms, freshRooms, roomRequests>>

RoomStages == {"idle", "create_find", "create_insert",
               "update_find", "update_write", "delete"}

RoomRequest == [stage : RoomStages,
                id    : RoomIds \cup {None},
                body  : RoomPatch]

EmptyRoomPatch == [room_number |-> None, status |-> None]

IdleRoomRequest == [stage |-> "idle", id |-> None, body |-> EmptyRoomPatch]

RoomsTypeOK ==
  /\ rooms \in [RoomIds -> Room \cup {None}]
  /\ freshRooms \subseteq RoomIds
  /\ \A x \in freshRooms : rooms[x] = None
  /\ roomRequests \in [RoomRequests -> RoomRequest]

RoomsInit ==
  /\ rooms = InitialRooms
  /\ freshRooms = {x \in RoomIds : InitialRooms[x] = None}
  /\ roomRequests = [q \in RoomRequests |-> IdleRoomRequest]

-----------------------------------------------------------------------------
(* The database service. *)

\* A field of a body, or what stands when the body leaves it out.
Given(value, otherwise) == IF value = None THEN otherwise ELSE value

\* Variant of NumberFree: the schema without its unique index.
NumberFree_NoIndex(number, x) == TRUE

\* The unique index lets a write give `number' to document x.
NumberFree(number, x) ==
  \A y \in RoomIds \ {x} : rooms[y] # None => rooms[y].room_number # number

\* What findRoomByRoomNumber finds: the documents with that number.
RoomsNumbered(number) ==
  {x \in RoomIds : rooms[x] # None /\ rooms[x].room_number = number}

\* Variant of MergedRoom: a field the body leaves out is written as null.
MergedRoom_Overwrites(room, patch) ==
  [room_number |-> patch.room_number, status |-> patch.status]

MergedRoom(room, patch) ==
  [room_number |-> Given(patch.room_number, room.room_number),
   status      |-> Given(patch.status, room.status)]

\* The update object reads loggedUser._id before the call, so that without
\* a user nothing is written; there is no upsert.
CanUpdateRoom(id, patch, user) ==
  /\ user # None
  /\ rooms[id] # None
  /\ patch.room_number # None => NumberFree(patch.room_number, id)

\* Variant of FindRoomByIdAndUpdate: an upsert.
FindRoomByIdAndUpdate_Upserts(id, patch, user) ==
  rooms' = IF CanUpdateRoom(id, patch, user)
           THEN [rooms EXCEPT ![id] = MergedRoom(rooms[id], patch)]
           ELSE IF /\ rooms[id] = None
                   /\ patch.room_number # None
                   /\ NumberFree(patch.room_number, id)
           THEN [rooms EXCEPT ![id] =
                   MergedRoom([room_number |-> patch.room_number,
                               status |-> "available"], patch)]
           ELSE rooms

\* A refused or failed update is a null result and no write.
FindRoomByIdAndUpdate(id, patch, user) ==
  rooms' = IF CanUpdateRoom(id, patch, user)
           THEN [rooms EXCEPT ![id] = MergedRoom(rooms[id], patch)]
           ELSE rooms

-----------------------------------------------------------------------------
(* The handlers. *)

Goto(q, stage) ==
  roomRequests' = [roomRequests EXCEPT ![q].stage = stage]

AnswerRoom(q) == roomRequests' = [roomRequests EXCEPT ![q] = IdleRoomRequest]

BeginRoom(q, stage, id, body) ==
  /\ roomRequests[q].stage = "idle"
  /\ roomRequests' = [roomRequests EXCEPT
                        ![q] = [stage |-> stage, id |-> id, body |-> body]]
  /\ UNCHANGED <<rooms, freshRooms>>

\* POST /rooms
PostRoom(q, body) == BeginRoom(q, "create_find", None, body)

\* PATCH /rooms/:id looks the number up only when the body has one.
PatchRoom(q, id, body) ==
  BeginRoom(q, IF body.room_number = None THEN "update_write"
                                          ELSE "update_find", id, body)

\* PATCH /rooms/:id/status, after the check of the status
PatchRoomStatus(q, id, status) ==
  BeginRoom(q, "update_write", id, [EmptyRoomPatch EXCEPT !.status = status])

\* DELETE /rooms/:id
DeleteRoom(q, id) == BeginRoom(q, "delete", id, EmptyRoomPatch)

\* A lookup that fails returns null, like one that finds nothing.
CreateRoomFind(q) ==
  /\ roomRequests[q].stage = "create_find"
  /\ \/ /\ \/ RoomsNumbered(roomRequests[q].body.room_number) = {}
           \/ "read" \in Faults
        /\ Goto(q, "create_insert")
     \/ /\ RoomsNumbered(roomRequests[q].body.room_number) # {}
        /\ AnswerRoom(q)
  /\ UNCHANGED <<rooms, freshRooms>>

CreateNewRoom(q) ==
  LET body == roomRequests[q].body IN
  /\ roomRequests[q].stage = "create_insert"
  /\ body.room_number # None
  /\ \E x \in freshRooms :
       /\ NumberFree(body.room_number, x)
       /\ rooms' = [rooms EXCEPT
                      ![x] = MergedRoom([room_number |-> body.room_number,
                                         status |-> "available"], body)]
       /\ freshRooms' = freshRooms \ {x}
  /\ AnswerRoom(q)

\* The save is rejected: no number, a number already taken, or the database.
CreateNewRoomFails(q) ==
  LET body == roomRequests[q].body IN
  /\ roomRequests[q].stage = "create_insert"
  /\ \/ body.room_number = None
     \/ RoomsNumbered(body.room_number) # {}
     \/ "write" \in Faults
     \/ freshRooms = {}          \* bound: the model has run out of ids
  /\ AnswerRoom(q)
  /\ UNCHANGED <<rooms, freshRooms>>

UpdateRoomFind(q) ==
  LET request == roomRequests[q]
      others  == RoomsNumbered(request.body.room_number) \ {request.id} IN
  /\ request.stage = "update_find"
  /\ \/ (others = {} \/ "read" \in Faults) /\ Goto(q, "update_write")
     \/ others # {} /\ AnswerRoom(q)
  /\ UNCHANGED <<rooms, freshRooms>>

UpdateRoomWrite(q) ==
  /\ roomRequests[q].stage = "update_write"
  /\ \/ FindRoomByIdAndUpdate(roomRequests[q].id, roomRequests[q].body, Staff)
     \/ "write" \in Faults /\ UNCHANGED rooms
  /\ AnswerRoom(q)
  /\ UNCHANGED freshRooms

\* No booking is looked at: bookings may keep the id of a deleted room.
HardDeleteRoom(q) ==
  /\ roomRequests[q].stage = "delete"
  /\ \/ rooms' = [rooms EXCEPT ![roomRequests[q].id] = None]
     \/ "write" \in Faults /\ UNCHANGED rooms
  /\ AnswerRoom(q)
  /\ UNCHANGED freshRooms

ReceiveRoomRequest(q) ==
  \/ \E body \in RoomBodies : PostRoom(q, body)
  \/ \E id \in RoomIds \ freshRooms :
       \/ \E body \in RoomBodies : PatchRoom(q, id, body)
       \/ \E status \in RoomStatuses : PatchRoomStatus(q, id, status)
       \/ DeleteRoom(q, id)

HandleRoomRequest(q) ==
  \/ CreateRoomFind(q)
  \/ CreateNewRoom(q)
  \/ CreateNewRoomFails(q)
  \/ UpdateRoomFind(q)
  \/ UpdateRoomWrite(q)
  \/ HardDeleteRoom(q)

\* The process dies or is restarted: what was in flight is gone.
RoomsCrash ==
  /\ "crash" \in Faults
  /\ roomRequests' = [q \in RoomRequests |-> IdleRoomRequest]
  /\ UNCHANGED <<rooms, freshRooms>>

RoomsStep ==
  \E q \in RoomRequests : ReceiveRoomRequest(q) \/ HandleRoomRequest(q)

RoomsNext == RoomsStep \/ RoomsCrash

\* The collection changes only as the room endpoints change it.
RoomsSpec == RoomsInit /\ [][RoomsNext]_roomVars

-----------------------------------------------------------------------------
(* Properties. *)

\* Two rooms never have the same number, although createRoom and updateRoom
\* look the number up in one call and write it in another, and although a
\* lookup that fails counts as a number that is free.
RoomNumbersUnique == DistinctNumbers(rooms)

\* An update or an insert that was under way when its room was deleted never
\* brings the deleted room back, and no room is created over an old id.
DeletedRoomStaysDeleted ==
  [][\A x \in RoomIds \ freshRooms : rooms[x] = None => rooms'[x] = None]_roomVars

=============================================================================
