------------------------------ MODULE RoomTable ------------------------------
(***************************************************************************)
(* What RoomManager (src/src/server/room_manager.cpp) promises its         *)
(* callers: a bounded table of room ids whose operations are atomic.       *)
(* RoomManager.tla, which has the locks and the counter, implements Spec;  *)
(* GameService.tla builds its handlers from these operations.              *)
(*                                                                         *)
(* is_maintaining_ is a plain bool that the shutdown thread writes without *)
(* the lock, while handlers read it: a data race.  What a build makes of   *)
(* it is that a read may miss the store until the storing thread has       *)
(* itself been through mutex_ (its GetAllRooms), which orders the store    *)
(* before every later critical section.  Hence three values:               *)
(*   "off"     not stored yet: every read gives FALSE                      *)
(*   "racing"  stored, not yet ordered: a read gives FALSE or TRUE         *)
(*   "on"      ordered by mutex_: every read gives TRUE                    *)
(***************************************************************************)
EXTENDS Naturals, FiniteSets

CONSTANTS RoomIds,   \* the ids a caller may ask for
          MaxRooms   \* max_rooms_

VARIABLES rooms,           \* the ids that are keys of rooms_
          is_maintaining   \* "off", "racing" or "on", see above

vars == <<rooms, is_maintaining>>

TypeOK ==
    /\ rooms \in SUBSET RoomIds
    /\ is_maintaining \in {"off", "racing", "on"}

Init ==
    /\ rooms = {}
    /\ is_maintaining = "off"

(* The values a read of is_maintaining_ may return.                        *)
MaintenanceReads ==
    CASE is_maintaining = "off"    -> {FALSE}
      [] is_maintaining = "racing" -> BOOLEAN
      [] is_maintaining = "on"     -> {TRUE}

HasCapacity == Cardinality(rooms) < MaxRooms

(* CanCreateRoom() returns `answer`.                                       *)
CanCreateRoom(answer) ==
    \E maintaining \in MaintenanceReads :
        answer = (~maintaining /\ HasCapacity)

(* Mutants of CreateRoomWithId: it relies on the handler's CanCreateRoom() *)
(* for the limit; on its IsInMaintenanceMode() for the flag.               *)
CreateRoomPastLimit(r) ==
    /\ FALSE \in MaintenanceReads
    /\ r \notin rooms
    /\ rooms' = rooms \cup {r}
    /\ UNCHANGED is_maintaining

CreateRoomInMaintenance(r) ==
    /\ HasCapacity
    /\ r \notin rooms
    /\ rooms' = rooms \cup {r}
    /\ UNCHANGED is_maintaining

(* CreateRoomWithId(r) returns r: no check stopped it.                     *)
CreateRoomWithId(r) ==
    /\ FALSE \in MaintenanceReads
    /\ HasCapacity
    /\ r \notin rooms
    /\ rooms' = rooms \cup {r}
    /\ UNCHANGED is_maintaining

(* CreateRoomWithId(r) returns "": one of the three checks stopped it.     *)
CreateRoomRefused(r) ==
    /\ TRUE \in MaintenanceReads \/ ~HasCapacity \/ r \in rooms
    /\ UNCHANGED vars

(* CloseRoom(r) returns true.                                              *)
CloseRoom(r) ==
    /\ r \in rooms
    /\ rooms' = rooms \ {r}
    /\ UNCHANGED is_maintaining

(* CloseRoom(r) returns false.                                             *)
CloseRoomRefused(r) ==
    /\ r \notin rooms
    /\ UNCHANGED vars

SetMaintenanceMode ==
    /\ is_maintaining = "off"
    /\ is_maintaining' = "racing"
    /\ UNCHANGED rooms

(* GetAllRooms() by the thread that stored the flag; it returns rooms.     *)
GetAllRooms ==
    /\ is_maintaining = "racing"
    /\ is_maintaining' = "on"
    /\ UNCHANGED rooms

Next ==
    \/ \E r \in RoomIds : CreateRoomWithId(r) \/ CloseRoom(r)
    \/ SetMaintenanceMode
    \/ GetAllRooms

Spec == Init /\ [][Next]_vars

-----------------------------------------------------------------------------

(* The table never holds more rooms than max_rooms_, however many threads  *)
(* are between CanCreateRoom() and CreateRoomWithId().                     *)
WithinCapacity == Cardinality(rooms) <= MaxRooms
=============================================================================
