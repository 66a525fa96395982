----------------------------- MODULE RoomManager -----------------------------
(***************************************************************************)
(* RoomManager at the grain of its lock and its counter: gRPC threads and  *)
(* the shutdown thread share rooms_, guarded by the shared_mutex mutex_,   *)
(* and room_count_, an atomic that GetRoomCount() loads without the lock.  *)
(* One action is one lock operation, one critical-section statement that   *)
(* another thread can observe, or one write of is_maintaining_ (whose      *)
(* three values RoomTable explains).                                       *)
(*                                                                         *)
(* A Room's fields other than its presence are abstracted here:            *)
(* UpdateRoomActivity takes the lock and changes no key of rooms_.         *)
(***************************************************************************)
EXTENDS Integers, FiniteSets

CONSTANTS Threads,    \* gRPC handler threads and the activity thread
          Shutdown,   \* the thread that runs GracefulShutdown
          RoomIds,
          MaxRooms,   \* max_rooms_
          NoThread,
          NoRoom

Callers == Threads \cup {Shutdown}

ASSUME CapacityAssumption == MaxRooms \in Nat
ASSUME ThreadAssumption == Shutdown \notin Threads /\ NoThread \notin Callers
ASSUME NoRoomAssumption == NoRoom \notin RoomIds

VARIABLES rooms,           \* the keys of rooms_
          room_count,      \* room_count_
          is_maintaining,  \* is_maintaining_: "off", "racing", "on"
          writer,          \* who holds mutex_ exclusively
          readers,         \* who hold mutex_ shared
          pc, op, arg,     \* per caller: where it is, in which call, on which room
          stage,           \* how far GracefulShutdown is
          to_close         \* rooms of its list it has not called CloseRoom for

table == <<rooms, is_maintaining>>
lock == <<writer, readers>>
shutdown == <<stage, to_close>>
vars == <<rooms, room_count, is_maintaining, writer, readers, pc, op, arg,
          stage, to_close>>

CreateOps == {"CreateRoom", "CreateRoomWithId"}
ExclusiveOps == CreateOps \cup {"CloseRoom", "UpdateRoomActivity"}
SharedOps == {"GetRoomStatus", "GetAllRooms", "GetMaxRooms", "CanCreateRoom"}
Ops == ExclusiveOps \cup SharedOps
InsideLock == {"body", "insert", "fetch_add", "fetch_sub", "unlock"}

TypeOK ==
    /\ rooms \in SUBSET RoomIds
    /\ room_count \in Int
    /\ is_maintaining \in {"off", "racing", "on"}
    /\ writer \in Callers \cup {NoThread}
    /\ readers \in SUBSET Callers
    /\ pc \in [Callers -> {"idle", "lock"} \cup InsideLock]
    /\ op \in [Callers -> Ops \cup {"none"}]
    /\ arg \in [Callers -> RoomIds \cup {NoRoom}]
    /\ stage \in {"serving", "waiting", "listed", "closed"}
    /\ to_close \in SUBSET RoomIds

Init ==
    /\ rooms = {}
    /\ room_count = 0
    /\ is_maintaining = "off"
    /\ writer = NoThread
    /\ readers = {}
    /\ pc = [t \in Callers |-> "idle"]
    /\ op = [t \in Callers |-> "none"]
    /\ arg = [t \in Callers |-> NoRoom]
    /\ stage = "serving"
    /\ to_close = {}

MaintenanceReads ==
    CASE is_maintaining = "off"    -> {FALSE}
      [] is_maintaining = "racing" -> BOOLEAN
      [] is_maintaining = "on"     -> {TRUE}

Transition(t, from, to) ==
    /\ pc[t] = from
    /\ pc' = [pc EXCEPT ![t] = to]

Enter(t, o, r) ==
    /\ Transition(t, "idle", "lock")
    /\ op' = [op EXCEPT ![t] = o]
    /\ arg' = [arg EXCEPT ![t] = r]
    /\ UNCHANGED <<table, room_count, lock>>

-----------------------------------------------------------------------------
(* Calls.  GracefulShutdown stores the flag, polls GetRoomCount() for five *)
(* seconds (no effect), lists the rooms and closes each of them.           *)

Call(t) ==
    /\ t \in Threads
    /\ \E o \in Ops :
        \E r \in IF o \in {"CreateRoomWithId", "CloseRoom", "GetRoomStatus"}
                 THEN RoomIds ELSE {NoRoom} :
            Enter(t, o, r)
    /\ UNCHANGED shutdown

SetMaintenanceMode ==
    /\ stage = "serving"
    /\ stage' = "waiting"
    /\ is_maintaining' = "racing"
    /\ UNCHANGED <<rooms, room_count, lock, pc, op, arg, to_close>>

ShutdownLists ==
    /\ stage = "waiting"
    /\ Enter(Shutdown, "GetAllRooms", NoRoom)
    /\ UNCHANGED shutdown

ShutdownCloses ==
    /\ stage = "listed"
    /\ \E r \in to_close :
        /\ Enter(Shutdown, "CloseRoom", r)
        /\ to_close' = to_close \ {r}
    /\ UNCHANGED stage

ShutdownDone ==
    /\ stage = "listed"
    /\ to_close = {}
    /\ pc[Shutdown] = "idle"
    /\ stage' = "closed"
    /\ UNCHANGED <<table, room_count, lock, pc, op, arg, to_close>>

-----------------------------------------------------------------------------
(* std::shared_mutex                                                       *)

(* Mutant: the create and close operations take mutex_ as readers do.      *)
LockExclusiveAsReader(t) ==
    /\ op[t] \in ExclusiveOps
    /\ Transition(t, "lock", "body")
    /\ writer' = t
    /\ UNCHANGED <<table, room_count, readers, op, arg, shutdown>>

LockExclusive(t) ==
    /\ op[t] \in ExclusiveOps
    /\ Transition(t, "lock", "body")
    /\ writer = NoThread
    /\ readers = {}
    /\ writer' = t
    /\ UNCHANGED <<table, room_count, readers, op, arg, shutdown>>

LockShared(t) ==
    /\ op[t] \in SharedOps
    /\ Transition(t, "lock", "body")
    /\ writer = NoThread
    /\ readers' = readers \cup {t}
    /\ UNCHANGED <<table, room_count, writer, op, arg, shutdown>>

Unlock(t) ==
    /\ Transition(t, "unlock", "idle")
    /\ writer' = IF writer = t THEN NoThread ELSE writer
    /\ readers' = readers \ {t}
    /\ op' = [op EXCEPT ![t] = "none"]
    /\ arg' = [arg EXCEPT ![t] = NoRoom]
    /\ UNCHANGED <<table, room_count, shutdown>>

-----------------------------------------------------------------------------
(* Critical sections                                                       *)

(* Mutants of Admit: the limit is off by one; is_maintaining_ is not       *)
(* looked at under the lock; CreateRoom forgets to generate an id.         *)
AdmitOffByOne(t) ==
    /\ op[t] \in CreateOps
    /\ Transition(t, "body", "insert")
    /\ FALSE \in MaintenanceReads
    /\ Cardinality(rooms) <= MaxRooms
    /\ \E r \in RoomIds \ rooms :
        /\ op[t] = "CreateRoomWithId" => r = arg[t]
        /\ arg' = [arg EXCEPT ![t] = r]
    /\ UNCHANGED <<table, room_count, lock, op, shutdown>>

AdmitInMaintenance(t) ==
    /\ op[t] \in CreateOps
    /\ Transition(t, "body", "insert")
    /\ Cardinality(rooms) < MaxRooms
    /\ \E r \in RoomIds \ rooms :
        /\ op[t] = "CreateRoomWithId" => r = arg[t]
        /\ arg' = [arg EXCEPT ![t] = r]
    /\ UNCHANGED <<table, room_count, lock, op, shutdown>>

AdmitWithoutId(t) ==
    /\ op[t] \in CreateOps
    /\ Transition(t, "body", "insert")
    /\ FALSE \in MaintenanceReads
    /\ Cardinality(rooms) < MaxRooms
    /\ arg[t] \notin rooms
    /\ UNCHANGED <<table, room_count, lock, op, arg, shutdown>>

(* All checks of CreateRoom and CreateRoomWithId pass; CreateRoom's random *)
(* id is one no room has.                                                  *)
Admit(t) ==
    /\ op[t] \in CreateOps
    /\ Transition(t, "body", "insert")
    /\ FALSE \in MaintenanceReads
    /\ Cardinality(rooms) < MaxRooms
    /\ \E r \in RoomIds \ rooms :
        /\ op[t] = "CreateRoomWithId" => r = arg[t]
        /\ arg' = [arg EXCEPT ![t] = r]
    /\ UNCHANGED <<table, room_count, lock, op, shutdown>>

Refuse(t) ==
    /\ op[t] \in CreateOps
    /\ Transition(t, "body", "unlock")
    /\ \/ TRUE \in MaintenanceReads
       \/ Cardinality(rooms) >= MaxRooms
       \/ op[t] = "CreateRoomWithId" /\ arg[t] \in rooms
    /\ UNCHANGED <<table, room_count, lock, op, arg, shutdown>>

Insert(t) ==
    /\ Transition(t, "insert", "fetch_add")
    /\ rooms' = rooms \cup {arg[t]}
    /\ UNCHANGED <<is_maintaining, room_count, lock, op, arg, shutdown>>

FetchAdd(t) ==
    /\ Transition(t, "fetch_add", "unlock")
    /\ room_count' = room_count + 1
    /\ UNCHANGED <<table, lock, op, arg, shutdown>>

Erase(t) ==
    /\ op[t] = "CloseRoom"
    /\ arg[t] \in rooms
    /\ Transition(t, "body", "fetch_sub")
    /\ rooms' = rooms \ {arg[t]}
    /\ UNCHANGED <<is_maintaining, room_count, lock, op, arg, shutdown>>

(* Mutant: erase by key, and the counter goes down found or not.           *)
NotFoundStillCounts(t) ==
    /\ op[t] = "CloseRoom"
    /\ arg[t] \notin rooms
    /\ Transition(t, "body", "fetch_sub")
    /\ UNCHANGED <<table, room_count, lock, op, arg, shutdown>>

NotFound(t) ==
    /\ op[t] = "CloseRoom"
    /\ arg[t] \notin rooms
    /\ Transition(t, "body", "unlock")
    /\ UNCHANGED <<table, room_count, lock, op, arg, shutdown>>

FetchSub(t) ==
    /\ Transition(t, "fetch_sub", "unlock")
    /\ room_count' = room_count - 1
    /\ UNCHANGED <<table, lock, op, arg, shutdown>>

(* The shared-lock operations and UpdateRoomActivity leave the keys alone. *)
Read(t) ==
    /\ t \in Threads
    /\ op[t] \in SharedOps \cup {"UpdateRoomActivity"}
    /\ Transition(t, "body", "unlock")
    /\ UNCHANGED <<table, room_count, lock, op, arg, shutdown>>

(* GracefulShutdown's GetAllRooms copies the table; its critical section   *)
(* orders its earlier store of is_maintaining_.                            *)
ListRooms ==
    /\ op[Shutdown] = "GetAllRooms"
    /\ Transition(Shutdown, "body", "unlock")
    /\ to_close' = rooms
    /\ stage' = "listed"
    /\ is_maintaining' = "on"
    /\ UNCHANGED <<rooms, room_count, lock, op, arg>>

Step(t) ==
    \/ LockExclusive(t) \/ LockShared(t) \/ Unlock(t)
    \/ Admit(t) \/ Refuse(t) \/ Insert(t) \/ FetchAdd(t)
    \/ Erase(t) \/ NotFound(t) \/ FetchSub(t) \/ Read(t)

Next ==
    \/ \E t \in Callers : Call(t) \/ Step(t)
    \/ SetMaintenanceMode \/ ShutdownLists \/ ListRooms
    \/ ShutdownCloses \/ ShutdownDone

Spec == Init /\ [][Next]_vars
-----------------------------------------------------------------------------

(* What GetRoomCount() loads without the lock, at any instant and between  *)
(* any two statements of CreateRoomWithId and CloseRoom, is a count the    *)
(* server can have: GetHeartbeat never reports a negative number of rooms, *)
(* nor more than max_capacity.                                             *)
ReportedCountInRange == room_count \in 0 .. MaxRooms

(* Whenever no thread is inside an exclusive section, the counter and the  *)
(* map agree: no insertion or removal is ever counted twice or missed.     *)
CountMatchesRooms == writer = NoThread => room_count = Cardinality(rooms)

(* GracefulShutdown closes the rooms of one listing, once: a room another  *)
(* thread was about to insert when the flag was stored must be in that     *)
(* list or be refused.  When the loop is over no room is left.             *)
ShutdownEmptiesTable == stage = "closed" => rooms = {}

Table == INSTANCE RoomTable

(* The locked operations implement the atomic table: every critical        *)
(* section is one step of RoomTable, at the statement that changes the map.*)
ImplementsTable == Table!Spec
=============================================================================
