-------------------------- MODULE RoomManagerProofs --------------------------
(***************************************************************************)
(* Proofs about RoomManager, for any set of threads and rooms and any      *)
(* capacity.  The inductive invariant IInv says what a thread inside each  *)
(* statement of a critical section may rely on; its parts are proved one   *)
(* at a time, each from the parts before it.                               *)
(***************************************************************************)
EXTENDS RoomManager, FiniteSetTheorems, TLAPS

(* Which call a thread is in at each place, and which the shutdown thread  *)
(* may be in.                                                              *)
OpInv ==
    /\ \A t \in Callers :
        /\ pc[t] = "idle" => op[t] = "none"
        /\ pc[t] # "idle" => op[t] \in Ops
        /\ op[t] = "CloseRoom" => arg[t] \in RoomIds
        /\ pc[t] \in {"insert", "fetch_add"} =>
            op[t] \in CreateOps /\ arg[t] \in RoomIds
        /\ pc[t] = "fetch_sub" => op[t] = "CloseRoom"
    /\ op[Shutdown] \in {"none", "GetAllRooms", "CloseRoom"}

(* Exactly the threads inside a critical section hold mutex_, and an       *)
(* exclusive holder is alone.                                              *)
LockInv ==
    /\ \A t \in Callers :
        /\ writer = t <=> pc[t] \in InsideLock /\ op[t] \in ExclusiveOps
        /\ t \in readers <=> pc[t] \in InsideLock /\ op[t] \in SharedOps
    /\ writer # NoThread => readers = {}

(* The table is within capacity, and a thread that has passed the checks   *)
(* still has room for its id and was admitted before the listing.          *)
CapacityInv ==
    /\ IsFiniteSet(rooms)
    /\ Cardinality(rooms) <= MaxRooms
    /\ \A t \in Callers : pc[t] = "insert" =>
        /\ Cardinality(rooms) < MaxRooms
        /\ arg[t] \notin rooms
        /\ is_maintaining # "on"
    /\ \A t \in Callers : pc[t] = "fetch_add" => Cardinality(rooms) > 0
    /\ \A t \in Callers : pc[t] = "fetch_sub" => Cardinality(rooms) < MaxRooms

(* The counter is the size of the map, but for the one change the thread   *)
(* at fetch_add or fetch_sub has still to count.                           *)
CountInv ==
    /\ \A t \in Callers : pc[t] = "fetch_add" => room_count = Cardinality(rooms) - 1
    /\ \A t \in Callers : pc[t] = "fetch_sub" => room_count = Cardinality(rooms) + 1
    /\ (\A t \in Callers : pc[t] \notin {"fetch_add", "fetch_sub"}) =>
        room_count = Cardinality(rooms)

(* The room GracefulShutdown has taken from its list and not yet erased.   *)
BeingClosed ==
    {r \in RoomIds : /\ op[Shutdown] = "CloseRoom"
                     /\ pc[Shutdown] \in {"lock", "body"}
                     /\ arg[Shutdown] = r}

(* How the stages of GracefulShutdown, the flag and the listing go         *)
(* together; after the listing, what is in the table is still to close.    *)
CoverInv ==
    /\ stage = "serving" <=> is_maintaining = "off"
    /\ stage = "waiting" <=> is_maintaining = "racing"
    /\ op[Shutdown] = "GetAllRooms" /\ pc[Shutdown] \in {"lock", "body"} =>
        stage = "waiting"
    /\ op[Shutdown] = "CloseRoom" => stage = "listed"
    /\ stage = "listed" => rooms \subseteq to_close \cup BeingClosed
    /\ stage = "closed" => rooms = {}

IInv == TypeOK /\ OpInv /\ LockInv /\ CapacityInv /\ CountInv /\ CoverInv

-----------------------------------------------------------------------------

(* Every variable keeps its type, whatever the interleaving.               *)
LEMMA TypeStep == TypeOK /\ OpInv /\ [Next]_vars => TypeOK'
<1> SUFFICES ASSUME TypeOK, OpInv, [Next]_vars PROVE TypeOK'
    OBVIOUS
<1> USE DEF TypeOK, Callers, InsideLock, table, lock, shutdown
<1>1. CASE \E t \in Callers : Call(t)
    BY <1>1 DEF Call, Enter, Transition, Ops
<1>2. CASE \E t \in Callers : Step(t)
  <2> PICK t \in Callers : Step(t)
      BY <1>2
  <2>1. CASE LockExclusive(t) \/ LockShared(t) \/ Unlock(t)
      BY <2>1 DEF LockExclusive, LockShared, Unlock, Transition
  <2>2. CASE Admit(t) \/ Refuse(t) \/ Insert(t) \/ FetchAdd(t)
    <3>1. CASE Admit(t)
        BY <3>1 DEF Admit, Transition
    <3>2. CASE Refuse(t)
        BY <3>2 DEF Refuse, Transition
    <3>3. CASE Insert(t)
      <4>1. arg[t] \in RoomIds
          BY <3>3 DEF Insert, Transition, OpInv
      <4> QED BY <3>3, <4>1 DEF Insert, Transition
    <3>4. CASE FetchAdd(t)
        BY <3>4 DEF FetchAdd, Transition
    <3> QED BY <2>2, <3>1, <3>2, <3>3, <3>4
  <2>3. CASE Erase(t) \/ NotFound(t) \/ FetchSub(t) \/ Read(t)
      BY <2>3 DEF Erase, NotFound, FetchSub, Read, Transition
  <2> QED BY <2>1, <2>2, <2>3 DEF Step
<1>3. CASE SetMaintenanceMode \/ ShutdownDone
    BY <1>3 DEF SetMaintenanceMode, ShutdownDone
<1>4. CASE ShutdownLists
    BY <1>4 DEF ShutdownLists, Enter, Transition, Ops, SharedOps
<1>5. CASE ListRooms
    BY <1>5 DEF ListRooms, Transition
<1>6. CASE ShutdownCloses
    BY <1>6 DEF ShutdownCloses, Enter, Transition, Ops, ExclusiveOps
<1>7. CASE UNCHANGED vars
    BY <1>7 DEF vars
<1> QED BY <1>1, <1>2, <1>3, <1>4, <1>5, <1>6, <1>7 DEF Next

(* A thread stays in its call until it returns, with the room it began on. *)
LEMMA OpStep == TypeOK /\ OpInv /\ [Next]_vars => OpInv'
<1> SUFFICES ASSUME TypeOK, OpInv, [Next]_vars PROVE OpInv'
    OBVIOUS
<1> USE ThreadAssumption DEF TypeOK, OpInv, Callers, InsideLock, lock
<1>1. CASE \E t \in Callers : Call(t)
    BY <1>1 DEF Call, Enter, Transition, Ops, CreateOps, ExclusiveOps, SharedOps
<1>2. CASE \E t \in Callers : Step(t)
  <2> PICK t \in Callers : Step(t)
      BY <1>2
  <2>1. CASE LockExclusive(t)
      BY <2>1 DEF LockExclusive, Transition
  <2>2. CASE LockShared(t)
      BY <2>2 DEF LockShared, Transition
  <2>3. CASE Unlock(t)
      BY <2>3 DEF Unlock, Transition
  <2>4. CASE Admit(t)
      BY <2>4 DEF Admit, Transition, CreateOps
  <2>5. CASE Refuse(t)
      BY <2>5 DEF Refuse, Transition
  <2>6. CASE Insert(t)
      BY <2>6 DEF Insert, Transition
  <2>7. CASE FetchAdd(t)
      BY <2>7 DEF FetchAdd, Transition
  <2>8. CASE Erase(t) \/ NotFound(t)
      BY <2>8 DEF Erase, NotFound, Transition
  <2>9. CASE FetchSub(t) \/ Read(t)
      BY <2>9 DEF FetchSub, Read, Transition
  <2> QED BY <2>1, <2>2, <2>3, <2>4, <2>5, <2>6, <2>7, <2>8, <2>9 DEF Step
<1>3. CASE SetMaintenanceMode \/ ShutdownDone
    BY <1>3 DEF SetMaintenanceMode, ShutdownDone
<1>4. CASE ShutdownLists
    BY <1>4 DEF ShutdownLists, Enter, Transition, Ops, SharedOps
<1>5. CASE ListRooms
    BY <1>5 DEF ListRooms, Transition
<1>6. CASE ShutdownCloses
    BY <1>6 DEF ShutdownCloses, Enter, Transition, Ops, ExclusiveOps
<1>7. CASE UNCHANGED vars
    BY <1>7 DEF vars
<1> QED BY <1>1, <1>2, <1>3, <1>4, <1>5, <1>6, <1>7 DEF Next

(* mutex_ is an exclusive lock for the operations that change the table.   *)
LEMMA LockStep == TypeOK /\ OpInv /\ LockInv /\ [Next]_vars => LockInv'
<1> SUFFICES ASSUME TypeOK, OpInv, LockInv, [Next]_vars PROVE LockInv'
    OBVIOUS
<1> USE ThreadAssumption
    DEF TypeOK, OpInv, LockInv, Callers, InsideLock, lock,
        Ops, CreateOps, ExclusiveOps, SharedOps
<1>1. CASE \E t \in Callers : Call(t)
    BY <1>1 DEF Call, Enter, Transition
<1>2. CASE \E t \in Callers : Step(t)
  <2> PICK t \in Callers : Step(t)
      BY <1>2
  <2>1. CASE LockExclusive(t)
      BY <2>1 DEF LockExclusive, Transition
  <2>2. CASE LockShared(t)
      BY <2>2 DEF LockShared, Transition
  <2>3. CASE Unlock(t)
      BY <2>3 DEF Unlock, Transition
  <2>4. CASE Admit(t)
      BY <2>4 DEF Admit, Transition
  <2>5. CASE Refuse(t)
      BY <2>5 DEF Refuse, Transition
  <2>6. CASE Insert(t)
      BY <2>6 DEF Insert, Transition
  <2>7. CASE FetchAdd(t)
      BY <2>7 DEF FetchAdd, Transition
  <2>8. CASE Erase(t) \/ NotFound(t)
      BY <2>8 DEF Erase, NotFound, Transition
  <2>9. CASE FetchSub(t) \/ Read(t)
      BY <2>9 DEF FetchSub, Read, Transition
  <2> QED BY <2>1, <2>2, <2>3, <2>4, <2>5, <2>6, <2>7, <2>8, <2>9 DEF Step
<1>3. CASE SetMaintenanceMode \/ ShutdownDone
    BY <1>3 DEF SetMaintenanceMode, ShutdownDone
<1>4. CASE ShutdownLists
    BY <1>4 DEF ShutdownLists, Enter, Transition
<1>5. CASE ListRooms
    BY <1>5 DEF ListRooms, Transition
<1>6. CASE ShutdownCloses
    BY <1>6 DEF ShutdownCloses, Enter, Transition
<1>7. CASE UNCHANGED vars
    BY <1>7 DEF vars
<1> QED BY <1>1, <1>2, <1>3, <1>4, <1>5, <1>6, <1>7 DEF Next

-----------------------------------------------------------------------------

(* Erasing a key of a finite map leaves it one shorter.                    *)
LEMMA EraseCounts ==
    ASSUME NEW S, NEW x \in S, IsFiniteSet(S)
    PROVE  IsFiniteSet(S \ {x}) /\ Cardinality(S \ {x}) = Cardinality(S) - 1
BY FS_RemoveElement

(* The thread inside an exclusive statement is the only one in any.        *)
LEMMA ExclusiveAlone ==
    ASSUME TypeOK, OpInv, LockInv, NEW t \in Callers, NEW u \in Callers,
           pc[t] \in InsideLock, op[t] \in ExclusiveOps,
           pc[u] \in InsideLock
    PROVE  u = t
BY ThreadAssumption DEF TypeOK, OpInv, LockInv, Callers, Ops, InsideLock

(* The room table stays within capacity through every critical section.    *)
LEMMA CapacityStep ==
    TypeOK /\ OpInv /\ LockInv /\ CapacityInv /\ [Next]_vars => CapacityInv'
<1> SUFFICES ASSUME TypeOK, OpInv, LockInv, CapacityInv, [Next]_vars
             PROVE  CapacityInv'
    OBVIOUS
<1> USE CapacityAssumption DEF CapacityInv, TypeOK, lock
<1>0. Cardinality(rooms) \in Nat
    BY FS_CardinalityType
<1>1. CASE \E t \in Callers : Call(t)
    BY <1>1 DEF Call, Enter, Transition, table
<1>2. CASE \E t \in Callers : Step(t)
  <2> PICK t \in Callers : Step(t)
      BY <1>2
  <2>1. CASE LockExclusive(t) \/ LockShared(t) \/ Unlock(t)
      BY <2>1 DEF LockExclusive, LockShared, Unlock, Transition, table
  <2>2. CASE Admit(t)
    <3>1. is_maintaining # "on"
        BY <2>2 DEF Admit, MaintenanceReads
    <3> QED BY <2>2, <3>1 DEF Admit, Transition, table
  <2>3. CASE Insert(t)
    <3>1. /\ pc[t] = "insert" /\ op[t] \in ExclusiveOps
          /\ pc' = [pc EXCEPT ![t] = "fetch_add"]
          /\ rooms' = rooms \cup {arg[t]} /\ arg' = arg
          /\ is_maintaining' = is_maintaining
        BY <2>3 DEF Insert, Transition, OpInv, ExclusiveOps
    <3>2. \A u \in Callers : pc[u] \in InsideLock => u = t
        BY <3>1, ExclusiveAlone DEF InsideLock
    <3>3. /\ IsFiniteSet(rooms')
          /\ Cardinality(rooms') = Cardinality(rooms) + 1
        BY <3>1, FS_AddElement
    <3>4. \A u \in Callers : pc'[u] \notin {"insert", "fetch_sub"}
        BY <3>1, <3>2 DEF InsideLock
    <3>5. Cardinality(rooms) < MaxRooms
        BY <3>1
    <3> QED BY <1>0, <3>3, <3>4, <3>5
  <2>4. CASE Erase(t)
    <3>1. /\ pc[t] = "body" /\ op[t] \in ExclusiveOps
          /\ pc' = [pc EXCEPT ![t] = "fetch_sub"]
          /\ rooms' = rooms \ {arg[t]} /\ arg[t] \in rooms
        BY <2>4 DEF Erase, Transition, ExclusiveOps
    <3>2. \A u \in Callers : pc[u] \in InsideLock => u = t
        BY <3>1, ExclusiveAlone DEF InsideLock
    <3>0. arg[t] \in rooms
        BY <3>1
    <3>3. /\ IsFiniteSet(rooms \ {arg[t]})
          /\ Cardinality(rooms \ {arg[t]}) = Cardinality(rooms) - 1
        BY <3>0, EraseCounts, IsFiniteSet(rooms)
    <3>4. /\ IsFiniteSet(rooms')
          /\ Cardinality(rooms') = Cardinality(rooms) - 1
        BY <3>1, <3>3
    <3>5. \A u \in Callers : pc'[u] \notin {"insert", "fetch_add"}
        BY <3>1, <3>2 DEF InsideLock
    <3> QED BY <1>0, <3>4, <3>5
  <2>5. CASE Refuse(t) \/ FetchAdd(t) \/ NotFound(t) \/ FetchSub(t) \/ Read(t)
      BY <2>5 DEF Refuse, FetchAdd, NotFound, FetchSub, Read, Transition, table
  <2> QED BY <2>1, <2>2, <2>3, <2>4, <2>5 DEF Step
<1>3. CASE SetMaintenanceMode
    BY <1>3 DEF SetMaintenanceMode
<1>4. CASE ShutdownLists \/ ShutdownCloses
    BY <1>4 DEF ShutdownLists, ShutdownCloses, Enter, Transition, table
<1>5. CASE ListRooms
  <2>1. /\ Shutdown \in Callers
        /\ Shutdown \in readers
        /\ pc[Shutdown] = "body"
      BY <1>5 DEF ListRooms, Transition, LockInv, Callers, InsideLock, SharedOps
  <2>2. \A u \in Callers : pc[u] # "insert"
      BY <2>1, ThreadAssumption
      DEF LockInv, OpInv, InsideLock, ExclusiveOps, CreateOps, Callers
  <2> QED BY <1>5, <2>1, <2>2 DEF ListRooms, Transition
<1>6. CASE ShutdownDone
    BY <1>6 DEF ShutdownDone, table
<1>7. CASE UNCHANGED vars
    BY <1>7 DEF vars
<1> QED BY <1>1, <1>2, <1>3, <1>4, <1>5, <1>6, <1>7 DEF Next

(* The counter follows the map, one statement behind at most.              *)
LEMMA CountStep ==
    /\ TypeOK /\ OpInv /\ LockInv /\ CapacityInv /\ CountInv
    /\ [Next]_vars
    => CountInv'
<1> SUFFICES ASSUME TypeOK, OpInv, LockInv, CapacityInv, CountInv, [Next]_vars
             PROVE  CountInv'
    OBVIOUS
<1> USE DEF CountInv, TypeOK, lock
<1>0. Cardinality(rooms) \in Nat
    BY FS_CardinalityType DEF CapacityInv
<1>1. CASE \E t \in Callers : Call(t)
    BY <1>1 DEF Call, Enter, Transition, table
<1>2. CASE \E t \in Callers : Step(t)
  <2> PICK t \in Callers : Step(t)
      BY <1>2
  <2>1. CASE \/ LockExclusive(t) \/ LockShared(t) \/ Unlock(t) \/ Admit(t)
             \/ Refuse(t) \/ NotFound(t) \/ Read(t)
      BY <2>1 DEF LockExclusive, LockShared, Unlock, Admit, Refuse, NotFound,
                  Read, Transition, table
  <2>2. CASE Insert(t)
    <3>1. /\ pc[t] = "insert" /\ op[t] \in ExclusiveOps
          /\ pc' = [pc EXCEPT ![t] = "fetch_add"]
          /\ rooms' = rooms \cup {arg[t]} /\ room_count' = room_count
        BY <2>2 DEF Insert, Transition, OpInv, ExclusiveOps
    <3>2. \A u \in Callers : pc[u] \in InsideLock => u = t
        BY <3>1, ExclusiveAlone DEF InsideLock
    <3>3. Cardinality(rooms') = Cardinality(rooms) + 1
        BY <3>1, FS_AddElement DEF CapacityInv
    <3>4. room_count = Cardinality(rooms)
        BY <3>1, <3>2 DEF InsideLock
    <3>5. \A u \in Callers : pc'[u] # "fetch_sub"
        BY <3>1, <3>2 DEF InsideLock
    <3>6. pc'[t] = "fetch_add"
        BY <3>1
    <3>7. room_count' = Cardinality(rooms') - 1
        BY <1>0, <3>1, <3>3, <3>4
    <3> QED BY <3>5, <3>6, <3>7
  <2>3. CASE Erase(t)
    <3>1. /\ pc[t] = "body" /\ op[t] \in ExclusiveOps
          /\ pc' = [pc EXCEPT ![t] = "fetch_sub"]
          /\ rooms' = rooms \ {arg[t]} /\ arg[t] \in rooms
          /\ room_count' = room_count
        BY <2>3 DEF Erase, Transition, ExclusiveOps
    <3>2. \A u \in Callers : pc[u] \in InsideLock => u = t
        BY <3>1, ExclusiveAlone DEF InsideLock
    <3>0. arg[t] \in rooms
        BY <3>1
    <3>3. Cardinality(rooms \ {arg[t]}) = Cardinality(rooms) - 1
        BY <3>0, EraseCounts, IsFiniteSet(rooms) DEF CapacityInv
    <3>4. room_count = Cardinality(rooms)
        BY <3>1, <3>2 DEF InsideLock
    <3>5. \A u \in Callers : pc'[u] # "fetch_add"
        BY <3>1, <3>2 DEF InsideLock
    <3>6. pc'[t] = "fetch_sub"
        BY <3>1
    <3>7. room_count' = Cardinality(rooms') + 1
        BY <1>0, <3>1, <3>3, <3>4
    <3> QED BY <3>5, <3>6, <3>7
  <2>4. CASE FetchAdd(t) \/ FetchSub(t)
    <3>1. /\ pc[t] \in {"fetch_add", "fetch_sub"} /\ op[t] \in ExclusiveOps
          /\ pc' = [pc EXCEPT ![t] = "unlock"] /\ rooms' = rooms
        BY <2>4 DEF FetchAdd, FetchSub, Transition, OpInv, ExclusiveOps, table
    <3>2. \A u \in Callers : pc[u] \in InsideLock => u = t
        BY <3>1, ExclusiveAlone DEF InsideLock
    <3>3. room_count' = Cardinality(rooms)
        BY <1>0, <2>4 DEF FetchAdd, FetchSub, Transition
    <3>4. \A u \in Callers : pc'[u] \notin {"fetch_add", "fetch_sub"}
        BY <3>1, <3>2 DEF InsideLock
    <3> QED BY <3>1, <3>3, <3>4
  <2> QED BY <2>1, <2>2, <2>3, <2>4 DEF Step
<1>3. CASE SetMaintenanceMode \/ ShutdownDone
    BY <1>3 DEF SetMaintenanceMode, ShutdownDone, table
<1>4. CASE ShutdownLists \/ ShutdownCloses \/ ListRooms
    BY <1>4 DEF ShutdownLists, ShutdownCloses, ListRooms, Enter, Transition, table
<1>5. CASE UNCHANGED vars
    BY <1>5 DEF vars
<1> QED BY <1>1, <1>2, <1>3, <1>4, <1>5 DEF Next

(* The listing covers every room there will be: a thread admitted before   *)
(* it has inserted its room by then, since it holds mutex_ until it has.   *)
LEMMA CoverStep ==
    /\ TypeOK /\ OpInv /\ LockInv /\ CapacityInv /\ CoverInv
    /\ [Next]_vars
    => CoverInv'
<1> SUFFICES ASSUME TypeOK, OpInv, LockInv, CapacityInv, CoverInv, [Next]_vars
             PROVE  CoverInv'
    OBVIOUS
<1> USE DEF CoverInv, TypeOK
<1>0. Shutdown \in Callers
    BY DEF Callers
<1>1. CASE \E t \in Callers : Call(t)
  <2> PICK t \in Threads : Call(t)
      BY <1>1 DEF Call
  <2>1. t # Shutdown
      BY ThreadAssumption
  <2> QED BY <2>1, <1>0 DEF Call, Enter, Transition, table, shutdown, BeingClosed
<1>2. CASE \E t \in Callers : Step(t)
  <2> PICK t \in Callers : Step(t)
      BY <1>2
  <2>1. CASE LockExclusive(t) \/ LockShared(t)
      BY <2>1, <1>0
      DEF LockExclusive, LockShared, Transition, table, shutdown, BeingClosed
  <2>2. CASE Unlock(t)
      BY <2>2, <1>0 DEF Unlock, Transition, table, shutdown, BeingClosed
  <2>3. CASE Admit(t)
    <3>1. t # Shutdown
        BY <2>3, <1>0 DEF Admit, CreateOps, OpInv
    <3> QED BY <2>3, <3>1, <1>0
        DEF Admit, Transition, table, shutdown, BeingClosed
  <2>4. CASE Refuse(t) \/ NotFound(t)
    <3>1. CASE Refuse(t)
      <4>1. t # Shutdown
          BY <3>1, <1>0 DEF Refuse, CreateOps, OpInv
      <4> QED BY <3>1, <4>1, <1>0
          DEF Refuse, Transition, table, shutdown, BeingClosed
    <3>2. CASE NotFound(t)
      <4>1. \A r \in rooms : r \in BeingClosed => r \in BeingClosed'
          BY <3>2, <1>0 DEF NotFound, Transition, BeingClosed
      <4>2. UNCHANGED <<table, shutdown, op>>
            /\ (pc'[Shutdown] = "lock" => pc[Shutdown] = "lock")
            /\ (pc'[Shutdown] = "body" => pc[Shutdown] = "body")
          BY <3>2, <1>0 DEF NotFound, Transition
      <4> QED BY <4>1, <4>2 DEF table, shutdown
    <3> QED BY <2>4, <3>1, <3>2
  <2>5. CASE Insert(t)
    <3>1. /\ t # Shutdown
          /\ is_maintaining # "on"
        BY <2>5, <1>0 DEF Insert, Transition, CapacityInv, OpInv, CreateOps
    <3>2. stage \notin {"listed", "closed"}
        BY <3>1
    <3> QED BY <2>5, <3>1, <3>2, <1>0 DEF Insert, Transition, shutdown
  <2>6. CASE Erase(t)
    <3>1. rooms' = rooms \ {arg[t]}
        BY <2>6 DEF Erase
    <3>2. \A r \in rooms' : r \in BeingClosed => r \in BeingClosed'
        BY <2>6, <1>0 DEF Erase, Transition, BeingClosed
    <3>3. UNCHANGED <<is_maintaining, shutdown, op>>
          /\ (pc'[Shutdown] = "lock" => pc[Shutdown] = "lock")
          /\ (pc'[Shutdown] = "body" => pc[Shutdown] = "body")
        BY <2>6, <1>0 DEF Erase, Transition
    <3> QED BY <3>1, <3>2, <3>3 DEF shutdown
  <2>7. CASE FetchAdd(t) \/ FetchSub(t) \/ Read(t)
    <3>1. CASE FetchAdd(t) \/ FetchSub(t)
        BY <3>1, <1>0
        DEF FetchAdd, FetchSub, Transition, table, shutdown, BeingClosed
    <3>2. CASE Read(t)
      <4>1. t # Shutdown
          BY <3>2, ThreadAssumption DEF Read
      <4> QED BY <3>2, <4>1, <1>0
          DEF Read, Transition, table, shutdown, BeingClosed
    <3> QED BY <2>7, <3>1, <3>2
  <2> QED BY <2>1, <2>2, <2>3, <2>4, <2>5, <2>6, <2>7 DEF Step
<1>3. CASE SetMaintenanceMode
    BY <1>3, <1>0 DEF SetMaintenanceMode
<1>4. CASE ShutdownLists
    BY <1>4, <1>0 DEF ShutdownLists, Enter, Transition, table, shutdown
<1>5. CASE ListRooms
    BY <1>5, <1>0 DEF ListRooms, Transition
<1>6. CASE ShutdownCloses
  <2>1. PICK r \in to_close : /\ Enter(Shutdown, "CloseRoom", r)
                              /\ to_close' = to_close \ {r}
      BY <1>6 DEF ShutdownCloses
  <2>2. /\ op'[Shutdown] = "CloseRoom" /\ pc'[Shutdown] = "lock"
        /\ arg'[Shutdown] = r /\ rooms' = rooms
        /\ UNCHANGED is_maintaining
      BY <2>1, <1>0 DEF Enter, Transition, table
  <2>3. r \in BeingClosed' /\ BeingClosed = {}
      BY <2>1, <2>2 DEF BeingClosed, Enter, Transition
  <2> QED BY <1>6, <2>1, <2>2, <2>3 DEF ShutdownCloses
<1>7. CASE ShutdownDone
    BY <1>7, <1>0 DEF ShutdownDone, table, BeingClosed, OpInv
<1>8. CASE UNCHANGED vars
    BY <1>8 DEF vars, BeingClosed
<1> QED BY <1>1, <1>2, <1>3, <1>4, <1>5, <1>6, <1>7, <1>8 DEF Next

-----------------------------------------------------------------------------

(* IInv holds in every reachable state.                                    *)
LEMMA Invariance == Spec => []IInv
<1>1. Init => IInv
  <2> SUFFICES ASSUME Init PROVE IInv
      OBVIOUS
  <2>1. TypeOK /\ OpInv /\ LockInv /\ CoverInv
      BY ThreadAssumption
      DEF Init, TypeOK, OpInv, LockInv, CoverInv, Callers, InsideLock
  <2>2. IsFiniteSet(rooms) /\ Cardinality(rooms) = 0
      BY FS_EmptySet DEF Init
  <2>3. CapacityInv /\ CountInv
      BY <2>2, CapacityAssumption DEF Init, CapacityInv, CountInv
  <2> QED BY <2>1, <2>3 DEF IInv
<1>2. IInv /\ [Next]_vars => IInv'
    BY TypeStep, OpStep, LockStep, CapacityStep, CountStep, CoverStep DEF IInv
<1> QED BY <1>1, <1>2, PTL DEF Spec

(* Every variable of RoomManager has its type in every reachable state.    *)
THEOREM TypeCorrect == Spec => []TypeOK
<1>1. IInv => TypeOK
    BY DEF IInv
<1> QED BY <1>1, Invariance, PTL

(* A lock-free load of room_count_ always gives a number of rooms the      *)
(* server can have, for any number of threads and any capacity.            *)
THEOREM CountIsReportable == Spec => []ReportedCountInRange
<1>1. IInv => ReportedCountInRange
  <2> SUFFICES ASSUME IInv PROVE room_count \in 0 .. MaxRooms
      BY DEF ReportedCountInRange
  <2> USE CapacityAssumption DEF IInv, CapacityInv, CountInv
  <2>1. Cardinality(rooms) \in Nat
      BY FS_CardinalityType
  <2>2. CASE \E t \in Callers : pc[t] = "fetch_add"
      BY <2>1, <2>2
  <2>3. CASE \E t \in Callers : pc[t] = "fetch_sub"
      BY <2>1, <2>3
  <2> QED BY <2>1, <2>2, <2>3
<1> QED BY <1>1, Invariance, PTL

(* Outside exclusive sections room_count_ is exactly rooms_.size().        *)
THEOREM CountIsExact == Spec => []CountMatchesRooms
<1>1. IInv => CountMatchesRooms
  <2> SUFFICES ASSUME IInv, writer = NoThread
               PROVE  room_count = Cardinality(rooms)
      BY DEF CountMatchesRooms
  <2>1. \A t \in Callers : pc[t] \notin {"fetch_add", "fetch_sub"}
      BY ThreadAssumption
      DEF IInv, LockInv, OpInv, Callers, InsideLock, ExclusiveOps
  <2> QED BY <2>1 DEF IInv, CountInv
<1> QED BY <1>1, Invariance, PTL

(* When GracefulShutdown's loop is over the table is empty, whatever the   *)
(* handlers were doing when the flag was stored.                           *)
THEOREM ShutdownIsComplete == Spec => []ShutdownEmptiesTable
<1>1. IInv => ShutdownEmptiesTable
    BY DEF IInv, CoverInv, ShutdownEmptiesTable
<1> QED BY <1>1, Invariance, PTL

(* The map under its lock is the atomic table of RoomTable: the insertion, *)
(* the erasure, the store of the flag and the listing are its four steps,  *)
(* with its guards still true when they happen; the rest is invisible.     *)
THEOREM Refinement == Spec => ImplementsTable
<1>1. Init => Table!Init
    BY DEF Init, Table!Init
<1>2. IInv /\ [Next]_vars => [Table!Next]_(Table!vars)
  <2> SUFFICES ASSUME IInv, [Next]_vars
               PROVE  Table!Next \/ UNCHANGED <<rooms, is_maintaining>>
      BY DEF Table!vars
  <2> USE DEF IInv, table
  <2>1. CASE \E t \in Callers : Call(t)
      BY <2>1 DEF Call, Enter
  <2>2. CASE \E t \in Callers : Step(t)
    <3> PICK t \in Callers : Step(t)
        BY <2>2
    <3>1. CASE Insert(t)
      <4>1. /\ arg[t] \in RoomIds \ rooms
            /\ Cardinality(rooms) < MaxRooms
            /\ is_maintaining \in {"off", "racing"}
            /\ rooms' = rooms \cup {arg[t]} /\ UNCHANGED is_maintaining
          BY <3>1 DEF Insert, Transition, CapacityInv, OpInv, TypeOK
      <4>2. FALSE \in Table!MaintenanceReads
        <5>1. CASE is_maintaining = "off"
            BY <5>1 DEF Table!MaintenanceReads
        <5>2. CASE is_maintaining = "racing"
            BY <5>2 DEF Table!MaintenanceReads
        <5> QED BY <4>1, <5>1, <5>2
      <4>3. Table!HasCapacity
          BY <4>1 DEF Table!HasCapacity, Table!Cardinality, Cardinality
      <4>4. Table!CreateRoomWithId(arg[t])
          BY <4>1, <4>2, <4>3, Zenon DEF Table!CreateRoomWithId
      <4> QED BY <4>1, <4>4 DEF Table!Next
    <3>2. CASE Erase(t)
      <4>1. Table!CloseRoom(arg[t]) /\ arg[t] \in RoomIds
          BY <3>2 DEF Erase, Table!CloseRoom, OpInv
      <4> QED BY <4>1 DEF Table!Next
    <3>3. CASE ~Insert(t) /\ ~Erase(t)
        BY <3>3 DEF Step, LockExclusive, LockShared, Unlock, Admit, Refuse,
                    FetchAdd, NotFound, FetchSub, Read
    <3> QED BY <3>1, <3>2, <3>3
  <2>3. CASE SetMaintenanceMode
    <3>1. Table!SetMaintenanceMode
        BY <2>3 DEF SetMaintenanceMode, Table!SetMaintenanceMode, CoverInv
    <3> QED BY <3>1 DEF Table!Next
  <2>4. CASE ListRooms
    <3>1. Table!GetAllRooms
        BY <2>4 DEF ListRooms, Transition, Table!GetAllRooms, CoverInv
    <3> QED BY <3>1 DEF Table!Next
  <2>5. CASE ShutdownLists \/ ShutdownCloses \/ ShutdownDone
      BY <2>5 DEF ShutdownLists, ShutdownCloses, ShutdownDone, Enter
  <2>6. CASE UNCHANGED vars
      BY <2>6 DEF vars
  <2> QED BY <2>1, <2>2, <2>3, <2>4, <2>5, <2>6 DEF Next
<1> QED BY <1>1, <1>2, Invariance, PTL DEF Spec, ImplementsTable, Table!Spec
=============================================================================
