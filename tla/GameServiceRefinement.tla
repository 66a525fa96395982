------------------------ MODULE GameServiceRefinement ------------------------
(***************************************************************************)
(* GameService implements BattleService, for a caller that keeps           *)
(* CreateRoom and DestroyRoom of one room apart.  The step of BattleService*)
(* is taken where a room gets its session (CreateSession), where a turn is *)
(* processed, where a room leaves the table (CloseRoom, CloseListedRoom)   *)
(* and where the shutdown is through with its list (AllClosed).            *)
(***************************************************************************)
EXTENDS GameServiceProofs

(* The part of the state BattleService sees.                               *)
seen == <<battles, drained>>

(* It is made of these three.                                              *)
LEMMA QuietMaps == UNCHANGED <<rooms, sessions, stage>> => UNCHANGED seen
BY DEF seen, battles, drained

(* A room is closed: its battle is, if it has one.                         *)
LEMMA CloseMaps ==
    ASSUME NEW r \in RoomIds, rooms' = rooms \ {r}, UNCHANGED <<sessions, stage>>
    PROVE  Service!Close(r) \/ UNCHANGED seen
<1>1. UNCHANGED drained
    BY DEF drained
<1>2. battles' = [q \in RoomIds |-> IF q = r THEN NoSession ELSE battles[q]]
    BY DEF battles
<1>3. battles = [q \in RoomIds |-> battles[q]]
    BY DEF battles
<1>4. CASE battles[r] = NoSession
    BY <1>1, <1>2, <1>3, <1>4 DEF seen
<1>5. CASE battles[r] # NoSession
  <2>1. battles' = [battles EXCEPT ![r] = NoSession]
      BY <1>2, <1>3
  <2> QED BY <1>1, <1>5, <2>1 DEF Service!Close, Service!Live
<1> QED BY <1>4, <1>5

(* Only rooms of the table are live, so one that is not live has a place.  *)
LEMMA LiveBelowCapacity ==
    ASSUME CapacityInv, NEW r \in rooms, ~BE!HasSession(r)
    PROVE  Cardinality(Service!Live) < MaxRooms
<1>1. Service!Live \subseteq rooms \ {r}
    BY DEF Service!Live, battles, BE!HasSession
<1>2. IsFiniteSet(rooms \ {r}) /\ Cardinality(rooms \ {r}) = Cardinality(rooms) - 1
    BY FS_RemoveElement DEF CapacityInv
<1>3. Cardinality(Service!Live) <= Cardinality(rooms \ {r})
    BY <1>1, <1>2, FS_Subset
<1>4. /\ Cardinality(rooms) \in Nat /\ Cardinality(rooms \ {r}) \in Nat
      /\ Cardinality(Service!Live) \in Nat
    BY <1>1, <1>2, FS_Subset, FS_CardinalityType DEF CapacityInv
<1> QED BY <1>2, <1>3, <1>4, CapacityAssumption DEF CapacityInv

(* A session is added: its room, if it is still there, opens its battle.   *)
LEMMA OpenMaps ==
    ASSUME IInv, NEW r \in RoomIds, NEW b, UNCHANGED <<rooms, stage>>,
           BE!CreateSession(r, b)
    PROVE  (\E c \in Battles : Service!Open(r, c)) \/ UNCHANGED seen
<1>1. UNCHANGED drained
    BY DEF drained
<1>2. sessions' = [sessions EXCEPT ![r] = [battle |-> b, moves |-> 0]]
    BY DEF BE!CreateSession
<1>3. sessions \in [RoomIds -> BE!Session \cup {NoSession}]
    BY DEF IInv, TypeOK, BE!TypeOK
<1>4. CASE r \notin rooms
    BY <1>1, <1>2, <1>3, <1>4 DEF seen, battles
<1>5. CASE r \in rooms
  <2>1. battles' = [battles EXCEPT ![r] = [battle |-> b, moves |-> 0]]
      BY <1>2, <1>3, <1>5 DEF battles
  <2>2. ~drained
      BY <1>5 DEF IInv, StageInv, drained
  <2>3. r \notin Service!Live
      BY <1>5 DEF BE!CreateSession, BE!HasSession, Service!Live, battles
  <2>4. Cardinality(Service!Live) < MaxRooms
      BY <1>5, LiveBelowCapacity DEF BE!CreateSession, IInv
  <2>5. b \in Battles
      BY DEF BE!CreateSession
  <2> QED BY <1>1, <2>1, <2>2, <2>3, <2>4, <2>5
      DEF Service!Open, Service!Cardinality, Cardinality
<1> QED BY <1>4, <1>5

(* A turn is processed in the session of the room, if the room is there.   *)
LEMMA TurnMaps ==
    ASSUME TypeOK, NEW r \in RoomIds, UNCHANGED <<rooms, stage>>, BE!ProcessTurn(r)
    PROVE  Service!Turn(r) \/ UNCHANGED seen
<1>1. UNCHANGED drained
    BY DEF drained
<1>2. sessions' = [sessions EXCEPT ![r].moves = @ + 1]
    BY DEF BE!ProcessTurn
<1>3. sessions \in [RoomIds -> BE!Session \cup {NoSession}]
    BY DEF TypeOK, BE!TypeOK
<1>4. CASE r \notin rooms
    BY <1>1, <1>2, <1>3, <1>4 DEF seen, battles
<1>5. CASE r \in rooms
  <2>1. battles[r] = sessions[r]
      BY <1>5 DEF battles
  <2>2. battles' = [battles EXCEPT ![r].moves = @ + 1]
      BY <1>2, <1>3, <1>5 DEF battles
  <2> QED BY <1>1, <2>1, <2>2
      DEF Service!Turn, Service!Live, BE!ProcessTurn, BE!HasSession
<1> QED BY <1>4, <1>5

-----------------------------------------------------------------------------

(* Each step of a handler is one of BattleService, or none.                *)
LEMMA HandlerMaps ==
    ASSUME Apart, ApartInv, [Next]_vars, NEW t \in Threads, Handler(t)
    PROVE  Service!Next \/ UNCHANGED seen
<1>1. PairInv /\ PairInv' /\ IInv
    BY PairStep DEF ApartInv
<1>2. pc[t] # "idle" => room[t] \in RoomIds
    BY <1>1 DEF IInv, PlaceInv
<1>3. pc \in [Threads -> {"idle", "reply"} \cup CreatePlaces \cup CommandPlaces
                          \cup DestroyPlaces]
    BY <1>1 DEF IInv, TypeOK
<1>4. CASE IsInMaintenanceMode(t)
    BY <1>4, MaintenanceSteps, QuietMaps
    DEF Reply, Goto, table, shutdown
<1>5. CASE CanCreateRoom(t)
    BY <1>5, CapacitySteps, QuietMaps DEF Reply, Goto, table, shutdown
<1>6. CASE CreateRoomWithId(t)
  <2>1. CASE Goto(t, "c_insert", "c_session") /\ RT!CreateRoomWithId(room[t])
    <3>1. /\ rooms' = rooms \cup {room[t]} /\ pc'[t] = "c_session"
          /\ UNCHANGED <<room, stage, sessions>>
        BY <1>3, <1>6, <2>1, InsertsBeforeListing
        DEF Goto, Transition, CreateRoomWithId, request, shutdown
    <3>2. sessions[room[t]] = NoSession
        BY <1>1, <3>1 DEF PairInv, Creating, BE!HasSession
    <3> QED BY <3>1, <3>2 DEF seen, battles, drained
  <2>2. CASE Reply(t, "c_insert", 4) /\ RT!CreateRoomRefused(room[t])
      BY <1>6, <2>2, QuietMaps
      DEF CreateRoomWithId, Reply, RT!CreateRoomRefused, RT!vars, shutdown
  <2> QED BY <1>6, <2>1, <2>2 DEF CreateRoomWithId
<1>7. CASE CreateSession(t)
  <2>1. CASE Goto(t, "c_session", "c_state") /\ BE!CreateSession(room[t], input[t])
    <3>1. UNCHANGED <<rooms, stage>> /\ room[t] \in RoomIds
        BY <1>2, <1>7, <2>1
        DEF CreateSession, Goto, Transition, table, shutdown
    <3> QED BY <1>1, <2>1, <3>1, OpenMaps DEF Service!Next
  <2>2. CASE Goto(t, "c_session", "c_undo") /\ BE!CreateSessionFails(room[t], input[t])
      BY <1>7, <2>2, QuietMaps
      DEF CreateSession, Goto, BE!CreateSessionFails, table, shutdown
  <2> QED BY <1>7, <2>1, <2>2 DEF CreateSession
<1>8. CASE UndoCreateRoom(t)
  <2>1. /\ pc[t] = "c_undo" /\ rooms' = rooms \ {room[t]}
        /\ UNCHANGED <<stage, sessions>>
      BY <1>8 DEF UndoCreateRoom, Reply, Transition, shutdown,
                  RT!CloseRoom, RT!CloseRoomRefused, RT!vars
  <2> QED BY <1>2, <2>1, CloseMaps DEF Service!Next
<1>9. CASE ProcessTurn(t)
  <2>1. UNCHANGED <<rooms, stage>> /\ room[t] \in RoomIds
      BY <1>2, <1>9 DEF ProcessTurn, Reply, Transition, table, shutdown
  <2>2. CASE BE!ProcessTurn(room[t])
      BY <1>1, <2>1, <2>2, TurnMaps DEF Service!Next, IInv
  <2>3. CASE BE!ProcessTurnFails(room[t])
      BY <2>1, <2>3, QuietMaps DEF BE!ProcessTurnFails
  <2> QED BY <1>9, <2>2, <2>3 DEF ProcessTurn
<1>10. CASE CloseRoom(t)
  <2>1. /\ pc[t] = "d_room" /\ rooms' = rooms \ {room[t]}
        /\ UNCHANGED <<stage, sessions>>
      BY <1>10 DEF CloseRoom, Reply, Goto, Transition, shutdown,
                   RT!CloseRoom, RT!CloseRoomRefused, RT!vars
  <2> QED BY <1>2, <2>1, CloseMaps DEF Service!Next
<1>11. CASE DestroySession(t)
  <2>1. /\ room[t] \notin rooms /\ UNCHANGED <<rooms, stage>>
        /\ sessions' = [sessions EXCEPT ![room[t]] = NoSession]
      BY <1>1, <1>11 DEF DestroySession, Goto, Transition, table, shutdown,
                         BE!DestroySession, PairInv
  <2> QED BY <1>1, <2>1 DEF seen, battles, drained, IInv, TypeOK, BE!TypeOK
<1>12. CASE GetState(t) \/ SetRoomData(t) \/ GetRoomStatus(t)
             \/ DeleteRoomData(t) \/ Return(t)
    BY <1>12, QuietMaps
    DEF GetState, BE!GetState, BE!GetStateFails, SetRoomData, GetRoomStatus,
        DeleteRoomData, Return, Reply, Goto, table, shutdown
<1> QED BY <1>4, <1>5, <1>6, <1>7, <1>8, <1>9, <1>10, <1>11, <1>12 DEF Handler

(* So is each other step.                                                  *)
LEMMA StepMaps ==
    ASSUME Apart, ApartInv, [Next]_vars
    PROVE  Service!Next \/ UNCHANGED seen
<1>1. CASE \E t \in Threads : Request(t)
    BY <1>1, QuietMaps DEF Request, table, shutdown
<1>2. CASE \E t \in Threads : Handler(t)
    BY <1>2, HandlerMaps
<1>3. CASE CloseListedRoom
  <2>1. PICK r \in to_close : RT!CloseRoom(r) \/ RT!CloseRoomRefused(r)
      BY <1>3 DEF CloseListedRoom
  <2>2. /\ r \in RoomIds /\ rooms' = rooms \ {r}
        /\ UNCHANGED <<stage, sessions>>
      BY <1>3, <2>1 DEF CloseListedRoom, RT!CloseRoom, RT!CloseRoomRefused,
                        RT!vars, ApartInv, IInv, TypeOK
  <2> QED BY <2>2, CloseMaps DEF Service!Next
<1>4. CASE AllClosed
  <2>1. rooms = {} /\ UNCHANGED <<rooms, sessions>> /\ drained'
      BY <1>4 DEF AllClosed, ApartInv, IInv, StageInv, table, drained
  <2>2. Service!Live = {} /\ UNCHANGED battles
      BY <2>1 DEF Service!Live, battles
  <2> QED BY <2>1, <2>2 DEF Service!Next, Service!Drain
<1>5. CASE SetMaintenanceMode \/ GetAllRooms \/ Stop
  <2>1. UNCHANGED <<rooms, sessions, drained>>
      BY <1>5 DEF SetMaintenanceMode, GetAllRooms, Stop, drained, table,
                  RT!SetMaintenanceMode, RT!GetAllRooms
  <2> QED BY <2>1 DEF seen, battles
<1>6. CASE Expire \/ ContextBreaks \/ UNCHANGED vars
    BY <1>6, QuietMaps DEF Expire, ContextBreaks, table, shutdown, vars
<1> QED BY <1>1, <1>2, <1>3, <1>4, <1>5, <1>6
    DEF Next, GracefulShutdown, Stopped

(* The handlers of many steps over two tables are, for a caller that keeps *)
(* CreateRoom and DestroyRoom of one room apart, the service whose rooms   *)
(* are their battles: the room limit, turns and SIGTERM included.          *)
THEOREM Refinement == ASSUME Apart PROVE Spec => ImplementsService
<1>1. Init => Service!Init
    BY DEF Init, RT!Init, BE!Init, Service!Init, battles, drained
<1>2. ApartInv /\ [Next]_vars => [Service!Next]_(Service!vars)
    BY StepMaps DEF seen, Service!vars
<1>3. Spec => []ApartInv
    BY ApartInvariance
<1> QED BY <1>1, <1>2, <1>3, PTL DEF Spec, ImplementsService, Service!Spec
=============================================================================
