-------------------------- MODULE GameServiceProofs --------------------------
(***************************************************************************)
(* Proofs about GameService, for any number of handler threads, any rooms, *)
(* battles and capacity.  The first part holds whatever overlaps; the      *)
(* second assumes that CreateRoom and DestroyRoom of one room do not.      *)
(***************************************************************************)
EXTENDS GameService, FiniteSetTheorems, TLAPS

(* The place of a thread, its operation and its room go together.          *)
PlaceInv ==
    \A t \in Threads :
        /\ pc[t] = "idle" => op[t] = "none" /\ room[t] = NoRoom
        /\ pc[t] # "idle" => op[t] \in Ops /\ room[t] \in RoomIds
        /\ pc[t] \in CreatePlaces => op[t] = "CreateRoom"
        /\ pc[t] \in CommandPlaces => op[t] = "SendCommand"
        /\ pc[t] \in DestroyPlaces => op[t] = "DestroyRoom"
        /\ pc[t] \in {"c_save", "s_save"} => snap[t] \in BE!Session

(* The stages of GracefulShutdown against the flag and the table.          *)
StageInv ==
    /\ stage = "serving" <=> is_maintaining = "off"
    /\ stage = "waiting" <=> is_maintaining = "racing"
    /\ stage = "closing" => rooms \subseteq to_close
    /\ stage \in {"closed", "stopped"} => rooms = {}

CapacityInv == IsFiniteSet(rooms) /\ Cardinality(rooms) <= MaxRooms

-----------------------------------------------------------------------------

(* An operation's inputs are what the request type of its RPC can carry.   *)
LEMMA InputsTyped ==
    ASSUME NEW o \in Ops PROVE Inputs(o) \subseteq Inits \cup {Action, NoInput}
BY DEF Ops, Inputs, Inits

(* First(o) is a place of operation o.                                     *)
LEMMA FirstTyped ==
    ASSUME NEW o \in Ops
    PROVE  \/ o = "CreateRoom" /\ First(o) = "c_maintenance"
           \/ o = "SendCommand" /\ First(o) = "s_room"
           \/ o = "DestroyRoom" /\ First(o) = "d_room"
BY DEF Ops, First

(* The session of a battle is never taken for "no session".                *)
LEMMA SessionTyped ==
    /\ \A b \in Battles : [battle |-> b, moves |-> 0] \in BE!Session
    /\ NoSession \notin BE!Session
BY MovesAssumption, NoSessionAssumption DEF BE!Session

(* A Redis command leaves the store typed.                                 *)
LEMMA CommandTyped ==
    ASSUME NEW r \in RoomIds, NEW d \in BE!Session \cup {NoData, Expired},
           NEW b, RS!TypeOK, RS!Command(r, d, b)
    PROVE  RS!TypeOK'
BY DEF RS!TypeOK, RS!Command, RS!vars

(* The two checks before the request's own either answer or go on.         *)
LEMMA MaintenanceSteps ==
    ASSUME NEW t \in Threads, IsInMaintenanceMode(t)
    PROVE  /\ Reply(t, "c_maintenance", 1) \/ Goto(t, "c_maintenance", "c_can")
           /\ UNCHANGED <<table, sessions, store>>
BY Zenon DEF IsInMaintenanceMode

(* CanCreateRoom and the request's checks answer, or leave an input that   *)
(* is an id with JSON.                                                     *)
LEMMA CapacitySteps ==
    ASSUME NEW t \in Threads, CanCreateRoom(t)
    PROVE  /\ \/ Reply(t, "c_can", 2) \/ Reply(t, "c_can", 3)
              \/ Reply(t, "c_can", 5)
              \/ /\ Goto(t, "c_can", "c_insert")
                 /\ input[t] \notin {EmptyId, Unparsable}
           /\ UNCHANGED <<table, sessions, store>>
BY Zenon DEF CanCreateRoom

(* Every variable keeps its type, whatever the interleaving.               *)
LEMMA TypeStep == TypeOK /\ PlaceInv /\ [Next]_vars => TypeOK'
<1> SUFFICES ASSUME TypeOK, PlaceInv, [Next]_vars PROVE TypeOK'
    OBVIOUS
<1> USE DEF TypeOK, RT!TypeOK, BE!TypeOK, table, store, request, shutdown,
            CreatePlaces, CommandPlaces, DestroyPlaces
<1>1. CASE \E t \in Threads : Request(t)
  <2> PICK t \in Threads : Request(t)
      BY <1>1
  <2>1. PICK o \in Ops, r \in RoomIds :
            /\ Transition(t, "idle", First(o))
            /\ op' = [op EXCEPT ![t] = o]
            /\ room' = [room EXCEPT ![t] = r]
            /\ \E i \in Inputs(o) : input' = [input EXCEPT ![t] = i]
      BY DEF Request
  <2>2. input' \in [Threads -> Inits \cup {Action, NoInput}]
      BY <2>1, InputsTyped
  <2>3. pc' \in [Threads -> {"idle", "reply"} \cup CreatePlaces
                           \cup CommandPlaces \cup DestroyPlaces]
      BY <2>1, FirstTyped DEF Transition
  <2> QED BY <2>1, <2>2, <2>3 DEF Request, RS!TypeOK
<1>2. CASE \E t \in Threads : Handler(t)
  <2> PICK t \in Threads : Handler(t)
      BY <1>2
  <2>1. CASE IsInMaintenanceMode(t) \/ CanCreateRoom(t) \/ GetRoomStatus(t)
    <3>1. CASE IsInMaintenanceMode(t)
        BY <3>1, MaintenanceSteps DEF Reply, Goto, Transition, RS!TypeOK
    <3>2. CASE CanCreateRoom(t)
        BY <3>2, CapacitySteps DEF Reply, Goto, Transition, RS!TypeOK
    <3>3. CASE GetRoomStatus(t)
        BY <3>3 DEF GetRoomStatus, Reply, Goto, Transition, RS!TypeOK
    <3> QED BY <2>1, <3>1, <3>2, <3>3
  <2>2. CASE CreateRoomWithId(t) \/ UndoCreateRoom(t) \/ CloseRoom(t)
    <3>1. room[t] \in RoomIds
        BY <2>2 DEF PlaceInv, CreateRoomWithId, UndoCreateRoom, CloseRoom,
                    Reply, Goto, Transition
    <3>2. rooms' \subseteq RoomIds /\ UNCHANGED is_maintaining
        BY <2>2, <3>1
        DEF CreateRoomWithId, UndoCreateRoom, CloseRoom, RT!CreateRoomWithId,
            RT!CreateRoomRefused, RT!CloseRoom, RT!CloseRoomRefused, RT!vars
    <3>3. CASE CreateRoomWithId(t)
        BY <3>2, <3>3 DEF CreateRoomWithId, Reply, Goto, Transition, RS!TypeOK
    <3>4. CASE UndoCreateRoom(t)
        BY <3>2, <3>4 DEF UndoCreateRoom, Reply, Transition, RS!TypeOK
    <3>5. CASE CloseRoom(t)
        BY <3>2, <3>5 DEF CloseRoom, Reply, Goto, Transition, RS!TypeOK
    <3> QED BY <2>2, <3>3, <3>4, <3>5
  <2>3. CASE CreateSession(t)
      BY <2>3, SessionTyped
      DEF CreateSession, Goto, Transition, BE!CreateSession,
          BE!CreateSessionFails, RS!TypeOK
  <2>4. CASE GetState(t)
    <3>1. room[t] \in RoomIds
        BY <2>4 DEF PlaceInv, GetState, Reply, Transition
    <3>2. BE!HasSession(room[t]) => sessions[room[t]] \in BE!Session
        BY <3>1 DEF BE!HasSession
    <3> QED BY <2>4, <3>2
        DEF GetState, Reply, Transition, BE!GetState, BE!GetStateFails, RS!TypeOK
  <2>5. CASE SetRoomData(t) \/ DeleteRoomData(t)
    <3>1. room[t] \in RoomIds /\ (SetRoomData(t) => snap[t] \in BE!Session)
        BY <2>5 DEF PlaceInv, SetRoomData, DeleteRoomData, Reply, Transition
    <3>2. RS!TypeOK'
        BY <2>5, <3>1, CommandTyped
        DEF SetRoomData, DeleteRoomData, RS!SetRoomData, RS!DeleteRoomData
    <3> QED BY <2>5, <3>2 DEF SetRoomData, DeleteRoomData, Reply, Transition
  <2>6. CASE ProcessTurn(t)
    <3>1. room[t] \in RoomIds
        BY <2>6 DEF PlaceInv, ProcessTurn, Reply, Transition
    <3>2. sessions' \in [RoomIds -> BE!Session \cup {NoSession}]
        BY <2>6, <3>1, MovesAssumption
        DEF ProcessTurn, BE!ProcessTurn, BE!ProcessTurnFails, BE!HasSession,
            BE!Session
    <3> QED BY <2>6, <3>1, <3>2
        DEF ProcessTurn, Reply, Transition, RS!TypeOK
  <2>7. CASE DestroySession(t) \/ Return(t)
      BY <2>7 DEF DestroySession, Return, Goto, Transition, BE!DestroySession,
                  NoCode, RS!TypeOK
  <2> QED BY <2>1, <2>2, <2>3, <2>4, <2>5, <2>6, <2>7 DEF Handler
<1>3. CASE SetMaintenanceMode \/ GracefulShutdown \/ Stop
    BY <1>3 DEF SetMaintenanceMode, GracefulShutdown, GetAllRooms,
                CloseListedRoom, AllClosed, Stop, handlers, RS!TypeOK,
                RT!SetMaintenanceMode, RT!GetAllRooms, RT!CloseRoom,
                RT!CloseRoomRefused, RT!vars
<1>4. CASE Expire \/ ContextBreaks
    BY <1>4 DEF Expire, ContextBreaks, RS!Expire, RS!ContextBreaks, handlers,
                RS!TypeOK
<1>5. CASE UNCHANGED vars
    BY <1>5 DEF vars, RS!TypeOK
<1> QED BY <1>1, <1>2, <1>3, <1>4, <1>5 DEF Next, Stopped

(* A thread runs its operation from the first place to the reply.          *)
LEMMA PlaceStep == TypeOK /\ PlaceInv /\ [Next]_vars => PlaceInv'
<1> SUFFICES ASSUME TypeOK, PlaceInv, [Next]_vars PROVE PlaceInv'
    OBVIOUS
<1> USE DEF TypeOK, PlaceInv, request, Ops, CreatePlaces, CommandPlaces,
            DestroyPlaces
<1>1. CASE \E t \in Threads : Request(t)
  <2> PICK t \in Threads : Request(t)
      BY <1>1
  <2>1. PICK o \in Ops, r \in RoomIds :
            /\ Transition(t, "idle", First(o))
            /\ op' = [op EXCEPT ![t] = o]
            /\ room' = [room EXCEPT ![t] = r]
      BY DEF Request
  <2>2. UNCHANGED snap
      BY DEF Request
  <2> QED BY <2>1, <2>2, FirstTyped DEF Transition
<1>2. CASE \E t \in Threads : Handler(t)
  <2> PICK t \in Threads : Handler(t)
      BY <1>2
  <2>1. CASE IsInMaintenanceMode(t)
      BY <2>1, MaintenanceSteps DEF Reply, Goto, Transition
  <2>2. CASE CanCreateRoom(t)
      BY <2>2, CapacitySteps DEF Reply, Goto, Transition
  <2>3. CASE CreateRoomWithId(t)
      BY <2>3 DEF CreateRoomWithId, Reply, Goto, Transition
  <2>4. CASE CreateSession(t) \/ UndoCreateRoom(t)
      BY <2>4 DEF CreateSession, UndoCreateRoom, Reply, Goto, Transition
  <2>5. CASE GetState(t)
    <3>1. BE!HasSession(room[t]) => sessions[room[t]] \in BE!Session
        BY <2>5 DEF GetState, Reply, Transition, BE!HasSession, BE!TypeOK
    <3> QED BY <2>5, <3>1 DEF GetState, Reply, Transition, BE!GetState
  <2>6. CASE SetRoomData(t) \/ GetRoomStatus(t)
      BY <2>6 DEF SetRoomData, GetRoomStatus, Reply, Goto, Transition
  <2>7. CASE ProcessTurn(t)
    <3>1. BE!ProcessTurn(room[t]) => sessions'[room[t]] \in BE!Session
      <4> SUFFICES ASSUME BE!ProcessTurn(room[t])
                   PROVE  sessions'[room[t]] \in BE!Session
          OBVIOUS
      <4>1. room[t] \in RoomIds
          BY <2>7 DEF ProcessTurn, Reply, Transition
      <4> QED BY <4>1, MovesAssumption
          DEF BE!ProcessTurn, BE!HasSession, BE!TypeOK, BE!Session
    <3> QED BY <2>7, <3>1 DEF ProcessTurn, Reply, Transition
  <2>8. CASE CloseRoom(t) \/ DestroySession(t) \/ DeleteRoomData(t) \/ Return(t)
      BY <2>8 DEF CloseRoom, DestroySession, DeleteRoomData, Return, Reply, Goto,
                  Transition
  <2> QED BY <2>1, <2>2, <2>3, <2>4, <2>5, <2>6, <2>7, <2>8 DEF Handler
<1>3. CASE SetMaintenanceMode \/ GracefulShutdown \/ Stop \/ Expire \/ ContextBreaks
    BY <1>3 DEF SetMaintenanceMode, GracefulShutdown, GetAllRooms,
                CloseListedRoom, AllClosed, Stop, Expire, ContextBreaks, handlers
<1>4. CASE UNCHANGED vars
    BY <1>4 DEF vars
<1> QED BY <1>1, <1>2, <1>3, <1>4 DEF Next, Stopped

(* No room is inserted once the flag is ordered by mutex_.                 *)
LEMMA InsertsBeforeListing ==
    ASSUME NEW r, RT!CreateRoomWithId(r)
    PROVE  is_maintaining # "on" /\ rooms' = rooms \cup {r} /\ r \notin rooms
BY DEF RT!CreateRoomWithId, RT!MaintenanceReads

(* What a handler's step can do to the room table: nothing, insert one     *)
(* room before the listing, or close one.                                  *)
LEMMA TableSteps ==
    ASSUME NEW t \in Threads, Handler(t)
    PROVE  /\ UNCHANGED <<is_maintaining, stage, to_close>>
           /\ \/ UNCHANGED rooms
              \/ /\ pc[t] = "c_insert" /\ room[t] \notin rooms
                 /\ is_maintaining # "on" /\ RT!HasCapacity
                 /\ rooms' = rooms \cup {room[t]}
              \/ /\ pc[t] \in {"c_undo", "d_room"} /\ room[t] \in rooms
                 /\ rooms' = rooms \ {room[t]}
<1> USE DEF table, shutdown, Reply, Goto, Transition, RT!vars
<1>1. CASE IsInMaintenanceMode(t)
    BY <1>1, MaintenanceSteps
<1>2. CASE CanCreateRoom(t)
    BY <1>2, CapacitySteps
<1>3. CASE CreateRoomWithId(t)
  <2>1. CASE RT!CreateRoomWithId(room[t])
      BY <1>3, <2>1, InsertsBeforeListing
      DEF CreateRoomWithId, RT!CreateRoomWithId
  <2>2. CASE RT!CreateRoomRefused(room[t])
      BY <1>3, <2>2 DEF CreateRoomWithId, RT!CreateRoomRefused
  <2> QED BY <1>3, <2>1, <2>2 DEF CreateRoomWithId
<1>4. CASE UndoCreateRoom(t) \/ CloseRoom(t)
    BY <1>4 DEF UndoCreateRoom, CloseRoom, RT!CloseRoom, RT!CloseRoomRefused
<1>5. CASE CreateSession(t) \/ GetState(t) \/ SetRoomData(t) \/ GetRoomStatus(t)
    BY <1>5 DEF CreateSession, GetState, SetRoomData, GetRoomStatus
<1>6. CASE ProcessTurn(t) \/ DestroySession(t) \/ DeleteRoomData(t) \/ Return(t)
    BY <1>6 DEF ProcessTurn, DestroySession, DeleteRoomData, Return
<1> QED BY <1>1, <1>2, <1>3, <1>4, <1>5, <1>6 DEF Handler

(* What a handler's step can do to the sessions: add one, erase one, or    *)
(* take one a turn further; never is a battle exchanged for another.       *)
LEMMA SessionSteps ==
    ASSUME TypeOK, PlaceInv, NEW t \in Threads, Handler(t)
    PROVE  /\ \A r \in RoomIds : BE!HasSession(r) /\ BE!HasSession(r)' =>
                sessions'[r].battle = sessions[r].battle
           /\ \/ \A r \in RoomIds : BE!HasSession(r)' <=> BE!HasSession(r)
              \/ /\ pc[t] = "c_session" /\ pc'[t] = "c_state"
                 /\ \A r \in RoomIds :
                        BE!HasSession(r)' <=> r = room[t] \/ BE!HasSession(r)
              \/ /\ pc[t] = "d_session" /\ pc'[t] = "d_redis"
                 /\ \A r \in RoomIds :
                        BE!HasSession(r)' <=> r # room[t] /\ BE!HasSession(r)
<1>a. /\ sessions \in [RoomIds -> BE!Session \cup {NoSession}]
      /\ pc \in [Threads -> {"idle", "reply"} \cup CreatePlaces \cup CommandPlaces
                            \cup DestroyPlaces]
      /\ pc[t] # "idle" => room[t] \in RoomIds
    BY DEF TypeOK, BE!TypeOK, PlaceInv
<1>0. CASE UNCHANGED sessions
    BY <1>0 DEF BE!HasSession
<1>1. CASE IsInMaintenanceMode(t) \/ CanCreateRoom(t)
    BY <1>0, <1>1, MaintenanceSteps, CapacitySteps
<1>2. CASE CreateSession(t)
  <2>1. CASE Goto(t, "c_session", "c_state") /\ BE!CreateSession(room[t], input[t])
    <3> DEFINE new == [battle |-> input[t], moves |-> 0]
    <3>1. pc[t] = "c_session" /\ pc'[t] = "c_state" /\ room[t] \in RoomIds
        BY <1>a, <2>1 DEF Goto, Transition
    <3>2. /\ ~BE!HasSession(room[t]) /\ new # NoSession
          /\ sessions' = [sessions EXCEPT ![room[t]] = new]
        BY <2>1, SessionTyped DEF BE!CreateSession
    <3> HIDE DEF new
    <3>3. \A r \in RoomIds : sessions'[r] = IF r = room[t] THEN new ELSE sessions[r]
        BY <1>a, <3>2
    <3> QED BY <3>1, <3>2, <3>3 DEF BE!HasSession
  <2>2. CASE BE!CreateSessionFails(room[t], input[t])
      BY <1>0, <2>2 DEF BE!CreateSessionFails
  <2> QED BY <1>2, <2>1, <2>2 DEF CreateSession
<1>3. CASE ProcessTurn(t)
  <2>1. CASE BE!ProcessTurnFails(room[t])
      BY <1>0, <2>1 DEF BE!ProcessTurnFails
  <2>2. CASE BE!ProcessTurn(room[t])
    <3>1. room[t] \in RoomIds /\ sessions[room[t]] \in BE!Session
        BY <1>a, <1>3, <2>2
        DEF ProcessTurn, Reply, Transition, BE!ProcessTurn, BE!HasSession
    <3>2. /\ sessions'[room[t]] \in BE!Session
          /\ sessions'[room[t]].battle = sessions[room[t]].battle
        BY <1>a, <2>2, <3>1, MovesAssumption DEF BE!ProcessTurn, BE!Session
    <3>3. \A r \in RoomIds : r # room[t] => sessions'[r] = sessions[r]
        BY <1>a, <2>2 DEF BE!ProcessTurn
    <3> QED BY <3>1, <3>2, <3>3, SessionTyped DEF BE!HasSession
  <2> QED BY <1>3, <2>1, <2>2 DEF ProcessTurn
<1>4. CASE DestroySession(t)
  <2>1. /\ pc[t] = "d_session" /\ pc'[t] = "d_redis"
        /\ sessions' = [sessions EXCEPT ![room[t]] = NoSession]
      BY <1>a, <1>4 DEF DestroySession, Goto, Transition, BE!DestroySession
  <2> QED BY <1>a, <2>1 DEF BE!HasSession
<1>5. CASE CreateRoomWithId(t) \/ UndoCreateRoom(t) \/ GetState(t) \/ SetRoomData(t)
    BY <1>0, <1>5 DEF CreateRoomWithId, UndoCreateRoom, GetState, SetRoomData,
                      BE!GetState, BE!GetStateFails
<1>6. CASE GetRoomStatus(t) \/ CloseRoom(t) \/ DeleteRoomData(t) \/ Return(t)
    BY <1>0, <1>6 DEF GetRoomStatus, CloseRoom, DeleteRoomData, Return
<1> QED BY <1>1, <1>2, <1>3, <1>4, <1>5, <1>6 DEF Handler

(* A handler's step is its thread's own: the others stay where they are.   *)
LEMMA HandlerIsLocal ==
    ASSUME TypeOK, NEW t \in Threads, Handler(t), NEW u \in Threads, u # t
    PROVE  /\ pc'[u] = pc[u] /\ op'[u] = op[u] /\ room'[u] = room[u]
           /\ code'[u] = code[u]
<1> USE DEF Reply, Goto, Transition, request, TypeOK
<1>1. CASE IsInMaintenanceMode(t)
    BY <1>1, MaintenanceSteps
<1>2. CASE CanCreateRoom(t)
    BY <1>2, CapacitySteps
<1>3. CASE CreateRoomWithId(t) \/ CreateSession(t) \/ UndoCreateRoom(t) \/ GetState(t)
    BY <1>3 DEF CreateRoomWithId, CreateSession, UndoCreateRoom, GetState
<1>4. CASE SetRoomData(t) \/ GetRoomStatus(t) \/ ProcessTurn(t) \/ CloseRoom(t)
    BY <1>4 DEF SetRoomData, GetRoomStatus, ProcessTurn, CloseRoom
<1>5. CASE DestroySession(t) \/ DeleteRoomData(t) \/ Return(t)
    BY <1>5 DEF DestroySession, DeleteRoomData, Return
<1> QED BY <1>1, <1>2, <1>3, <1>4, <1>5 DEF Handler

(* The listing covers the table until every room of it is closed.          *)
LEMMA StageStep == TypeOK /\ StageInv /\ [Next]_vars => StageInv'
<1> SUFFICES ASSUME TypeOK, StageInv, [Next]_vars PROVE StageInv'
    OBVIOUS
<1> USE DEF TypeOK, StageInv, RT!TypeOK
<1>1. CASE \E t \in Threads : Request(t)
    BY <1>1 DEF Request, table, shutdown
<1>2. CASE \E t \in Threads : Handler(t)
    BY <1>2, TableSteps
<1>3. CASE SetMaintenanceMode
    BY <1>3 DEF SetMaintenanceMode, RT!SetMaintenanceMode
<1>4. CASE GetAllRooms
    BY <1>4 DEF GetAllRooms, RT!GetAllRooms
<1>5. CASE CloseListedRoom
    BY <1>5 DEF CloseListedRoom, RT!CloseRoom, RT!CloseRoomRefused, RT!vars
<1>6. CASE AllClosed \/ Stop
    BY <1>6 DEF AllClosed, Stop, table
<1>7. CASE Expire \/ ContextBreaks
    BY <1>7 DEF Expire, ContextBreaks, table, shutdown
<1>8. CASE UNCHANGED vars
    BY <1>8 DEF vars
<1> QED BY <1>1, <1>2, <1>3, <1>4, <1>5, <1>6, <1>7, <1>8
    DEF Next, GracefulShutdown, Stopped

(* The limit holds although it is checked twice with the lock released in  *)
(* between: only the second check counts.                                  *)
LEMMA CapacityStep == CapacityInv /\ [Next]_vars => CapacityInv'
<1> SUFFICES ASSUME CapacityInv, [Next]_vars PROVE CapacityInv'
    OBVIOUS
<1> USE CapacityAssumption DEF CapacityInv
<1>0. \A S \in SUBSET rooms : IsFiniteSet(S) /\ Cardinality(S) <= MaxRooms
  <2> SUFFICES ASSUME NEW S \in SUBSET rooms
               PROVE  IsFiniteSet(S) /\ Cardinality(S) <= MaxRooms
      OBVIOUS
  <2>1. IsFiniteSet(S) /\ Cardinality(S) <= Cardinality(rooms)
      BY FS_Subset
  <2>2. Cardinality(S) \in Nat /\ Cardinality(rooms) \in Nat
      BY <2>1, FS_CardinalityType
  <2> QED BY <2>1, <2>2
<1>1. CASE rooms' \subseteq rooms
    BY <1>0, <1>1
<1>2. CASE \E t \in Threads : Handler(t)
  <2> PICK t \in Threads : Handler(t)
      BY <1>2
  <2>1. CASE RT!HasCapacity /\ rooms' = rooms \cup {room[t]} /\ room[t] \notin rooms
    <3>1. Cardinality(rooms) < MaxRooms
        BY <2>1 DEF RT!HasCapacity, RT!Cardinality, Cardinality
    <3>2. IsFiniteSet(rooms') /\ Cardinality(rooms') = Cardinality(rooms) + 1
        BY <2>1, FS_AddElement
    <3>3. Cardinality(rooms) \in Nat
        BY FS_CardinalityType
    <3> QED BY <3>1, <3>2, <3>3
  <2> QED BY <1>1, <2>1, TableSteps
<1>3. CASE ~(\E t \in Threads : Handler(t))
  <2>1. rooms' \subseteq rooms
      BY <1>3 DEF Next, Request, SetMaintenanceMode, GracefulShutdown,
             GetAllRooms, CloseListedRoom, AllClosed, Stop, Expire, ContextBreaks,
             Stopped, RT!SetMaintenanceMode, RT!GetAllRooms, RT!CloseRoom,
             RT!CloseRoomRefused, RT!vars, table, vars
  <2> QED BY <1>1, <2>1
<1> QED BY <1>2, <1>3

-----------------------------------------------------------------------------

(* What holds whatever overlaps.                                           *)
IInv == TypeOK /\ PlaceInv /\ StageInv /\ CapacityInv

(* It holds of a server that has just started.                             *)
LEMMA InitInv == Init => IInv
<1> SUFFICES ASSUME Init PROVE IInv
    OBVIOUS
<1>1. TypeOK
    BY DEF Init, TypeOK, RT!Init, RT!TypeOK, BE!Init, BE!TypeOK, RS!Init,
           RS!TypeOK, NoCode
<1>2. PlaceInv /\ StageInv
    BY DEF Init, PlaceInv, StageInv, RT!Init, CreatePlaces, CommandPlaces,
           DestroyPlaces
<1>3. CapacityInv
    BY FS_EmptySet, CapacityAssumption DEF Init, RT!Init, CapacityInv
<1> QED BY <1>1, <1>2, <1>3 DEF IInv

(* And every step keeps it.                                                *)
LEMMA InvStep == IInv /\ [Next]_vars => IInv'
BY TypeStep, PlaceStep, StageStep, CapacityStep DEF IInv

(* IInv holds in every reachable state.                                    *)
LEMMA Invariance == Spec => []IInv
BY InitInv, InvStep, PTL DEF Spec

(* Every variable of the service has its type in every reachable state.    *)
THEOREM TypeCorrect == Spec => []TypeOK
<1>1. IInv => TypeOK
    BY DEF IInv
<1> QED BY <1>1, Invariance, PTL

(* CapacityInv is about the table's own limit.                             *)
LEMMA CapacityFollows == IInv => WithinCapacity
BY DEF IInv, CapacityInv, WithinCapacity, RT!WithinCapacity, RT!Cardinality,
       Cardinality

(* max_rooms_ is never exceeded, whatever overlaps.                        *)
THEOREM CapacityHolds == Spec => []WithinCapacity
BY CapacityFollows, Invariance, PTL

(* GracefulShutdown closes every room, whatever overlaps with it.          *)
THEOREM ShutdownIsComplete == Spec => []ShutdownLeavesNoRoom
<1>1. IInv => ShutdownLeavesNoRoom
    BY DEF IInv, StageInv, ShutdownLeavesNoRoom
<1> QED BY <1>1, Invariance, PTL

-----------------------------------------------------------------------------
(* From here on the caller keeps CreateRoom and DestroyRoom of one room    *)
(* apart.                                                                  *)

Apart == {"CreateRoom", "DestroyRoom"} \notin MayOverlap

(* The requests under way on one room are some the caller lets overlap.    *)
OverlapInv ==
    \A t, u \in Threads :
        t # u /\ room[t] = room[u] /\ room[t] # NoRoom =>
            {op[t], op[u]} \in MayOverlap

(* A CreateRoom that has inserted its room and not got as far as a session *)
(* or the removal of the room.                                             *)
Creating(t) == pc[t] \in {"c_session", "c_undo"}

(* Who owes what: a room without a session is one such CreateRoom's, which *)
(* is the only one on its room; a session without a room is a DestroyRoom's*)
(* that is about to erase it, and whose room cannot be back yet.           *)
PairInv ==
    /\ \A t \in Threads : Creating(t) =>
        /\ ~BE!HasSession(room[t])
        /\ ServingRooms => room[t] \in rooms
    /\ \A t, u \in Threads :
        Creating(t) /\ Creating(u) /\ room[t] = room[u] => t = u
    /\ \A t \in Threads : pc[t] = "d_session" => room[t] \notin rooms
    /\ \A r \in rooms :
        BE!HasSession(r) \/ \E t \in Threads : room[t] = r /\ Creating(t)
    /\ \A r \in RoomIds : BE!HasSession(r) /\ ServingRooms =>
        r \in rooms \/ \E t \in Threads : room[t] = r /\ pc[t] = "d_session"

(* The input of a CreateRoom that failed after its room was inserted.      *)
InputInv ==
    \A t \in Threads :
        /\ op[t] = "CreateRoom" => input[t] \in Inits
        /\ pc[t] \in {"c_insert", "c_session"} =>
            input[t] \notin {EmptyId, Unparsable}
        /\ pc[t] = "c_undo" => input[t] = Rejected
        /\ code[t] = 6 => pc[t] = "reply" /\ input[t] = Rejected

(* A request starts only if the caller lets it overlap with the others.    *)
LEMMA OverlapStep == TypeOK /\ PlaceInv /\ OverlapInv /\ [Next]_vars => OverlapInv'
<1> SUFFICES ASSUME TypeOK, PlaceInv, OverlapInv, [Next]_vars PROVE OverlapInv'
    OBVIOUS
<1> USE NoRoomAssumption DEF OverlapInv
<1>1. CASE \E t \in Threads : Request(t)
  <2> PICK t \in Threads : Request(t)
      BY <1>1
  <2>1. PICK o \in Ops, r \in RoomIds :
            /\ \A u \in Threads \ {t} : room[u] = r => {op[u], o} \in MayOverlap
            /\ op' = [op EXCEPT ![t] = o]
            /\ room' = [room EXCEPT ![t] = r]
      BY DEF Request
  <2> SUFFICES ASSUME NEW u \in Threads, NEW v \in Threads, u # v,
                      room'[u] = room'[v], room'[u] # NoRoom
               PROVE  {op'[u], op'[v]} \in MayOverlap
      OBVIOUS
  <2>2. CASE u = t
    <3>1. room[v] = r /\ op'[u] = o /\ op'[v] = op[v] /\ v \in Threads \ {t}
        BY <2>1, <2>2 DEF TypeOK
    <3>2. {op[v], o} \in MayOverlap
        BY <2>1, <3>1
    <3>3. {op'[u], op'[v]} = {op[v], o}
        BY <3>1
    <3> QED BY <3>2, <3>3
  <2>3. CASE v = t
    <3>1. room[u] = r /\ op'[v] = o /\ op'[u] = op[u] /\ u \in Threads \ {t}
        BY <2>1, <2>3 DEF TypeOK
    <3> QED BY <2>1, <3>1
  <2>4. CASE u # t /\ v # t
      BY <2>1, <2>4 DEF TypeOK
  <2> QED BY <2>2, <2>3, <2>4
<1>2. CASE \E t \in Threads : Return(t)
  <2> PICK t \in Threads : Return(t)
      BY <1>2
  <2>1. op' = [op EXCEPT ![t] = "none"] /\ room' = [room EXCEPT ![t] = NoRoom]
      BY DEF Return
  <2> QED BY <2>1 DEF TypeOK
<1>3. CASE UNCHANGED <<op, room>>
    BY <1>3
<1>4. CASE \E t \in Threads : Handler(t) /\ ~Return(t)
  <2> PICK t \in Threads : Handler(t) /\ ~Return(t)
      BY <1>4
  <2>1. CASE IsInMaintenanceMode(t) \/ CanCreateRoom(t)
      BY <1>3, <2>1, MaintenanceSteps, CapacitySteps DEF Reply, Goto, request
  <2>2. CASE ~(IsInMaintenanceMode(t) \/ CanCreateRoom(t))
    <3>1. UNCHANGED request
        BY <2>2 DEF Handler, CreateRoomWithId, CreateSession, UndoCreateRoom,
           GetState, SetRoomData, GetRoomStatus, ProcessTurn, CloseRoom,
           DestroySession, DeleteRoomData, Reply, Goto
    <3> QED BY <1>3, <3>1 DEF request
  <2> QED BY <2>1, <2>2
<1>5. CASE SetMaintenanceMode \/ GracefulShutdown \/ Stop \/ Expire \/ ContextBreaks
    BY <1>3, <1>5 DEF SetMaintenanceMode, GracefulShutdown, GetAllRooms,
                      CloseListedRoom, AllClosed, Stop, Expire, ContextBreaks, handlers
<1>6. CASE UNCHANGED vars
    BY <1>3, <1>6 DEF vars
<1> QED BY <1>1, <1>2, <1>4, <1>5, <1>6 DEF Next, Stopped

(* While a thread is inside CreateRoom, none is inside DestroyRoom on its  *)
(* room.                                                                   *)
LEMMA Exclusion ==
    ASSUME PlaceInv, OverlapInv, Apart,
           NEW t \in Threads, NEW u \in Threads,
           pc[t] \in CreatePlaces, pc[u] \in DestroyPlaces
    PROVE  room[t] # room[u]
<1>1. op[t] = "CreateRoom" /\ op[u] = "DestroyRoom" /\ room[t] # NoRoom
    BY NoRoomAssumption DEF PlaceInv, CreatePlaces, DestroyPlaces
<1>2. t # u
    BY <1>1
<1> QED BY <1>1, <1>2, Zenon DEF OverlapInv, Apart

(* Steps that concern neither the pairs nor the threads that owe one.      *)
LEMMA QuietStep ==
    ASSUME PairInv, UNCHANGED <<rooms, stage>>,
           \A r \in RoomIds : (sessions'[r] # NoSession) <=> (sessions[r] # NoSession),
           \A u \in Threads :
               /\ (pc'[u] \in {"c_session", "c_undo"})
                    <=> (pc[u] \in {"c_session", "c_undo"})
               /\ pc'[u] = "d_session" <=> pc[u] = "d_session"
               /\ pc[u] \in {"c_session", "c_undo", "d_session"} =>
                    room'[u] = room[u] /\ room[u] \in RoomIds,
           rooms \subseteq RoomIds
    PROVE  PairInv'
BY DEF PairInv, Creating, BE!HasSession, ServingRooms

(* Only what the simulator refuses makes CreateRoom undo itself, once no   *)
(* session can be in the way.                                              *)
LEMMA InputStep ==
    TypeOK /\ PlaceInv /\ PairInv /\ InputInv /\ [Next]_vars => InputInv'
<1> SUFFICES ASSUME TypeOK, PlaceInv, PairInv, InputInv, [Next]_vars
             PROVE  InputInv'
    OBVIOUS
<1> USE DEF TypeOK, InputInv, request
<1>1. CASE \E t \in Threads : Request(t)
  <2> PICK t \in Threads : Request(t)
      BY <1>1
  <2>0. PICK o \in Ops :
            /\ Transition(t, "idle", First(o))
            /\ op' = [op EXCEPT ![t] = o]
            /\ \E i \in Inputs(o) : input' = [input EXCEPT ![t] = i]
      BY DEF Request
  <2>1. PICK i \in Inputs(o) : input' = [input EXCEPT ![t] = i]
      BY <2>0
  <2>2. o = "CreateRoom" => i \in Inits
      BY <2>1 DEF Inputs
  <2>3. First(o) \in {"c_maintenance", "s_room", "d_room"}
      BY FirstTyped
  <2>4. UNCHANGED code
      BY DEF Request
  <2> QED BY <2>0, <2>1, <2>2, <2>3, <2>4 DEF Transition
<1>2. CASE \E t \in Threads : Handler(t)
  <2> PICK t \in Threads : Handler(t)
      BY <1>2
  <2>1. CASE IsInMaintenanceMode(t)
      BY <2>1, MaintenanceSteps DEF Reply, Goto, Transition
  <2>2. CASE CanCreateRoom(t)
      BY <2>2, CapacitySteps DEF Reply, Goto, Transition
  <2>3. CASE CreateRoomWithId(t) \/ GetRoomStatus(t) \/ CloseRoom(t)
    <3>1. CASE CreateRoomWithId(t)
        BY <3>1 DEF CreateRoomWithId, Reply, Goto, Transition
    <3>2. CASE GetRoomStatus(t)
        BY <3>2 DEF GetRoomStatus, Reply, Goto, Transition
    <3>3. CASE CloseRoom(t)
        BY <3>3 DEF CloseRoom, Reply, Goto, Transition
    <3> QED BY <2>3, <3>1, <3>2, <3>3
  <2>4. CASE CreateSession(t)
    <3>1. pc[t] = "c_session" /\ input[t] \in Inits /\ ~BE!HasSession(room[t])
        BY <2>4 DEF CreateSession, Goto, Transition, PlaceInv, CreatePlaces,
                    PairInv, Creating
    <3>2. CASE Goto(t, "c_session", "c_state")
        BY <3>2 DEF Goto, Transition
    <3>3. CASE Goto(t, "c_session", "c_undo") /\ BE!CreateSessionFails(room[t], input[t])
      <4>1. input[t] \in {EmptyId, Unparsable, Rejected}
          BY <3>1, <3>3 DEF BE!CreateSessionFails, Inits
      <4>2. input[t] = Rejected
          BY <3>1, <4>1
      <4> QED BY <3>3, <4>2 DEF Goto, Transition
    <3> QED BY <2>4, <3>2, <3>3 DEF CreateSession
  <2>5. CASE UndoCreateRoom(t)
      BY <2>5 DEF UndoCreateRoom, Reply, Transition
  <2>6. CASE GetState(t) \/ SetRoomData(t) \/ ProcessTurn(t)
      BY <2>6 DEF GetState, SetRoomData, ProcessTurn, Reply, Transition
  <2>7. CASE DestroySession(t) \/ DeleteRoomData(t)
      BY <2>7 DEF DestroySession, DeleteRoomData, Reply, Goto, Transition
  <2>8. CASE Return(t)
      BY <2>8 DEF Return, Transition, NoCode
  <2> QED BY <2>1, <2>2, <2>3, <2>4, <2>5, <2>6, <2>7, <2>8 DEF Handler
<1>3. CASE SetMaintenanceMode \/ GracefulShutdown \/ Stop \/ Expire \/ ContextBreaks
    BY <1>3 DEF SetMaintenanceMode, GracefulShutdown, GetAllRooms,
                CloseListedRoom, AllClosed, Stop, Expire, ContextBreaks, handlers
<1>4. CASE UNCHANGED vars
    BY <1>4 DEF vars
<1> QED BY <1>1, <1>2, <1>3, <1>4 DEF Next, Stopped

(* A handler pairs rooms and sessions by the time it has its reply.        *)
LEMMA PairStep ==
    ASSUME Apart, IInv, OverlapInv, PairInv, [Next]_vars
    PROVE  PairInv'
<1>0. /\ rooms \subseteq RoomIds
      /\ \A u \in Threads : pc[u] # "idle" => room[u] \in RoomIds
    BY DEF IInv, TypeOK, RT!TypeOK, PlaceInv
<1>a. pc \in [Threads -> {"idle", "reply"} \cup CreatePlaces \cup CommandPlaces
                          \cup DestroyPlaces]
      /\ room \in [Threads -> RoomIds \cup {NoRoom}]
      /\ sessions \in [RoomIds -> BE!Session \cup {NoSession}]
    BY DEF IInv, TypeOK, BE!TypeOK
<1>1. CASE \E t \in Threads : Request(t)
  <2> PICK t \in Threads : Request(t)
      BY <1>1
  <2>1. PICK o \in Ops, r \in RoomIds :
            /\ Transition(t, "idle", First(o))
            /\ room' = [room EXCEPT ![t] = r]
      BY DEF Request
  <2>2. UNCHANGED <<rooms, stage, sessions>>
      BY DEF Request, table, shutdown
  <2>3. First(o) \in {"c_maintenance", "s_room", "d_room"}
      BY FirstTyped
  <2> QED BY <1>0, <1>a, <2>1, <2>2, <2>3, QuietStep DEF Transition
<1>2. CASE \E t \in Threads : Handler(t)
  <2> PICK t \in Threads : Handler(t)
      BY <1>2
  <2> USE DEF Transition, request, table, shutdown
  <2>1. CASE IsInMaintenanceMode(t)
      BY <1>0, <1>a, <2>1, MaintenanceSteps, QuietStep DEF Reply, Goto
  <2>2. CASE CanCreateRoom(t)
      BY <1>0, <1>a, <2>2, CapacitySteps, QuietStep DEF Reply, Goto
  <2>3. CASE CreateRoomWithId(t)
    <3>1. CASE Goto(t, "c_insert", "c_session") /\ RT!CreateRoomWithId(room[t])
      <4>1. /\ pc[t] = "c_insert" /\ pc' = [pc EXCEPT ![t] = "c_session"]
            /\ rooms' = rooms \cup {room[t]} /\ room[t] \notin rooms
            /\ UNCHANGED <<room, stage, sessions>>
          BY <2>3, <3>1, InsertsBeforeListing DEF Goto, CreateRoomWithId
      <4>2. ServingRooms
        <5>1. is_maintaining # "on"
            BY <3>1, InsertsBeforeListing
        <5> QED BY <5>1 DEF IInv, StageInv, TypeOK, RT!TypeOK, ServingRooms
      <4>3. \A u \in Threads : pc[u] \in DestroyPlaces => room[u] # room[t]
          BY <4>1, Exclusion DEF CreatePlaces, IInv
      <4>4. room[t] \in RoomIds /\ ~BE!HasSession(room[t])
          BY <1>0, <4>1, <4>2, <4>3 DEF PairInv, DestroyPlaces
      <4>5. \A u \in Threads : Creating(u) => room[u] # room[t]
          BY <4>1, <4>2 DEF PairInv
      <4> QED BY <1>a, <4>1, <4>2, <4>3, <4>4, <4>5
          DEF PairInv, Creating, BE!HasSession, ServingRooms, DestroyPlaces
    <3>2. CASE Reply(t, "c_insert", 4) /\ RT!CreateRoomRefused(room[t])
        BY <1>0, <1>a, <2>3, <3>2, QuietStep
        DEF CreateRoomWithId, Reply, RT!CreateRoomRefused, RT!vars
    <3> QED BY <2>3, <3>1, <3>2 DEF CreateRoomWithId
  <2>4. CASE CreateSession(t)
    <3>1. CASE Goto(t, "c_session", "c_state") /\ BE!CreateSession(room[t], input[t])
      <4>1. /\ pc[t] = "c_session" /\ pc' = [pc EXCEPT ![t] = "c_state"]
            /\ UNCHANGED <<rooms, room, stage>> /\ room[t] \in RoomIds
          BY <1>0, <2>4, <3>1 DEF Goto, CreateSession
      <4>2. /\ sessions' = [sessions EXCEPT ![room[t]] = [battle |-> input[t], moves |-> 0]]
            /\ [battle |-> input[t], moves |-> 0] # NoSession
          BY <3>1, SessionTyped DEF BE!CreateSession
      <4>3. \A r \in RoomIds : sessions'[r] =
                IF r = room[t] THEN [battle |-> input[t], moves |-> 0] ELSE sessions[r]
          BY <1>a, <4>2
      <4> DEFINE new == [battle |-> input[t], moves |-> 0]
      <4> HIDE DEF new
      <4>4. \A r \in RoomIds : BE!HasSession(r)' <=> r = room[t] \/ BE!HasSession(r)
          BY <4>2, <4>3 DEF new, BE!HasSession
      <4>5. ServingRooms => room[t] \in rooms
          BY <4>1 DEF PairInv, Creating
      <4>6. \A u \in Threads : Creating(u) /\ u # t => room[u] # room[t]
          BY <4>1 DEF PairInv, Creating
      <4>7. \A u \in Threads : Creating(u)' => Creating(u) /\ u # t /\ room[u] \in RoomIds
          BY <1>0, <1>a, <4>1 DEF Creating
      <4>8. \A u \in Threads : u # t => pc'[u] = pc[u]
          BY <1>a, <4>1
      <4> HIDE DEF Transition, request, table, shutdown
      <4> QED BY <1>0, <1>a, <4>1, <4>4, <4>5, <4>6, <4>7, <4>8
          DEF PairInv, Creating, ServingRooms
    <3>2. CASE Goto(t, "c_session", "c_undo") /\ BE!CreateSessionFails(room[t], input[t])
        BY <1>0, <1>a, <2>4, <3>2, QuietStep
        DEF CreateSession, Goto, BE!CreateSessionFails
    <3> QED BY <2>4, <3>1, <3>2 DEF CreateSession
  <2>5. CASE UndoCreateRoom(t)
    <3>1. /\ pc[t] = "c_undo" /\ pc' = [pc EXCEPT ![t] = "reply"]
          /\ rooms' = rooms \ {room[t]}
          /\ UNCHANGED <<room, stage, sessions>>
        BY <2>5 DEF UndoCreateRoom, Reply, RT!CloseRoom, RT!CloseRoomRefused, RT!vars
    <3>2. \A u \in Threads : Creating(u) /\ u # t => room[u] # room[t]
        BY <3>1 DEF PairInv, Creating
    <3> QED BY <1>0, <1>a, <3>1, <3>2
        DEF PairInv, Creating, BE!HasSession, ServingRooms
  <2>6. CASE GetState(t) \/ SetRoomData(t) \/ DeleteRoomData(t)
      BY <1>0, <1>a, <2>6, QuietStep
      DEF GetState, SetRoomData, DeleteRoomData, Reply, BE!GetState, BE!GetStateFails
  <2>7. CASE GetRoomStatus(t)
      BY <1>0, <1>a, <2>7, QuietStep DEF GetRoomStatus, Reply, Goto
  <2>8. CASE ProcessTurn(t)
    <3>1. \A r \in RoomIds : (sessions'[r] # NoSession) <=> (sessions[r] # NoSession)
      <4>1. pc[t] = "s_turn"
          BY <2>8 DEF ProcessTurn, Reply
      <4> QED BY <4>1, SessionSteps DEF IInv, BE!HasSession
    <3> QED BY <1>0, <1>a, <2>8, <3>1, QuietStep DEF ProcessTurn, Reply
  <2>9. CASE CloseRoom(t)
    <3>1. CASE Goto(t, "d_room", "d_session") /\ RT!CloseRoom(room[t])
      <4>1. /\ pc[t] = "d_room" /\ pc' = [pc EXCEPT ![t] = "d_session"]
            /\ rooms' = rooms \ {room[t]} /\ room[t] \in rooms
            /\ UNCHANGED <<room, stage, sessions>>
          BY <2>9, <3>1 DEF CloseRoom, Goto, RT!CloseRoom
      <4>2. \A u \in Threads : Creating(u) => room[u] # room[t]
          BY <4>1, Exclusion DEF Creating, CreatePlaces, DestroyPlaces, IInv
      <4> QED BY <1>0, <1>a, <4>1, <4>2
          DEF PairInv, Creating, BE!HasSession, ServingRooms
    <3>2. CASE Reply(t, "d_room", 1) /\ RT!CloseRoomRefused(room[t])
        BY <1>0, <1>a, <2>9, <3>2, QuietStep
        DEF CloseRoom, Reply, RT!CloseRoomRefused, RT!vars
    <3> QED BY <2>9, <3>1, <3>2 DEF CloseRoom
  <2>10. CASE DestroySession(t)
    <3>1. /\ pc[t] = "d_session" /\ pc' = [pc EXCEPT ![t] = "d_redis"]
          /\ UNCHANGED <<rooms, room, stage>>
          /\ sessions' = [sessions EXCEPT ![room[t]] = NoSession]
          /\ room[t] \notin rooms
        BY <2>10 DEF DestroySession, Goto, BE!DestroySession, PairInv
    <3> QED BY <1>0, <1>a, <3>1
        DEF PairInv, Creating, BE!HasSession, ServingRooms
  <2>11. CASE Return(t)
      BY <1>0, <1>a, <2>11, QuietStep DEF Return
  <2> QED BY <2>1, <2>2, <2>3, <2>4, <2>5, <2>6, <2>7, <2>8, <2>9, <2>10, <2>11
      DEF Handler
<1>3. CASE CloseListedRoom
  <2>1. /\ rooms' \subseteq rooms /\ stage = "closing"
        /\ UNCHANGED <<stage, sessions, pc, room>>
      BY <1>3 DEF CloseListedRoom, RT!CloseRoom, RT!CloseRoomRefused, RT!vars, handlers
  <2> QED BY <1>0, <2>1 DEF PairInv, Creating, BE!HasSession, ServingRooms
<1>4. CASE GetAllRooms \/ SetMaintenanceMode \/ AllClosed \/ Stop
  <2>1. /\ UNCHANGED <<rooms, sessions, pc, room>>
        /\ ServingRooms' => ServingRooms
      BY <1>4 DEF GetAllRooms, SetMaintenanceMode, AllClosed, Stop, ServingRooms,
                  RT!GetAllRooms, RT!SetMaintenanceMode, handlers, table
  <2> QED BY <2>1 DEF PairInv, Creating, BE!HasSession
<1>5. CASE Expire \/ ContextBreaks \/ UNCHANGED vars
  <2>1. UNCHANGED <<rooms, sessions, pc, room, stage>>
      BY <1>5 DEF Expire, ContextBreaks, handlers, table, shutdown, vars
  <2> QED BY <2>1 DEF PairInv, Creating, BE!HasSession, ServingRooms
<1> QED BY <1>1, <1>2, <1>3, <1>4, <1>5 DEF Next, GracefulShutdown, Stopped

(* The invariant of a caller that keeps CreateRoom and DestroyRoom apart.  *)
ApartInv == IInv /\ OverlapInv /\ PairInv /\ InputInv

(* It holds of a server that has just started.                             *)
LEMMA InitApart == Init => ApartInv
<1>1. Init => OverlapInv /\ PairInv /\ InputInv
    BY DEF Init, RT!Init, BE!Init, OverlapInv, PairInv, InputInv, Creating,
           BE!HasSession, NoCode
<1> QED BY <1>1, InitInv DEF ApartInv

(* And every step keeps it.                                                *)
LEMMA ApartStep == ASSUME Apart PROVE ApartInv /\ [Next]_vars => ApartInv'
BY InvStep, OverlapStep, PairStep, InputStep DEF ApartInv, IInv

(* ApartInv holds in every reachable state, for such a caller.             *)
LEMMA ApartInvariance == ASSUME Apart PROVE Spec => []ApartInv
BY InitApart, ApartStep, PTL DEF Spec

(* Who owes a room or a session is at work on it, so between handlers      *)
(* nobody does.                                                            *)
LEMMA PairingFollows == ApartInv => RoomSessionPaired
<1> SUFFICES ASSUME ApartInv, NEW r \in RoomIds, ~Busy(r)
             PROVE  /\ r \in rooms => BE!HasSession(r)
                    /\ BE!HasSession(r) /\ ServingRooms => r \in rooms
    BY DEF RoomSessionPaired
<1>1. \A t \in Threads : room[t] = r => ~Creating(t) /\ pc[t] # "d_session"
    BY DEF Busy, Creating
<1> QED BY <1>1 DEF ApartInv, PairInv

(* Rooms and sessions stay paired when the caller keeps CreateRoom and     *)
(* DestroyRoom of one room apart; nothing else need be kept apart, and     *)
(* SIGTERM may come at any time.                                           *)
THEOREM PairingHolds == ASSUME Apart PROVE Spec => []RoomSessionPaired
BY PairingFollows, ApartInvariance, PTL

(* A CreateRoom past its insertion meets no session in its way.            *)
LEMMA UsableFollows == ApartInv => NoPoisonedId
BY DEF ApartInv, InputInv, NoPoisonedId

(* For such a caller an id is always usable again: CreateRoom answers code *)
(* 6 only to what the simulator refuses.                                   *)
THEOREM NoIdIsPoisoned == ASSUME Apart PROVE Spec => []NoPoisonedId
BY UsableFollows, ApartInvariance, PTL

-----------------------------------------------------------------------------
(* What a reply says, from the call that made it so to the reply itself.   *)

Created(t) ==
    \/ pc[t] \in {"c_state", "c_save"}
    \/ pc[t] = "reply" /\ op[t] = "CreateRoom" /\ code[t] = 0
Removed(t) == pc[t] \in {"d_session", "d_redis"} \/ (pc[t] = "reply" /\ op[t] = "DestroyRoom")
Erased(t) ==
    \/ pc[t] = "d_redis"
    \/ pc[t] = "reply" /\ op[t] = "DestroyRoom" /\ code[t] = 0

SaidInv(t) ==
    /\ Created(t) => BE!HasSession(room[t])
    /\ Removed(t) => room[t] \notin rooms
    /\ Erased(t) => ~BE!HasSession(room[t])

ReplyInv == \A t \in Threads : SaidInv(t)

(* Exclusion, of whole requests: their replies included.                   *)
LEMMA RequestsExclude ==
    ASSUME PlaceInv, OverlapInv, Apart, NEW t \in Threads, NEW u \in Threads,
           op[t] = "CreateRoom", op[u] = "DestroyRoom"
    PROVE  room[t] # room[u]
<1>1. t # u /\ room[t] # NoRoom
    BY NoRoomAssumption DEF PlaceInv
<1> QED BY <1>1, Zenon DEF OverlapInv, Apart

(* A request with something to say is of the operation that says it.       *)
LEMMA SaysOp ==
    ASSUME PlaceInv, NEW t \in Threads
    PROVE  /\ Created(t) => op[t] = "CreateRoom" /\ room[t] \in RoomIds
           /\ Removed(t) \/ Erased(t) => op[t] = "DestroyRoom" /\ room[t] \in RoomIds
BY DEF PlaceInv, Created, Removed, Erased, CreatePlaces, DestroyPlaces

(* No other handler makes what one is about to say untrue.                 *)
LEMMA OthersKeepReply ==
    ASSUME Apart, IInv, OverlapInv, ReplyInv, NEW t \in Threads, Handler(t),
           NEW u \in Threads, u # t
    PROVE  SaidInv(u)'
<1>1. /\ (Created(u)' <=> Created(u)) /\ (Removed(u)' <=> Removed(u))
      /\ (Erased(u)' <=> Erased(u)) /\ room'[u] = room[u]
    BY HandlerIsLocal DEF IInv, Created, Removed, Erased
<1>2. SaidInv(u)
    BY DEF ReplyInv
<1>3. /\ pc[t] \in CreatePlaces => op[t] = "CreateRoom"
      /\ pc[t] \in DestroyPlaces => op[t] = "DestroyRoom"
    BY DEF IInv, PlaceInv
<1>4. Created(u) => BE!HasSession(room[u])'
  <2> SUFFICES ASSUME Created(u) PROVE BE!HasSession(room[u])'
      OBVIOUS
  <2>1. room[u] \in RoomIds /\ BE!HasSession(room[u])
      BY <1>2, SaysOp DEF SaidInv, IInv
  <2>2. pc[t] = "d_session" => room[u] # room[t]
      BY <1>3, SaysOp, RequestsExclude DEF IInv, DestroyPlaces
  <2>3. UNCHANGED room[u]
      BY <1>1
  <2>4. \A r \in RoomIds : r = room[u] => BE!HasSession(r)'
      BY <2>1, <2>2, SessionSteps DEF IInv
  <2> QED BY <2>1, <2>3, <2>4 DEF BE!HasSession
<1>5. Removed(u) => room[u] \notin rooms'
  <2> SUFFICES ASSUME Removed(u) PROVE room[u] \notin rooms'
      OBVIOUS
  <2>1. room[u] \notin rooms
      BY <1>2 DEF SaidInv
  <2>2. pc[t] = "c_insert" => room[u] # room[t]
      BY <1>3, SaysOp, RequestsExclude DEF IInv, CreatePlaces
  <2> QED BY <2>1, <2>2, TableSteps
<1>6. Erased(u) => ~BE!HasSession(room[u])'
  <2> SUFFICES ASSUME Erased(u) PROVE ~BE!HasSession(room[u])'
      OBVIOUS
  <2>1. room[u] \in RoomIds /\ ~BE!HasSession(room[u])
      BY <1>2, SaysOp DEF SaidInv, IInv
  <2>2. pc[t] = "c_session" => room[u] # room[t]
      BY <1>3, SaysOp, RequestsExclude DEF IInv, CreatePlaces
  <2>3. UNCHANGED room[u]
      BY <1>1
  <2>4. \A r \in RoomIds : r = room[u] => ~BE!HasSession(r)'
      BY <2>1, <2>2, SessionSteps DEF IInv
  <2> QED BY <2>1, <2>3, <2>4 DEF BE!HasSession
<1> QED BY <1>1, <1>4, <1>5, <1>6 DEF SaidInv, BE!HasSession

(* A handler comes to say only what is so.                                 *)
LEMMA OwnReply ==
    ASSUME IInv, ReplyInv, PairInv, NEW t \in Threads, Handler(t)
    PROVE  SaidInv(t)'
<1>a. /\ pc \in [Threads -> {"idle", "reply"} \cup CreatePlaces \cup CommandPlaces
                            \cup DestroyPlaces]
      /\ code \in [Threads -> 0 .. 7]
      /\ SaidInv(t)
      /\ pc[t] \in CreatePlaces => op[t] = "CreateRoom"
      /\ pc[t] \in CommandPlaces => op[t] = "SendCommand"
      /\ pc[t] \in DestroyPlaces => op[t] = "DestroyRoom"
      /\ pc[t] # "idle" => room[t] \in RoomIds
    BY DEF IInv, TypeOK, PlaceInv, ReplyInv
<1> USE DEF SaidInv, Created, Removed, Erased, Transition, request, table,
            CreatePlaces, CommandPlaces, DestroyPlaces
<1>1. CASE IsInMaintenanceMode(t)
    BY <1>a, <1>1, MaintenanceSteps DEF Reply, Goto
<1>2. CASE CanCreateRoom(t)
    BY <1>a, <1>2, CapacitySteps DEF Reply, Goto
<1>3. CASE CreateRoomWithId(t) \/ UndoCreateRoom(t)
    BY <1>a, <1>3 DEF CreateRoomWithId, UndoCreateRoom, Reply, Goto
<1>4. CASE CreateSession(t)
  <2>1. pc[t] = "c_session" /\ pc'[t] \in {"c_state", "c_undo"} /\ UNCHANGED room
      BY <1>a, <1>4 DEF CreateSession, Goto
  <2>2. BE!HasSession(room[t])' \/ pc'[t] = "c_undo"
    <3>1. CASE Goto(t, "c_session", "c_state") /\ BE!CreateSession(room[t], input[t])
      <4>1. sessions'[room[t]] = [battle |-> input[t], moves |-> 0]
          BY <1>a, <2>1, <3>1 DEF BE!CreateSession, IInv, TypeOK, BE!TypeOK
      <4>2. [battle |-> input[t], moves |-> 0] # NoSession
          BY <3>1, SessionTyped DEF BE!CreateSession
      <4> QED BY <2>1, <4>1, <4>2 DEF BE!HasSession
    <3>2. CASE Goto(t, "c_session", "c_undo")
        BY <1>a, <3>2 DEF Goto
    <3> QED BY <1>4, <3>1, <3>2 DEF CreateSession
  <2> QED BY <2>1, <2>2
<1>5. CASE GetState(t)
    BY <1>a, <1>5 DEF GetState, Reply, BE!GetState, BE!GetStateFails, BE!HasSession
<1>6. CASE SetRoomData(t)
    BY <1>a, <1>6 DEF SetRoomData, Reply, BE!HasSession
<1>7. CASE GetRoomStatus(t) \/ ProcessTurn(t)
    BY <1>a, <1>7 DEF GetRoomStatus, ProcessTurn, Reply, Goto
<1>8. CASE CloseRoom(t)
    BY <1>a, <1>8 DEF CloseRoom, Reply, Goto, RT!CloseRoom, RT!CloseRoomRefused,
                      RT!vars
<1>9. CASE DestroySession(t)
    BY <1>a, <1>9 DEF DestroySession, Goto, BE!DestroySession, BE!HasSession,
                      IInv, TypeOK, BE!TypeOK
<1>10. CASE DeleteRoomData(t)
    BY <1>a, <1>10 DEF DeleteRoomData, Reply, BE!HasSession
<1>11. CASE Return(t)
    BY <1>a, <1>11 DEF Return
<1> QED BY <1>1, <1>2, <1>3, <1>4, <1>5, <1>6, <1>7, <1>8, <1>9, <1>10, <1>11
    DEF Handler

(* What a handler says stays so until it has said it.                      *)
LEMMA ReplyStep == ASSUME Apart, ApartInv, ReplyInv, [Next]_vars PROVE ReplyInv'
<1> USE DEF SaidInv, Created, Removed, Erased
<1>1. CASE \E t \in Threads : Request(t)
  <2> PICK t \in Threads : Request(t)
      BY <1>1
  <2>1. PICK o \in Ops, r \in RoomIds :
            /\ Transition(t, "idle", First(o))
            /\ op' = [op EXCEPT ![t] = o]
            /\ room' = [room EXCEPT ![t] = r]
      BY DEF Request
  <2>2. First(o) \in {"c_maintenance", "s_room", "d_room"}
      BY FirstTyped
  <2>3. UNCHANGED <<rooms, sessions, code>>
      BY DEF Request, table
  <2> QED BY <2>1, <2>2, <2>3
      DEF Transition, ReplyInv, ApartInv, IInv, TypeOK, BE!HasSession
<1>2. CASE \E t \in Threads : Handler(t)
  <2> PICK t \in Threads : Handler(t)
      BY <1>2
  <2> HIDE DEF SaidInv
  <2> SUFFICES ASSUME NEW u \in Threads PROVE SaidInv(u)'
      BY DEF ReplyInv
  <2> QED BY OthersKeepReply, OwnReply DEF ApartInv
<1>3. CASE rooms' \subseteq rooms /\ UNCHANGED <<sessions, pc, op, room, code>>
    BY <1>3 DEF ReplyInv, BE!HasSession
<1>4. CASE SetMaintenanceMode \/ GetAllRooms \/ AllClosed \/ Stop
    BY <1>3, <1>4 DEF SetMaintenanceMode, GetAllRooms, AllClosed, Stop, handlers,
                      table, RT!SetMaintenanceMode, RT!GetAllRooms
<1>5. CASE CloseListedRoom
    BY <1>3, <1>5 DEF CloseListedRoom, handlers, RT!CloseRoom, RT!CloseRoomRefused,
                      RT!vars
<1>6. CASE Expire \/ ContextBreaks \/ UNCHANGED vars
    BY <1>3, <1>6 DEF Expire, ContextBreaks, handlers, table, vars
<1> QED BY <1>1, <1>2, <1>4, <1>5, <1>6 DEF Next, GracefulShutdown, Stopped

(* ApartInv makes of it what the caller is told: a room that was created is*)
(* in the table too, until the shutdown lists it.                          *)
LEMMA RepliesFollow ==
    ASSUME Apart, ApartInv, ReplyInv PROVE RepliesHold
<1> SUFFICES ASSUME NEW t \in Threads, pc[t] = "reply"
             PROVE  /\ op[t] = "CreateRoom" /\ code[t] = 0 =>
                        /\ BE!HasSession(room[t])
                        /\ ServingRooms => room[t] \in rooms
                    /\ op[t] = "DestroyRoom" => room[t] \notin rooms
                    /\ op[t] = "DestroyRoom" /\ code[t] = 0 =>
                        ~BE!HasSession(room[t])
    BY DEF RepliesHold
<1>1. SaidInv(t) /\ room[t] \in RoomIds
    BY DEF ReplyInv, ApartInv, IInv, PlaceInv
<1>2. ASSUME op[t] = "CreateRoom", BE!HasSession(room[t]), ServingRooms
      PROVE  room[t] \in rooms
  <2>1. \A u \in Threads : pc[u] = "d_session" => room[u] # room[t]
      BY <1>2, RequestsExclude DEF ApartInv, IInv, PlaceInv, DestroyPlaces
  <2> QED BY <1>1, <1>2, <2>1 DEF ApartInv, PairInv
<1> QED BY <1>1, <1>2 DEF SaidInv, Created, Removed, Erased

(* Nothing is said at the start.                                           *)
LEMMA InitReply == Init => ReplyInv
BY DEF Init, ReplyInv, SaidInv, Created, Removed, Erased

(* For such a caller a reply is true when it arrives, whatever else is     *)
(* under way on the room.                                                  *)
THEOREM RepliesAreTrue == ASSUME Apart PROVE Spec => []RepliesHold
<1>1. ApartInv /\ ReplyInv /\ [Next]_vars => ReplyInv'
    BY ReplyStep
<1>2. ApartInv /\ ReplyInv => RepliesHold
    BY RepliesFollow
<1> QED BY <1>1, <1>2, InitReply, ApartInvariance, PTL DEF Spec

-----------------------------------------------------------------------------
(* How many sessions there are.  Rooms bound them while the server serves; *)
(* GracefulShutdown then closes rooms under their sessions, and what bounds*)
(* these is that nothing adds to them any more.                            *)

(* Rooms whose session a DestroyRoom is about to erase.                    *)
Owed == {room[t] : t \in {u \in Threads : pc[u] = "d_session"}}

(* Rooms with a session, or about to get one, that none is about to erase. *)
Kept ==
    {r \in RoomIds :
        /\ BE!HasSession(r) \/ \E t \in Threads : room[t] = r /\ Creating(t)
        /\ \A t \in Threads : room[t] = r => pc[t] # "d_session"}

KeptInv == IsFiniteSet(Kept) /\ Cardinality(Kept) <= MaxRooms

(* While the server serves, what is kept has its room.                     *)
LEMMA KeptHaveRooms == PairInv /\ ServingRooms => Kept \subseteq rooms
BY DEF PairInv, Kept

(* Steps that concern neither a session nor the threads that create or     *)
(* erase one.                                                              *)
LEMMA QuietKept ==
    ASSUME \A r \in RoomIds : (sessions'[r] # NoSession) <=> (sessions[r] # NoSession),
           \A u \in Threads :
               /\ (pc'[u] \in {"c_session", "c_undo"})
                    <=> (pc[u] \in {"c_session", "c_undo"})
               /\ pc'[u] = "d_session" <=> pc[u] = "d_session"
               /\ pc[u] \in {"c_session", "c_undo", "d_session"} =>
                    room'[u] = room[u]
    PROVE  Kept' \subseteq Kept
BY DEF Kept, Creating, BE!HasSession

(* Once the rooms are listed nothing is added to what is kept.             *)
LEMMA KeptShrinks ==
    ASSUME Apart, ApartInv, [Next]_vars, ~ServingRooms'
    PROVE  Kept' \subseteq Kept
<1>a. /\ pc \in [Threads -> {"idle", "reply"} \cup CreatePlaces \cup CommandPlaces
                            \cup DestroyPlaces]
      /\ room \in [Threads -> RoomIds \cup {NoRoom}]
      /\ sessions \in [RoomIds -> BE!Session \cup {NoSession}]
      /\ \A u \in Threads : pc[u] # "idle" => room[u] \in RoomIds
    BY DEF ApartInv, IInv, TypeOK, BE!TypeOK, PlaceInv
<1>1. CASE \E t \in Threads : Request(t)
  <2> PICK t \in Threads : Request(t)
      BY <1>1
  <2>1. PICK o \in Ops, r \in RoomIds :
            /\ Transition(t, "idle", First(o))
            /\ room' = [room EXCEPT ![t] = r]
      BY DEF Request
  <2>2. UNCHANGED sessions
      BY DEF Request
  <2>3. First(o) \in {"c_maintenance", "s_room", "d_room"}
      BY FirstTyped
  <2> QED BY <1>a, <2>1, <2>2, <2>3, QuietKept DEF Transition
<1>2. CASE \E t \in Threads : Handler(t)
  <2> PICK t \in Threads : Handler(t)
      BY <1>2
  <2> USE DEF Transition, request
  <2>1. CASE IsInMaintenanceMode(t)
      BY <1>a, <2>1, MaintenanceSteps, QuietKept DEF Reply, Goto
  <2>2. CASE CanCreateRoom(t)
      BY <1>a, <2>2, CapacitySteps, QuietKept DEF Reply, Goto
  <2>3. CASE CreateRoomWithId(t)
    <3>1. is_maintaining = "on"
      <4>1. UNCHANGED stage
          BY TableSteps
      <4>2. stage \notin {"serving", "waiting"}
          BY <4>1 DEF ServingRooms
      <4> QED BY <4>2 DEF ApartInv, IInv, StageInv, TypeOK, RT!TypeOK
    <3>2. ~RT!CreateRoomWithId(room[t])
        BY <3>1, InsertsBeforeListing
    <3> QED BY <1>a, <2>3, <3>2, QuietKept DEF CreateRoomWithId, Reply
  <2>4. CASE CreateSession(t)
    <3>1. CASE Goto(t, "c_session", "c_state") /\ BE!CreateSession(room[t], input[t])
      <4>1. /\ pc[t] = "c_session" /\ pc' = [pc EXCEPT ![t] = "c_state"]
            /\ UNCHANGED room /\ room[t] \in RoomIds
          BY <1>a, <3>1 DEF Goto
      <4>2. \A r \in RoomIds : r # room[t] => sessions'[r] = sessions[r]
          BY <1>a, <3>1 DEF BE!CreateSession
      <4> QED BY <1>a, <4>1, <4>2 DEF Kept, Creating, BE!HasSession
    <3>2. CASE Goto(t, "c_session", "c_undo") /\ BE!CreateSessionFails(room[t], input[t])
        BY <1>a, <3>2, QuietKept DEF Goto, BE!CreateSessionFails
    <3> QED BY <2>4, <3>1, <3>2 DEF CreateSession
  <2>5. CASE UndoCreateRoom(t)
      BY <1>a, <2>5 DEF UndoCreateRoom, Reply, Kept, Creating, BE!HasSession
  <2>6. CASE GetState(t) \/ SetRoomData(t) \/ DeleteRoomData(t) \/ Return(t)
      BY <1>a, <2>6, QuietKept
      DEF GetState, SetRoomData, DeleteRoomData, Return, Reply, BE!GetState,
          BE!GetStateFails
  <2>7. CASE GetRoomStatus(t)
      BY <1>a, <2>7, QuietKept DEF GetRoomStatus, Reply, Goto
  <2>8. CASE ProcessTurn(t)
    <3>1. \A r \in RoomIds : sessions'[r] # NoSession => sessions[r] # NoSession
        BY <1>a, <2>8
        DEF ProcessTurn, BE!ProcessTurn, BE!ProcessTurnFails, BE!HasSession
    <3> QED BY <1>a, <2>8, <3>1
        DEF ProcessTurn, Reply, Kept, Creating, BE!HasSession
  <2>9. CASE CloseRoom(t)
      BY <1>a, <2>9 DEF CloseRoom, Goto, Reply, Kept, Creating, BE!HasSession
  <2>10. CASE DestroySession(t)
    <3>1. /\ pc[t] = "d_session" /\ pc' = [pc EXCEPT ![t] = "d_redis"]
          /\ UNCHANGED room
          /\ sessions' = [sessions EXCEPT ![room[t]] = NoSession]
        BY <2>10 DEF DestroySession, Goto, BE!DestroySession
    <3>2. \A u \in Threads : Creating(u) => room[u] # room[t]
        BY <3>1, Exclusion
        DEF ApartInv, IInv, Creating, CreatePlaces, DestroyPlaces
    <3> QED BY <1>a, <3>1, <3>2 DEF Kept, Creating, BE!HasSession
  <2> QED BY <2>1, <2>2, <2>3, <2>4, <2>5, <2>6, <2>7, <2>8, <2>9, <2>10
      DEF Handler
<1>3. CASE UNCHANGED <<sessions, pc, room>>
    BY <1>3, QuietKept
<1>4. CASE SetMaintenanceMode \/ GracefulShutdown \/ Stop \/ Expire \/ ContextBreaks
    BY <1>3, <1>4 DEF SetMaintenanceMode, GracefulShutdown, GetAllRooms,
                CloseListedRoom, AllClosed, Stop, Expire, ContextBreaks, handlers
<1>5. CASE UNCHANGED vars
    BY <1>3, <1>5 DEF vars
<1> QED BY <1>1, <1>2, <1>4, <1>5 DEF Next, Stopped

(* A part of what max_rooms_ bounds is finite and within it.               *)
LEMMA PartWithin ==
    ASSUME NEW S, IsFiniteSet(S), Cardinality(S) <= MaxRooms, NEW T \in SUBSET S
    PROVE  IsFiniteSet(T) /\ Cardinality(T) <= MaxRooms
<1>1. IsFiniteSet(T) /\ Cardinality(T) <= Cardinality(S)
    BY FS_Subset
<1>2. Cardinality(S) \in Nat /\ Cardinality(T) \in Nat
    BY <1>1, FS_CardinalityType
<1> QED BY <1>1, <1>2, CapacityAssumption

(* While the server serves, the table bounds what is kept.                 *)
LEMMA ServingKept == ApartInv /\ ServingRooms => KeptInv
BY KeptHaveRooms, PartWithin DEF ApartInv, IInv, CapacityInv, KeptInv

(* What is kept stays within max_rooms_ before and after the listing.      *)
LEMMA KeptStep ==
    ASSUME Apart PROVE ApartInv /\ ApartInv' /\ KeptInv /\ [Next]_vars => KeptInv'
<1>1. (ApartInv /\ ServingRooms)' => KeptInv'
    BY ServingKept, PTL
<1> SUFFICES ASSUME ApartInv, ApartInv', KeptInv, [Next]_vars PROVE KeptInv'
    OBVIOUS
<1>2. CASE ServingRooms'
    BY <1>1, <1>2
<1>3. CASE ~ServingRooms'
  <2>1. Kept' \subseteq Kept
      BY <1>3, KeptShrinks
  <2> QED BY <2>1, PartWithin DEF KeptInv
<1> QED BY <1>2, <1>3

(* So it does in every reachable state.                                    *)
LEMMA KeptInvariance == ASSUME Apart PROVE Spec => []KeptInv
<1>1. Init => ServingRooms
    BY DEF Init, ServingRooms
<1> QED BY <1>1, ServingKept, KeptStep, ApartInvariance, PTL DEF Spec

(* What is not kept is about to be erased, each by a thread.               *)
LEMMA BoundFollows ==
    ASSUME IsFiniteSet(Threads) PROVE KeptInv => SessionsBounded
<1> DEFINE Erasing == {t \in Threads : pc[t] = "d_session"}
           Held == {r \in RoomIds : BE!HasSession(r)}
<1> SUFFICES ASSUME KeptInv
             PROVE  Cardinality(Held) <= MaxRooms + Cardinality(Erasing)
    BY DEF SessionsBounded
<1>1. IsFiniteSet(Erasing)
    BY FS_Subset
<1>2. IsFiniteSet(Owed) /\ Cardinality(Owed) <= Cardinality(Erasing)
  <2> DEFINE f == [t \in Erasing |-> room[t]]
  <2>1. f \in Surjection(Erasing, Owed)
    <3>1. Owed = {f[t] : t \in Erasing}
        BY DEF Owed
    <3> QED BY <3>1 DEF Surjection
  <2> QED BY <1>1, <2>1, FS_Surjection
<1>3. Held \subseteq Kept \cup Owed
    BY DEF Kept, Owed
<1>4. /\ IsFiniteSet(Kept \cup Owed)
      /\ Cardinality(Kept \cup Owed)
           = Cardinality(Kept) + Cardinality(Owed) - Cardinality(Kept \cap Owed)
    BY <1>2, FS_Union DEF KeptInv
<1>5. IsFiniteSet(Held) /\ Cardinality(Held) <= Cardinality(Kept \cup Owed)
    BY <1>3, <1>4, FS_Subset
<1>6. IsFiniteSet(Kept \cap Owed)
    BY <1>2, FS_Intersection
<1>7. /\ Cardinality(Held) \in Nat /\ Cardinality(Kept \cup Owed) \in Nat
      /\ Cardinality(Kept) \in Nat /\ Cardinality(Owed) \in Nat
      /\ Cardinality(Kept \cap Owed) \in Nat /\ Cardinality(Erasing) \in Nat
    BY <1>1, <1>2, <1>4, <1>5, <1>6, FS_CardinalityType DEF KeptInv
<1> HIDE DEF Held, Erasing
<1> QED BY <1>2, <1>4, <1>5, <1>7, CapacityAssumption DEF KeptInv

(* For such a caller and a finite pool of threads there is never more than *)
(* one session per place and one per DestroyRoom about to erase its own.   *)
THEOREM SessionsAreBounded ==
    ASSUME Apart, IsFiniteSet(Threads) PROVE Spec => []SessionsBounded
BY BoundFollows, KeptInvariance, PTL
=============================================================================
