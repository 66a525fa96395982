------------------------- MODULE ServerRestartProofs -------------------------
(***************************************************************************)
(* Proofs about ServerRestart, for any number of threads, rooms, battles   *)
(* and restarts: what can be relied upon of Redis, whatever overlaps; and  *)
(* that what GameService promises survives crashes.                        *)
(***************************************************************************)
EXTENDS ServerRestart, GameServiceRefinement

SavePlaces == {"c_save", "s_save"}

Working(t) == pc[t] \notin {"idle", "reply"}

(* Handlers at work on a room that nobody crossed are of one kind.         *)
AloneInv ==
    \A t, u \in Threads :
        t # u /\ Working(t) /\ Working(u) /\ room[t] = room[u] /\ room[t] \notin crossed
            => {op[t], op[u]} \in Harmless

(* What a handler that was not crossed is about to store is what the engine*)
(* still has;                                                              *)
SavesCurrent ==
    \A t \in Threads :
        pc[t] \in SavePlaces /\ room[t] \notin crossed => snap[t] = sessions[room[t]]

(* and one that is about to send its DEL has erased the session.           *)
ErasedBeforeDel ==
    \A t \in Threads :
        pc[t] = "d_redis" /\ room[t] \notin crossed => ~BE!HasSession(room[t])

(* A live battle is stored, or a handler is on its way to store it.        *)
LiveStored ==
    context = "ok" =>
        \A r \in RoomIds \ doubtful : BE!HasSession(r) =>
            \/ redis[r] \in {sessions[r], Expired}
            \/ \E t \in Threads :
                room[t] = r /\ pc[t] \in SavePlaces \cup {"c_state"}

(* Where no battle is live nothing is stored, or a handler is on its way to*)
(* delete it.                                                              *)
DeadForgotten ==
    context = "ok" =>
        \A r \in RoomIds \ doubtful : ~BE!HasSession(r) =>
            \/ redis[r] \in {NoData, Expired}
            \/ \E t \in Threads : room[t] = r /\ pc[t] = "d_redis"

StoreInv == SavesCurrent /\ ErasedBeforeDel /\ LiveStored /\ DeadForgotten

BaseInv == TypeOK /\ PlaceInv /\ AloneInv /\ crossed \subseteq doubtful

-----------------------------------------------------------------------------
(* The history variables                                                   *)

(* A room is crossed until all handlers have left it; and in no doubt only *)
(* if it was in none or has just been settled, its commands having had     *)
(* their effect.                                                           *)
LEMMA HistorySteps ==
    ASSUME Record
    PROVE  /\ \A t \in Threads : pc'[t] # "reply" /\ room'[t] \notin crossed' =>
                room'[t] \notin crossed
           /\ crossed' \subseteq doubtful'
           /\ \A r : r \notin doubtful' =>
                /\ \/ r \notin doubtful
                   \/ \E t \in Threads : Stores(t) /\ room[t] = r /\ r \notin crossed
                /\ \A t \in Threads : room[t] = r =>
                    (Sends(t) => Stores(t)) /\ ~StoresNothing(t)
<1>1. \A t \in Threads : pc'[t] # "reply" /\ room'[t] \notin crossed' =>
            room'[t] \notin crossed
    BY DEF Record, Busy
<1>2. crossed' \subseteq doubtful'
    BY DEF Record
<1>3. \A r : r \notin doubtful' =>
            /\ \/ r \notin doubtful
               \/ \E t \in Threads : Stores(t) /\ room[t] = r /\ r \notin crossed
            /\ \A t \in Threads : room[t] = r =>
                (Sends(t) => Stores(t)) /\ ~StoresNothing(t)
    BY Zenon DEF Record
<1> QED BY <1>1, <1>2, <1>3

(* A handler at work was so before, at the same, or has just been called.  *)
LEMMA WorkGoesOn ==
    ASSUME TypeOK, [Next]_vars, NEW t \in Threads, Working(t)'
    PROVE  \/ Working(t) /\ op'[t] = op[t] /\ room'[t] = room[t]
           \/ pc[t] = "idle"
<1>1. CASE \E u \in Threads : Request(u)
  <2> PICK u \in Threads : Request(u)
      BY <1>1
  <2>1. PICK o \in Ops, r \in RoomIds :
            /\ Transition(u, "idle", First(o))
            /\ op' = [op EXCEPT ![u] = o]
            /\ room' = [room EXCEPT ![u] = r]
      BY DEF Request
  <2> QED BY <2>1 DEF Transition, Working, TypeOK
<1>2. CASE \E u \in Threads : Handler(u)
  <2> PICK u \in Threads : Handler(u)
      BY <1>2
  <2>1. CASE u # t
      BY <2>1, HandlerIsLocal DEF Working
  <2>2. CASE Return(t)
      BY <2>2 DEF Return, Transition, Working, TypeOK
  <2>3. CASE Handler(t) /\ ~Return(t)
    <3> USE DEF Reply, Goto, Transition, request, Working
    <3>1. CASE IsInMaintenanceMode(t) \/ CanCreateRoom(t)
        BY <3>1, MaintenanceSteps, CapacitySteps
    <3>2. CASE CreateRoomWithId(t) \/ CreateSession(t) \/ UndoCreateRoom(t)
                 \/ GetState(t)
        BY <3>2 DEF CreateRoomWithId, CreateSession, UndoCreateRoom, GetState
    <3>3. CASE SetRoomData(t) \/ GetRoomStatus(t) \/ ProcessTurn(t) \/ CloseRoom(t)
        BY <3>3 DEF SetRoomData, GetRoomStatus, ProcessTurn, CloseRoom
    <3>4. CASE DestroySession(t) \/ DeleteRoomData(t)
        BY <3>4 DEF DestroySession, DeleteRoomData
    <3> QED BY <2>3, <3>1, <3>2, <3>3, <3>4 DEF Handler
  <2> QED BY <2>1, <2>2, <2>3
<1>3. CASE UNCHANGED <<pc, op, room>>
    BY <1>3 DEF Working
<1>4. CASE SetMaintenanceMode \/ GracefulShutdown \/ Stop \/ Expire \/ ContextBreaks
    BY <1>3, <1>4 DEF SetMaintenanceMode, GracefulShutdown, GetAllRooms,
                CloseListedRoom, AllClosed, Stop, Expire, ContextBreaks, handlers
<1>5. CASE UNCHANGED vars
    BY <1>3, <1>5 DEF vars
<1> QED BY <1>1, <1>2, <1>4, <1>5 DEF Next, Stopped

(* Only one handler is called in a step.                                   *)
LEMMA CallsAreSingle ==
    ASSUME TypeOK, [Next]_vars, NEW t \in Threads, NEW u \in Threads, t # u,
           pc[t] = "idle", pc'[t] # "idle"
    PROVE  /\ pc'[u] = pc[u] /\ op'[u] = op[u] /\ room'[u] = room[u]
<1>1. CASE \E w \in Threads : Request(w)
  <2> PICK w \in Threads : Request(w)
      BY <1>1
  <2>1. PICK o \in Ops, r \in RoomIds :
            /\ Transition(w, "idle", First(o))
            /\ op' = [op EXCEPT ![w] = o]
            /\ room' = [room EXCEPT ![w] = r]
      BY DEF Request
  <2>2. w = t
      BY <2>1 DEF Transition, TypeOK
  <2> QED BY <2>1, <2>2 DEF Transition, TypeOK
<1>2. CASE \E w \in Threads : Handler(w)
  <2> PICK w \in Threads : Handler(w)
      BY <1>2
  <2>1. w = t
      BY HandlerIsLocal
  <2>2. pc[w] # "idle"
    <3> USE DEF Reply, Goto, Transition
    <3>1. CASE IsInMaintenanceMode(w) \/ CanCreateRoom(w)
        BY <3>1, MaintenanceSteps, CapacitySteps
    <3>2. CASE CreateRoomWithId(w) \/ CreateSession(w) \/ UndoCreateRoom(w)
                 \/ GetState(w)
        BY <3>2 DEF CreateRoomWithId, CreateSession, UndoCreateRoom, GetState
    <3>3. CASE SetRoomData(w) \/ GetRoomStatus(w) \/ ProcessTurn(w) \/ CloseRoom(w)
        BY <3>3 DEF SetRoomData, GetRoomStatus, ProcessTurn, CloseRoom
    <3>4. CASE DestroySession(w) \/ DeleteRoomData(w) \/ Return(w)
        BY <3>4 DEF DestroySession, DeleteRoomData, Return
    <3> QED BY <3>1, <3>2, <3>3, <3>4 DEF Handler
  <2> QED BY <2>1, <2>2
<1>3. CASE UNCHANGED pc
    BY <1>3
<1>4. CASE SetMaintenanceMode \/ GracefulShutdown \/ Stop \/ Expire \/ ContextBreaks
    BY <1>3, <1>4 DEF SetMaintenanceMode, GracefulShutdown, GetAllRooms,
                CloseListedRoom, AllClosed, Stop, Expire, ContextBreaks, handlers
<1>5. CASE UNCHANGED vars
    BY <1>3, <1>5 DEF vars
<1> QED BY <1>1, <1>2, <1>4, <1>5 DEF Next, Stopped

(* A handler that is called beside one that is not of its kind crosses it. *)
LEMMA AloneStep == ASSUME TypeOK, AloneInv, Serve PROVE AloneInv'
<1> SUFFICES ASSUME NEW t \in Threads, NEW u \in Threads, t # u,
                    Working(t)', Working(u)', room'[t] = room'[u],
                    room'[t] \notin crossed'
             PROVE  {op'[t], op'[u]} \in Harmless
    BY DEF AloneInv, Harmless
<1>1. [Next]_vars /\ Record
    BY DEF Serve
<1>2. \A w \in Threads, v \in Threads :
          w # v /\ Working(w)' /\ Working(v)' /\ room'[w] = room'[v]
          /\ room'[w] \notin crossed' /\ pc[w] = "idle" => {op'[v], op'[w]} \in Harmless
  <2> SUFFICES ASSUME NEW w \in Threads, NEW v \in Threads, w # v, Working(w)',
                      Working(v)', room'[w] = room'[v], room'[w] \notin crossed',
                      pc[w] = "idle"
               PROVE  {op'[v], op'[w]} \in Harmless
      OBVIOUS
  <2>1. pc'[w] # "idle"
      BY DEF Working
  <2>2. pc'[v] = pc[v] /\ op'[v] = op[v] /\ room'[v] = room[v]
      BY <1>1, <2>1, CallsAreSingle
  <2>3. ~Meets(w)
      BY <1>1 DEF Record
  <2> QED BY <2>1, <2>2, <2>3 DEF Meets, Working
<1>3. CASE pc[t] = "idle" \/ pc[u] = "idle"
  <2>1. {op'[t], op'[u]} = {op'[u], op'[t]}
      OBVIOUS
  <2> QED BY <1>2, <1>3, <2>1
<1>4. CASE pc[t] # "idle" /\ pc[u] # "idle"
  <2>1. /\ Working(t) /\ op'[t] = op[t] /\ room'[t] = room[t]
        /\ Working(u) /\ op'[u] = op[u] /\ room'[u] = room[u]
      BY <1>1, <1>4, WorkGoesOn
  <2>2. room[t] \notin crossed
      BY <1>1, <2>1, HistorySteps DEF Working
  <2> QED BY <2>1, <2>2 DEF AloneInv
<1> QED BY <1>3, <1>4

(* On a room nobody crossed, who creates, commands or destroys does so with*)
(* nobody of another kind; who commands, alone.                            *)
LEMMA Apartness ==
    ASSUME BaseInv, NEW t \in Threads, NEW u \in Threads,
           t # u, room[t] = room[u], room[t] \notin crossed
    PROVE  /\ pc[t] \in CommandPlaces => pc[u] \notin CreatePlaces
                    \cup CommandPlaces \cup DestroyPlaces
           /\ pc[t] \in DestroyPlaces => pc[u] \notin CreatePlaces \cup CommandPlaces
<1>1. /\ pc[u] \in CreatePlaces => op[u] = "CreateRoom" /\ Working(u)
      /\ pc[u] \in CommandPlaces => op[u] = "SendCommand" /\ Working(u)
      /\ pc[u] \in DestroyPlaces => op[u] = "DestroyRoom" /\ Working(u)
      /\ pc[t] \in CommandPlaces => op[t] = "SendCommand" /\ Working(t)
      /\ pc[t] \in DestroyPlaces => op[t] = "DestroyRoom" /\ Working(t)
    BY DEF BaseInv, PlaceInv, Working, CreatePlaces, CommandPlaces, DestroyPlaces
<1>2. Working(t) /\ Working(u) => {op[t], op[u]} \in {{"CreateRoom"}, {"DestroyRoom"}}
    BY DEF BaseInv, AloneInv, Harmless
<1>3. Working(t) /\ Working(u) => op[t] = op[u] /\ op[t] # "SendCommand"
    BY <1>2
<1> QED BY <1>1, <1>3

-----------------------------------------------------------------------------
(* What each step makes of Redis                                           *)

(* Steps that concern neither the sessions nor Redis nor those on their way*)
(* to store or to delete.                                                  *)
LEMMA QuietStore ==
    ASSUME StoreInv, Record, UNCHANGED <<sessions, redis, context>>,
           \A u \in Threads :
               /\ pc'[u] \in SavePlaces <=> pc[u] \in SavePlaces
               /\ pc'[u] = "c_state" <=> pc[u] = "c_state"
               /\ pc'[u] = "d_redis" <=> pc[u] = "d_redis"
               /\ pc[u] \in RedisPlaces => pc'[u] = pc[u]
               /\ pc[u] \in RedisPlaces \cup {"c_state"} =>
                    room'[u] = room[u] /\ snap'[u] = snap[u]
    PROVE  StoreInv'
<1>1. \A u \in Threads : pc[u] \in RedisPlaces /\ room[u] \notin crossed' =>
            room[u] \notin crossed
    BY HistorySteps DEF RedisPlaces
<1>2. \A r : r \notin doubtful' => r \notin doubtful
    BY HistorySteps DEF Stores, Sends
<1>3. SavesCurrent' /\ ErasedBeforeDel'
    BY <1>1 DEF StoreInv, SavesCurrent, ErasedBeforeDel, BE!HasSession, RedisPlaces,
                SavePlaces
<1>4. LiveStored'
    BY <1>2 DEF StoreInv, LiveStored, BE!HasSession, RedisPlaces, SavePlaces
<1>5. DeadForgotten'
    BY <1>2 DEF StoreInv, DeadForgotten, BE!HasSession, RedisPlaces
<1> QED BY <1>3, <1>4, <1>5 DEF StoreInv

(* A session is added: its handler is to store it, if it gets its state.   *)
LEMMA CreateStores ==
    ASSUME BaseInv, StoreInv, Record, NEW t \in Threads, CreateSession(t)
    PROVE  StoreInv'
<1>a. /\ pc \in [Threads -> {"idle", "reply"} \cup CreatePlaces \cup CommandPlaces
                            \cup DestroyPlaces]
      /\ sessions \in [RoomIds -> BE!Session \cup {NoSession}]
      /\ \A u \in Threads : pc[u] # "idle" => room[u] \in RoomIds
      /\ \A u \in Threads : pc[u] \in SavePlaces => snap[u] \in BE!Session
    BY DEF BaseInv, TypeOK, BE!TypeOK, PlaceInv, SavePlaces
<1>1. CASE Goto(t, "c_session", "c_state") /\ BE!CreateSession(room[t], input[t])
  <2>1. /\ pc[t] = "c_session" /\ pc' = [pc EXCEPT ![t] = "c_state"]
        /\ UNCHANGED <<room, snap, redis, context>> /\ room[t] \in RoomIds
      BY <1>a, <1>1 DEF Goto, Transition, request, store, CreateSession
  <2>2. /\ ~BE!HasSession(room[t])
        /\ \A r \in RoomIds : r # room[t] => sessions'[r] = sessions[r]
        /\ sessions'[room[t]] = [battle |-> input[t], moves |-> 0]
        /\ input[t] \in Battles
      BY <1>a, <1>1, <2>1 DEF BE!CreateSession
  <2>3. sessions'[room[t]] # NoSession
      BY <2>2, SessionTyped
  <2>4. /\ pc'[t] = "c_state"
        /\ \A u \in Threads : u # t => pc'[u] = pc[u]
      BY <1>a, <2>1
  <2>5. \A u \in Threads : pc[u] \in RedisPlaces /\ room[u] \notin crossed' =>
            room[u] \notin crossed
      BY <2>1, <2>4, HistorySteps DEF RedisPlaces
  <2>6. \A u \in Threads : pc[u] = "d_redis" /\ room[u] \notin crossed =>
            room[u] # room[t]
      BY <2>1, Apartness DEF CreatePlaces, DestroyPlaces
  <2>7. \A u \in Threads : pc[u] \in SavePlaces /\ room[u] \notin crossed =>
            room[u] # room[t]
      BY <1>a, <2>2, SessionTyped DEF StoreInv, SavesCurrent, BE!HasSession
  <2>8. \A r : r \notin doubtful' => r \notin doubtful
      BY <2>1, <2>4, HistorySteps DEF Stores, Sends, RedisPlaces
  <2>9. SavesCurrent'
      BY <1>a, <2>1, <2>2, <2>4, <2>5, <2>7
      DEF StoreInv, SavesCurrent, SavePlaces, RedisPlaces
  <2>10. ErasedBeforeDel'
      BY <1>a, <2>1, <2>2, <2>4, <2>5, <2>6
      DEF StoreInv, ErasedBeforeDel, BE!HasSession, RedisPlaces
  <2>11. LiveStored'
      BY <2>1, <2>2, <2>4, <2>8 DEF StoreInv, LiveStored, BE!HasSession, SavePlaces
  <2>12. DeadForgotten'
      BY <2>1, <2>2, <2>3, <2>4, <2>8 DEF StoreInv, DeadForgotten, BE!HasSession
  <2> QED BY <2>9, <2>10, <2>11, <2>12 DEF StoreInv
<1>2. CASE Goto(t, "c_session", "c_undo") /\ BE!CreateSessionFails(room[t], input[t])
    BY <1>a, <1>2, QuietStore
    DEF Goto, Transition, request, store, CreateSession, BE!CreateSessionFails,
        SavePlaces, RedisPlaces
<1> QED BY <1>1, <1>2 DEF CreateSession

(* GetState gives the handler what the engine has; or the room is in doubt.*)
LEMMA GetStateStores ==
    ASSUME BaseInv, StoreInv, Record, NEW t \in Threads, GetState(t)
    PROVE  StoreInv'
<1>a. /\ pc \in [Threads -> {"idle", "reply"} \cup CreatePlaces \cup CommandPlaces
                            \cup DestroyPlaces]
      /\ snap \in [Threads -> BE!Session \cup {NoSession}]
    BY DEF BaseInv, TypeOK
<1>1. /\ pc[t] = "c_state" /\ UNCHANGED <<room, sessions, redis, context>>
      /\ \A u \in Threads : u # t => pc'[u] = pc[u] /\ snap'[u] = snap[u]
    BY <1>a DEF GetState, Reply, Transition, request, store, BE!GetState,
                BE!GetStateFails
<1>2. \/ pc'[t] = "c_save" /\ snap'[t] = sessions[room[t]]
      \/ pc'[t] = "reply" /\ StoresNothing(t)
    BY <1>a DEF GetState, Reply, Transition, StoresNothing
<1>3. \A u \in Threads : pc[u] \in RedisPlaces \cup {"c_state"} /\ pc'[u] # "reply"
            /\ room[u] \notin crossed' => room[u] \notin crossed
    BY <1>1, HistorySteps
<1>4. \A r : r \notin doubtful' =>
            r \notin doubtful /\ (room[t] = r => ~StoresNothing(t))
    BY <1>1, HistorySteps DEF Stores, Sends, RedisPlaces
<1>5. SavesCurrent' /\ ErasedBeforeDel'
    BY <1>1, <1>2, <1>3
    DEF StoreInv, SavesCurrent, ErasedBeforeDel, BE!HasSession, SavePlaces, RedisPlaces
<1>6. LiveStored'
    BY <1>1, <1>2, <1>4 DEF StoreInv, LiveStored, BE!HasSession, SavePlaces
<1>7. DeadForgotten'
    BY <1>1, <1>2, <1>4 DEF StoreInv, DeadForgotten, BE!HasSession
<1> QED BY <1>5, <1>6, <1>7 DEF StoreInv

(* A turn is played, and its handler stores what it made of the battle.    *)
LEMMA TurnStores ==
    ASSUME BaseInv, StoreInv, Record, NEW t \in Threads, ProcessTurn(t)
    PROVE  StoreInv'
<1>a. /\ pc \in [Threads -> {"idle", "reply"} \cup CreatePlaces \cup CommandPlaces
                            \cup DestroyPlaces]
      /\ snap \in [Threads -> BE!Session \cup {NoSession}]
      /\ sessions \in [RoomIds -> BE!Session \cup {NoSession}]
      /\ \A u \in Threads : pc[u] # "idle" => room[u] \in RoomIds
    BY DEF BaseInv, TypeOK, BE!TypeOK, PlaceInv
<1>1. CASE Transition(t, "s_turn", "s_save") /\ BE!ProcessTurn(room[t])
  <2>1. /\ pc[t] = "s_turn" /\ pc' = [pc EXCEPT ![t] = "s_save"]
        /\ UNCHANGED <<room, redis, context>> /\ room[t] \in RoomIds
        /\ \A u \in Threads : u # t => pc'[u] = pc[u] /\ snap'[u] = snap[u]
      BY <1>a, <1>1 DEF ProcessTurn, Reply, Transition, request, store
  <2>2. snap'[t] = sessions'[room[t]] /\ pc'[t] = "s_save"
      BY <1>a, <1>1 DEF ProcessTurn, Reply, Transition
  <2>3. \A r \in RoomIds : r # room[t] => sessions'[r] = sessions[r]
      BY <1>a, <1>1 DEF BE!ProcessTurn
  <2>4. \A r \in RoomIds : (sessions'[r] # NoSession) => BE!HasSession(r)
      BY <1>1, <2>1, <2>3 DEF BE!ProcessTurn, BE!HasSession
  <2>5. sessions'[room[t]] # NoSession
    <3>1. sessions'[room[t]] \in BE!Session
        BY <1>a, <1>1, <2>1, MovesAssumption
        DEF BE!ProcessTurn, BE!HasSession, BE!Session
    <3> QED BY <3>1, SessionTyped
  <2>6. \A u \in Threads : u # t /\ pc[u] \in RedisPlaces /\ room[u] \notin crossed =>
            room[u] # room[t]
      BY <2>1, Apartness
      DEF RedisPlaces, CreatePlaces, CommandPlaces, DestroyPlaces
  <2>7. \A u \in Threads : pc[u] \in RedisPlaces /\ room[u] \notin crossed' =>
            room[u] \notin crossed
      BY <2>1, <2>2, HistorySteps DEF RedisPlaces
  <2>8. \A r : r \notin doubtful' => r \notin doubtful
      BY <2>1, <2>2, HistorySteps DEF Stores, Sends, RedisPlaces
  <2>9. SavesCurrent'
    <3> SUFFICES ASSUME NEW u \in Threads, pc'[u] \in SavePlaces,
                        room'[u] \notin crossed'
                 PROVE  snap'[u] = sessions'[room'[u]]
        BY DEF SavesCurrent
    <3>1. CASE u = t
        BY <2>1, <2>2, <3>1
    <3>2. CASE u # t
      <4>1. /\ pc[u] \in SavePlaces /\ room[u] \notin crossed /\ room[u] \in RoomIds
            /\ room[u] # room[t]
          BY <1>a, <2>1, <2>6, <2>7, <3>2 DEF SavePlaces, RedisPlaces
      <4> QED BY <2>1, <2>3, <3>2, <4>1 DEF StoreInv, SavesCurrent
    <3> QED BY <3>1, <3>2
  <2>10. ErasedBeforeDel'
      BY <1>a, <2>1, <2>2, <2>4, <2>7
      DEF StoreInv, ErasedBeforeDel, BE!HasSession, RedisPlaces
  <2>11. LiveStored'
      BY <2>1, <2>2, <2>3, <2>4, <2>8 DEF StoreInv, LiveStored, BE!HasSession, SavePlaces
  <2>12. DeadForgotten'
      BY <2>1, <2>2, <2>3, <2>5, <2>8 DEF StoreInv, DeadForgotten, BE!HasSession
  <2> QED BY <2>9, <2>10, <2>11, <2>12 DEF StoreInv
<1>2. CASE Reply(t, "s_turn", 4) /\ BE!ProcessTurnFails(room[t])
    BY <1>a, <1>2, QuietStore
    DEF Reply, Transition, request, store, ProcessTurn, BE!ProcessTurnFails,
        SavePlaces, RedisPlaces
<1> QED BY <1>1, <1>2 DEF ProcessTurn

(* A session is erased by a handler that goes on to delete the snapshot.   *)
LEMMA DestroyStores ==
    ASSUME BaseInv, StoreInv, Record, NEW t \in Threads, DestroySession(t)
    PROVE  StoreInv'
<1>a. /\ pc \in [Threads -> {"idle", "reply"} \cup CreatePlaces \cup CommandPlaces
                            \cup DestroyPlaces]
      /\ sessions \in [RoomIds -> BE!Session \cup {NoSession}]
      /\ \A u \in Threads : pc[u] # "idle" => room[u] \in RoomIds
    BY DEF BaseInv, TypeOK, BE!TypeOK, PlaceInv
<1>1. /\ pc[t] = "d_session" /\ pc'[t] = "d_redis" /\ room[t] \in RoomIds
      /\ UNCHANGED <<room, snap, redis, context>>
      /\ \A u \in Threads : u # t => pc'[u] = pc[u]
    BY <1>a DEF DestroySession, Goto, Transition, request, store
<1>2. /\ sessions'[room[t]] = NoSession
      /\ \A r \in RoomIds : r # room[t] => sessions'[r] = sessions[r]
    BY <1>a, <1>1 DEF DestroySession, BE!DestroySession
<1>3. \A u \in Threads : pc[u] \in SavePlaces /\ room[u] \notin crossed =>
            room[u] # room[t]
    BY <1>1, Apartness DEF SavePlaces, CreatePlaces, CommandPlaces, DestroyPlaces
<1>4. \A u \in Threads : pc[u] \in RedisPlaces /\ room[u] \notin crossed' =>
            room[u] \notin crossed
    BY <1>1, HistorySteps DEF RedisPlaces
<1>5. \A r : r \notin doubtful' => r \notin doubtful
    BY <1>1, HistorySteps DEF Stores, Sends, RedisPlaces
<1>6. SavesCurrent'
    BY <1>a, <1>1, <1>2, <1>3, <1>4
    DEF StoreInv, SavesCurrent, SavePlaces, RedisPlaces
<1>7. ErasedBeforeDel'
    BY <1>a, <1>1, <1>2, <1>4 DEF StoreInv, ErasedBeforeDel, BE!HasSession, RedisPlaces
<1>8. LiveStored'
    BY <1>1, <1>2, <1>5 DEF StoreInv, LiveStored, BE!HasSession, SavePlaces
<1>9. DeadForgotten'
    BY <1>1, <1>2, <1>5 DEF StoreInv, DeadForgotten, BE!HasSession
<1> QED BY <1>6, <1>7, <1>8, <1>9 DEF StoreInv

(* A command is of its own room only, and none is claimed of on a broken   *)
(* context.                                                                *)
LEMMA CommandFrame ==
    ASSUME RS!TypeOK, NEW q, NEW d, NEW b, RS!Command(q, d, b)
    PROVE  /\ context' = "ok" => context = "ok"
           /\ \A r \in RoomIds : r # q => redis'[r] = redis[r]
BY DEF RS!Command, RS!TypeOK, RS!vars

(* Of a room nobody crossed a SET stores what the engine has, or leaves the*)
(* room in doubt; it settles no other.                                     *)
LEMMA SaveStores ==
    ASSUME BaseInv, StoreInv, Record, NEW t \in Threads, SetRoomData(t)
    PROVE  StoreInv'
<1>a. /\ pc \in [Threads -> {"idle", "reply"} \cup CreatePlaces \cup CommandPlaces
                            \cup DestroyPlaces]
      /\ pc[t] \in SavePlaces => snap[t] \in BE!Session
    BY DEF BaseInv, TypeOK, PlaceInv, SavePlaces
<1>1. /\ pc[t] \in SavePlaces /\ pc'[t] = "reply"
      /\ UNCHANGED <<room, snap, sessions>>
      /\ \A u \in Threads : u # t => pc'[u] = pc[u]
    BY <1>a DEF SetRoomData, Reply, Transition, request, SavePlaces
<1>2. room[t] \notin crossed => snap[t] = sessions[room[t]] /\ BE!HasSession(room[t])
    BY <1>a, <1>1, SessionTyped DEF StoreInv, SavesCurrent, BE!HasSession
<1>3. /\ context' = "ok" => context = "ok"
      /\ \A r \in RoomIds : r # room[t] => redis'[r] = redis[r]
    BY CommandFrame DEF SetRoomData, RS!SetRoomData, BaseInv, TypeOK
<1>4. \A u \in Threads : pc'[u] \in RedisPlaces /\ room[u] \notin crossed' =>
            room[u] \notin crossed
    BY <1>1, HistorySteps DEF RedisPlaces
<1>5. \A r : r \notin doubtful' =>
            IF r = room[t] THEN redis'[r] = snap[t] /\ r \notin crossed
                           ELSE r \notin doubtful
  <2> SUFFICES ASSUME NEW r, r \notin doubtful'
               PROVE  IF r = room[t] THEN redis'[r] = snap[t] /\ r \notin crossed
                                     ELSE r \notin doubtful
      OBVIOUS
  <2>1. \A u \in Threads : Stores(u) => u = t
      BY <1>1 DEF Stores, Sends
  <2>2. r = room[t] => redis'[r] = snap[t]
      BY <1>1, HistorySteps DEF Stores, Sends, SavePlaces, RedisPlaces
  <2>3. \/ r \notin doubtful
        \/ r = room[t] /\ r \notin crossed
      BY <2>1, HistorySteps
  <2>4. crossed \subseteq doubtful
      BY DEF BaseInv
  <2> QED BY <2>2, <2>3, <2>4
<1>6. SavesCurrent' /\ ErasedBeforeDel'
    BY <1>1, <1>4 DEF StoreInv, SavesCurrent, ErasedBeforeDel, BE!HasSession,
                      SavePlaces, RedisPlaces
<1>7. LiveStored'
    BY <1>1, <1>2, <1>3, <1>5 DEF StoreInv, LiveStored, BE!HasSession, SavePlaces
<1>8. DeadForgotten'
    BY <1>1, <1>2, <1>3, <1>5 DEF StoreInv, DeadForgotten, BE!HasSession, SavePlaces
<1> QED BY <1>6, <1>7, <1>8 DEF StoreInv

(* A DEL takes nothing of a live battle whose room nobody crossed.         *)
LEMMA DeleteStores ==
    ASSUME BaseInv, StoreInv, Record, NEW t \in Threads, DeleteRoomData(t)
    PROVE  StoreInv'
<1>a. pc \in [Threads -> {"idle", "reply"} \cup CreatePlaces \cup CommandPlaces
                         \cup DestroyPlaces]
    BY DEF BaseInv, TypeOK
<1>1. /\ pc[t] = "d_redis" /\ pc'[t] = "reply"
      /\ UNCHANGED <<room, snap, sessions>>
      /\ \A u \in Threads : u # t => pc'[u] = pc[u]
    BY <1>a DEF DeleteRoomData, Reply, Transition, request
<1>2. room[t] \notin crossed => ~BE!HasSession(room[t])
    BY <1>1 DEF StoreInv, ErasedBeforeDel
<1>3. /\ context' = "ok" => context = "ok"
      /\ \A r \in RoomIds : r # room[t] => redis'[r] = redis[r]
    BY CommandFrame DEF DeleteRoomData, RS!DeleteRoomData, BaseInv, TypeOK
<1>4. \A u \in Threads : pc'[u] \in RedisPlaces /\ room[u] \notin crossed' =>
            room[u] \notin crossed
    BY <1>1, HistorySteps DEF RedisPlaces
<1>5. \A r : r \notin doubtful' =>
            IF r = room[t] THEN redis'[r] = NoData /\ r \notin crossed
                           ELSE r \notin doubtful
  <2> SUFFICES ASSUME NEW r, r \notin doubtful'
               PROVE  IF r = room[t] THEN redis'[r] = NoData /\ r \notin crossed
                                     ELSE r \notin doubtful
      OBVIOUS
  <2>1. \A u \in Threads : Stores(u) => u = t
      BY <1>1 DEF Stores, Sends
  <2>2. r = room[t] => redis'[r] = NoData
      BY <1>1, HistorySteps DEF Stores, Sends, RedisPlaces
  <2>3. \/ r \notin doubtful
        \/ r = room[t] /\ r \notin crossed
      BY <2>1, HistorySteps
  <2>4. crossed \subseteq doubtful
      BY DEF BaseInv
  <2> QED BY <2>2, <2>3, <2>4
<1>6. SavesCurrent' /\ ErasedBeforeDel'
    BY <1>1, <1>4 DEF StoreInv, SavesCurrent, ErasedBeforeDel, BE!HasSession,
                      SavePlaces, RedisPlaces
<1>7. LiveStored'
    BY <1>1, <1>2, <1>3, <1>5 DEF StoreInv, LiveStored, BE!HasSession, SavePlaces
<1>8. DeadForgotten'
    BY <1>1, <1>2, <1>3, <1>5 DEF StoreInv, DeadForgotten, BE!HasSession
<1> QED BY <1>6, <1>7, <1>8 DEF StoreInv

(* What Redis holds after any step of the process follows from what it held*)
(* and where the handlers were.                                            *)
LEMMA ServeStores == ASSUME BaseInv, StoreInv, Serve PROVE StoreInv'
<1>a. /\ pc \in [Threads -> {"idle", "reply"} \cup CreatePlaces \cup CommandPlaces
                            \cup DestroyPlaces]
      /\ Record
    BY DEF BaseInv, TypeOK, Serve
<1>1. CASE \E t \in Threads : Request(t)
  <2> PICK t \in Threads : Request(t)
      BY <1>1
  <2>1. PICK o \in Ops, r \in RoomIds :
            /\ Transition(t, "idle", First(o))
            /\ room' = [room EXCEPT ![t] = r]
      BY DEF Request
  <2>2. UNCHANGED <<sessions, redis, context, snap>>
      BY DEF Request, store
  <2>3. First(o) \in {"c_maintenance", "s_room", "d_room"}
      BY FirstTyped
  <2>4. \A u \in Threads : u # t => pc'[u] = pc[u] /\ room'[u] = room[u]
      BY <1>a, <2>1 DEF Transition, BaseInv, TypeOK
  <2>5. pc[t] = "idle" /\ pc'[t] \in {"c_maintenance", "s_room", "d_room"}
      BY <1>a, <2>1, <2>3 DEF Transition
  <2> QED BY <1>a, <2>2, <2>4, <2>5, QuietStore DEF SavePlaces, RedisPlaces
<1>2. CASE \E t \in Threads : Handler(t)
  <2> PICK t \in Threads : Handler(t)
      BY <1>2
  <2> USE DEF Transition, request, store, SavePlaces, RedisPlaces
  <2>1. CASE IsInMaintenanceMode(t)
      BY <1>a, <2>1, MaintenanceSteps, QuietStore DEF Reply, Goto
  <2>2. CASE CanCreateRoom(t)
      BY <1>a, <2>2, CapacitySteps, QuietStore DEF Reply, Goto
  <2>3. CASE CreateRoomWithId(t) \/ GetRoomStatus(t) \/ CloseRoom(t)
    <3>1. CASE CreateRoomWithId(t)
        BY <1>a, <3>1, QuietStore DEF CreateRoomWithId, Reply, Goto
    <3>2. CASE GetRoomStatus(t)
        BY <1>a, <3>2, QuietStore DEF GetRoomStatus, Reply, Goto, table
    <3>3. CASE CloseRoom(t)
        BY <1>a, <3>3, QuietStore DEF CloseRoom, Reply, Goto
    <3> QED BY <2>3, <3>1, <3>2, <3>3
  <2>4. CASE UndoCreateRoom(t)
      BY <1>a, <2>4, QuietStore DEF UndoCreateRoom, Reply
  <2>5. CASE Return(t)
    <3>1. \A u \in Threads : u # t =>
              pc'[u] = pc[u] /\ room'[u] = room[u] /\ snap'[u] = snap[u]
        BY <1>a, <2>5 DEF Return, BaseInv, TypeOK
    <3>2. pc[t] = "reply" /\ pc'[t] = "idle" /\ UNCHANGED <<sessions, redis, context>>
        BY <1>a, <2>5 DEF Return
    <3> QED BY <1>a, <3>1, <3>2, QuietStore
  <2>6. CASE CreateSession(t) \/ GetState(t) \/ ProcessTurn(t)
      BY <1>a, <2>6, CreateStores, GetStateStores, TurnStores
  <2>7. CASE DestroySession(t) \/ SetRoomData(t) \/ DeleteRoomData(t)
      BY <1>a, <2>7, DestroyStores, SaveStores, DeleteStores
  <2> QED BY <2>1, <2>2, <2>3, <2>4, <2>5, <2>6, <2>7 DEF Handler
<1>3. CASE UNCHANGED <<sessions, redis, context, pc, room, snap>>
    BY <1>a, <1>3, QuietStore
<1>4. CASE SetMaintenanceMode \/ GracefulShutdown \/ Stop \/ Stopped
    BY <1>3, <1>4 DEF SetMaintenanceMode, GracefulShutdown, GetAllRooms,
                      CloseListedRoom, AllClosed, Stop, Stopped, handlers, store, vars
<1>5. CASE Expire \/ ContextBreaks
  <2>1. UNCHANGED <<sessions, pc, room, snap>>
      BY <1>5 DEF Expire, ContextBreaks, handlers
  <2>2. context' = "ok" =>
            context = "ok" /\ \A r \in RoomIds : redis'[r] \in {redis[r], Expired}
      BY <1>5 DEF Expire, ContextBreaks, RS!Expire, RS!ContextBreaks,
                  BaseInv, TypeOK, RS!TypeOK
  <2>3. /\ \A u \in Threads : pc[u] \in RedisPlaces /\ room[u] \notin crossed' =>
                room[u] \notin crossed
        /\ \A r : r \notin doubtful' => r \notin doubtful
      BY <1>a, <2>1, HistorySteps DEF Stores, Sends, RedisPlaces
  <2>4. SavesCurrent' /\ ErasedBeforeDel'
      BY <2>1, <2>3 DEF StoreInv, SavesCurrent, ErasedBeforeDel, BE!HasSession,
                        SavePlaces, RedisPlaces
  <2>5. LiveStored' /\ DeadForgotten'
      BY <2>1, <2>2, <2>3 DEF StoreInv, LiveStored, DeadForgotten, BE!HasSession
  <2> QED BY <2>4, <2>5 DEF StoreInv
<1> QED BY <1>1, <1>2, <1>4, <1>5 DEF Serve, Next

(* A new process is in a state as good as the first one's.                 *)
LEMMA RestartIsClean ==
    ASSUME TypeOK, Restart
    PROVE  ApartInv' /\ ReplyInv' /\ ServingRooms'
<1>1. /\ \A t \in Threads : pc'[t] = "idle" /\ op'[t] = "none" /\ room'[t] = NoRoom
      /\ \A t \in Threads : code'[t] = NoCode
      /\ \A r \in RoomIds : ~(sessions'[r] # NoSession)
      /\ rooms' = {} /\ stage' = "serving" /\ is_maintaining' = "off"
    BY DEF Restart
<1>2. RS!TypeOK'
    BY DEF Restart, DeleteRoomsForServer, TypeOK, RS!TypeOK
<1>3. TypeOK'
    BY <1>2 DEF Restart, TypeOK, RT!TypeOK, BE!TypeOK, NoCode
<1>4. PlaceInv' /\ OverlapInv' /\ StageInv' /\ ServingRooms'
    BY <1>1 DEF PlaceInv, OverlapInv, StageInv, ServingRooms, CreatePlaces,
                CommandPlaces, DestroyPlaces
<1>5. CapacityInv'
    BY <1>1, FS_EmptySet, CapacityAssumption DEF CapacityInv
<1>6. PairInv' /\ InputInv' /\ ReplyInv'
    BY <1>1 DEF PairInv, InputInv, Creating, BE!HasSession, NoCode, ReplyInv,
                SaidInv, Created, Removed, Erased
<1> QED BY <1>3, <1>4, <1>5, <1>6 DEF ApartInv, IInv

(* It has no session and no handler, and is in doubt of all that Redis     *)
(* still holds.                                                            *)
LEMMA RestartStores ==
    ASSUME BaseInv, Restart PROVE BaseInv' /\ StoreInv'
<1>1. /\ \A t \in Threads : pc'[t] = "idle"
      /\ \A r \in RoomIds : ~(sessions'[r] # NoSession)
      /\ crossed' = {}
    BY DEF Restart
<1>2. (TypeOK /\ PlaceInv)'
    BY RestartIsClean DEF BaseInv, ApartInv, IInv
<1>3. BaseInv'
    BY <1>1, <1>2 DEF BaseInv, AloneInv, Working
<1>4. \A r \in RoomIds \ doubtful' : redis'[r] \in {NoData, Expired}
    BY <1>2 DEF Restart, TypeOK, RS!TypeOK
<1>5. StoreInv'
    BY <1>1, <1>4 DEF StoreInv, SavesCurrent, ErasedBeforeDel, LiveStored,
                      DeadForgotten, BE!HasSession, SavePlaces
<1> QED BY <1>3, <1>5

(* BaseInv and StoreInv hold in every reachable state.                     *)
LEMMA StoreInvariance == RestartSpec => [](BaseInv /\ StoreInv)
<1>1. RestartInit => BaseInv /\ StoreInv
  <2>1. RestartInit => BaseInv
    <3>1. Init => \A t \in Threads : ~Working(t)
        BY DEF Init, Working
    <3> QED BY <3>1, InitInv DEF RestartInit, IInv, BaseInv, AloneInv
  <2>2. RestartInit => StoreInv
      BY DEF RestartInit, Init, BE!Init, RS!Init, StoreInv, SavesCurrent,
             ErasedBeforeDel, LiveStored, DeadForgotten, BE!HasSession, SavePlaces
  <2> QED BY <2>1, <2>2
<1>2. BaseInv /\ StoreInv /\ [RestartNext]_restartVars => (BaseInv /\ StoreInv)'
  <2> SUFFICES ASSUME BaseInv, StoreInv, [RestartNext]_restartVars
               PROVE  BaseInv' /\ StoreInv'
      OBVIOUS
  <2>1. CASE Serve
    <3>1. (TypeOK /\ PlaceInv)'
        BY <2>1, TypeStep, PlaceStep DEF BaseInv, Serve
    <3>2. AloneInv' /\ crossed' \subseteq doubtful'
        BY <2>1, AloneStep, HistorySteps DEF BaseInv, Serve
    <3> QED BY <2>1, <3>1, <3>2, ServeStores DEF BaseInv
  <2>2. CASE Restart
      BY <2>2, RestartStores
  <2>3. CASE UNCHANGED restartVars
    <3>1. UNCHANGED vars /\ UNCHANGED <<crossed, doubtful>>
        BY <2>3 DEF restartVars
    <3>2. (TypeOK /\ PlaceInv)'
        BY <3>1, TypeStep, PlaceStep DEF BaseInv
    <3>3. AloneInv' /\ crossed' \subseteq doubtful'
        BY <3>1 DEF vars, BaseInv, AloneInv, Working
    <3>4. StoreInv'
        BY <3>1 DEF vars, StoreInv, SavesCurrent, ErasedBeforeDel, LiveStored,
                    DeadForgotten, BE!HasSession
    <3> QED BY <3>2, <3>3, <3>4 DEF BaseInv
  <2> QED BY <2>1, <2>2, <2>3 DEF RestartNext
<1> QED BY <1>1, <1>2, PTL DEF RestartSpec

-----------------------------------------------------------------------------

(* Whatever overlaps, fails or crashes: from the next SET on that works and*)
(* that no handler crossed, Redis has the last answer of every live battle,*)
(* or let it expire, until some such thing happens again.                  *)
THEOREM SnapshotsAreCurrent == RestartSpec => []SnapshotIsCurrent
<1>1. StoreInv => SnapshotIsCurrent
    BY DEF StoreInv, LiveStored, SnapshotIsCurrent, Settled, Busy, SavePlaces
<1> QED BY <1>1, StoreInvariance, PTL

(* And likewise nothing of a room without a battle.                        *)
THEOREM DestroyedAreForgotten == RestartSpec => []DestroyedIsForgotten
<1>1. StoreInv => DestroyedIsForgotten
    BY DEF StoreInv, DeadForgotten, DestroyedIsForgotten, Settled, Busy
<1> QED BY <1>1, StoreInvariance, PTL

-----------------------------------------------------------------------------
(* The service through crashes                                             *)

(* A step of the process, or none, is one of GameService, or none.         *)
LEMMA ServeIsNext ==
    ASSUME [RestartNext]_restartVars PROVE [Next]_vars \/ Restart
BY DEF RestartNext, restartVars, Serve

(* What holds whatever overlaps holds through crashes.                     *)
LEMMA CrashInvariance == RestartSpec => []IInv
<1>1. IInv /\ [RestartNext]_restartVars => IInv'
  <2>1. IInv /\ Restart => IInv'
      BY RestartIsClean DEF ApartInv, IInv
  <2> QED BY <2>1, InvStep, ServeIsNext
<1> QED BY <1>1, InitInv, PTL DEF RestartSpec, RestartInit

(* So does what a caller that keeps CreateRoom and DestroyRoom apart can   *)
(* rely on.                                                                *)
LEMMA CrashApartInvariance ==
    ASSUME Apart PROVE RestartSpec => [](ApartInv /\ ReplyInv /\ KeptInv)
<1>1. RestartInit => ApartInv /\ ReplyInv /\ ServingRooms
    BY InitApart, InitReply DEF RestartInit, Init, ServingRooms
<1>2. ApartInv /\ ReplyInv /\ [RestartNext]_restartVars => ApartInv' /\ ReplyInv'
  <2>1. ApartInv /\ Restart => ApartInv' /\ ReplyInv'
      BY RestartIsClean DEF ApartInv, IInv
  <2> QED BY <2>1, ApartStep, ReplyStep, ServeIsNext
<1>3. (ApartInv /\ ServingRooms)' => KeptInv'
    BY ServingKept, PTL
<1>4. ApartInv /\ ApartInv' /\ KeptInv /\ [RestartNext]_restartVars => KeptInv'
  <2>1. ApartInv /\ Restart => ApartInv' /\ ServingRooms'
      BY RestartIsClean DEF ApartInv, IInv
  <2> QED BY <1>3, <2>1, KeptStep, ServeIsNext
<1> QED BY <1>1, <1>2, <1>4, ServingKept, PTL DEF RestartSpec

(* However often the process dies, and whatever overlaps: no more rooms    *)
(* than max_rooms_, and none after a shutdown.                             *)
THEOREM TableThroughCrashes ==
    RestartSpec => [](TypeOK /\ WithinCapacity /\ ShutdownLeavesNoRoom)
<1>1. IInv => TypeOK /\ WithinCapacity /\ ShutdownLeavesNoRoom
    BY CapacityFollows DEF IInv, StageInv, ShutdownLeavesNoRoom
<1> QED BY <1>1, CrashInvariance, PTL

(* For a caller that keeps CreateRoom and DestroyRoom of a room apart, no  *)
(* crash leaves a room or a session alone, an id unusable, a reply untrue, *)
(* or more sessions than rooms can have.                                   *)
THEOREM PairingThroughCrashes ==
    ASSUME Apart, IsFiniteSet(Threads)
    PROVE  RestartSpec =>
               [](RoomSessionPaired /\ NoPoisonedId /\ RepliesHold /\ SessionsBounded)
BY PairingFollows, UsableFollows, RepliesFollow, BoundFollows,
   CrashApartInvariance, PTL

(* For such a caller a crash is the loss of all battles at once, and        *)
(* nothing else that it can notice.                                        *)
THEOREM CrashingRefinement ==
    ASSUME Apart PROVE RestartSpec => ImplementsCrashingService
<1>1. RestartInit => Service!Init
    BY DEF RestartInit, Init, RT!Init, BE!Init, Service!Init, battles, drained
<1>2. ApartInv /\ [RestartNext]_restartVars =>
            [Service!Next \/ Service!Crash]_(Service!vars)
  <2> SUFFICES ASSUME ApartInv, [RestartNext]_restartVars
               PROVE  [Service!Next \/ Service!Crash]_(Service!vars)
      OBVIOUS
  <2>1. CASE [Next]_vars
      BY <2>1, StepMaps DEF seen, Service!vars
  <2>2. CASE Restart
    <3>1. rooms' = {} /\ stage' = "serving"
        BY <2>2 DEF Restart
    <3>2. battles' = [r \in RoomIds |-> NoSession] /\ drained' = FALSE
        BY <3>1 DEF battles, drained
    <3> QED BY <3>2 DEF Service!Crash
  <2> QED BY <2>1, <2>2, ServeIsNext
<1> QED BY <1>1, <1>2, CrashApartInvariance, PTL
    DEF RestartSpec, ImplementsCrashingService, Service!CrashSpec

=============================================================================
