----------------------------- MODULE GameService -----------------------------
(***************************************************************************)
(* The gRPC service (src/src/server/game_server.cpp): handlers CreateRoom, *)
(* SendCommand and DestroyRoom on the threads of the gRPC server, and      *)
(* GracefulShutdown on the signal thread, over the room table, the battle  *)
(* engine and Redis.  Each handler is the sequence of its calls into those *)
(* three; nothing holds a lock across two of them, so the calls of         *)
(* different handlers interleave.                                          *)
(*                                                                         *)
(* What calls on the same room may be under way at once is a matter of the *)
(* caller (the Go server, not in this repository): MayOverlap is the set   *)
(* of the pairs of operations it lets overlap.                             *)
(***************************************************************************)
EXTENDS Naturals, FiniteSets

CONSTANTS Threads,      \* threads that run handlers
          RoomIds,      \* not ending in ":command", see RoomStore
          MaxRooms,     \* max_rooms_
          Battles,      \* init_json the simulator makes a battle of
          MaxMoves,     \* bound: requests a battle accepts
          MayOverlap,   \* sets of one or two operations, see above
          Faults,       \* bound: of "expire", "break", "refuse", "crash", those
                        \* that happen
          NoSession, NoData, Expired,
          NoRoom, NoInput,
          EmptyId,      \* a CreateRoom without a room_id
          Unparsable,   \* init_json, or action, that is not JSON
          Rejected,     \* init_json the simulator makes no battle of
          Action        \* an action that is JSON

ASSUME CapacityAssumption == MaxRooms \in Nat
ASSUME MovesAssumption == MaxMoves \in Nat
ASSUME NoRoomAssumption == NoRoom \notin RoomIds
ASSUME NoSessionAssumption == NoSession \notin [battle : Battles, moves : 0 .. MaxMoves]
ASSUME InputAssumption ==
    {EmptyId, Unparsable, Rejected, Action, NoInput} \cap Battles = {}

VARIABLES rooms, is_maintaining,   \* RoomTable
          sessions,                \* BattleEngine
          redis, context,          \* RoomStore
          pc, op, room, input,     \* per thread: where it is, in which request
          snap,                    \* room_state, battle_response of the handler
          code,                    \* response->code() when it replies
          stage,                   \* how far GracefulShutdown is
          to_close                 \* rooms of its list still to close

RT == INSTANCE RoomTable
BE == INSTANCE BattleEngine
RS == INSTANCE RoomStore WITH Snapshots <- BE!Session

table == <<rooms, is_maintaining>>
store == <<redis, context>>
request == <<op, room, input>>
shutdown == <<stage, to_close>>
vars == <<rooms, is_maintaining, sessions, redis, context, pc, op, room, input,
          snap, code, stage, to_close>>

Ops == {"CreateRoom", "SendCommand", "DestroyRoom"}
Inits == Battles \cup {EmptyId, Unparsable, Rejected}
Inputs(o) ==
    CASE o = "CreateRoom"  -> Inits
      [] o = "SendCommand" -> {Unparsable, Action}
      [] o = "DestroyRoom" -> {NoInput}

CreatePlaces == {"c_maintenance", "c_can", "c_insert", "c_session", "c_undo",
                 "c_state", "c_save"}
CommandPlaces == {"s_room", "s_turn", "s_save"}
DestroyPlaces == {"d_room", "d_session", "d_redis"}
RedisPlaces == {"c_save", "s_save", "d_redis"}

TypeOK ==
    /\ RT!TypeOK /\ BE!TypeOK /\ RS!TypeOK
    /\ pc \in [Threads -> {"idle", "reply"} \cup CreatePlaces \cup CommandPlaces
                          \cup DestroyPlaces]
    /\ op \in [Threads -> Ops \cup {"none"}]
    /\ room \in [Threads -> RoomIds \cup {NoRoom}]
    /\ input \in [Threads -> Inits \cup {Action, NoInput}]
    /\ snap \in [Threads -> BE!Session \cup {NoSession}]
    /\ code \in [Threads -> 0 .. 7]
    /\ stage \in {"serving", "waiting", "closing", "closed", "stopped"}
    /\ to_close \in SUBSET RoomIds

NoCode == 7

Init ==
    /\ RT!Init /\ BE!Init /\ RS!Init
    /\ pc = [t \in Threads |-> "idle"]
    /\ op = [t \in Threads |-> "none"]
    /\ room = [t \in Threads |-> NoRoom]
    /\ input = [t \in Threads |-> NoInput]
    /\ snap = [t \in Threads |-> NoSession]
    /\ code = [t \in Threads |-> NoCode]
    /\ stage = "serving"
    /\ to_close = {}

-----------------------------------------------------------------------------
(* Requests and replies                                                    *)

Transition(t, from, to) ==
    /\ pc[t] = from
    /\ pc' = [pc EXCEPT ![t] = to]

Goto(t, from, to) ==
    /\ Transition(t, from, to)
    /\ UNCHANGED <<request, snap, code, shutdown>>

Reply(t, from, c) ==
    /\ Transition(t, from, "reply")
    /\ code' = [code EXCEPT ![t] = c]
    /\ UNCHANGED <<request, snap, shutdown>>

First(o) ==
    CASE o = "CreateRoom"  -> "c_maintenance"
      [] o = "SendCommand" -> "s_room"
      [] o = "DestroyRoom" -> "d_room"

(* A request arrives; the caller has no other under way on that room which *)
(* it would not let overlap with this one.                                 *)
Request(t) ==
    /\ stage # "stopped"
    /\ \E o \in Ops, r \in RoomIds :
        /\ \A u \in Threads \ {t} :
            room[u] = r => {op[u], o} \in MayOverlap
        /\ Transition(t, "idle", First(o))
        /\ op' = [op EXCEPT ![t] = o]
        /\ room' = [room EXCEPT ![t] = r]
        /\ \E i \in Inputs(o) : input' = [input EXCEPT ![t] = i]
    /\ UNCHANGED <<table, sessions, store, snap, code, shutdown>>

(* The handler returns and its locals are gone.                            *)
Return(t) ==
    /\ Transition(t, "reply", "idle")
    /\ op' = [op EXCEPT ![t] = "none"]
    /\ room' = [room EXCEPT ![t] = NoRoom]
    /\ input' = [input EXCEPT ![t] = NoInput]
    /\ snap' = [snap EXCEPT ![t] = NoSession]
    /\ code' = [code EXCEPT ![t] = NoCode]
    /\ UNCHANGED <<table, sessions, store, shutdown>>

(* A handler's Redis command is raced by any other handler at one.         *)
Raced(t) == \E u \in Threads \ {t} : pc[u] \in RedisPlaces

-----------------------------------------------------------------------------
(* CreateRoom                                                              *)

IsInMaintenanceMode(t) ==
    /\ \/ Reply(t, "c_maintenance", 1) /\ TRUE \in RT!MaintenanceReads
       \/ Goto(t, "c_maintenance", "c_can") /\ FALSE \in RT!MaintenanceReads
    /\ UNCHANGED <<table, sessions, store>>

(* CanCreateRoom, then the checks of the request itself, in this order.    *)
CanCreateRoom(t) ==
    /\ \/ Reply(t, "c_can", 2) /\ RT!CanCreateRoom(FALSE)
       \/ /\ RT!CanCreateRoom(TRUE)
          /\ \/ Reply(t, "c_can", 3) /\ input[t] = EmptyId
             \/ Reply(t, "c_can", 5) /\ input[t] = Unparsable
             \/ Goto(t, "c_can", "c_insert") /\ input[t] \notin {EmptyId, Unparsable}
    /\ UNCHANGED <<table, sessions, store>>

CreateRoomWithId(t) ==
    /\ \/ Goto(t, "c_insert", "c_session") /\ RT!CreateRoomWithId(room[t])
       \/ Reply(t, "c_insert", 4) /\ RT!CreateRoomRefused(room[t])
    /\ UNCHANGED <<sessions, store>>

CreateSession(t) ==
    /\ \/ Goto(t, "c_session", "c_state") /\ BE!CreateSession(room[t], input[t])
       \/ Goto(t, "c_session", "c_undo") /\ BE!CreateSessionFails(room[t], input[t])
    /\ UNCHANGED <<table, store>>

(* Mutant: the failed CreateRoom does not take its room back.              *)
UndoNothing(t) ==
    /\ Reply(t, "c_undo", 6)
    /\ UNCHANGED <<table, sessions, store>>

(* CreateSession failed: the room is closed again, whoever's it is by now. *)
UndoCreateRoom(t) ==
    /\ Reply(t, "c_undo", 6)
    /\ RT!CloseRoom(room[t]) \/ RT!CloseRoomRefused(room[t])
    /\ UNCHANGED <<sessions, store>>

(* Mutants: the result of GetState() is not looked at; the handler waits   *)
(* for a session to be there.                                              *)
GetStateUnchecked(t) ==
    /\ Transition(t, "c_state", "c_save")
    /\ snap' = [snap EXCEPT ![t] = sessions[room[t]]]
    /\ UNCHANGED <<request, code, shutdown, table, sessions, store>>

GetStateWaits(t) ==
    /\ pc[t] = "c_state"
    /\ BE!HasSession(room[t])
    /\ Transition(t, "c_state", "c_save")
    /\ snap' = [snap EXCEPT ![t] = sessions[room[t]]]
    /\ UNCHANGED <<request, code, shutdown, table, sessions, store>>

(* A room whose state is not to be had is not stored, and still code 0.    *)
GetState(t) ==
    /\ \/ /\ Transition(t, "c_state", "c_save")
          /\ BE!GetState(room[t])
          /\ snap' = [snap EXCEPT ![t] = sessions[room[t]]]
          /\ UNCHANGED <<request, code, shutdown>>
       \/ Reply(t, "c_state", 0) /\ BE!GetStateFails(room[t])
    /\ UNCHANGED <<table, store>>

(* The SET at the end of CreateRoom and of SendCommand.                    *)
SetRoomData(t) ==
    /\ Reply(t, "c_save", 0) \/ Reply(t, "s_save", 0)
    /\ RS!SetRoomData(room[t], snap[t], Raced(t))
    /\ UNCHANGED <<table, sessions>>

-----------------------------------------------------------------------------
(* SendCommand                                                             *)

GetRoomStatus(t) ==
    /\ \/ Reply(t, "s_room", 1) /\ room[t] \notin rooms
       \/ /\ room[t] \in rooms
          /\ \/ Reply(t, "s_room", 3) /\ input[t] = Unparsable
             \/ Goto(t, "s_room", "s_turn") /\ input[t] # Unparsable
    /\ UNCHANGED <<table, sessions, store>>

(* Mutant: the state is taken before the turn is processed.                *)
ProcessTurnSavesBefore(t) ==
    /\ \/ /\ Transition(t, "s_turn", "s_save")
          /\ BE!ProcessTurn(room[t])
          /\ snap' = [snap EXCEPT ![t] = sessions[room[t]]]
          /\ UNCHANGED <<request, code, shutdown>>
       \/ Reply(t, "s_turn", 4) /\ BE!ProcessTurnFails(room[t])
    /\ UNCHANGED <<table, store>>

ProcessTurn(t) ==
    /\ \/ /\ Transition(t, "s_turn", "s_save")
          /\ BE!ProcessTurn(room[t])
          /\ snap' = [snap EXCEPT ![t] = sessions'[room[t]]]
          /\ UNCHANGED <<request, code, shutdown>>
       \/ Reply(t, "s_turn", 4) /\ BE!ProcessTurnFails(room[t])
    /\ UNCHANGED <<table, store>>

-----------------------------------------------------------------------------
(* DestroyRoom                                                             *)

CloseRoom(t) ==
    /\ \/ Goto(t, "d_room", "d_session") /\ RT!CloseRoom(room[t])
       \/ Reply(t, "d_room", 1) /\ RT!CloseRoomRefused(room[t])
    /\ UNCHANGED <<sessions, store>>

(* Mutants: DestroyRoom keeps the session; it replies without the DEL.     *)
DestroySessionSkipped(t) ==
    /\ Goto(t, "d_session", "d_redis")
    /\ UNCHANGED <<table, sessions, store>>

DestroySessionIsLast(t) ==
    /\ Reply(t, "d_session", 0)
    /\ BE!DestroySession(room[t])
    /\ UNCHANGED <<table, store>>

DestroySession(t) ==
    /\ Goto(t, "d_session", "d_redis")
    /\ BE!DestroySession(room[t])
    /\ UNCHANGED <<table, store>>

DeleteRoomData(t) ==
    /\ Reply(t, "d_redis", 0)
    /\ RS!DeleteRoomData(room[t], Raced(t))
    /\ UNCHANGED <<table, sessions>>

-----------------------------------------------------------------------------
(* GracefulShutdown, once, on SIGTERM.  Sessions and Redis are left alone. *)

handlers == <<pc, op, room, input, snap, code>>

SetMaintenanceMode ==
    /\ stage = "serving"
    /\ stage' = "waiting"
    /\ RT!SetMaintenanceMode
    /\ UNCHANGED <<sessions, store, handlers, to_close>>

GetAllRooms ==
    /\ stage = "waiting"
    /\ stage' = "closing"
    /\ to_close' = rooms
    /\ RT!GetAllRooms
    /\ UNCHANGED <<sessions, store, handlers>>

(* Mutant: the loop announces the room and does not close it.              *)
ListedRoomKept ==
    /\ stage = "closing"
    /\ \E r \in to_close : to_close' = to_close \ {r}
    /\ UNCHANGED <<table, sessions, store, handlers, stage>>

CloseListedRoom ==
    /\ stage = "closing"
    /\ \E r \in to_close :
        /\ RT!CloseRoom(r) \/ RT!CloseRoomRefused(r)
        /\ to_close' = to_close \ {r}
    /\ UNCHANGED <<sessions, store, handlers, stage>>

AllClosed ==
    /\ stage = "closing"
    /\ to_close = {}
    /\ stage' = "closed"
    /\ UNCHANGED <<table, sessions, store, handlers, to_close>>

(* server_->Shutdown(): no new request; those under way are finished.      *)
Stop ==
    /\ stage = "closed"
    /\ stage' = "stopped"
    /\ UNCHANGED <<table, sessions, store, handlers, to_close>>

-----------------------------------------------------------------------------

Expire ==
    /\ "expire" \in Faults
    /\ \E r \in RoomIds : RS!Expire(r)
    /\ UNCHANGED <<table, sessions, handlers, shutdown>>

ContextBreaks ==
    /\ "break" \in Faults
    /\ RS!ContextBreaks
    /\ UNCHANGED <<table, sessions, handlers, shutdown>>

Handler(t) ==
    \/ IsInMaintenanceMode(t) \/ CanCreateRoom(t) \/ CreateRoomWithId(t)
    \/ CreateSession(t) \/ UndoCreateRoom(t) \/ GetState(t) \/ SetRoomData(t)
    \/ GetRoomStatus(t) \/ ProcessTurn(t)
    \/ CloseRoom(t) \/ DestroySession(t) \/ DeleteRoomData(t)
    \/ Return(t)

GracefulShutdown == GetAllRooms \/ CloseListedRoom \/ AllClosed

(* The process has nothing left to do.                                     *)
Stopped ==
    /\ stage = "stopped"
    /\ \A t \in Threads : pc[t] = "idle"
    /\ UNCHANGED vars

Next ==
    \/ \E t \in Threads : Request(t) \/ Handler(t)
    \/ SetMaintenanceMode \/ GracefulShutdown \/ Stop
    \/ Expire \/ ContextBreaks \/ Stopped

Spec == Init /\ [][Next]_vars

(* A handler that is running gets to its reply, and a reply is sent: its   *)
(* mutexes are held for finite sections and Redis answers or hangs up.     *)
(* GracefulShutdown goes on once begun.  Nothing makes a request, SIGTERM, *)
(* an expiry or a lost connection happen, and Stop() waits for the metrics *)
(* thread, which may be in recv() for ever: none of these is fair.         *)
Fairness ==
    /\ \A t \in Threads : WF_vars(Handler(t))
    /\ WF_vars(GracefulShutdown)

FairSpec == Spec /\ Fairness

-----------------------------------------------------------------------------
(* Properties                                                              *)

(* A handler is at work on r; one that has only to return is not.          *)
Busy(r) == \E t \in Threads : room[t] = r /\ pc[t] # "reply"

ServingRooms == stage \in {"serving", "waiting"}

(* CanCreateRoom() is answered before the room is inserted, and nothing    *)
(* holds the lock in between: the limit must hold all the same, for any    *)
(* number of handlers past the first check.                                *)
WithinCapacity == RT!WithinCapacity

(* GracefulShutdown takes its list once; when it is through no room is     *)
(* left, nor is one added by a CreateRoom that was under way.              *)
ShutdownLeavesNoRoom == stage \in {"closed", "stopped"} => rooms = {}

(* Between handlers a room has its battle session, and a session its room: *)
(* neither is left behind by a handler that stops half way.  (Shutdown     *)
(* closes rooms and keeps sessions, from "closing" on.)                    *)
RoomSessionPaired ==
    \A r \in RoomIds : ~Busy(r) =>
        /\ r \in rooms => BE!HasSession(r)
        /\ BE!HasSession(r) /\ ServingRooms => r \in rooms

(* CreateRoom fails with code 6 only for what the simulator refuses: no id *)
(* is unusable because a session of an earlier room is still under it.     *)
NoPoisonedId ==
    \A t \in Threads : code[t] = 6 => input[t] = Rejected

(* What a handler has replied is so for as long as its reply is on the     *)
(* way, others being at work on the room: a room that was created is there,*)
(* with its battle; one that was destroyed, or not found, is not.          *)
RepliesHold ==
    \A t \in Threads : pc[t] = "reply" =>
        /\ op[t] = "CreateRoom" /\ code[t] = 0 =>
            BE!HasSession(room[t]) /\ (ServingRooms => room[t] \in rooms)
        /\ op[t] = "DestroyRoom" => room[t] \notin rooms
        /\ op[t] = "DestroyRoom" /\ code[t] = 0 => ~BE!HasSession(room[t])

(* Sessions are limited only through rooms: there is never one more than   *)
(* max_rooms_ and the DestroyRoom calls about to remove theirs.            *)
SessionsBounded ==
    Cardinality({r \in RoomIds : BE!HasSession(r)}) <=
        MaxRooms + Cardinality({t \in Threads : pc[t] = "d_session"})

(* "Redis DEL pokemon:room:{id}" is what the documents have a destruction  *)
(* end with (REDIS_FORMAT.md:200-203): between handlers, and as long as the*)
(* connection is sound and no command refused, a room that was destroyed   *)
(* has no key.                                                             *)
DestroyedIsDeleted ==
    context = "ok" =>
        \A r \in RoomIds :
            ~Busy(r) /\ r \notin rooms /\ ~BE!HasSession(r) =>
                redis[r] \in {NoData, Expired}

(* What a caller can meet: the rooms that have their battle.               *)
battles == [r \in RoomIds |-> IF r \in rooms THEN sessions[r] ELSE NoSession]
drained == stage \in {"closed", "stopped"}

Service == INSTANCE BattleService WITH NoBattle <- NoSession

(* With its two tables and no lock over both, the server is the abstract   *)
(* service: a room and its battle come and go together, a turn is played   *)
(* in the battle its room was opened with, and none is left when SIGTERM   *)
(* has been handled.                                                       *)
ImplementsService == Service!Spec

(* Every request is answered, whatever its handler meets on the way.       *)
RequestsAnswered ==
    \A t \in Threads : pc[t] # "idle" ~> pc[t] = "idle"

(* After SIGTERM the rooms are eventually all closed, and for good, while  *)
(* handlers and clients go on.                                             *)
ShutdownDrains == stage = "waiting" ~> [](rooms = {})
=============================================================================
