---------------------------- MODULE ServerRestart ----------------------------
(***************************************************************************)
(* GameService through crashes: the process ends at any point, whatever    *)
(* its handlers are at, and the pod starts a new one over the Redis the    *)
(* old one left (GameServer::Start, src/src/server/game_server.cpp); and   *)
(* what can be relied upon of the snapshots in Redis, whatever overlaps.   *)
(*                                                                         *)
(* Start removes the snapshots whose "server_id" is the pod's ip.  The     *)
(* states the handlers store are the simulator's and have no such member;  *)
(* in the documented format (src/REDIS_FORMAT.md:44) it is a random        *)
(* "server-..." of the process.  Either way it is never the ip.            *)
(*                                                                         *)
(* Nothing in the code keeps Redis in step with the sessions: handlers     *)
(* that overlap on a room send their commands in any order, commands may   *)
(* be refused, CreateRoom may have nothing to store, and a process may     *)
(* crash.  Two history variables, which no action reads, say where that    *)
(* has happened: `doubtful` has the rooms of which Redis may be wrong.     *)
(***************************************************************************)
EXTENDS GameService

CONSTANTS PodIp,       \* pod_ip_
          StoredServerId   \* server_id of a stored state

ASSUME ServerIdAssumption == StoredServerId # PodIp

VARIABLES crossed,    \* history: rooms where a handler now at work met another
          doubtful    \* history: rooms whose snapshot need not be right

restartVars == <<vars, crossed, doubtful>>

ServerIdOf(snapshot) == StoredServerId

(* What SCAN and DEL leave of `redis`.  Nothing else uses the context yet. *)
DeleteRoomsForServer(pod_ip) ==
    redis' = [r \in RoomIds |->
                IF redis[r] \in BE!Session /\ ServerIdOf(redis[r]) = pod_ip
                THEN NoData ELSE redis[r]]

(* The process dies and the next one's Start() is through.                 *)
Restart ==
    /\ "crash" \in Faults
    /\ rooms' = {}
    /\ is_maintaining' = "off"
    /\ sessions' = [r \in RoomIds |-> NoSession]
    /\ DeleteRoomsForServer(PodIp)
    /\ context' = "ok"
    /\ pc' = [t \in Threads |-> "idle"]
    /\ op' = [t \in Threads |-> "none"]
    /\ room' = [t \in Threads |-> NoRoom]
    /\ input' = [t \in Threads |-> NoInput]
    /\ snap' = [t \in Threads |-> NoSession]
    /\ code' = [t \in Threads |-> NoCode]
    /\ stage' = "serving"
    /\ to_close' = {}
    /\ crossed' = {}
    /\ doubtful' = {r \in RoomIds : redis'[r] \in BE!Session}

-----------------------------------------------------------------------------
(* What the history variables record of a step                             *)

(* Pairs of handlers of which one is turned away by the other's work on the*)
(* room table: two that create a room, two that destroy it.                *)
Harmless == {{"CreateRoom"}, {"DestroyRoom"}}

(* A request comes in for a room that another handler is at work on.       *)
Meets(t) ==
    /\ pc[t] = "idle" /\ pc'[t] # "idle"
    /\ \E u \in Threads \ {t} :
        /\ room[u] = room'[t] /\ pc[u] # "reply"
        /\ {op[u], op'[t]} \notin Harmless

(* A handler's command to Redis has been sent; with effect.                *)
Sends(t) == pc[t] \in RedisPlaces /\ pc'[t] # pc[t]

Stores(t) ==
    /\ Sends(t)
    /\ redis'[room[t]] = IF pc[t] = "d_redis" THEN NoData ELSE snap[t]

(* A CreateRoom has got no state to store and is done.                     *)
StoresNothing(t) == pc[t] = "c_state" /\ pc'[t] = "reply"

(* Of a room that was crossed nothing is known until all handlers there    *)
(* have gone and one that meets no other has stored its snapshot, or       *)
(* deleted it; likewise after a command without effect.                    *)
Record ==
    LET settled  == {room[t] : t \in {u \in Threads : Stores(u)}} \ crossed
        unstored == {room[t] : t \in {u \in Threads :
                        (Sends(u) /\ ~Stores(u)) \/ StoresNothing(u)}}
    IN /\ crossed' = {r \in crossed : Busy(r)'}
                       \cup {room'[t] : t \in {u \in Threads : Meets(u)}}
       /\ doubtful' = (doubtful \ settled) \cup unstored \cup crossed'

Serve == Next /\ Record

RestartInit == Init /\ crossed = {} /\ doubtful = {}

RestartNext == Serve \/ Restart

RestartSpec == RestartInit /\ [][RestartNext]_restartVars

-----------------------------------------------------------------------------
(* Properties                                                              *)

Settled(r) == ~Busy(r) /\ r \notin doubtful

(* Harm to a snapshot does not outlast its cause.  Handlers may have stored*)
(* an older answer over a newer one, SET it after the DEL, or deleted the  *)
(* key of the room that came next; Redis may have refused a command and an *)
(* earlier process have left what it had: from the next SET on that works  *)
(* and that no handler crossed, and until some such thing happens again,   *)
(* Redis has the last answer of every live battle, or let it expire.       *)
SnapshotIsCurrent ==
    context = "ok" =>
        \A r \in RoomIds : Settled(r) /\ BE!HasSession(r) =>
            redis[r] \in {sessions[r], Expired}

(* Likewise, it has no key for a room without a battle: no other DEL is    *)
(* needed than the one of an undisturbed DestroyRoom.                      *)
DestroyedIsForgotten ==
    context = "ok" =>
        \A r \in RoomIds : Settled(r) /\ ~BE!HasSession(r) =>
            redis[r] \in {NoData, Expired}

(* A crash is no more than the loss of all battles at once: whatever the   *)
(* handlers were at when the process died, the next one is the abstract    *)
(* service again, and serves no battle of the one before.                  *)
ImplementsCrashingService == Service!CrashSpec
=============================================================================
