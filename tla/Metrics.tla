------------------------------- MODULE Metrics -------------------------------
(***************************************************************************)
(* A scrape: CollectMetricsSnapshot (src/src/server/game_server.cpp) on    *)
(* the metrics thread, which counts the active rooms of all pods by        *)
(* walking the keys pokemon:room:* with SCAN and GET, while the handlers   *)
(* of every pod store and remove snapshots and keys expire.  What it makes *)
(* of them is what the autoscaler scales the pods by.                      *)
(*                                                                         *)
(* Of a snapshot only its "status" is kept.  A room counts if that is 1    *)
(* (active).  The states the handlers store are the simulator's:           *)
(* descriptions, turn, battle, events (src/sample/output).                 *)
(*                                                                         *)
(* The pattern matches the keys pokemon:room:{id}:command as well, which   *)
(* the Go server writes (src/REDIS_FORMAT.md:115); the walk leaves them    *)
(* out, whatever is in them.                                               *)
(*                                                                         *)
(* SCAN promises this of the keys: one that is there throughout is         *)
(* returned, by some page, once or several times; one that comes or goes   *)
(* meanwhile may be or not.                                                *)
(***************************************************************************)
EXTENDS Naturals, FiniteSets

CONSTANTS RoomIds,     \* keys of snapshots, that do not end in ":command"
          CommandKeys, \* keys that do
          MaxRooms,    \* max_rooms_, of every pod
          MaxNodes,    \* bound: pods
          MaxCount,    \* bound: snapshots a scrape counts
          NoData,      \* no such key
          StoredStatus \* the status of what SetRoomData stores, see above

VARIABLES redis,     \* per key: the status in its JSON, or NoData
          pc,        \* where the metrics thread is
          page,      \* keys of the last SCAN reply still to GET
          last,      \* that reply's cursor was 0
          returned,  \* history: keys SCAN has returned in this scrape
          steady,    \* history: snapshots that were there throughout it
          failed,    \* history: a command of it had no reply
          global_active_rooms, global_capacity

walk == <<page, last, returned>>
gauges == <<global_active_rooms, global_capacity>>
vars == <<redis, pc, page, last, returned, steady, failed, gauges>>

Keys == {k \in RoomIds \cup CommandKeys : redis[k] # NoData}

Active == 1

Init ==
    /\ redis = [k \in RoomIds \cup CommandKeys |-> NoData]
    /\ pc = "idle"
    /\ page = {}
    /\ last = FALSE
    /\ returned = {}
    /\ steady = {}
    /\ failed = FALSE
    /\ global_active_rooms = 0
    /\ global_capacity = 0

(* A handler of some pod stores a state (SetRoomData); one deletes its     *)
(* room's keys, or a key expires.                                          *)
SetRoomData ==
    /\ \E r \in RoomIds : redis' = [redis EXCEPT ![r] = StoredStatus]
    /\ UNCHANGED <<pc, walk, steady, failed, gauges>>

RoomDataGoes ==
    /\ \E gone \in SUBSET Keys :
        /\ redis' = [k \in DOMAIN redis |-> IF k \in gone THEN NoData ELSE redis[k]]
        /\ steady' = steady \ gone
    /\ UNCHANGED <<pc, walk, failed, gauges>>

(* The Go server stores a player's command; what is in it is its affair.   *)
CommandStored ==
    /\ \E k \in CommandKeys, status \in {StoredStatus, Active} :
        redis' = [redis EXCEPT ![k] = status]
    /\ UNCHANGED <<pc, walk, steady, failed, gauges>>

-----------------------------------------------------------------------------

Go(from, to) ==
    /\ pc = from
    /\ pc' = to

(* GetRoomCount, GetMaxRooms, TouchNodeHeartbeat, then GetAllNodes: none   *)
(* if its KEYS has no reply.                                               *)
GetAllNodes ==
    /\ Go("idle", "scan")
    /\ \/ /\ \E nodes \in 1 .. MaxNodes : global_capacity' = nodes * MaxRooms
          /\ failed' = FALSE
       \/ /\ global_capacity' = 0
          /\ failed' = TRUE
    /\ global_active_rooms' = 0
    /\ returned' = {}
    /\ steady' = Keys \ CommandKeys
    /\ UNCHANGED <<redis, page, last>>

(* A page; of its keys those that end in ":command" are passed over.       *)
Scan ==
    /\ Go("scan", "get")
    /\ \E ks \in SUBSET Keys :
        /\ page' = ks \ CommandKeys
        /\ returned' = returned \cup ks
    /\ last' \in BOOLEAN
    /\ last' => steady \subseteq returned'
    /\ UNCHANGED <<redis, steady, failed, gauges>>

(* No reply, or not one of SCAN: the walk ends with what it has.           *)
ScanFails ==
    /\ Go("scan", "done")
    /\ failed' = TRUE
    /\ UNCHANGED <<redis, walk, steady, gauges>>

(* GET of a key of the page, which may be gone; or without a reply.        *)
Get ==
    /\ pc = "get"
    /\ \E r \in page :
        /\ page' = page \ {r}
        /\ \/ /\ redis[r] = Active
              /\ global_active_rooms < MaxCount
              /\ global_active_rooms' = global_active_rooms + 1
              /\ UNCHANGED failed
           \/ /\ redis[r] # Active
              /\ UNCHANGED <<global_active_rooms, failed>>
           \/ /\ failed' = TRUE
              /\ UNCHANGED global_active_rooms
    /\ UNCHANGED <<redis, pc, last, returned, steady, global_capacity>>

PageDone ==
    /\ page = {}
    /\ Go("get", IF last THEN "done" ELSE "scan")
    /\ UNCHANGED <<redis, walk, steady, failed, gauges>>

(* The gauges are sent, with global_active_rooms / global_capacity as      *)
(* pokemon_room_utilization_global, and 0 if the capacity is 0.            *)
Respond ==
    /\ Go("done", "idle")
    /\ UNCHANGED <<redis, walk, steady, failed, gauges>>

Next ==
    \/ SetRoomData \/ RoomDataGoes \/ CommandStored
    \/ GetAllNodes \/ Scan \/ ScanFails \/ Get \/ PageDone \/ Respond

Spec == Init /\ [][Next]_vars

-----------------------------------------------------------------------------
(* Properties                                                              *)

(* REDIS_FORMAT.md:216: the pods are scaled by the number of active rooms  *)
(* in Redis over their capacity.  A scrape without a failure counts, at    *)
(* least, the rooms whose snapshot was there from its begin to its end.    *)
ActiveRoomsCounted ==
    pc = "done" /\ ~failed => global_active_rooms >= Cardinality(steady)
=============================================================================
