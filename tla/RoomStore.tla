------------------------------ MODULE RoomStore ------------------------------
(***************************************************************************)
(* The room snapshots of RedisClient (src/src/server/redis_client.cpp):    *)
(* the keys pokemon:room:{id} in Redis, and the one hiredis context all    *)
(* threads send commands through.                                          *)
(*                                                                         *)
(* hiredis contexts are not thread safe and RedisClient takes no lock, so  *)
(* a command issued while another thread's is under way is a data race;    *)
(* the context may also fail by itself (connection lost, heartbeat or      *)
(* metrics thread in it).  Nothing reconnects.  `context` is "ok" until    *)
(* something of this kind does harm; from then on any command may be lost. *)
(*                                                                         *)
(* "ok" says no more than that the connection works: Redis may refuse a    *)
(* command on it, with an error for a reply (out of memory, read-only).    *)
(*                                                                         *)
(* A key Redis dropped at the end of its TTL (EX 3600) reads as missing    *)
(* but is kept apart here, as Expired, from one no SET has written since   *)
(* the last DEL.                                                           *)
(*                                                                         *)
(* RoomIds are ids that do not end in ":command".  Then {id}:command, which*)
(* DeleteRoomData() names beside {id}, is no room's key: nothing here      *)
(* writes it, and both walks over the keys leave it out.                   *)
(***************************************************************************)
CONSTANTS RoomIds,
          Snapshots,   \* the answers of the engine a SET may store
          Faults,      \* bound: "refuse" is in it if commands may be refused
          NoData,
          Expired

VARIABLES redis,    \* what pokemon:room:{id} holds
          context   \* "ok" or "broken"

vars == <<redis, context>>

TypeOK ==
    /\ redis \in [RoomIds -> Snapshots \cup {NoData, Expired}]
    /\ context \in {"ok", "broken"}

Init ==
    /\ redis = [r \in RoomIds |-> NoData]
    /\ context = "ok"

(* A command that leaves `data` under r, or is refused.  Its reply is not  *)
(* modelled: no caller does more than log it.                              *)
Command(r, data, raced) ==
    \/ /\ context = "ok"
       /\ redis' = [redis EXCEPT ![r] = data]
       /\ UNCHANGED context
    \/ /\ context = "ok"
       /\ "refuse" \in Faults
       /\ UNCHANGED vars
    \/ /\ context = "broken" \/ raced
       /\ redis' \in {redis, [redis EXCEPT ![r] = data]}
       /\ context' = "broken"

SetRoomData(r, snapshot, raced) == Command(r, snapshot, raced)

DeleteRoomData(r, raced) == Command(r, NoData, raced)

Expire(r) ==
    /\ redis[r] \in Snapshots
    /\ redis' = [redis EXCEPT ![r] = Expired]
    /\ UNCHANGED context

(* The connection is lost, or the heartbeat thread, a scrape or a          *)
(* GetHeartbeat call uses the context at the same time as a handler.       *)
ContextBreaks ==
    /\ context = "ok"
    /\ context' = "broken"
    /\ UNCHANGED redis
=============================================================================
