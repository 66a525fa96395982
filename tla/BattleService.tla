---------------------------- MODULE BattleService ----------------------------
(***************************************************************************)
(* What the server (src/src/server/game_server.cpp) promises its caller,   *)
(* the Go server: a room is its battle.  CreateRoom opens one at its first *)
(* state, of at most max_rooms_ at a time; SendCommand takes it one step   *)
(* further; DestroyRoom, or SIGTERM, closes it, and after SIGTERM is       *)
(* handled there is none.  A battle that was closed never comes back, and  *)
(* no battle but the one of the room is ever met under its id.             *)
(*                                                                         *)
(* A server that crashes, and starts again, is one that forgets all of its *)
(* battles at once, at any point (CrashSpec).                              *)
(*                                                                         *)
(* GameService, with its tables under locks of their own and its handlers  *)
(* of several steps, implements this if CreateRoom and DestroyRoom of one  *)
(* room do not overlap.                                                    *)
(***************************************************************************)
EXTENDS Naturals, FiniteSets

CONSTANTS RoomIds, MaxRooms, Battles,
          MaxMoves,   \* bound: requests a battle accepts
          NoBattle

VARIABLES battles,   \* the battle of each room, or NoBattle
          drained    \* SIGTERM has been handled

vars == <<battles, drained>>

Live == {r \in RoomIds : battles[r] # NoBattle}

Init ==
    /\ battles = [r \in RoomIds |-> NoBattle]
    /\ drained = FALSE

Open(r, b) ==
    /\ ~drained
    /\ r \notin Live
    /\ Cardinality(Live) < MaxRooms
    /\ battles' = [battles EXCEPT ![r] = [battle |-> b, moves |-> 0]]
    /\ UNCHANGED drained

Turn(r) ==
    /\ r \in Live
    /\ battles[r].moves < MaxMoves
    /\ battles' = [battles EXCEPT ![r].moves = @ + 1]
    /\ UNCHANGED drained

Close(r) ==
    /\ r \in Live
    /\ battles' = [battles EXCEPT ![r] = NoBattle]
    /\ UNCHANGED drained

Drain ==
    /\ Live = {}
    /\ drained' = TRUE
    /\ UNCHANGED battles

Next ==
    \/ \E r \in RoomIds : (\E b \in Battles : Open(r, b)) \/ Turn(r) \/ Close(r)
    \/ Drain

Spec == Init /\ [][Next]_vars

(* The process dies and another takes its place.                           *)
Crash ==
    /\ battles' = [r \in RoomIds |-> NoBattle]
    /\ drained' = FALSE

CrashSpec == Init /\ [][Next \/ Crash]_vars
=============================================================================
