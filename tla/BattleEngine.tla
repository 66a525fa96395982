----------------------------- MODULE BattleEngine -----------------------------
(***************************************************************************)
(* BattleEngine (src/src/server/battle_engine.cpp): the battle sessions by *)
(* room id.  Every operation touches sessions_ only inside one critical    *)
(* section of mutex_ that spans all of its accesses (CreateSession builds  *)
(* the battle before it, from its argument alone), so each is one action.  *)
(*                                                                         *)
(* The simulator's BattleSession is not part of the repository.  A battle  *)
(* is named by what it was created from and counts the requests its        *)
(* processTurn accepted, waiting for the opponent or completing a turn;    *)
(* which it accepts is up to the simulator.  That is all the server tells  *)
(* apart.  What it stores is the engine's last answer: GetState's state of *)
(* a battle with no request yet, then each response of processTurn, which  *)
(* for the first of a turn's two players may be no more than "waiting".    *)
(* An element of Session stands for the answer given at that point of that *)
(* battle, in whatever form.                                               *)
(***************************************************************************)
EXTENDS Naturals

CONSTANTS RoomIds,     \* session ids are room ids
          Battles,     \* the init requests the simulator makes a battle of
          MaxMoves,    \* bound: requests a battle accepts before it is over
          NoSession

VARIABLE sessions      \* sessions_, NoSession where there is none

Session == [battle : Battles, moves : 0 .. MaxMoves]

TypeOK == sessions \in [RoomIds -> Session \cup {NoSession}]

Init == sessions = [r \in RoomIds |-> NoSession]

HasSession(r) == sessions[r] # NoSession

CreateSession(r, init) ==
    /\ init \in Battles
    /\ ~HasSession(r)
    /\ sessions' = [sessions EXCEPT ![r] = [battle |-> init, moves |-> 0]]

(* createFromJson gives no battle, or "session already exists".            *)
CreateSessionFails(r, init) ==
    /\ init \notin Battles \/ HasSession(r)
    /\ UNCHANGED sessions

(* The simulator accepts the request.                                      *)
ProcessTurn(r) ==
    /\ HasSession(r)
    /\ sessions[r].moves < MaxMoves
    /\ sessions' = [sessions EXCEPT ![r].moves = @ + 1]

(* "session not found", or the simulator answers "ok": false.              *)
ProcessTurnFails(r) == UNCHANGED sessions

(* GetState returns true; or false, for "session not found" or "battle not *)
(* initialized", which is again up to the simulator.                       *)
GetState(r) == HasSession(r) /\ UNCHANGED sessions

GetStateFails(r) == UNCHANGED sessions

DestroySession(r) == sessions' = [sessions EXCEPT ![r] = NoSession]
=============================================================================
