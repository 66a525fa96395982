---------------------------- MODULE MCRoomManager ----------------------------
(* Instances of RoomManager for TLC.                                       *)
EXTENDS RoomManager, TLC

(* Handler threads, and rooms, are interchangeable.                        *)
Symmetry == Permutations(Threads) \cup Permutations(RoomIds)
=============================================================================
