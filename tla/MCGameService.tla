---------------------------- MODULE MCGameService ----------------------------
(* Instances of GameService for TLC.                                       *)
EXTENDS GameService, TLC

(* What a caller may let overlap on one room:                              *)
(* anything;                                                               *)
AnyOverlap == {{o, p} : o \in Ops, p \in Ops}
(* anything but CreateRoom and DestroyRoom.                                *)
CreateDestroyApart == AnyOverlap \ {{"CreateRoom", "DestroyRoom"}}

Symmetry == Permutations(Threads) \cup Permutations(RoomIds)
                \cup Permutations(Battles)
=============================================================================
