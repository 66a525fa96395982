--------------------------- MODULE MCServerRestart ---------------------------
(* Instances of ServerRestart for TLC.                                     *)
EXTENDS ServerRestart, TLC

(* The caller lets anything overlap on one room.                           *)
AnyOverlap == {{o, p} : o \in Ops, p \in Ops}

(* Of a process whose context has failed only the end is explored: what    *)
(* Redis holds is claimed while the context is sound, and only another     *)
(* process makes it sound again.                                           *)
BrokenOnlyEnds == context = "broken" => context' = "ok"

Symmetry == Permutations(Threads) \cup Permutations(RoomIds)
                \cup Permutations(Battles)
=============================================================================
