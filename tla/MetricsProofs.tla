----------------------------- MODULE MetricsProofs -----------------------------
(***************************************************************************)
(* Proofs about Metrics, for any rooms: what a scrape looks at, and what it*)
(* counts.                                                                 *)
(***************************************************************************)
EXTENDS Metrics, TLAPS

(* Redis holds what handlers store, command keys aside, which no page has; *)
(* what was there throughout is there.                                     *)
StoreInv ==
    /\ DOMAIN redis = RoomIds \cup CommandKeys
    /\ redis = [k \in DOMAIN redis |-> redis[k]]
    /\ \A r \in RoomIds \ CommandKeys : redis[r] \in {NoData, StoredStatus}
    /\ steady \subseteq Keys \ CommandKeys
    /\ page \subseteq RoomIds \ CommandKeys
    /\ global_active_rooms \in Nat

(* Between pages no key waits for its GET; after the last, every key that  *)
(* was there throughout has been returned.                                 *)
WalkInv ==
    /\ pc # "get" => page = {}
    /\ (pc = "get" /\ last) \/ (pc = "done" /\ ~failed) => steady \subseteq returned

(* No status is mistaken for a missing key.                                *)
Stored == NoData \notin {StoredStatus, Active}

(* Both hold in every reachable state.                                     *)
LEMMA WalkInvariance == ASSUME Stored PROVE Spec => [](StoreInv /\ WalkInv)
<1>1. Init => StoreInv /\ WalkInv
    BY DEF Init, StoreInv, WalkInv
<1>2. StoreInv /\ WalkInv /\ [Next]_vars => StoreInv' /\ WalkInv'
  <2> SUFFICES ASSUME StoreInv, WalkInv, [Next]_vars PROVE StoreInv' /\ WalkInv'
      OBVIOUS
  <2> USE DEF Stored, StoreInv, WalkInv, Keys, walk, gauges, Go
  <2>1. CASE SetRoomData
      BY <2>1 DEF SetRoomData
  <2>2. CASE RoomDataGoes
      BY <2>2 DEF RoomDataGoes
  <2>3. CASE GetAllNodes
      BY <2>3 DEF GetAllNodes
  <2>4. CASE Scan
      BY <2>4 DEF Scan
  <2>5. CASE ScanFails
      BY <2>5 DEF ScanFails
  <2>6. CASE Get
      BY <2>6 DEF Get
  <2>7. CASE PageDone
      BY <2>7 DEF PageDone
  <2>8. CASE Respond
      BY <2>8 DEF Respond
  <2>9. CASE CommandStored
      BY <2>9 DEF CommandStored
  <2>10. CASE UNCHANGED vars
      BY <2>10 DEF vars
  <2> QED BY <2>1, <2>2, <2>3, <2>4, <2>5, <2>6, <2>7, <2>8, <2>9, <2>10 DEF Next
<1> QED BY <1>1, <1>2, PTL DEF Spec

(* A scrape without a failure has asked Redis for every snapshot that was  *)
(* there from its begin to its end, whatever came and went meanwhile.      *)
THEOREM WalkIsComplete ==
    ASSUME Stored PROVE Spec => [](pc = "done" /\ ~failed => steady \subseteq returned \ page)
<1>1. WalkInv => (pc = "done" /\ ~failed => steady \subseteq returned \ page)
    BY DEF WalkInv
<1> QED BY <1>1, WalkInvariance, PTL

-----------------------------------------------------------------------------

(* What the gauge says.                                                    *)
NoneCounted == global_active_rooms = 0

(* With no status, or one that is not Active, in what the handlers store:  *)
(* the gauge is 0 at any time, however many rooms there are.               *)
THEOREM UncountedWithoutStatus ==
    ASSUME Stored, StoredStatus # Active PROVE Spec => []NoneCounted
<1>1. Init => NoneCounted
    BY DEF Init, NoneCounted
<1>2. StoreInv /\ NoneCounted /\ [Next]_vars => NoneCounted'
  <2> SUFFICES ASSUME StoreInv, NoneCounted, [Next]_vars PROVE NoneCounted'
      OBVIOUS
  <2> USE DEF Stored, NoneCounted
  <2>1. CASE Get
      BY <2>1 DEF Get, StoreInv
  <2>2. CASE ~Get
      BY <2>2 DEF Next, SetRoomData, RoomDataGoes, CommandStored, GetAllNodes, Scan, ScanFails,
                  PageDone, Respond, vars, gauges
  <2> QED BY <2>1, <2>2
<1> QED BY <1>1, <1>2, WalkInvariance, PTL DEF Spec
===============================================================================
