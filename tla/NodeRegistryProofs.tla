-------------------------- MODULE NodeRegistryProofs --------------------------
(***************************************************************************)
(* Proofs about NodeRegistry, for any pods and any times that satisfy      *)
(* TimingAssumption.  The inductive invariant bounds what is left of a     *)
(* heartbeat key by the clock of the thread that is to renew it.           *)
(***************************************************************************)
EXTENDS NodeRegistry, TLAPS

(* The heartbeat thread is there from StartHeartbeat until it is joined,   *)
(* and neither it nor Start is behind its deadline.                        *)
PhaseInv ==
    \A p \in Pods :
        /\ main[p] \in {"down", "connected", "added"} \cup Starting => beat[p] = "none"
        /\ main[p] \in {"up", "unregistered"} => beat[p] # "none"
        /\ main[p] \in Starting => since[p] <= Delay
        /\ beat[p] \in {"beat", "check"} => since[p] >= Period

(* How old the last touch of a serving pod can be, place by place.         *)
ListedInv ==
    \A p \in Pods : context[p] = "ok" =>
        /\ main[p] \in Starting => heartbeat[p] + since[p] >= TTL
        /\ main[p] = "up" /\ beat[p] \in {"sleep", "beat"} =>
            heartbeat[p] + since[p] + Delay >= TTL
        /\ main[p] = "up" /\ beat[p] = "check" =>
            heartbeat[p] + since[p] >= TTL + Period

(* A pod that is down does not touch: its key grows old with it.           *)
GoneInv ==
    \A p \in Pods :
        /\ main[p] = "down" => heartbeat[p] + down_for[p] <= TTL
        /\ main[p] # "down" => down_for[p] = 0

(* Stop waits in the thread's present round only: it has not waited longer *)
(* than the thread has been in it.                                         *)
StopInv ==
    \A p \in Pods :
        /\ Waits(p) => stop_for[p] <= since[p]
        /\ ~Waits(p) => stop_for[p] = 0

IInv == TypeOK /\ PhaseInv /\ ListedInv /\ GoneInv /\ StopInv

-----------------------------------------------------------------------------

(* What a command of a pod that gives its key its full TTL leaves behind.  *)
LEMMA TouchGives ==
    ASSUME TypeOK, NEW p \in Pods, TouchNodeHeartbeat(p)
    PROVE  /\ nodes' = nodes
           /\ heartbeat' \in [Pods -> 0 .. TTL]
           /\ \A q \in Pods \ {p} : heartbeat'[q] = heartbeat[q]
           /\ heartbeat'[p] \in {heartbeat[p], TTL}
           /\ context[p] = "ok" => heartbeat'[p] = TTL
BY TimingAssumption DEF TypeOK, TouchNodeHeartbeat, Command, registry

(* Every variable keeps its type.                                          *)
LEMMA TypeStep == TypeOK /\ [Next]_vars => TypeOK'
<1> SUFFICES ASSUME TypeOK, [Next]_vars PROVE TypeOK'
    OBVIOUS
<1> USE TimingAssumption DEF TypeOK, registry, pod, Starting, Leaving
<1>1. CASE \E p \in Pods : Start(p)
  <2> PICK p \in Pods : Start(p)
      BY <1>1
  <2>1. CASE Connect(p)
      BY <2>1 DEF Connect, Go
  <2>2. CASE RegisterNode(p)
    <3>1. nodes' \in SUBSET Pods /\ heartbeat' = heartbeat
        BY <2>2 DEF RegisterNode, Command
    <3> QED BY <2>2, <3>1 DEF RegisterNode, Go, Ends
  <2>3. CASE RegisterTouches(p)
      BY <2>3, TouchGives DEF RegisterTouches, Go
  <2>4. CASE BuildAndStart(p)
      BY <2>4 DEF BuildAndStart, Go, Ends
  <2>5. CASE StartHeartbeat(p)
      BY <2>5 DEF StartHeartbeat, Go
  <2> QED BY <2>1, <2>2, <2>3, <2>4, <2>5 DEF Start
<1>2. CASE \E p \in Pods : HeartbeatThread(p)
  <2> PICK p \in Pods : HeartbeatThread(p)
      BY <1>2
  <2>1. CASE Wake(p)
      BY <2>1 DEF Wake, Beat
  <2>2. CASE Touch(p)
      BY <2>2, TouchGives DEF Touch, Beat
  <2>3. CASE Loop(p)
      BY <2>3 DEF Loop, Beat
  <2> QED BY <2>1, <2>2, <2>3 DEF HeartbeatThread
<1>3. CASE \E p \in Pods : ServedTouch(p)
    BY <1>3, TouchGives DEF ServedTouch
<1>4. CASE \E p \in Pods : Shutdown(p)
  <2> PICK p \in Pods : Shutdown(p)
      BY <1>4
  <2>1. CASE Unregister(p)
      BY <2>1 DEF Unregister, UnregisterNode, Command, Go
  <2>2. CASE StopHeartbeat(p) \/ JoinHeartbeat(p)
      BY <2>2 DEF StopHeartbeat, JoinHeartbeat, Go
  <2>3. CASE Exit(p)
      BY <2>3 DEF Exit, Ends
  <2> QED BY <2>1, <2>2, <2>3 DEF Shutdown
<1>5. CASE \E p \in Pods : Crash(p) \/ ContextBreaks(p)
    BY <1>5 DEF Crash, ContextBreaks, Ends
<1>6. CASE Tick
  <2>1. since' \in [Pods -> 0 .. Period + Delay]
      BY <1>6 DEF Tick, Deadline
  <2>2. heartbeat' \in [Pods -> 0 .. TTL] /\ down_for' \in [Pods -> 0 .. TTL]
      BY <1>6 DEF Tick
  <2> QED BY <1>6, <2>1, <2>2 DEF Tick
<1>7. CASE UNCHANGED vars
    BY <1>7 DEF vars
<1> QED BY <1>1, <1>2, <1>3, <1>4, <1>5, <1>6, <1>7 DEF Next

(* A thread's place goes with its pod's, and nobody misses a deadline:     *)
(* Tick waits, and the clock starts again where the next deadline begins.  *)
LEMMA PhaseStep == TypeOK /\ PhaseInv /\ [Next]_vars => PhaseInv'
<1> SUFFICES ASSUME TypeOK, PhaseInv, [Next]_vars PROVE PhaseInv'
    OBVIOUS
<1> USE TimingAssumption DEF TypeOK, PhaseInv, registry, pod, Starting, Leaving
<1>1. CASE \E p \in Pods : Start(p)
    BY <1>1 DEF Start, Connect, RegisterNode, RegisterTouches, BuildAndStart,
                StartHeartbeat, Go, Ends
<1>2. CASE \E p \in Pods : HeartbeatThread(p)
    BY <1>2 DEF HeartbeatThread, Wake, Touch, Loop, HeartbeatRunning, Beat
<1>3. CASE \E p \in Pods : ServedTouch(p)
    BY <1>3 DEF ServedTouch
<1>4. CASE \E p \in Pods : Shutdown(p)
    BY <1>4 DEF Shutdown, Unregister, StopHeartbeat, JoinHeartbeat, Exit, Go, Ends
<1>5. CASE \E p \in Pods : Crash(p) \/ ContextBreaks(p)
    BY <1>5 DEF Crash, ContextBreaks, Ends
<1>6. CASE Tick
    BY <1>6 DEF Tick, Timed, Deadline
<1>7. CASE UNCHANGED vars
    BY <1>7 DEF vars
<1> QED BY <1>1, <1>2, <1>3, <1>4, <1>5, <1>6, <1>7 DEF Next

(* The key of a serving pod is touched again before it can run out, and    *)
(* other pods' commands do not reach it.                                   *)
LEMMA ListedStep == TypeOK /\ PhaseInv /\ ListedInv /\ [Next]_vars => ListedInv'
<1> SUFFICES ASSUME TypeOK, PhaseInv, ListedInv, [Next]_vars PROVE ListedInv'
    OBVIOUS
<1> USE TimingAssumption DEF TypeOK, PhaseInv, ListedInv, registry, pod, Starting, Leaving
<1>1. CASE \E p \in Pods : Start(p)
  <2> PICK p \in Pods : Start(p)
      BY <1>1
  <2>1. CASE Connect(p)
      BY <2>1 DEF Connect, Go
  <2>2. CASE RegisterNode(p)
    <3>1. heartbeat' = heartbeat
        BY <2>2 DEF RegisterNode, Command
    <3> QED BY <2>2, <3>1 DEF RegisterNode, Go, Ends
  <2>3. CASE RegisterTouches(p)
      BY <2>3, TouchGives DEF RegisterTouches, Go
  <2>4. CASE BuildAndStart(p)
      BY <2>4 DEF BuildAndStart, Go, Ends
  <2>5. CASE StartHeartbeat(p)
      BY <2>5 DEF StartHeartbeat, Go
  <2> QED BY <2>1, <2>2, <2>3, <2>4, <2>5 DEF Start
<1>2. CASE \E p \in Pods : HeartbeatThread(p)
  <2> PICK p \in Pods : HeartbeatThread(p)
      BY <1>2
  <2>1. CASE Wake(p)
      BY <2>1 DEF Wake, Beat
  <2>2. CASE Touch(p)
      BY <2>2, TouchGives DEF Touch, Beat
  <2>3. CASE Loop(p)
      BY <2>3 DEF Loop, HeartbeatRunning, Beat
  <2> QED BY <2>1, <2>2, <2>3 DEF HeartbeatThread
<1>3. CASE \E p \in Pods : ServedTouch(p)
    BY <1>3, TouchGives DEF ServedTouch
<1>4. CASE \E p \in Pods : Shutdown(p)
  <2> PICK p \in Pods : Shutdown(p)
      BY <1>4
  <2>1. CASE Unregister(p)
      BY <2>1 DEF Unregister, UnregisterNode, Command, Go
  <2>2. CASE StopHeartbeat(p) \/ JoinHeartbeat(p)
      BY <2>2 DEF StopHeartbeat, JoinHeartbeat, Go
  <2>3. CASE Exit(p)
      BY <2>3 DEF Exit, Ends
  <2> QED BY <2>1, <2>2, <2>3 DEF Shutdown
<1>5. CASE \E p \in Pods : Crash(p) \/ ContextBreaks(p)
    BY <1>5 DEF Crash, ContextBreaks, Ends
<1>6. CASE Tick
    BY <1>6 DEF Tick, Timed, Deadline
<1>7. CASE UNCHANGED vars
    BY <1>7 DEF vars
<1> QED BY <1>1, <1>2, <1>3, <1>4, <1>5, <1>6, <1>7 DEF Next

(* Nobody renews the key of a pod that is down.                            *)
LEMMA GoneStep == TypeOK /\ PhaseInv /\ GoneInv /\ [Next]_vars => GoneInv'
<1> SUFFICES ASSUME TypeOK, PhaseInv, GoneInv, [Next]_vars PROVE GoneInv'
    OBVIOUS
<1> USE TimingAssumption DEF TypeOK, PhaseInv, GoneInv, registry, pod, Starting, Leaving
<1>1. CASE \E p \in Pods : Start(p)
  <2> PICK p \in Pods : Start(p)
      BY <1>1
  <2>1. CASE RegisterNode(p)
    <3>1. heartbeat' = heartbeat
        BY <2>1 DEF RegisterNode, Command
    <3> QED BY <2>1, <3>1 DEF RegisterNode, Go, Ends
  <2>2. CASE RegisterTouches(p)
      BY <2>2, TouchGives DEF RegisterTouches, Go
  <2>3. CASE Connect(p) \/ BuildAndStart(p) \/ StartHeartbeat(p)
      BY <2>3 DEF Connect, BuildAndStart, StartHeartbeat, Go, Ends
  <2> QED BY <2>1, <2>2, <2>3 DEF Start
<1>2. CASE \E p \in Pods : HeartbeatThread(p)
    BY <1>2, TouchGives DEF HeartbeatThread, Wake, Touch, Loop, Beat
<1>3. CASE \E p \in Pods : ServedTouch(p)
    BY <1>3, TouchGives DEF ServedTouch
<1>4. CASE \E p \in Pods : Shutdown(p)
    BY <1>4 DEF Shutdown, Unregister, UnregisterNode, Command, StopHeartbeat,
                JoinHeartbeat, Exit, Go, Ends
<1>5. CASE \E p \in Pods : Crash(p) \/ ContextBreaks(p)
    BY <1>5 DEF Crash, ContextBreaks, Ends
<1>6. CASE Tick
    BY <1>6 DEF Tick
<1>7. CASE UNCHANGED vars
    BY <1>7 DEF vars
<1> QED BY <1>1, <1>2, <1>3, <1>4, <1>5, <1>6, <1>7 DEF Next

(* Its clock starts again, while Stop waits, only when the thread ends.     *)
LEMMA StopStep == TypeOK /\ StopInv /\ [Next]_vars => StopInv'
<1> SUFFICES ASSUME TypeOK, StopInv, [Next]_vars PROVE StopInv'
    OBVIOUS
<1> USE TimingAssumption DEF TypeOK, StopInv, Waits, pod
<1>1. CASE \E p \in Pods : Start(p)
    BY <1>1 DEF Start, Connect, RegisterNode, RegisterTouches, BuildAndStart,
                StartHeartbeat, Starting, Go, Ends
<1>2. CASE \E p \in Pods : HeartbeatThread(p)
    BY <1>2 DEF HeartbeatThread, Wake, Touch, Loop, HeartbeatRunning, Beat
<1>3. CASE \E p \in Pods : ServedTouch(p)
    BY <1>3 DEF ServedTouch
<1>4. CASE \E p \in Pods : Shutdown(p)
    BY <1>4 DEF Shutdown, Unregister, StopHeartbeat, JoinHeartbeat, Exit, Go, Ends
<1>5. CASE \E p \in Pods : Crash(p) \/ ContextBreaks(p)
    BY <1>5 DEF Crash, ContextBreaks, Ends
<1>6. CASE Tick
    BY <1>6 DEF Tick, Timed
<1>7. CASE UNCHANGED vars
    BY <1>7 DEF vars
<1> QED BY <1>1, <1>2, <1>3, <1>4, <1>5, <1>6, <1>7 DEF Next

-----------------------------------------------------------------------------

(* The invariant holds of every behaviour.                                 *)
LEMMA Invariance == Spec => []IInv
<1>1. Init => IInv
    BY TimingAssumption
       DEF Init, IInv, TypeOK, PhaseInv, ListedInv, GoneInv, StopInv, Waits,
           Starting, Leaving
<1>2. IInv /\ [Next]_vars => IInv'
    BY TypeStep, PhaseStep, ListedStep, GoneStep, StopStep DEF IInv
<1> QED BY <1>1, <1>2, PTL DEF Spec

(* The registry and the threads that write to it keep their types; no      *)
(* clock passes its deadline.                                              *)
THEOREM TypeCorrect == Spec => []TypeOK
<1>1. IInv => TypeOK
    BY DEF IInv
<1> QED BY <1>1, Invariance, PTL

(* A pod is in GetAllNodes from RegisterNode to UnregisterNode, however    *)
(* other pods start, crash and unregister: with TTL above the period of    *)
(* the heartbeat and twice the delay, its key never runs out.              *)
THEOREM ServingIsListed == Spec => []ServingNodeListed
<1>1. IInv => ServingNodeListed
  <2> SUFFICES ASSUME IInv, NEW p \in Pods,
                      main[p] \in Starting \cup {"up"}, context[p] = "ok"
               PROVE  heartbeat[p] > 0
      BY DEF ServingNodeListed, GetAllNodes
  <2> USE TimingAssumption DEF IInv, TypeOK, PhaseInv, ListedInv
  <2>1. CASE main[p] \in Starting
      BY <2>1
  <2>2. CASE main[p] = "up"
      BY <2>2
  <2> QED BY <2>1, <2>2
<1> QED BY <1>1, Invariance, PTL

(* A pod whose process ended, in whatever way, is counted for no longer    *)
(* than the TTL of the last touch.                                         *)
THEOREM GoneIsForgotten == Spec => []GoneNodeForgotten
<1>1. IInv => GoneNodeForgotten
    BY TimingAssumption DEF IInv, TypeOK, GoneInv, GoneNodeForgotten, GetAllNodes
<1> QED BY <1>1, Invariance, PTL

(* Stop waits for the heartbeat thread no longer than one sleep and the    *)
(* delay after it, whenever in its round SIGTERM finds the thread.         *)
THEOREM JoinReturnsInTime == Spec => []JoinIsBounded
<1>1. IInv => JoinIsBounded
  <2> SUFFICES ASSUME IInv, NEW p \in Pods PROVE stop_for[p] <= Period + Delay
      BY DEF JoinIsBounded
  <2>1. since[p] \in 0 .. Period + Delay /\ stop_for[p] \in Nat
      BY TimingAssumption DEF IInv, TypeOK
  <2>2. stop_for[p] <= since[p] \/ stop_for[p] = 0
      BY DEF IInv, StopInv
  <2> QED BY <2>1, <2>2, TimingAssumption
<1> QED BY <1>1, Invariance, PTL
=============================================================================
