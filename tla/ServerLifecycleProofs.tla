------------------------ MODULE ServerLifecycleProofs ------------------------
(***************************************************************************)
(* Theorems about ServerLifecycle, for any number of requests at a time.   *)
(***************************************************************************)
EXTENDS ServerLifecycle, TLAPS

(* The SIGTERM thread has server_ to itself: how far it is tells what      *)
(* server_ is.                                                             *)
ServerInv ==
    /\ server = "none" => pc["main"] \in {"start", "failed"}
    /\ pc["main"] \in {"start", "failed"} => server = "none"
    /\ pc["sigterm"] = "none" => server \in {"none", "serving"}
    /\ pc["sigterm"] \in {"loop", "check"} \cup (StopPlace \ {"drain", "reset"}) =>
         server = "serving"
    /\ pc["sigterm"] = "drain" => server = "draining"
    /\ pc["sigterm"] = "reset" => server = "down"
    /\ pc["sigterm"] = "done" => server = "reset"

(* Which threads are not there yet, by where main is.                      *)
SpawnInv ==
    /\ pc["main"] \in {"start", "failed"} =>
         \A t \in Thread \ {"main"} : pc[t] = "none"
    /\ pc["main"] = "spawn_sigterm" => pc["sigterm"] = "none"
    /\ pc["main"] \in {"spawn_sigterm", "spawn_activity"} => pc["activity"] = "none"

(* Which threads are over, by where who joined them is.                    *)
JoinInv ==
    /\ pc["sigterm"] \in {"stop_metrics", "join_metrics", "shutdown", "drain",
                          "reset", "done"} => pc["heartbeat"] = "done"
    /\ pc["sigterm"] \in {"shutdown", "drain", "reset", "done"} => pc["metrics"] = "done"
    /\ pc["main"] \in {"join_activity", "destroy", "returned"} => pc["sigterm"] = "done"
    /\ pc["main"] \in {"destroy", "returned"} => pc["activity"] = "done"

IInv == TypeOK /\ ServerInv /\ SpawnInv /\ JoinInv

-----------------------------------------------------------------------------

(* The two halves of TypeOK.                                               *)
PlacesOK ==
    /\ pc \in [Thread -> Place]
    /\ pc["main"] \in MainPlace
    /\ pc["sigterm"] \in SigtermPlace
    /\ pc["activity"] \in ActivityPlace
    /\ pc["heartbeat"] \in HeartbeatPlace
    /\ pc["metrics"] \in MetricsPlace

DataOK ==
    /\ sig_term_received \in BOOLEAN
    /\ server \in {"none", "serving", "draining", "down", "reset"}
    /\ heartbeat_running \in BOOLEAN
    /\ metrics_running \in BOOLEAN
    /\ requests \in 0 .. MaxRequests

LEMMA InitIInv == Init => IInv
<1> SUFFICES ASSUME Init PROVE IInv
  OBVIOUS
<1> USE DEF Thread
<1>1. pc["main"] = "start"
  BY DEF Init
<1>2. \A t \in Thread \ {"main"} : pc[t] = "none"
  BY DEF Init
<1>3. PlacesOK
  BY DEF Init, PlacesOK, Place, MainPlace, SigtermPlace, ActivityPlace, HeartbeatPlace,
         MetricsPlace, StopPlace, LoopPlace
<1>4. DataOK
  <2>1. requests \in 0 .. MaxRequests
    BY RequestsAssumption DEF Init
  <2> QED
    BY <2>1, Zenon DEF Init, DataOK
<1>5. pc["sigterm"] = "none" /\ pc["activity"] = "none"
  BY <1>2
<1>6. TypeOK
  BY <1>3, <1>4 DEF TypeOK, PlacesOK, DataOK
<1>7. ServerInv
  BY <1>1, <1>5 DEF Init, ServerInv, StopPlace
<1>8. SpawnInv
  BY <1>1, <1>2 DEF SpawnInv
<1>9. JoinInv
  BY <1>1, <1>5 DEF JoinInv
<1> QED
  BY <1>6, <1>7, <1>8, <1>9 DEF IInv

(* What Start leaves behind.                                               *)
LEMMA StartPlaces ==
    ASSUME TypeOK, Start
    PROVE  /\ pc' \in [Thread -> Place]
           /\ pc["main"] = "start"
           /\ pc'["main"] = "spawn_sigterm"
           /\ pc'["metrics"] \in {"loop", "done"}
           /\ pc'["heartbeat"] = "loop"
           /\ pc'["sigterm"] = pc["sigterm"]
           /\ pc'["activity"] = pc["activity"]
           /\ server' = "serving"
<1>1. PICK m \in {"loop", "done"} :
        pc' = [pc EXCEPT !["main"] = "spawn_sigterm", !["metrics"] = m,
                         !["heartbeat"] = "loop"]
  BY DEF Start
<1> QED
  BY <1>1 DEF Start, TypeOK, Thread, Place, MainPlace, HeartbeatPlace, MetricsPlace, LoopPlace

LEMMA TypeStep == IInv /\ [Next]_vars => TypeOK'
<1> SUFFICES ASSUME IInv, [Next]_vars PROVE TypeOK'
  OBVIOUS
<1> USE DEF IInv, TypeOK, Place, MainPlace, SigtermPlace, ActivityPlace, HeartbeatPlace,
           MetricsPlace, StopPlace, LoopPlace, Thread, flags, Go
<1>1. CASE Start
  BY <1>1, StartPlaces DEF Start
<1>2. CASE StartFails \/ Return
  <2>1. PlacesOK'
    BY <1>2 DEF StartFails, Return, Ended, PlacesOK
  <2> QED
    BY <1>2, <2>1 DEF StartFails, Return, PlacesOK
<1>3. CASE SpawnSigterm \/ SpawnActivity
  BY <1>3 DEF SpawnSigterm, SpawnActivity
<1>4. CASE Wait \/ WaitReturns
  BY <1>4 DEF Wait, WaitReturns, Ended
<1>5. CASE JoinSigterm \/ JoinActivity
  BY <1>5 DEF JoinSigterm, JoinActivity
<1>6. CASE Sigterm
  BY <1>6 DEF Sigterm
<1>7. CASE SigtermThread
  <2> USE DEF SigtermThread, SigtermLoop, RunHandlerIfReceived, GracefulShutdown,
              JoinHeartbeat, StopMetricsServer, JoinMetrics, Shutdown, Drain, Reset
  <2>1. PlacesOK'
    BY <1>7 DEF PlacesOK
  <2>2. DataOK'
    BY <1>7 DEF DataOK
  <2> QED
    BY <2>1, <2>2 DEF PlacesOK, DataOK
<1>8. CASE ActivityLoop \/ HeartbeatLoop \/ MetricsLoop \/ MetricsClient
  BY <1>8 DEF ActivityLoop, HeartbeatLoop, MetricsLoop, MetricsClient
<1>9. CASE RequestBegins \/ RequestEnds
  BY <1>9, RequestsAssumption DEF RequestBegins, RequestEnds
<1>10. CASE UNCHANGED vars
  BY <1>10 DEF vars
<1> QED
  BY <1>1, <1>2, <1>3, <1>4, <1>5, <1>6, <1>7, <1>8, <1>9, <1>10
     DEF Next, Main, Terminated

LEMMA ServerStep == IInv /\ [Next]_vars => ServerInv'
<1> SUFFICES ASSUME IInv, [Next]_vars PROVE ServerInv'
  OBVIOUS
<1> USE DEF IInv, TypeOK, ServerInv, Thread, flags, Go
<1>1. CASE Start
  BY <1>1, StartPlaces DEF Start, SpawnInv, ServerInv, JoinInv, StopPlace
<1>2. CASE StartFails \/ Return
  BY <1>2 DEF StartFails, Return, ServerInv, SpawnInv, JoinInv
<1>3. CASE SpawnSigterm \/ SpawnActivity
  BY <1>3 DEF SpawnSigterm, SpawnActivity, ServerInv, SpawnInv, StopPlace
<1>4. CASE Wait \/ WaitReturns
  BY <1>4 DEF Wait, WaitReturns, IsRunning
<1>5. CASE JoinSigterm \/ JoinActivity
  BY <1>5 DEF JoinSigterm, JoinActivity
<1>6. CASE Sigterm
  BY <1>6 DEF Sigterm
<1>7. CASE SigtermThread
  BY <1>7 DEF SigtermThread, SigtermLoop, RunHandlerIfReceived, GracefulShutdown,
              JoinHeartbeat, StopMetricsServer, JoinMetrics, Shutdown, Drain, Reset,
              IsRunning, ServerInv, StopPlace, SpawnInv
<1>8. CASE ActivityLoop \/ HeartbeatLoop \/ MetricsLoop \/ MetricsClient
  BY <1>8 DEF ActivityLoop, HeartbeatLoop, MetricsLoop, MetricsClient, SpawnInv
<1>9. CASE RequestBegins \/ RequestEnds
  BY <1>9, RequestsAssumption DEF RequestBegins, RequestEnds
<1>10. CASE UNCHANGED vars
  BY <1>10 DEF vars
<1> QED
  BY <1>1, <1>2, <1>3, <1>4, <1>5, <1>6, <1>7, <1>8, <1>9, <1>10
     DEF Next, Main, Terminated

LEMMA SpawnStep == IInv /\ [Next]_vars => SpawnInv'
<1> SUFFICES ASSUME IInv, [Next]_vars PROVE SpawnInv'
  OBVIOUS
<1> USE DEF IInv, TypeOK, SpawnInv, Thread, flags, Go
<1>1. CASE Start
  BY <1>1, StartPlaces DEF Start, SpawnInv, ServerInv, JoinInv, StopPlace
<1>2. CASE StartFails \/ Return
  BY <1>2 DEF StartFails, Return, ServerInv, SpawnInv, JoinInv
<1>3. CASE SpawnSigterm \/ SpawnActivity
  BY <1>3 DEF SpawnSigterm, SpawnActivity, ServerInv, SpawnInv, StopPlace
<1>4. CASE Wait \/ WaitReturns
  BY <1>4 DEF Wait, WaitReturns, IsRunning
<1>5. CASE JoinSigterm \/ JoinActivity
  BY <1>5 DEF JoinSigterm, JoinActivity
<1>6. CASE Sigterm
  BY <1>6 DEF Sigterm
<1>7. CASE SigtermThread
  BY <1>7 DEF SigtermThread, SigtermLoop, RunHandlerIfReceived, GracefulShutdown,
              JoinHeartbeat, StopMetricsServer, JoinMetrics, Shutdown, Drain, Reset,
              IsRunning, ServerInv, StopPlace, SpawnInv
<1>8. CASE ActivityLoop \/ HeartbeatLoop \/ MetricsLoop \/ MetricsClient
  BY <1>8 DEF ActivityLoop, HeartbeatLoop, MetricsLoop, MetricsClient, SpawnInv
<1>9. CASE RequestBegins \/ RequestEnds
  BY <1>9, RequestsAssumption DEF RequestBegins, RequestEnds
<1>10. CASE UNCHANGED vars
  BY <1>10 DEF vars
<1> QED
  BY <1>1, <1>2, <1>3, <1>4, <1>5, <1>6, <1>7, <1>8, <1>9, <1>10
     DEF Next, Main, Terminated

LEMMA JoinStep == IInv /\ [Next]_vars => JoinInv'
<1> SUFFICES ASSUME IInv, [Next]_vars PROVE JoinInv'
  OBVIOUS
<1> USE DEF IInv, TypeOK, JoinInv, Thread, flags, Go
<1>1. CASE Start
  BY <1>1, StartPlaces DEF Start, SpawnInv, ServerInv, JoinInv, StopPlace
<1>2. CASE StartFails \/ Return
  BY <1>2 DEF StartFails, Return, ServerInv, SpawnInv, JoinInv
<1>3. CASE SpawnSigterm \/ SpawnActivity
  BY <1>3 DEF SpawnSigterm, SpawnActivity, ServerInv, SpawnInv, StopPlace
<1>4. CASE Wait \/ WaitReturns
  BY <1>4 DEF Wait, WaitReturns, IsRunning
<1>5. CASE JoinSigterm \/ JoinActivity
  BY <1>5 DEF JoinSigterm, JoinActivity
<1>6. CASE Sigterm
  BY <1>6 DEF Sigterm
<1>7. CASE SigtermThread
  BY <1>7 DEF SigtermThread, SigtermLoop, RunHandlerIfReceived, GracefulShutdown,
              JoinHeartbeat, StopMetricsServer, JoinMetrics, Shutdown, Drain, Reset,
              IsRunning, ServerInv, StopPlace, SpawnInv
<1>8. CASE ActivityLoop \/ HeartbeatLoop \/ MetricsLoop \/ MetricsClient
  BY <1>8 DEF ActivityLoop, HeartbeatLoop, MetricsLoop, MetricsClient, SpawnInv
<1>9. CASE RequestBegins \/ RequestEnds
  BY <1>9, RequestsAssumption DEF RequestBegins, RequestEnds
<1>10. CASE UNCHANGED vars
  BY <1>10 DEF vars
<1> QED
  BY <1>1, <1>2, <1>3, <1>4, <1>5, <1>6, <1>7, <1>8, <1>9, <1>10
     DEF Next, Main, Terminated

LEMMA Invariance == Spec => []IInv
<1>1. IInv /\ [Next]_vars => IInv'
  BY TypeStep, ServerStep, SpawnStep, JoinStep DEF IInv
<1> QED
  BY InitIInv, <1>1, PTL DEF Spec

-----------------------------------------------------------------------------

(* The process keeps its types, whatever its threads do.                   *)
THEOREM TypeCorrect == Spec => []TypeOK
<1>1. IInv => TypeOK
  BY DEF IInv
<1> QED
  BY Invariance, <1>1, PTL

(* main() leaves its block only when every thread it or Start() began is   *)
(* over.                                                                   *)
THEOREM ThreadsAreJoined == Spec => []ExitJoinsThreads
<1>1. IInv => ExitJoinsThreads
  BY DEF IInv, SpawnInv, JoinInv, ExitJoinsThreads, Thread
<1> QED
  BY Invariance, <1>1, PTL
=============================================================================
