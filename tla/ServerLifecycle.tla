--------------------------- MODULE ServerLifecycle ---------------------------
(***************************************************************************)
(* The life of one server process: main, the threads it starts (SIGTERM,   *)
(* activity, heartbeat, metrics), the gRPC server they share through       *)
(* server_, and the way from SIGTERM to the end of the process             *)
(* (src/src/server/main.cpp, signal_handler.cpp, GameServer).              *)
(*                                                                         *)
(* server_ is a plain pointer that Stop() resets on the SIGTERM thread     *)
(* while others read it.  A read of it alone is one of the old value or    *)
(* of the new, as when the reset came after or before it.  The object is   *)
(* another matter: who is inside server_->Wait() when the reset destroys   *)
(* it is in freed memory.                                                  *)
(*                                                                         *)
(* What GracefulShutdown does to rooms and registry is in GameService and  *)
(* NodeRegistry; the handlers are counted.                                 *)
(***************************************************************************)
EXTENDS Naturals

CONSTANT MaxRequests   \* bound: handlers under way at a time

ASSUME RequestsAssumption == MaxRequests \in Nat

VARIABLES pc,                 \* per thread: where it is
          sig_term_received,  \* sig_term_received_
          server,             \* server_ and what it points to
          heartbeat_running,  \* heartbeat_running_
          metrics_running,    \* metrics_running_
          requests            \* handlers under way

flags == <<heartbeat_running, metrics_running>>
vars == <<pc, sig_term_received, server, flags, requests>>

Thread == {"main", "sigterm", "activity", "heartbeat", "metrics"}

(* main() is over, one way or another, and the process with it; from       *)
(* "hung", a main thread that waits for ever, it never is.                 *)
Ended == {"returned", "failed", "crashed"}
Alive == pc["main"] \notin Ended

MainPlace == {"start", "spawn_sigterm", "spawn_activity", "wait", "in_wait",
              "join_sigterm", "join_activity", "destroy", "hung"} \cup Ended
StopPlace == {"graceful", "join_heartbeat", "stop_metrics", "join_metrics",
              "shutdown", "drain", "reset"}
LoopPlace == {"none", "loop", "done"}
SigtermPlace == LoopPlace \cup {"check"} \cup StopPlace
ActivityPlace == LoopPlace \cup {"update"}
HeartbeatPlace == LoopPlace \cup {"sleep", "touch"}
MetricsPlace == LoopPlace \cup {"select", "recv", "respond"}
Place == MainPlace \cup SigtermPlace \cup ActivityPlace \cup HeartbeatPlace
             \cup MetricsPlace

TypeOK ==
    /\ pc \in [Thread -> Place]
    /\ pc["main"] \in MainPlace
    /\ pc["sigterm"] \in SigtermPlace
    /\ pc["activity"] \in ActivityPlace
    /\ pc["heartbeat"] \in HeartbeatPlace
    /\ pc["metrics"] \in MetricsPlace
    /\ sig_term_received \in BOOLEAN
    /\ server \in {"none", "serving", "draining", "down", "reset"}
    /\ heartbeat_running \in BOOLEAN
    /\ metrics_running \in BOOLEAN
    /\ requests \in 0 .. MaxRequests

(* main has registered the handler: before, SIGTERM is the system's.       *)
Init ==
    /\ pc = [t \in Thread |-> IF t = "main" THEN "start" ELSE "none"]
    /\ sig_term_received = FALSE
    /\ server = "none"
    /\ heartbeat_running = FALSE
    /\ metrics_running = FALSE
    /\ requests = 0

Go(t, from, to) ==
    /\ Alive
    /\ pc[t] = from
    /\ pc' = [pc EXCEPT ![t] = to]

IsRunning == server \notin {"none", "reset"}

-----------------------------------------------------------------------------
(* main                                                                    *)

(* Start() returns true, with two threads started; the metrics thread may  *)
(* get no socket, which nobody is told.                                    *)
Start ==
    /\ Alive
    /\ pc["main"] = "start"
    /\ server' = "serving"
    /\ metrics_running' = TRUE
    /\ heartbeat_running' = TRUE
    /\ \E m \in {"loop", "done"} :
        pc' = [pc EXCEPT !["main"] = "spawn_sigterm", !["metrics"] = m,
                         !["heartbeat"] = "loop"]
    /\ UNCHANGED <<sig_term_received, requests>>

(* Start() returns false, with no thread started; main returns 1.          *)
StartFails ==
    /\ Go("main", "start", "failed")
    /\ UNCHANGED <<sig_term_received, server, flags, requests>>

(* Mutant: the thread begins with the flag down.                           *)
SpawnSigtermAfresh ==
    /\ Alive
    /\ pc["main"] = "spawn_sigterm"
    /\ pc' = [pc EXCEPT !["main"] = "spawn_activity", !["sigterm"] = "loop"]
    /\ sig_term_received' = FALSE
    /\ UNCHANGED <<server, flags, requests>>

SpawnSigterm ==
    /\ Alive
    /\ pc["main"] = "spawn_sigterm"
    /\ pc' = [pc EXCEPT !["main"] = "spawn_activity", !["sigterm"] = "loop"]
    /\ UNCHANGED <<sig_term_received, server, flags, requests>>

(* Mutant: the loop of the thread before it, copied, begins at its check.  *)
SpawnActivityAsSigterm ==
    /\ Alive
    /\ pc["main"] = "spawn_activity"
    /\ pc' = [pc EXCEPT !["main"] = "wait", !["activity"] = "check"]
    /\ UNCHANGED <<sig_term_received, server, flags, requests>>

SpawnActivity ==
    /\ Alive
    /\ pc["main"] = "spawn_activity"
    /\ pc' = [pc EXCEPT !["main"] = "wait", !["activity"] = "loop"]
    /\ UNCHANGED <<sig_term_received, server, flags, requests>>

(* Wait(): server_ is looked at, and then called.                          *)
Wait ==
    /\ \/ Go("main", "wait", "in_wait") /\ IsRunning
       \/ Go("main", "wait", "join_sigterm") /\ ~IsRunning
    /\ UNCHANGED <<sig_term_received, server, flags, requests>>

(* grpc::Server::Wait() returns once Shutdown() is through, if its thread  *)
(* gets to run before the reset; else what happens is undefined.           *)
WaitReturns ==
    /\ \/ Go("main", "in_wait", "join_sigterm") /\ server \in {"down", "reset"}
       \/ Go("main", "in_wait", "crashed") /\ server = "reset"
       \/ Go("main", "in_wait", "hung") /\ server = "reset"
    /\ UNCHANGED <<sig_term_received, server, flags, requests>>

JoinSigterm ==
    /\ pc["sigterm"] = "done"
    /\ Go("main", "join_sigterm", "join_activity")
    /\ UNCHANGED <<sig_term_received, server, flags, requests>>

(* Mutant: the thread is detached.                                         *)
JoinActivitySkipped ==
    /\ Go("main", "join_activity", "destroy")
    /\ UNCHANGED <<sig_term_received, server, flags, requests>>

JoinActivity ==
    /\ pc["activity"] = "done"
    /\ Go("main", "join_activity", "destroy")
    /\ UNCHANGED <<sig_term_received, server, flags, requests>>

(* main returns 0: ~GameServer calls Stop() again, which finds its threads *)
(* joined and server_ reset.                                               *)
Return ==
    /\ Go("main", "destroy", "returned")
    /\ heartbeat_running' = FALSE
    /\ metrics_running' = FALSE
    /\ UNCHANGED <<sig_term_received, server, requests>>

-----------------------------------------------------------------------------
(* SIGTERM and its thread                                                  *)

Sigterm ==
    /\ Alive
    /\ sig_term_received' = TRUE
    /\ UNCHANGED <<pc, server, flags, requests>>

SigtermLoop ==
    /\ \/ Go("sigterm", "loop", "check") /\ IsRunning
       \/ Go("sigterm", "loop", "done") /\ ~IsRunning
    /\ UNCHANGED <<sig_term_received, server, flags, requests>>

(* One atomic exchange of the flag.                                        *)
RunHandlerIfReceived ==
    /\ \/ Go("sigterm", "check", "graceful") /\ sig_term_received
       \/ Go("sigterm", "check", "loop") /\ ~sig_term_received
    /\ sig_term_received' = FALSE
    /\ UNCHANGED <<server, flags, requests>>

(* The rooms are closed, the node is unregistered; Stop() begins.          *)
GracefulShutdown ==
    /\ Go("sigterm", "graceful", "join_heartbeat")
    /\ heartbeat_running' = FALSE
    /\ UNCHANGED <<sig_term_received, server, metrics_running, requests>>

JoinHeartbeat ==
    /\ pc["heartbeat"] = "done"
    /\ Go("sigterm", "join_heartbeat", "stop_metrics")
    /\ UNCHANGED <<sig_term_received, server, flags, requests>>

StopMetricsServer ==
    /\ Go("sigterm", "stop_metrics", "join_metrics")
    /\ metrics_running' = FALSE
    /\ UNCHANGED <<sig_term_received, server, heartbeat_running, requests>>

JoinMetrics ==
    /\ pc["metrics"] = "done"
    /\ Go("sigterm", "join_metrics", "shutdown")
    /\ UNCHANGED <<sig_term_received, server, flags, requests>>

(* server_->Shutdown(): no new request; returns when none is under way.    *)
Shutdown ==
    /\ Go("sigterm", "shutdown", "drain")
    /\ server' = "draining"
    /\ UNCHANGED <<sig_term_received, flags, requests>>

Drain ==
    /\ requests = 0
    /\ Go("sigterm", "drain", "reset")
    /\ server' = "down"
    /\ UNCHANGED <<sig_term_received, flags, requests>>

Reset ==
    /\ Go("sigterm", "reset", "done")
    /\ server' = "reset"
    /\ UNCHANGED <<sig_term_received, flags, requests>>

-----------------------------------------------------------------------------
(* The other threads, and gRPC's                                           *)

ActivityLoop ==
    /\ \/ Go("activity", "loop", "update") /\ IsRunning
       \/ Go("activity", "loop", "done") /\ ~IsRunning
       \/ Go("activity", "update", "loop")
    /\ UNCHANGED <<sig_term_received, server, flags, requests>>

HeartbeatLoop ==
    /\ \/ Go("heartbeat", "loop", "sleep") /\ heartbeat_running
       \/ Go("heartbeat", "loop", "done") /\ ~heartbeat_running
       \/ Go("heartbeat", "sleep", "touch")
       \/ Go("heartbeat", "touch", "loop")
    /\ UNCHANGED <<sig_term_received, server, flags, requests>>

(* select() times out after a second or has a client, which is accepted.   *)
MetricsLoop ==
    /\ \/ Go("metrics", "loop", "select") /\ metrics_running
       \/ Go("metrics", "loop", "done") /\ ~metrics_running
       \/ Go("metrics", "select", "done") /\ ~metrics_running
       \/ Go("metrics", "select", "loop") /\ metrics_running
       \/ Go("metrics", "select", "recv") /\ metrics_running
       \/ Go("metrics", "respond", "loop")
    /\ UNCHANGED <<sig_term_received, server, flags, requests>>

(* The accepted client sends its request, or closes.                       *)
MetricsClient ==
    /\ Go("metrics", "recv", "respond") \/ Go("metrics", "recv", "loop")
    /\ UNCHANGED <<sig_term_received, server, flags, requests>>

RequestBegins ==
    /\ Alive
    /\ server = "serving"
    /\ requests < MaxRequests
    /\ requests' = requests + 1
    /\ UNCHANGED <<pc, sig_term_received, server, flags>>

RequestEnds ==
    /\ Alive
    /\ requests > 0
    /\ requests' = requests - 1
    /\ UNCHANGED <<pc, sig_term_received, server, flags>>

-----------------------------------------------------------------------------

Main ==
    \/ Start \/ StartFails \/ SpawnSigterm \/ SpawnActivity
    \/ Wait \/ WaitReturns \/ JoinSigterm \/ JoinActivity \/ Return

SigtermThread ==
    \/ SigtermLoop \/ RunHandlerIfReceived \/ GracefulShutdown
    \/ JoinHeartbeat \/ StopMetricsServer \/ JoinMetrics
    \/ Shutdown \/ Drain \/ Reset

(* The process is over.                                                    *)
Terminated == ~Alive /\ UNCHANGED vars

Next ==
    \/ Main \/ Sigterm \/ SigtermThread
    \/ ActivityLoop \/ HeartbeatLoop \/ MetricsLoop \/ MetricsClient
    \/ RequestBegins \/ RequestEnds
    \/ Terminated

Spec == Init /\ [][Next]_vars

(* Threads run, sleeps and select() end, handlers finish.  Nothing makes a *)
(* client of the metrics port send or close, nor SIGTERM come.             *)
Fairness ==
    /\ WF_vars(Main)
    /\ WF_vars(SigtermThread)
    /\ WF_vars(ActivityLoop)
    /\ WF_vars(HeartbeatLoop)
    /\ WF_vars(MetricsLoop)
    /\ WF_vars(RequestEnds)

FairSpec == Spec /\ Fairness

-----------------------------------------------------------------------------
(* Properties                                                              *)

(* When main() leaves its block, and the GameServer its threads use is     *)
(* destroyed, all of them are over, GracefulShutdown on the SIGTERM thread *)
(* included: Stop() of ~GameServer never runs beside the other.            *)
ExitJoinsThreads ==
    pc["main"] \in {"destroy", "returned", "failed"} =>
        \A t \in Thread \ {"main"} : pc[t] \in {"none", "done"}

(* Whenever SIGTERM comes, before its thread runs or while one is handled, *)
(* the process ends (or is beyond what is defined, inside a destroyed      *)
(* server), unless a client of the metrics port is silent for ever.        *)
SigtermEndsProcess ==
    sig_term_received ~>
        \/ ~Alive
        \/ pc["main"] = "hung"
        \/ [](pc["metrics"] = "recv")

(* The documents have the shutdown end with a clean exit.                  *)
ExitsCleanly == pc["main"] \notin {"crashed", "hung"}
=============================================================================
