----------------------------- MODULE NodeRegistry -----------------------------
(***************************************************************************)
(* The registry of pods in Redis: the set pokemon:server:nodes and a key   *)
(* pokemon:server:heartbeat:{ip} per pod that expires, which GetAllNodes   *)
(* counts.  Each pod's Start registers it, its heartbeat thread and every  *)
(* GetHeartbeat or scrape renew the key, and GracefulShutdown unregisters  *)
(* it while those still run.  Pods come, crash and come back under their   *)
(* POD_IP in any order.                                                    *)
(*                                                                         *)
(* Time passes in ticks.  A sleep takes Period at least; a thread that has *)
(* something to do (Start from its first touch to the heartbeat thread's   *)
(* start, the heartbeat thread from the end of its sleep to the next) does *)
(* it within Delay, which Tick waits for.                                  *)
(***************************************************************************)
EXTENDS Naturals

CONSTANTS Pods,     \* the values of POD_IP
          TTL,      \* what a touch asks Redis for: 300 s
          Period,   \* sleep_for of the heartbeat thread: 60 s
          Delay     \* bound: how late a thread gets to do what it is to do

(* A key outlives one sleep and the delays around it.                      *)
ASSUME TimingAssumption ==
    /\ TTL \in Nat /\ Period \in Nat /\ Delay \in Nat
    /\ Period + 2 * Delay < TTL

VARIABLES nodes,      \* pokemon:server:nodes
          heartbeat,  \* per pod: ticks its key has left, 0 if there is none
          context,    \* per pod: "ok", or "broken" from the first command on
                      \* that the connection lost or Redis refused
          main,       \* per pod: how far Start, or GracefulShutdown, is
          beat,       \* per pod: where its heartbeat thread is
          since,      \* per pod: ticks since the last touch of RegisterNode or
                      \* since the heartbeat thread last went to sleep
          down_for,   \* per pod: ticks since its process ended
          stop_for    \* history, per pod: ticks Stop has waited for its join

registry == <<nodes, heartbeat>>
pod == <<context, main, beat, since, down_for, stop_for>>
vars == <<nodes, heartbeat, context, main, beat, since, down_for, stop_for>>

Starting == {"registered", "built"}
Leaving == {"unregistered", "joining", "stopping"}

TypeOK ==
    /\ nodes \in SUBSET Pods
    /\ heartbeat \in [Pods -> 0 .. TTL]
    /\ context \in [Pods -> {"ok", "broken"}]
    /\ main \in [Pods -> {"down", "connected", "added", "up"} \cup Starting \cup Leaving]
    /\ beat \in [Pods -> {"none", "sleep", "beat", "check"}]
    /\ since \in [Pods -> 0 .. Period + Delay]
    /\ down_for \in [Pods -> 0 .. TTL]
    /\ stop_for \in [Pods -> 0 .. Period + Delay + 1]

Init ==
    /\ nodes = {}
    /\ heartbeat = [p \in Pods |-> 0]
    /\ context = [p \in Pods |-> "ok"]
    /\ main = [p \in Pods |-> "down"]
    /\ beat = [p \in Pods |-> "none"]
    /\ since = [p \in Pods |-> 0]
    /\ down_for = [p \in Pods |-> TTL]
    /\ stop_for = [p \in Pods |-> 0]

-----------------------------------------------------------------------------
(* Commands of a pod.  While its context is "ok" they have their effect;   *)
(* from then on one may have none.  A touch that is refused (out of memory)*)
(* is such a one: nobody looks at what TouchNodeHeartbeat returns.         *)

Command(p, ns, hb) ==
    \/ nodes' = ns /\ heartbeat' = hb
    \/ context[p] = "broken" /\ UNCHANGED registry

(* Mutants: the caller's ttl_seconds, 30 s, is not raised to 300; the TTL  *)
(* is given to Redis in the wrong unit.                                    *)
TouchUnraised(p) == Command(p, nodes, [heartbeat EXCEPT ![p] = 1])
TouchInMilliseconds(p) == Command(p, nodes, [heartbeat EXCEPT ![p] = 1000 * TTL])

TouchNodeHeartbeat(p) == Command(p, nodes, [heartbeat EXCEPT ![p] = TTL])

(* DEL of the whole set, not SREM of this pod, and of the pod's heartbeat. *)
UnregisterNode(p) == Command(p, {}, [heartbeat EXCEPT ![p] = 0])

GetAllNodes == {p \in Pods : heartbeat[p] > 0}

-----------------------------------------------------------------------------
(* A pod's main thread: Start                                              *)

Go(p, from, to) ==
    /\ main[p] = from
    /\ main' = [main EXCEPT ![p] = to]

(* The process ends, with its threads and its connection.                  *)
Ends(p) ==
    /\ main' = [main EXCEPT ![p] = "down"]
    /\ beat' = [beat EXCEPT ![p] = "none"]
    /\ since' = [since EXCEPT ![p] = 0]
    /\ stop_for' = [stop_for EXCEPT ![p] = 0]
    /\ UNCHANGED <<context, down_for>>

(* A process starts under this POD_IP and connects to Redis.               *)
Connect(p) ==
    /\ Go(p, "down", "connected")
    /\ context' = [context EXCEPT ![p] = "ok"]
    /\ down_for' = [down_for EXCEPT ![p] = 0]
    /\ UNCHANGED <<registry, beat, since, stop_for>>

(* RegisterNode's SADD; without a reply Start fails and main returns.      *)
RegisterNode(p) ==
    /\ Command(p, nodes \cup {p}, heartbeat)
    /\ \/ Go(p, "connected", "added") /\ UNCHANGED <<context, beat, since, down_for, stop_for>>
       \/ context[p] = "broken" /\ main[p] = "connected" /\ Ends(p)

RegisterTouches(p) ==
    /\ Go(p, "added", "registered")
    /\ TouchNodeHeartbeat(p)
    /\ since' = [since EXCEPT ![p] = 0]
    /\ UNCHANGED <<context, beat, down_for, stop_for>>

(* BuildAndStart: handlers may run from here on, or Start fails and leaves *)
(* the pod registered.                                                     *)
BuildAndStart(p) ==
    /\ \/ Go(p, "registered", "built") /\ UNCHANGED <<context, beat, since, down_for, stop_for>>
       \/ main[p] = "registered" /\ Ends(p)
    /\ UNCHANGED registry

StartHeartbeat(p) ==
    /\ Go(p, "built", "up")
    /\ beat' = [beat EXCEPT ![p] = "sleep"]
    /\ since' = [since EXCEPT ![p] = 0]
    /\ UNCHANGED <<registry, context, down_for, stop_for>>

-----------------------------------------------------------------------------
(* The heartbeat thread, and others that touch                             *)

Beat(p, from, to) ==
    /\ beat[p] = from
    /\ beat' = [beat EXCEPT ![p] = to]

Wake(p) ==
    /\ since[p] >= Period
    /\ Beat(p, "sleep", "beat")
    /\ UNCHANGED <<registry, context, main, since, down_for, stop_for>>

(* What follows the sleep does not look at heartbeat_running_.             *)
Touch(p) ==
    /\ Beat(p, "beat", "check")
    /\ TouchNodeHeartbeat(p)
    /\ UNCHANGED <<context, main, since, down_for, stop_for>>

HeartbeatRunning(p) == main[p] \in {"up", "unregistered"}

(* Mutant: the loop is a for (;;).                                         *)
LoopForEver(p) ==
    /\ Beat(p, "check", "sleep")
    /\ since' = [since EXCEPT ![p] = 0]
    /\ UNCHANGED <<registry, context, main, down_for, stop_for>>

Loop(p) ==
    /\ \/ /\ HeartbeatRunning(p)
          /\ Beat(p, "check", "sleep")
          /\ UNCHANGED stop_for
       \/ /\ ~HeartbeatRunning(p)
          /\ Beat(p, "check", "none")
          /\ stop_for' = [stop_for EXCEPT ![p] = 0]
    /\ since' = [since EXCEPT ![p] = 0]
    /\ UNCHANGED <<registry, context, main, down_for>>

(* A GetHeartbeat request or a scrape of the metrics, at any time between  *)
(* BuildAndStart and the end of Stop.                                      *)
ServedTouch(p) ==
    /\ main[p] \in {"built", "up"} \cup Leaving
    /\ TouchNodeHeartbeat(p)
    /\ UNCHANGED pod

-----------------------------------------------------------------------------
(* GracefulShutdown and Stop; crashes; Redis; time                         *)

Unregister(p) ==
    /\ Go(p, "up", "unregistered")
    /\ UnregisterNode(p)
    /\ UNCHANGED <<context, beat, since, down_for, stop_for>>

(* Stop clears heartbeat_running_ and joins the thread.                    *)
StopHeartbeat(p) ==
    /\ Go(p, "unregistered", "joining")
    /\ UNCHANGED <<registry, context, beat, since, down_for, stop_for>>

JoinHeartbeat(p) ==
    /\ beat[p] = "none"
    /\ Go(p, "joining", "stopping")
    /\ UNCHANGED <<registry, context, beat, since, down_for, stop_for>>

(* The metrics and gRPC servers have stopped, and main returns.            *)
Exit(p) ==
    /\ main[p] = "stopping"
    /\ Ends(p)
    /\ UNCHANGED registry

Crash(p) ==
    /\ main[p] # "down"
    /\ Ends(p)
    /\ UNCHANGED registry

ContextBreaks(p) ==
    /\ main[p] # "down"
    /\ context[p] = "ok"
    /\ context' = [context EXCEPT ![p] = "broken"]
    /\ UNCHANGED <<registry, main, beat, since, down_for, stop_for>>

Timed(p) == main[p] \in Starting \/ beat[p] # "none"
Deadline(p) == IF beat[p] = "none" THEN Delay ELSE Period + Delay
Waits(p) == main[p] = "joining" /\ beat[p] # "none"

Tick ==
    /\ \A p \in Pods : Timed(p) => since[p] < Deadline(p)
    /\ heartbeat' = [p \in Pods |-> IF heartbeat[p] > 0 THEN heartbeat[p] - 1 ELSE 0]
    /\ since' = [p \in Pods |-> IF Timed(p) THEN since[p] + 1 ELSE since[p]]
    /\ down_for' = [p \in Pods |-> IF main[p] = "down" /\ down_for[p] < TTL
                                   THEN down_for[p] + 1 ELSE down_for[p]]
    /\ stop_for' = [p \in Pods |-> IF Waits(p) /\ stop_for[p] <= Period + Delay
                                   THEN stop_for[p] + 1 ELSE stop_for[p]]
    /\ UNCHANGED <<nodes, context, main, beat>>

HeartbeatThread(p) == Wake(p) \/ Touch(p) \/ Loop(p)

Start(p) ==
    \/ Connect(p) \/ RegisterNode(p) \/ RegisterTouches(p)
    \/ BuildAndStart(p) \/ StartHeartbeat(p)

Shutdown(p) == Unregister(p) \/ StopHeartbeat(p) \/ JoinHeartbeat(p) \/ Exit(p)

Next ==
    \/ \E p \in Pods :
        \/ Start(p) \/ HeartbeatThread(p) \/ ServedTouch(p) \/ Shutdown(p)
        \/ Crash(p) \/ ContextBreaks(p)
    \/ Tick

Spec == Init /\ [][Next]_vars

(* Time passes; what it waits for, Start past its touch and the heartbeat  *)
(* threads, goes on (or its pod dies), and a join returns.                 *)
Fairness ==
    /\ \A p \in Pods :
        /\ WF_vars(BuildAndStart(p) \/ StartHeartbeat(p))
        /\ WF_vars(HeartbeatThread(p))
        /\ WF_vars(JoinHeartbeat(p))
    /\ WF_vars(Tick)

FairSpec == Spec /\ Fairness

-----------------------------------------------------------------------------
(* Properties                                                              *)

(* GetAllNodes, by which the capacity of the deployment is reckoned,       *)
(* includes every pod from RegisterNode to its UnregisterNode, whatever    *)
(* the others do: no heartbeat key runs out between two touches, if none of*)
(* its own commands was lost or refused.                                   *)
ServingNodeListed ==
    \A p \in Pods :
        main[p] \in Starting \cup {"up"} /\ context[p] = "ok" => p \in GetAllNodes

(* A pod that is gone (crashed, failed in Start after it registered, or    *)
(* touched once more after it unregistered) is counted for TTL at most.    *)
GoneNodeForgotten ==
    \A p \in Pods :
        main[p] = "down" /\ down_for[p] = TTL => p \notin GetAllNodes

(* Stop's join of the heartbeat thread returns, unless the pod dies first. *)
HeartbeatJoined ==
    \A p \in Pods : main[p] = "joining" ~> main[p] # "joining"

(* Stop does not wake the thread from its sleep: it waits for what is left *)
(* of it, the touch after it and no second sleep.                          *)
JoinIsBounded ==
    \A p \in Pods : stop_for[p] <= Period + Delay

(* The documents have the set hold all active nodes.                       *)
ActiveNodeInSet ==
    \A p \in Pods : main[p] = "up" /\ context[p] = "ok" => p \in nodes

(* The documents have a pod that shuts down unregistered from then on.     *)
UnregisteredNotListed ==
    \A p \in Pods : main[p] \in Leaving /\ context[p] = "ok" => p \notin GetAllNodes
=============================================================================
