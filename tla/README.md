# A verification of the battle server

The repository is a gRPC server, in C++, that keeps battle rooms for a Go
server: it creates a room and the simulator's battle session for it, passes the
players' commands to the battle, stores the battle's state in Redis and removes
all of it when the room is destroyed. Several pods of it run under Kubernetes
and share one Redis. This directory holds TLA+ models of it, the TLC
configurations that check them and proofs for TLAPS. Paths below are relative
to `src/src/server/` unless they begin with `src/`.

## The system

| component | state | operations | used by |
| --- | --- | --- | --- |
| `RoomManager` (`room_manager.*`) | `rooms_` and `mutex_` (a `shared_mutex`), `room_count_` (atomic), `is_maintaining_` (a plain `bool`), `max_rooms_` | `CreateRoom`, `CreateRoomWithId`, `CloseRoom`, `GetRoomStatus`, `GetAllRooms`, `GetRoomCount`, `GetMaxRooms`, `CanCreateRoom`, `UpdateRoomActivity`, `SetMaintenanceMode`, `IsInMaintenanceMode` | handlers, `GracefulShutdown`, the activity thread, the metrics thread |
| `BattleEngine` (`battle_engine.*`) | `sessions_` and its `mutex_` | `CreateSession`, `ProcessTurn`, `GetState`, `DestroySession` | handlers |
| simulator (git submodule, not here) | one `BattleSession` per room | `createFromJson`, `processTurn`, `BattleToJson` | `BattleEngine` |
| `RedisClient` (`redis_client.*`) | one hiredis `context_`, no lock | `SetRoomData`, `DeleteRoomData`, `GetAllRoomSnapshots`, `DeleteRoomsForServer`, `RegisterNode`, `TouchNodeHeartbeat`, `UnregisterNode`, `GetAllNodes` | handlers, heartbeat thread, metrics thread, `Start`, `GracefulShutdown` |
| Redis | `pokemon:room:{id}` (TTL 3600 s), `pokemon:server:nodes`, `pokemon:server:heartbeat:{ip}` (TTL 300 s) | | every pod, the Go server |
| `GameServiceImpl` (`game_server.cpp`) | none of its own | `CreateRoom`, `SendCommand`, `DestroyRoom`, `GetHeartbeat` | gRPC threads |
| `GameServer` (`game_server.cpp`) | `server_`, heartbeat and metrics threads with their running flags | `Start`, `Stop`, `Wait`, `IsRunning`, `GracefulShutdown` | `main`, the SIGTERM thread |
| `SignalHandler`, `main` | `sig_term_received_` | `RunHandlerIfReceived` | the SIGTERM thread |
| metrics endpoint (`game_server.cpp`) | | `CollectMetricsSnapshot`, `BuildMetricsBody` | Prometheus |

Handlers run on the threads of the gRPC server and call, one after the other,
into the room table, the engine and Redis. Each of the first two has a lock of
its own; Redis has none on this side. **No lock spans two calls**, so a handler
is a sequence of atomic steps that any other handler, and the shutdown thread,
may come between. That is where the difficulty of this code is:

- a check (`IsInMaintenanceMode`, `CanCreateRoom`, `GetRoomStatus`) is stale by
  the time it is acted upon;
- a room and its session are two entries in two maps under two locks;
- a battle's state is read under the engine's lock and stored after it;
- `CreateRoom` fails half way and takes its room back, by id;
- `GracefulShutdown` stores an unguarded flag, lists the rooms once and closes
  what it listed, while handlers go on until `Stop()`;
- `room_count_` is loaded without the lock that keeps it in step with `rooms_`.

What makes each component correct:

- *RoomManager*: never more than `max_rooms_` rooms; the count that is reported
  is one the table can have; a shutdown leaves no room.
- *BattleEngine*: one battle per room, no battle without one, so that the limit
  on rooms limits the battles too.
- *GameService*: what it does to the table, to the sessions and to Redis agrees
  once its handlers are through, whatever they overlapped with and wherever one
  failed; every request is answered.
- *Redis*: a live battle's key holds the engine's last answer and a destroyed
  room has no key. No lock and no check in the code sees to that, and it is not so
  at every moment; what can be relied upon is that what went wrong does not
  outlast the next command that works. `GracefulShutdown` keeps the keys
  "for migration to other servers" (`game_server.cpp:461`), which is worth what
  they hold.
- *Node registry*: a pod that runs is listed, one that stopped is not.
- *Lifecycle*: SIGTERM, whenever it comes, ends the process; no thread and no
  handler is left at work in what is destroyed.
- *Restart*: what a process that crashed left in Redis does not get in the way of
  the rooms of the next one.
- *Metrics*: a scrape counts the active rooms of all pods, as the autoscaler scales
  by what it reports.

## The modules

| module | what it is |
| --- | --- |
| `RoomTable` | the room table as its callers see it: atomic operations on a bounded set of ids and the maintenance flag. An abstract specification |
| `RoomManager` | `RoomManager` at the grain of `mutex_` and `room_count_`; implements `RoomTable` |
| `RoomManagerProofs` | its theorems |
| `BattleEngine` | sessions, with the simulator as an external choice |
| `RoomStore` | the room snapshots in Redis and the connection they go through |
| `GameService` | the handlers and `GracefulShutdown` over instances of `RoomTable`, `BattleEngine` and `RoomStore` |
| `BattleService` | what the handlers amount to for the caller: a room is its battle. An abstract specification |
| `GameServiceProofs`, `GameServiceRefinement` | theorems about `GameService`; that it implements `BattleService` |
| `ServerRestart` | `GameService` through crashes of the process, and `DeleteRoomsForServer` |
| `ServerRestartProofs` | theorems about it |
| `NodeRegistry` | the pods' registration and heartbeats in Redis, with time |
| `NodeRegistryProofs` | its theorems |
| `ServerLifecycle` | the process from `main` to its end: five threads, the gRPC server, SIGTERM |
| `ServerLifecycleProofs` | its theorems |
| `Metrics` | a scrape's walk over the snapshots in Redis |
| `MetricsProofs` | theorems about it |
| `MCRoomManager`, `MCGameService`, `MCServerRestart`, `MCNodeRegistry` | instances for TLC |

`GameService` is built on the atomic `RoomTable`, and that the real, locked
table behaves as `RoomTable` is what `RoomManager!ImplementsTable` says. It is
model-checked and proved, so a property of the handlers over the abstract table
is one of the handlers over the locks.

### RoomTable

`rooms` is the set of keys of `rooms_`. `is_maintaining` has three values. The
C++ member is a `bool` that `SetMaintenanceMode` stores without the lock and
handlers read: a data race. A read may miss the store until something orders
the two; what does is `mutex_`, when the thread that stored it goes through it
in `GetAllRooms`. So: `"off"`, every read gives false; `"racing"`, a read gives
either; `"on"`, every read gives true. The values of a read are
`MaintenanceReads`.

### RoomManager

Callers are handler threads and one thread that runs `GracefulShutdown`. `pc`,
`op` and `arg` say where each is. `LockExclusive`, `LockShared` and `Unlock` are
`std::lock_guard` and `std::shared_lock` on the `shared_mutex`; a critical
section is its checks (`Admit`, `Refuse`, `Erase`, `NotFound`, `Read`,
`ListRooms`), then each statement another thread can observe without the lock
(`Insert`, `FetchAdd`, `FetchSub`). `CreateRoom`, whose random id is one no room
has, shares `Admit` with `CreateRoomWithId`. Of a `Room` only its presence is
kept: `UpdateRoomActivity` is an exclusive section that changes no key.

### BattleEngine and RoomStore

A battle is named by the `init_json` it was made from and counts the requests
the simulator accepted: that is all the server tells apart. What it stores is the
engine's last answer: what `GetState` gave for a new battle, then each response of
`processTurn`, which for the first of a turn's two players is no more than
"waiting" (`game_server.cpp:210`). An element of `Session` stands for the answer
given at that point of that battle; that two of them are the same session says
that the answer is the latest, not that it has the whole state in it. Whether the
simulator accepts a request, and whether a session has a battle for `GetState`
(`battle_engine.cpp:124`), is its own choice.

`RoomStore` has one value per room id: `NoData` (never written, or deleted),
`Expired` (Redis dropped it) or an answer of the engine. `context` is `"ok"` until
two threads are in a hiredis command at once and it does harm, or the connection
fails; nothing reconnects (`IsConnected` looks only at the pointer), and from
then on any command may or may not take effect. On a sound connection Redis may
still refuse a command, with an error for a reply: the manifest
`src/k8s-redis.yaml` sets `maxmemory` and no eviction policy. That leaves both
Redis and the context as they were (`"refuse"` in `Faults`). Ids that end in
`":command"` are left out: `DeleteRoomData` deletes `{id}:command` beside `{id}`,
which nothing here writes, and both walks over the keys pass such keys over.

### GameService

One action per call a handler makes, with its early returns and reply codes:

| handler | places and actions |
| --- | --- |
| `CreateRoom` | `c_maintenance` `IsInMaintenanceMode` → `c_can` `CanCreateRoom` and the request's own checks → `c_insert` `CreateRoomWithId` → `c_session` `CreateSession` → `c_undo` `UndoCreateRoom`, or `c_state` `GetState` → `c_save` `SetRoomData` |
| `SendCommand` | `s_room` `GetRoomStatus`, JSON check → `s_turn` `ProcessTurn` → `s_save` `SetRoomData` |
| `DestroyRoom` | `d_room` `CloseRoom` → `d_session` `DestroySession` → `d_redis` `DeleteRoomData` |
| `GracefulShutdown` | `SetMaintenanceMode` → `GetAllRooms` → `CloseListedRoom`* → `AllClosed` → `Stop` |

Every handler then has `reply`, `Return`. `SendCommand`'s code 2 (`is_active`
false) is left out: nothing ever stores false in that field. `GetHeartbeat`
changes nothing of this state.

The caller decides which operations of one room are under way at once; its
source, the Go server, is not in the repository. `MayOverlap` makes that a
parameter: a set of pairs of operation names. A property is checked for every
caller where it holds for every caller, and otherwise for the weakest
restriction found under which it holds. There is one such, that `CreateRoom` and
`DestroyRoom` of one room do not overlap (`CreateDestroyApart` in the run, `Apart` in
the theorems). It keeps out two things: the `DestroyRoom` between the two
insertions of a `CreateRoom`, and an undo (`UndoCreateRoom`) that closes a room
another handler has created under the id since. So the properties of
`create_destroy_apart` say nothing of those; `create_beside_destroy` shows
the first.

`is_maintaining = "on"` lets every read give true, also one by a thread that has
not been through `mutex_` since. Nothing hangs on that: a read of false leads to
`CanCreateRoom`, which reads the flag under the lock and refuses.

### BattleService

`battles` gives each room its battle, or none; `Open`, `Turn`, `Close` and `Drain` are
all that happens. `GameService` implements it with `battles` read off the table
and the sessions (a room in the table with its session), `drained` off `stage`. A
session under a room that is gone, or a room still without one, is not seen.
That is the point of the refinement: a session which is left behind and met
again by the next room of that id would be an `Open` with moves already made.
`Crash` forgets all battles at once, and may come at any time in `CrashSpec`, which
is what `ServerRestart` implements (`ImplementsCrashingService`).

### ServerRestart

`Restart` may come between any two steps: everything in memory is gone, Redis
stays but for what `DeleteRoomsForServer` removes, and `Start` is through (it
runs before any handler, so it is one step). `ServerIdOf` is what the code
finds under `"server_id"` in a stored state, and `ServerIdAssumption` has it
different from the pod's ip: the simulator's states have no such member (keys of
`src/sample/output`: `descriptions`, `turn`, `battle`, `events`), and
`BuildRoomSnapshotJson`, which would add one, has no caller and would put the
random `server_id_` there. So `Start` removes nothing, though its comment
(`game_server.cpp:359`) has it clean up. A command that was sent by the old process
and is executed only after the new one has connected is not modelled.

The module also says what the snapshots are good for, with no restriction on
what overlaps. Commands of two players are ordered under the engine's lock and
stored outside it, so the older answer may be stored last; a command may store
its answer after the DEL of its room (`deleted_key_returns`); a DEL may remove the
key of the room that came next. Redis may refuse a command, `GetState` may give
nothing to store, and a crash leaves what there was. Two history variables, which
no action reads, follow that:

- `crossed`: rooms at which a handler was called while another was at work, two
  `CreateRoom` or two `DestroyRoom` excepted (the table turns one of the two away),
  until all handlers there are done;
- `doubtful`: the rooms that are crossed, those whose last command to Redis had no
  effect and those a `CreateRoom` had nothing to store for. A room leaves the set
  when a handler that nobody crossed sends a command for it that takes effect, and
  in no other way; but for a crash, after which the set is of the rooms Redis has
  a snapshot of.

`SnapshotIsCurrent` and `DestroyedIsForgotten` are about the rooms that no handler
is at work on and that are not in doubt. In particular, one accepted `SendCommand`
or one `DestroyRoom` that meets nobody and whose Redis command works puts the key right,
whatever was there before, and it stays right until one of these causes comes
again. Doubt is not a guard on the model: every interleaving, and what comes of
it, is in the state space, and a room's way out of doubt is where the properties
could fail.

### ServerLifecycle

`pc` has a place for each thread: `main`, `sigterm`, `activity`, `heartbeat` and
`metrics`. `server` is `server_` with what it points to: `"none"`, `"serving"`,
`"draining"` (in `Shutdown`), `"down"`, `"reset"`. `sig_term_received_`,
`heartbeat_running_` and `metrics_running_` are the flags; handlers are counted,
up to `MaxRequests`.

`main`: `Start` (or `StartFails`) → `SpawnSigterm` → `SpawnActivity` → `Wait` →
`WaitReturns` → `JoinSigterm` → `JoinActivity` → `Return`, with ~`GameServer`'s
`Stop`. The SIGTERM thread: `SigtermLoop`, `RunHandlerIfReceived`, and the handler:
`GracefulShutdown` → `JoinHeartbeat` → `StopMetricsServer` → `JoinMetrics` →
`Shutdown` → `Drain` → `Reset`. What `GracefulShutdown` does before `Stop` to rooms
and registry is in `GameService` and `NodeRegistry`. The metrics thread may end at
once, when it gets no socket; it waits in `recv` for a client it accepted
(`MetricsClient`), which nothing obliges to send.

`server_` is a plain `unique_ptr` that `Stop` resets while the main and activity
threads read it. Reading the pointer gives the old value or the new. The
object is another matter: a main thread inside `server_->Wait()` when the reset
destroys it is in freed memory, and `WaitReturns` then may return, crash or hang.

### Metrics

`redis` has the status of each snapshot, which handlers of all pods store and
remove, and which expire, at any time; and of the keys `{id}:command`
(`CommandKeys`), which the Go server writes (`CommandStored`), whatever it puts
there. They match the pattern of SCAN too, and `Scan` passes them over. A scrape is
`GetAllNodes`, pages of `Scan` with a `Get` of each key, `Respond`; a SCAN without a reply ends the walk, a GET
without one skips the key. `Scan` is as Redis promises it: a key that is there
throughout is in some page, and may be in several. `StoredStatus` is what the
states that the handlers store have under `"status"`. In the code that is nothing
(`NoStatus` in the run); it is a parameter because the documents say 1.

### NodeRegistry

A pod is one process after another under one `POD_IP`. `main` says how far its
`Start` or `GracefulShutdown` is: `Connect` → `RegisterNode` (SADD) →
`RegisterTouches` → `BuildAndStart` → `StartHeartbeat` ... `Unregister` →
`StopHeartbeat` → `JoinHeartbeat` → `Exit`; `Start` may fail at `RegisterNode` and at
`BuildAndStart`, and a pod may `Crash` anywhere. `beat` is the heartbeat thread:
`Wake` from the sleep, `Touch` (which does not look at `heartbeat_running_`),
`Loop` (which does). `ServedTouch` is a GetHeartbeat request or a scrape, which
touch too. `nodes` is the set in Redis, `heartbeat` what is left of each pod's
key, in ticks; `GetAllNodes` reads the keys, as the code does. `stop_for` is a history
variable: how long `Stop` has been in `heartbeat_thread_.join()`.

A pod's `context` is `"ok"` as long as its commands take effect. It is `"broken"`
from the first one that was lost with the connection, or that Redis refused on a
sound one: a touch answered with an error (`redis_client.cpp:102`), which its
callers do not look at (`redis_client.cpp:74`, `game_server.cpp:403`), is a touch
that did not happen. `ServingNodeListed` claims nothing of such a pod, and
`GoneNodeForgotten` holds for it as well. The set `nodes` plays no part in either.

Time is `Tick`, which is held back until each thread with something to do has
done it within `Delay` of when it could. Nothing of the sort is in the code:
that threads are scheduled within `Delay` is the environment's part, and
`TimingAssumption`, `Period + 2 * Delay < TTL`, says how much it takes. With 60 s
and 300 s that is anything under two minutes. `DeleteRoomsForServer`, between
`Connect` and `RegisterNode`, touches no key of the registry.

## The runs

| run | instance | shows |
| --- | --- | --- |
| `room_manager` | 3 handler threads and shutdown, 3 ids, 2 places | `TypeOK`; `ReportedCountInRange`, a lock-free load of the counter between any two statements is in `0 .. max_rooms_`; `CountMatchesRooms`; `ShutdownEmptiesTable`, one listing is enough in spite of the racing flag; `ImplementsTable` |
| `create_destroy_apart` | 2 threads, 2 ids, 1 place, anything overlaps but `CreateRoom` with `DestroyRoom` of one room; keys expire, Redis may refuse a command and the context may fail | `WithinCapacity`, `RoomSessionPaired`, `NoPoisonedId`, `SessionsBounded`, `ImplementsService`; `RepliesHold`, what a handler has replied is so until the caller has the reply |
| `snapshots` | `ServerRestart`, 2 threads, 1 room; anything overlaps; keys expire, Redis may refuse a command, the context may fail, the process may crash and start again, any number of times | `SnapshotIsCurrent`, `DestroyedIsForgotten`: harm to a snapshot does not outlast the next command that works and that no other handler crossed |
| `liveness` | 2 threads, 1 id, anything overlaps, fair | `TypeOK`, `ShutdownLeavesNoRoom`, `RequestsAnswered`, `ShutdownDrains` |
| `lifecycle` | one process, 2 requests at a time, fair | `TypeOK`; `ExitJoinsThreads`; `SigtermEndsProcess`, also when SIGTERM comes before its thread runs or the metrics thread never got a socket |
| `create_beside_destroy` | violation | `RoomSessionPaired` when a caller lets `DestroyRoom` overlap the `CreateRoom` of its room |
| `deleted_key_returns` | violation | `DestroyedIsDeleted`: a `SendCommand` that processed its turn before a `DestroyRoom` stores it after the DEL |
| `rooms_uncounted` | violation | `ActiveRoomsCounted`: a scrape reports 0 rooms however many there are |
| `exit_cleanly` | violation | `ExitsCleanly`: `main` inside a gRPC server that is destroyed |
| `nodes_listed` | 2 pods, ticks of a minute: TTL 4, Period 1, Delay 1 | `TypeOK`; `ServingNodeListed`, no pod drops out of `GetAllNodes` while it serves on a sound connection; `GoneNodeForgotten`, one that is gone is counted for TTL at most; `JoinIsBounded`, `Stop` waits for one sleep of the thread at most; `HeartbeatJoined`, under fairness |
| `nodes_set` | violation | `ActiveNodeInSet`: another pod's `UnregisterNode` empties the set |
| `unregistered_listed` | violation | `UnregisteredNotListed`: a touch after `UnregisterNode` brings the pod back |

**Bounds.** Threads, rooms and battles are interchangeable, so the runs without
liveness use symmetry. A handler refers to one room, so interference on a room
needs two handlers on one id; what a race leaves is met by the next handler either
of them runs (a third at the same time adds nothing the theorems, which have any
number of threads, do not cover). The limit is reached with more ids than places,
and a check made stale with two threads past it. `MaxMoves` bounds the requests
one battle accepts: 1 where one must change the state (which also tells a battle
from an earlier one under its id), 0 in `liveness`, where an accepted command
would only be followed by the same `SetRoomData` as a `CreateRoom`. `Faults` names
which faults a run has. `snapshots` has one room, since no step of a handler at
work on one room reads or writes the session, the key or the history of another
(only the limit joins them, which `create_destroy_apart` has), and one battle of two
moves, enough for an older answer of the same battle to be stored over a newer one
and for a room to be created again under its id. It follows a process whose
context failed only to its end (`BrokenOnlyEnds`): the properties claim nothing of
Redis beyond the failure, and a context never becomes sound again but by another
process. `deleted_key_returns` has no faults, so that nothing but the order of the
two handlers' calls is to blame. `create_destroy_apart` has 1.2 million states and
takes a minute and a half, `snapshots` 0.6 million.
`lifecycle` has two handlers under way, one to finish before and one after the
other is waited for; of threads, the process has the five it has.
`rooms_uncounted` has the two rooms and two pods a count would have to add up. The
theorems have no bound but `MaxMoves`, `MaxNodes` and `MaxCount`, each of them any
number. Of pods, two are enough for one to disturb another: a command of a pod
touches its own key and the set, and no third pod comes between. `nodes_listed`
has the shortest TTL that `TimingAssumption` allows, a minute less than the
code's.

**Fairness.** `FairSpec` has weak fairness of each handler and of the steps of
`GracefulShutdown` up to `"closed"`. A gRPC thread that runs a handler is
scheduled, the mutexes are held for finite sections (no section waits for
another lock or for I/O), and a Redis command is answered or fails when the
connection is closed. That last is an assumption on the environment:
`Connect` sets a timeout for connecting, none for commands, so a peer that
neither answers nor hangs up would hold a handler for ever. Weak fairness of
the whole handler is enough because a handler always has a step enabled. There
is none for requests, SIGTERM, expiry, a lost connection, nor for `Stop`: it
joins the metrics thread, which may sit in `recv` with an idle client.
`ShutdownDrains` says the rooms are gone *for good*, although handlers that
were past their checks go on and clients keep asking.

`ServerLifecycle!FairSpec` has each thread go on: its sleeps and `select` end, what
it does to Redis ends (as above), and so do the handlers, which `RequestsAnswered`
is about; gRPC's `Shutdown` returns when they have. There is none for SIGTERM nor
for a client of the metrics port, which `SigtermEndsProcess` names as the one thing
that may keep the process alive.

`NodeRegistry!FairSpec` has time go on, the join, the heartbeat thread and the
part of `Start` that time waits for; nothing else: no request, start, shutdown or
crash has to happen.

**Deadlock** is checked in every run. `GameService!Stopped` and
`ServerLifecycle!Terminated` are the places where nothing is left to do.

## What is proved

`RoomManagerProofs`, for every set of threads and ids and every capacity
(`CapacityAssumption`: it is a natural number; `ThreadAssumption` and
`NoRoomAssumption`: the shutdown thread is no handler, the null values are
none of the others):

- `TypeCorrect`, `CountIsReportable`, `CountIsExact`, `ShutdownIsComplete`:
  the invariants of the run;
- `Refinement`: `Spec => ImplementsTable`.

The properties are not inductive: that the counter is in range says nothing of
the thread that is about to add to it. `IInv` adds which call a thread is in at
each place (`OpInv`); that exactly those inside a section hold the lock, an
exclusive one alone (`LockInv`); that a thread past `Admit` still has its place
and was admitted before the listing (`CapacityInv`); that the counter is off by
the one change still to be counted (`CountInv`); and that after the listing all
that is in the table is in the list or the room being closed (`CoverInv`). Each
part has a lemma of its own, one step per action. `Refinement` maps `Insert`,
`Erase`, `SetMaintenanceMode` and `ListRooms` to the steps of `RoomTable`, and
every other action to a stutter.

`GameServiceProofs`, for every set of threads, ids, battles and inputs:

- whatever overlaps: `TypeCorrect`, `CapacityHolds`, `ShutdownIsComplete`, from
  `PlaceInv` (a handler's place fits its operation), `StageInv` and
  `CapacityInv`;
- for a caller that keeps `CreateRoom` and `DestroyRoom` of one room apart
  (`Apart`, a hypothesis of the three theorems): `PairingHolds`, `NoIdIsPoisoned`
  and `SessionsAreBounded`. `OverlapInv` carries the hypothesis over to the
  handlers that are at work, and `PairInv` says, for each place, what of the room
  and the session is there. The run `create_beside_destroy` shows that the
  hypothesis cannot be dropped.
  The last needs a finite pool of threads besides. The table bounds
  the sessions only until `GracefulShutdown` closes rooms under them; `KeptInv`
  bounds the rooms that have a session or are about to get one, those about to
  lose it left out: while the server serves they are in the table
  (`KeptHaveRooms`), and after the listing nothing joins them (`KeptShrinks`).
- for such a caller, `RepliesAreTrue`: a reply is not just true of the moment it
  was decided in, it stays true on its way back, while other handlers work on
  the same room. `ReplyInv` says so from the step on that decides it: a `CreateRoom`
  past its session keeps it (`Created`), a `DestroyRoom` past `CloseRoom` finds the
  room gone (`Removed`) and past `DestroySession` the session (`Erased`). The lemma
  `ReplyStep` has one case for the handler's own step (`OwnReply`) and one for a step
  of another (`OthersKeepReply`), where only the operations that may overlap with
  it count.

`GameServiceRefinement`, for such a caller: `Refinement`, `Spec => ImplementsService`.
It rests on the invariant of the theorems above (`ApartInv`): a room and its session are
inserted one after the other, so what must be shown is that nobody sees a battle
before it is opened (`PairInv`: no session is under a room being created), that
an opening has its place (`CapacityInv`), and that none is open when the shutdown
is through (`StageInv`). `OpenMaps`, `TurnMaps` and `CloseMaps` are the steps that show;
all others stutter.

`ServerRestartProofs`, through any number of crashes and with no hypothesis on what
overlaps: `SnapshotsAreCurrent`, `DestroyedAreForgotten`. A property of the rooms no
handler is at work on is not inductive; `StoreInv` says of the others who is on
the way to make it so, as long as they are in no doubt: a live battle is stored or
a handler will store it (`LiveStored`), and a room without a battle has no key or a
`DestroyRoom` will delete it (`DeadForgotten`). Of rooms that nobody crossed, though
they may be in doubt still, it says that what a handler is about to store is what
the engine has (`SavesCurrent`) and that by the DEL the session is gone
(`ErasedBeforeDel`): this is what makes the command that ends the doubt a right one.
Both rest on `AloneInv`, that handlers at work on a room nobody crossed are of one
kind, whose step is the one that looks at how a request comes in. One lemma for
each action that touches a session or Redis; all others are quiet (`QuietStore`).

The same module takes the theorems about `GameService` through crashes. A
`Restart` leads to a state like an initial one but for Redis (`RestartIsClean`), and
any other step is one of `GameService` (`ServeIsNext`), so each inductive invariant
of `GameServiceProofs` is one of `RestartSpec` as well:

- whatever overlaps, `TableThroughCrashes`: `TypeOK`, `WithinCapacity`,
  `ShutdownLeavesNoRoom`;
- for a caller that keeps `CreateRoom` and `DestroyRoom` of a room apart,
  `PairingThroughCrashes` (pairing, no poisoned id, true replies and, for
  finitely many threads, bounded sessions) and `CrashingRefinement`,
  `RestartSpec => ImplementsCrashingService`: the step-by-step mapping of
  `GameServiceRefinement`, and `Restart` mapped to `BattleService!Crash`. No run
  checks the last: but for `Restart`, which empties both maps at once, it is the
  refinement `create_destroy_apart` checks.

`ServerLifecycleProofs`, for any number of handlers: `TypeCorrect`, `ThreadsAreJoined`.
`ServerInv` ties the state of the gRPC server to the place of the thread that shuts
it down, `SpawnInv` says which threads are there at each place of `main`, and `JoinInv` which
of them are over at each place of `Stop` and of `main`'s end.

`NodeRegistryProofs`, for every set of pods and every TTL, Period and Delay with
`TimingAssumption`: `TypeCorrect`, `ServingIsListed`, `GoneIsForgotten`. That a key
is there is not inductive: `ListedInv` bounds what is left of it from below by the
clock of the thread that is to renew it, place by place (`Start` before the
thread, asleep, awake, touched), `PhaseInv` bounds that clock, and `GoneInv` adds a
key's rest and the time its pod is down to at most TTL. `JoinReturnsInTime`: `Stop` has
waited no longer than the thread has been in its present round (`StopInv`), and
the round ends in time, so that the wait is Period + Delay at most. That is a
minute, on top of the 5 seconds of `src/README.md:211`; Kubernetes kills a pod after
30 seconds unless told otherwise.

`MetricsProofs`, for all rooms, pods and pages SCAN may return, with `Stored` (the
null value of the model is no status) as a hypothesis:

- `WalkIsComplete`: a scrape without a failure has sent a GET for every snapshot
  that was there from its begin to its end. `WalkInv` has no page left behind when
  the next SCAN is sent, and the promise of SCAN at its last page.
- `UncountedWithoutStatus`: if what handlers store has no status 1, the count is 0
  at any time, whatever is under the keys `{id}:command`.

Only model-checked: liveness (`RequestsAnswered`, `ShutdownDrains`,
`HeartbeatJoined`, `SigtermEndsProcess`), which needs
`ENABLED` and fairness and is out of the prover's reach. No module declares a
recursive operator; nothing here is defined by recursion over data, so no
theorem needs induction over it.

## What was found

1. `create_beside_destroy`. `DestroyRoom` between `CreateRoom`'s insertion of
   the room (`game_server.cpp:93`) and of its session (line 105) replies 0
   having found no session to destroy; `CreateRoom` then adds one and replies 0
   as well. No later `DestroyRoom` reaches that session (room not found) and
   every later `CreateRoom` of the id fails with code 6.
   `src/docs/IMPLEMENTATION_GUIDE.md:104` says that `DestroyRoom` cleans up both.
2. `deleted_key_returns`. `SendCommand` processes its turn under the engine's lock
   (`game_server.cpp:172`) and sends its SET after it (line 200). A `DestroyRoom`
   that runs in between closes the room, erases the session, sends the DEL and
   replies 0; the SET then writes the key again, for 3600 s, where
   `src/REDIS_FORMAT.md:200-203` has a destruction end with the key deleted. No
   command is lost or refused in this. The next undisturbed `DestroyRoom` of the id,
   after a `CreateRoom`, removes it (`DestroyedIsForgotten`).
3. `rooms_uncounted`. What the handlers store is the simulator's state, which has no
   `status`, and the gauge the autoscaler scales by (`src/k8s-hpa.yaml`,
   `src/REDIS_FORMAT.md:216`) is 0. The walk itself gets to every snapshot
   (`WalkIsComplete`); that none of them counts is `UncountedWithoutStatus`.
4. `nodes_set`. `UnregisterNode` deletes the whole set of nodes
   (`redis_client.cpp:117`), where `src/docs/IMPLEMENTATION_GUIDE.md:169` and
   `src/REDIS_FORMAT.md:110` have SREM of the one pod.
5. `unregistered_listed`. `GracefulShutdown` unregisters the pod before it stops
   the heartbeat thread, and the thread touches once more before it looks at
   its flag: a pod that has shut down is counted for up to 300 s.
6. `exit_cleanly`. `Stop` destroys the gRPC server while `main` may still be in
   `server_->Wait()`: the exit is clean (`src/README.md:168`) if `main` gets out of
   it first.

One thing the code does is no claim broken: `SendCommand` finds a room and then
plays its turn by id (`game_server.cpp:141`, 172), in whatever battle has the id by
then, which may be of a room created since. It happens in `create_destroy_apart` and
is a `Turn` of `BattleService`; a `GameCommand` names a room and no battle, and no
document promises more.

## What is not modelled, and the plan

1. `RedisConnection`: two threads in one hiredis context, at the grain of
   writing a command and reading a reply, and which reply each gets; to be
   implemented by `RoomStore`'s `context`. What the project says of it now is
   what does not depend on it.
2. `RoomActivity`: `player_count` and `counter` of `UpdateRoomActivity`, which
   nothing reads.

Left out for good: the simulator (its source is not here), the generated
protocol code, logging, `BuildRoomSnapshotJson` (no caller), `GenerateServerId`
(nothing depends on the value but its being printed and returned), the build
files and manifests.
