\* One room, everything overlaps; keys expire, commands are refused, the context fails, the process crashes.
SPECIFICATION RestartSpec
CONSTANTS
    Threads = {t1, t2}
    RoomIds = {r1}
    MaxRooms = 1
    Battles = {b1}
    MaxMoves = 2
    MayOverlap <- AnyOverlap
    Faults = {"expire", "break", "refuse", "crash"}
    NoSession = NoSession
    NoData = NoData
    Expired = Expired
    NoRoom = NoRoom
    NoInput = NoInput
    EmptyId = EmptyId
    Unparsable = Unparsable
    Rejected = Rejected
    Action = Action
    PodIp = PodIp
    StoredServerId = StoredServerId
SYMMETRY Symmetry
INVARIANTS
    SnapshotIsCurrent
    DestroyedIsForgotten
ACTION_CONSTRAINT
    BrokenOnlyEnds
