\* Two ids for one place, CreateRoom never beside DestroyRoom of its room.
SPECIFICATION Spec
CONSTANTS
    Threads = {t1, t2}
    RoomIds = {r1, r2}
    MaxRooms = 1
    Battles = {b1}
    MaxMoves = 1
    MayOverlap <- CreateDestroyApart
    Faults = {"break", "expire", "refuse"}
    NoSession = NoSession
    NoData = NoData
    Expired = Expired
    NoRoom = NoRoom
    NoInput = NoInput
    EmptyId = EmptyId
    Unparsable = Unparsable
    Rejected = Rejected
    Action = Action
SYMMETRY Symmetry
INVARIANTS
    WithinCapacity
    RoomSessionPaired
    NoPoisonedId
    SessionsBounded
    RepliesHold
PROPERTIES
    ImplementsService
