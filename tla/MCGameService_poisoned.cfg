\* CreateRoom may be beside DestroyRoom on one room.
SPECIFICATION Spec
CONSTANTS
    Threads = {t1, t2}
    RoomIds = {r1}
    MaxRooms = 1
    Battles = {b1}
    MaxMoves = 1
    MayOverlap <- AnyOverlap
    Faults = {}
    NoSession = NoSession
    NoData = NoData
    Expired = Expired
    NoRoom = NoRoom
    NoInput = NoInput
    EmptyId = EmptyId
    Unparsable = Unparsable
    Rejected = Rejected
    Action = Action
SYMMETRY Symmetry
INVARIANTS
    RoomSessionPaired
