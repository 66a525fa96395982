\* CreateRoom never beside DestroyRoom; SendCommand beside anything; no command is lost or refused.
SPECIFICATION Spec
CONSTANTS
    Threads = {t1, t2}
    RoomIds = {r1}
    MaxRooms = 1
    Battles = {b1}
    MaxMoves = 1
    MayOverlap <- CreateDestroyApart
    Faults = {}
    NoSession = NoSession
    NoData = NoData
    Expired = Expired
    NoRoom = NoRoom
    NoInput = NoInput
    EmptyId = EmptyId
    Unparsable = Unparsable
    Rejected = Rejected
    Action = Action
SYMMETRY Symmetry
INVARIANTS
    DestroyedIsDeleted
