\* Everything overlaps, under the fairness of FairSpec.
SPECIFICATION FairSpec
CONSTANTS
    Threads = {t1, t2}
    RoomIds = {r1}
    MaxRooms = 1
    Battles = {b1}
    MaxMoves = 0
    MayOverlap <- AnyOverlap
    Faults = {}
    NoSession = NoSession
    NoData = NoData
    Expired = Expired
    NoRoom = NoRoom
    NoInput = NoInput
    EmptyId = EmptyId
    Unparsable = Unparsable
    Rejected = Rejected
    Action = Action

INVARIANTS
    TypeOK
    ShutdownLeavesNoRoom
PROPERTIES
    RequestsAnswered
    ShutdownDrains
