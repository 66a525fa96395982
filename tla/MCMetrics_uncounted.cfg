\* Two pods, two rooms, a command key of one; what is stored has no status.
SPECIFICATION Spec
CONSTANTS
    RoomIds = {r1, r2}
    CommandKeys = {c1}
    MaxRooms = 1
    MaxNodes = 2
    MaxCount = 3
    NoData = NoData
    StoredStatus = NoStatus
INVARIANTS
    ActiveRoomsCounted
