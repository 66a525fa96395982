\* Three handler threads against the shutdown thread; three ids for two places.
SPECIFICATION Spec
CONSTANTS
    Threads = {t1, t2, t3}
    Shutdown = sd
    RoomIds = {r1, r2, r3}
    MaxRooms = 2
    NoThread = NoThread
    NoRoom = NoRoom
SYMMETRY Symmetry
INVARIANTS
    TypeOK
    ReportedCountInRange
    CountMatchesRooms
    ShutdownEmptiesTable
PROPERTIES
    ImplementsTable
