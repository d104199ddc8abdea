CONSTANTS
    ana = ana
    beto = beto
    first = first
    second = second
    room1 = room1
    room2 = room2
    User <- Roster
    Server <- Processes
    Room <- Rooms
    NoServer = NoServer
    NoRoom = NoRoom
    Bets <- EvenBets
    Histories <- PaidOrNot
    Checkpoints = {"recoverable", "unsupported", "invalid"}
    Faulty <- AllCalls
    Retries = 0
    MaxFaults = 1
    MaxFences = 2
    MaxDrops = 0
    MaxChecks = 1
SPECIFICATION Spec
SYMMETRY Alike
INVARIANTS
    TypeOK
    OpenRoomIsPublished
    CancelledIsRepaid
PROPERTIES
    KeepsPromise
CHECK_DEADLOCK FALSE
