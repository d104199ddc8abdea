CONSTANTS
    ana = ana
    beto = beto
    first = first
    second = second
    room1 = room1
    room2 = room2
    User <- OnePlayer
    Server <- Processes
    Room <- OneRoom
    NoServer = NoServer
    NoRoom = NoRoom
    Bets <- HisBet
    Histories <- HisPique
    Checkpoints = {"recoverable", "unsupported", "invalid"}
    Faulty <- RetriedCalls
    Retries = 1
    MaxFaults = 1
    MaxFences = 2
    MaxDrops = 1
    MaxChecks = 1
SPECIFICATION FairSpec
PROPERTIES
    CrashedHandIsDecided
    LockedRoomsAreReleased
CHECK_DEADLOCK FALSE
