CONSTANTS
    ana = ana
    beto = beto
    cira = cira
    dora = dora
    User <- Users
    MaxSessions = 2
    NoOne = NoOne
    MinPlayers = 3
    MinEntry = 2
    FirstPique = 1
    Proposals = {3}
    Fortune <- Equal
    Amounts = {2}
    MaxEvents = 2
SPECIFICATION Spec
SYMMETRY Alike
INVARIANTS
    TypeOK
    SeatsArePlayers
    CountdownHasPlayers
    OpenVoteIsUndecided
    ChipsFollowWallet
PROPERTIES
    PiqueHoldsInHand
CHECK_DEADLOCK FALSE
