CONSTANTS
    N = 4
    Purse <- FourPurses
    MinPique = 2000
    Banda = 1000
    Offers = {1000, 3000}
    Replies = {"ok", "insufficient", "error", "lost"}
    Newcomers = {4}
    Fates = {"drop", "leave", "abandon"}
    MaxFates = 1
    MaxFailures = 1
    MaxRestarts = 1
    MaxDeals = 2
SPECIFICATION Spec
INVARIANTS
    TypeOK
    PaidToPlay
    TurnCanAct
    DebitedOnce
PROPERTIES
    NothingMinted
    BandaIsOwed
CHECK_DEADLOCK FALSE
