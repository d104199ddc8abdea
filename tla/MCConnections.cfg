CONSTANTS
    N = 3
    Deals <- LinkDeals
    Raises = {1000}
    Outcomes = {"ok", "insufficient", "error"}
    Fates = {"drop", "leave", "abandon"}
    MaxFates = 1
    Hasty = FALSE
    AutoTimers = TRUE
    MaxCleanups = 1
SPECIFICATION Spec
INVARIANTS
    RamMatchesLedger
    TimerHasOwner
PROPERTIES
    OnlyPlayersWin
CHECK_DEADLOCK FALSE
