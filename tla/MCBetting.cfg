CONSTANTS
    N = 3
    Deals <- PlayedDeals
    Raises = {1000, 3000}
    Outcomes = {"ok", "insufficient", "error"}
    Fates = {}
    MaxFates = 0
    Hasty = FALSE
    AutoTimers = FALSE
    MaxCleanups = 1
SPECIFICATION FairSpec
INVARIANTS
    TypeOK
    TurnIsLive
PROPERTIES
    HandEnds
    StakesMatched
    OnlyRakeLeaves
    ShowdownIsFair
CHECK_DEADLOCK FALSE
