CONSTANTS
    N = 3
    Deals <- OneDeal
    MinPique = 1000
    Raises = {2000}
    Calls = {3000}
    Drops = {1}
    Outcomes = {"ok", "insufficient"}
    Fates = {"drop", "leave", "abandon"}
    MaxFates = 1
    Hasty = FALSE
    MaxCleanups = 1
SPECIFICATION FairSpec
INVARIANTS
    TypeOK
PROPERTIES
    BestJuegoTakesPique
    PaidToDiscard
    OnlyRakeLeaves
    HandGoesOn
CHECK_DEADLOCK FALSE
