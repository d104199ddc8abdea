CONSTANTS
    N = 3
    Deals <- OneDeal
    MinPique = 1000
    Raises = {2000}
    Calls = {3000}
    Drops = {1}
    Outcomes = {"ok", "insufficient"}
    Fates = {}
    MaxFates = 0
    Hasty = FALSE
    MaxCleanups = 1
SPECIFICATION Spec
PROPERTIES
    CallsAreBooked
CHECK_DEADLOCK FALSE
