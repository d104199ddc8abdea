CONSTANTS
    Players = {1, 2, 3, 4}
    Stakes <- SmallStakes
    Extra <- SmallExtra
SPECIFICATION Spec
PROPERTIES
    ComputesSidePots
CHECK_DEADLOCK FALSE
