CONSTANTS
    Deck <- TwelveCards
    Holders = {1, 2, 3}
    Manos = {0, 2}
    Amounts = {2501}
SPECIFICATION Spec
INVARIANTS
    PaysClosedForm
    ManoDecidesTies
CHECK_DEADLOCK FALSE
