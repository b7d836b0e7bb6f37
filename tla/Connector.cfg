SPECIFICATION LiveSpec
CONSTANTS
    Unset = Unset
    CommandLines <- AllCommandLines
    SECOND = 2
    MaxDelay = 2
    MaxOpens = 3
INVARIANTS TypeOK CountsDown ClosesEverything HoldsForTimeout
PROPERTY GivesUp
