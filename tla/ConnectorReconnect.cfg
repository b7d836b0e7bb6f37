SPECIFICATION Spec
CONSTANTS
    Unset = Unset
    CommandLines <- HoldingCommandLines
    SECOND = 2
    MaxDelay = 2
    MaxOpens = 3
INVARIANT HoldsAcrossReconnects
