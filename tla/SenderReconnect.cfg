SPECIFICATION Spec
CONSTANTS
    Unset = Unset
    CommandLines <- TunedCommandLines
    SECOND = 2
    MaxDelay = 6
    MaxCredit = 1
PROPERTY ReconnectHonoured
