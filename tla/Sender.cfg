SPECIFICATION LiveSpec
CONSTANTS
    Unset = Unset
    CommandLines <- AllCommandLines
    SECOND = 2
    MaxDelay = 6
    MaxCredit = 2
INVARIANTS TypeOK NeverOversends CloseMeansDelivered ChainsAlive PatientTimer
           PacingFitsTimeout
PROPERTIES ImplementsJob TimesOut DeliversAll
