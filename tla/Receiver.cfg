SPECIFICATION LiveSpec
CONSTANTS
    Unset = Unset
    NoReplyTo = NoReplyTo
    CommandLines <- AllCommandLines
    Peers = {broker}
    Broker = broker
    ReplyTos = {queue}
    DefaultWindow = 2
    MaxMessages = 3
    SECOND = 1
    MaxDelay = 1
INVARIANTS TypeOK NeverOverreceives ChainsAlive PatientTimer
PROPERTIES TimesOut StopsAfterCount UnsubscribingEnds
