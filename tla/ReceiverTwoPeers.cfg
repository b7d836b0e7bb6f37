SPECIFICATION LiveSpec
CONSTANTS
    Unset = Unset
    NoReplyTo = NoReplyTo
    CommandLines <- TwoPeersCommandLines
    Peers = {broker, other}
    Broker = broker
    ReplyTos = {queue}
    DefaultWindow = 2
    MaxMessages = 3
    SECOND = 1
    MaxDelay = 1
PROPERTY StopsAfterCount
