SPECIFICATION Spec
CONSTANTS
    Unset = Unset
    NoReplyTo = NoReplyTo
    CommandLines <- ListeningReplyCommandLines
    Peers = {broker}
    Broker = broker
    ReplyTos = {queue}
    DefaultWindow = 2
    MaxMessages = 3
    SECOND = 1
    MaxDelay = 1
INVARIANT NeverCrashes
