SPECIFICATION Spec
CONSTANTS
    Unset = Unset
    NoReplyTo = NoReplyTo
    SenderLines <- Senders
    ReceiverLines <- Listeners
    Peers = {first, second}
    FirstPeer = first
    NoPeer = NoPeer
    Credit = 2
    MaxBreaks = 1
    MaxMessages = 3
    SECOND = 1
    MaxDelay = 1
INVARIANTS Conserves SuccessMeansDelivered
PROPERTIES ImplementsDelivery BothEnd
