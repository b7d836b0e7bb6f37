SPECIFICATION Spec
CONSTANTS
    Composed <- AllComposed
    Received <- AllReceived
    RawWords <- Literals
    Decimals <- Printed
    MaxMessages = 2
INVARIANTS DictReadsBack InteropReadsBack CountsWhatItSends
