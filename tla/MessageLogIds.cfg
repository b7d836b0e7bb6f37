SPECIFICATION Spec
CONSTANTS
    Composed <- NoMessages
    Received <- NumberedReceived
    RawWords <- Literals
    Decimals <- Printed
    MaxMessages = 2
INVARIANT PrintsDictionaries
