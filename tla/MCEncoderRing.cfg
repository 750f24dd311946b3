CONSTANTS
    Size = 8
    TailSize = 4
    Quiet = 3
    HighBit = 16
    MaxInput = 44
SPECIFICATION InputSpec
INVARIANT WindowIntact
INVARIANT QuietAfterInput
