CONSTANTS
    BlockSize = 2
    Window = 4
    MlenLimit = 6
    HeaderBits = {1, 4, 7}
    StoredBits = 12
    CompBits = {6, 21}
    MaxInput = 9
    MaxBits = 48
SPECIFICATION Spec
INVARIANT DistCacheInSync
INVARIANT MetablockFits
INVARIANT BitsConserved
INVARIANT Delivered
PROPERTY WriteReturns
