CONSTANTS
    NumBytes = 8
    HashTypeLength = 4
    TreeCompLength = 5
    LongLen = 3
    PublishBatch = 2
    HandoffMinPos = 1
    ReclaimLead = 0
    MaxHandoffs = 2
    MaxGrow = 1
    LongSets <- MCLongSets
SPECIFICATION Spec
INVARIANT DictSearchedOnce
INVARIANT ReadsValidMatches
INVARIANT CallEndsClean
PROPERTY CallReturns
