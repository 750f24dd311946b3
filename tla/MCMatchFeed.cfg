CONSTANTS
    NumBytes = 6
    HashTypeLength = 4
    SpinBeforePark = 2
SPECIFICATION FeedSpec
INVARIANT FeedInv
INVARIANT NoLostWakeup
INVARIANT ReadsOnlyPublished
PROPERTY FeedImplementsContract
