CONSTANTS
    BlockLen = 2
    Cap = 2
    Limits = {0, 2, 3}
    MaxP = 2
    MaxInput = 11
SPECIFICATION Spec
INVARIANT InOrder
INVARIANT DataBeforeError
INVARIANT LimitExact
INVARIANT HonestEnd
PROPERTY StickyError
PROPERTY ReadReturns
