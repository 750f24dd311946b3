CONSTANTS
    Window = 8
    Sizes <- MCSizes
    MinRing = 4
    Slack = 5
    WindowGap = 2
    Eager = 2
    MaxWord = 3
    MaxInsert = 2
    MaxCopy = 10
    MaxTotal = 18
SPECIFICATION Spec
INVARIANT HistoryIntact
INVARIANT MaxDistanceExact
INVARIANT OutputInOrder
