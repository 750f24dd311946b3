CONSTANTS
    Inputs <- MCInputs
    Dictionaries <- MCDictionaries
    Words <- MCWords
    WordTable <- MCWordTable
    DictKeys = 8
    Window = 16
    RingSize = 64
    RingTail = 16
    RandomWindow = 4
    ChunkLimit = 2
    LookupShift = 4
    Farthest = 900
    QuickSlots = 32
    QuickPartial = 24
    U16Size = 80
    BucketKeys = 1
    BlockSize = 4
    CounterSize = 8
    Tags = 4
    BucketPartial = 24
    SampleRate = 2
    BusyRatio = 0
    ChainKeys = 8
    TinyHashes = 4
    ChainPartial = 3
    NumBanks = 2
    BankSize = 4
    Hops <- MCHops
    BlockSizes = {0, 13, 15}
    StalePos = 22
    Cases <- MCNarrowCases
    Kinds = {"h2u16", "h3u16", "h4u16", "h6b5u"}
SPECIFICATION Spec
INVARIANT CommandsReproduceInput
