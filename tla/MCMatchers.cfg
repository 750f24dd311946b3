CONSTANTS
    Inputs <- MCInputs
    Dictionaries <- MCDictionaries
    Words <- MCWords
    WordTable <- MCWordTable
    DictKeys = 8
    Window = 16
    RingSize = 48
    RingTail = 24
    RandomWindow = 2
    ChunkLimit = 2
    LookupShift = 2
    Farthest = 900
    QuickSlots = 32
    QuickPartial = 24
    U16Size = 32
    BucketKeys = 4
    BlockSize = 4
    CounterSize = 8
    Tags = 4
    BucketPartial = 24
    SampleRate = 2
    BusyRatio = 1
    ChainKeys = 8
    TinyHashes = 4
    ChainPartial = 3
    NumBanks = 2
    BankSize = 4
    Hops <- MCHops
    BlockSizes = {0, 17, 24}
    StalePos = 22
    Cases <- MCCases
    Kinds <- MCKinds
SPECIFICATION Spec
INVARIANT CommandsReproduceInput
INVARIANT CandidatesDescend
INVARIANT TagsHonest
INVARIANT LocalCacheInSync
INVARIANT LiteralsCounted
