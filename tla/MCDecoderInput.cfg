SPECIFICATION Spec
CONSTANTS
    FastInputSlack = 32
    Chunks = {1, 2, 3, 7, 33}
    Streams <- MCStreams
INVARIANT DecodesAnyChunking
INVARIANT AccumulatorHonest
