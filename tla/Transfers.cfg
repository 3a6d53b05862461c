SPECIFICATION TransfersSpec
CONSTANTS
    NChunks = 4
    Audio = {4}
    First <- BeginsWith
    Last <- EndsWith
    StaleLen = 2
    SeqMod = 8
    Starts <- WrapOrNot
    StaleSeqs <- SomeStale
    Span = 3
    Window = 3
    AckEvery = 2
    Eager = 1
    Cutoff = TRUE
    MaxLost = 1
    MaxAgain = 1
    NoSeq = NoSeq
    Beginning = Beginning
    Middle = Middle
    MaxTransfers = 2
    MaxCommands = 5
    Flow = Flow
INVARIANTS
    TypesOK
    AckedAreKept
    NothingSlips
    KeptInOrder
    PlacedInOrder
    StrictWritesARun
    LaterGoBeyond
