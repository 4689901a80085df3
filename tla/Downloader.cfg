SPECIFICATION FairSpec
CONSTANTS
    Wanted <- ThreeBlocks
    None = None
    MaxAsks = 2
INVARIANT
    SweepIsComplete
PROPERTIES
    ImplementsDownloads
    ReadyIsHandled
