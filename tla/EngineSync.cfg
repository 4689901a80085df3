SPECIFICATION Spec
CONSTANTS
    b0 = b0
    b1 = b1
    b2 = b2
    b3 = b3
    b4 = b4
    f2 = f2
    g1 = g1
    g2 = g2
    k1 = k1
    Hash <- ChainAndFork2
    Genesis = b0
    Zero = Zero
    None = None
    Parent <- MCParent
    Number <- MCNumber
    Code = {k1}
    Witness <- Honest
    MaxBlocks = 4
    Window = 2
    Verdict <- AllGood
    CodesOf <- CodeIn12
    PoW = {}
    Payloads = {b2, f2}
    ForkchoiceStates <- Head2
    MaxBatch = 2
    Faults = {}
INVARIANTS
    AwaitedBytecodesRequested
    BufferedBlocksArePursued
    NoExecutableBlockBuffered
    OrphanWitnessIsNotNeeded
PROPERTY
    UsesDownloads
