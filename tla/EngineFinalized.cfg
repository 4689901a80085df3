SPECIFICATION Spec
CONSTANTS
    b0 = b0
    b1 = b1
    b2 = b2
    b3 = b3
    b4 = b4
    f2 = f2
    g1 = g1
    g2 = g2
    k1 = k1
    Hash <- TwoBranches
    Genesis = b0
    Zero = Zero
    None = None
    Parent <- MCParent
    Number <- MCNumber
    Code = {}
    Witness <- Plain
    MaxBlocks = 4
    Window = 2
    Verdict <- AllGood
    CodesOf <- NoCodes
    PoW = {}
    Payloads = {}
    ForkchoiceStates <- HeadOrFinal
    MaxBatch = 1
    Faults = {}
INVARIANTS
    ExecutableOnlyUnderInstalled
    CanonicalHashesFollowHead
    BlockHashIsRight
    ChainIndexed
