SPECIFICATION Spec
CONSTANTS
    b0 = b0
    b1 = b1
    b2 = b2
    b3 = b3
    b4 = b4
    f2 = f2
    g1 = g1
    g2 = g2
    k1 = k1
    Hash <- ChainAndFork3
    Genesis = b0
    Zero = Zero
    None = None
    Parent <- MCParent
    Number <- MCNumber
    Code = {}
    Witness <- Plain
    MaxBlocks = 4
    Window = 2
    Verdict <- BadBranches
    CodesOf <- NoCodes
    PoW = {}
    Payloads = {b1, b2, b3, f2}
    ForkchoiceStates <- Head3OrZero
    MaxBatch = 1
    Faults = {"forget", "malformed"}
INVARIANTS
    TypeOK
    LatestValidHashIsRight
    VerdictsAreRight
PROPERTY
    ImplementsEngineApi
