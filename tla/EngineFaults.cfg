SPECIFICATION Spec
CONSTANTS
    b0 = b0
    b1 = b1
    b2 = b2
    b3 = b3
    b4 = b4
    f2 = f2
    g1 = g1
    g2 = g2
    k1 = k1
    Hash <- ChainAndFork3
    Genesis = b0
    Zero = Zero
    None = None
    Parent <- MCParent
    Number <- MCNumber
    Code = {k1}
    Witness <- HonestOrNot
    MaxBlocks = 2
    Window = 2
    Verdict <- BadHeaderFork
    CodesOf <- CodeIn12
    PoW = {}
    Payloads = {b1}
    ForkchoiceStates <- Head3OrFinalFork
    MaxBatch = 1
    Faults = {"bytecode", "database", "restart"}
INVARIANT
    BytecodesAccountedFor
PROPERTY
    ImplementsEngineApi
CHECK_DEADLOCK FALSE
