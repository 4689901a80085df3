SPECIFICATION FairSpec
CONSTANTS
    b0 = b0
    b1 = b1
    b2 = b2
    b3 = b3
    f2 = f2
    k1 = k1
    k2 = k2
    Hash <- MCHash
    Genesis = b0
    Zero = Zero
    None = None
    Parent <- MCParent
    Number <- MCNumber
    CodeHash = {k1, k2}
    CodesOf <- MCCodes
    MaxHeaders = 2
    MaxBodies = 2
    SoftLimit = 4
    Heads = {b3, f2}
    Workloads <- MCWorkloads
    Faults = {"rpc"}
INVARIANTS
    HeadersHaveNoGap
    BodiesArePrefix
    WitnessIsUsable
PROPERTY
    RequestsAnswered
