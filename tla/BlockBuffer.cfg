SPECIFICATION WalkSpec
CONSTANTS
    b0 = b0
    b1 = b1
    b2 = b2
    f2 = f2
    Hash <- MCHash
    Genesis = b0
    Zero = Zero
    None = None
    Parent <- MCParent
    Number <- MCNumber
    Code = {k1}
    Witness = {w1}
    MaxBlocks = 3
INVARIANTS
    LruTracksBlocks
    EarliestIndexesBlocks
    LinksAreBuffered
    AwaitedBytecodesHaveWitness
    ParentsFirst
PROPERTY
    ImplementsBlockBuffer
