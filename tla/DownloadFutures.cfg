SPECIFICATION FuturesSpec
CONSTANTS
    h0 = h0  h1 = h1  h2 = h2  h3 = h3  x3 = x3  zero = zero
    plain = plain  empty = empty
    Header <- MCHeader
    Parent <- MCParent
    Body = {plain, empty}
    BodyOf <- MCBodyOf
    None = None
    Failed = Failed
    Targets = {h0, h2, h3}
    Counts = {None, 1, 2, 3}
    Starts = {h1, h3, x3}
    Limits = {2, 3}
    MaxAnswer = 3
INVARIANT
    RangeIsRight
PROPERTIES
    ImplementsFetch
    FuturesComplete
CHECK_DEADLOCK FALSE
