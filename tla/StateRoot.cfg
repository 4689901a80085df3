SPECIFICATION FairSpec
CONSTANTS
    a1 = a1
    a2 = a2
    Address <- TwoAccounts
    Slot = {s1}
    Value = {0, 1}
    None = None
    Faults = {"blinded"}
INVARIANTS
    StateRootIsRight
PROPERTY
    RootComputed
CHECK_DEADLOCK FALSE
