\* A tree with a unit to reload, and one with readers by index: two acceptable material sets, one the
\* validator rejects and one check_material refuses; a fault and a power loss
\* anywhere, and a caller that tries again.
SPECIFICATION FairSpec
CONSTANTS
    Materials = {a, b, bad}
    Malformed = {dup}
    Valid = {a, b}
    None = none
    NFiles = 2
    MaxGen = 3
    MaxFaults = 1
    MaxLosses = 1
INVARIANTS
    ActiveIsTrustworthy
    ReaderNeverPairs
    ChangedIsDurableAndPruned
    UnitServesActive
PROPERTIES
    ImplementsRegister
    RetryConverges
CHECK_DEADLOCK FALSE
