\* Two changes on the way, two extractions, one failure, kill and power loss.
SPECIFICATION Spec
CONSTANTS
    BuildFormats = {2, 3}
    UnsafePaths = {".."}
    UnsafeIds = {"/"}
    Overhead = 1
    MaxZeroTail = 3
    RecordLen = 1
    MaxU64 = 127
    BlockLen <- MCBlockLen
    Parent <- MCParent
    MaxHops = 2
    MaxCalls = 2
    MaxFaults = 1
    MaxKills = 1
    MaxLosses = 1
INVARIANTS
    VerdictIsPolicy
    ReadersInvertWriters
    TargetsAreWhole
PROPERTY
    RedeliveryIsSafe
CHECK_DEADLOCK FALSE
