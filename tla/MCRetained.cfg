\* One part short of both outputs; one byte short of both copies.
SPECIFICATION MCSpec
CONSTANTS
    Files = {f}
    Directories = {d}
    NParts = 2
    Budget = 3
    Foreign = TRUE
    MaxFaults = 1
    MaxLosses = 1
    Writers = {w1, w2}
    MaxSource = 3
    MaxLen = 2
    CopyBuffer = 2
    Limit = 3
    MaxHandles = 2
    MaxIoFaults = 1
INVARIANTS
    DestinationIsWhole
    CleanFailurePublishesNothing
    ReceiptIsDurable
    BudgetIsExact
    DiskIsCharged
    SnapshotIsWholeSource
PROPERTY
    NeverReplaces
CHECK_DEADLOCK FALSE
