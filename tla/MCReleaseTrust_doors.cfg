SPECIFICATION Spec
CONSTANTS
    BuildFormats = {2, 3}
    UnsafePaths = {".."}
    UnsafeIds = {"/"}
    Callers = {c1}
    Packages <- All
    Chains <- RotationChains
    Doors = {"seed", "join", "replace", "accept", "chain", "rebootstrap"}
    JoinMaterial <- g1
    RequirePin = TRUE
    Pins = {"nopin", "dx", "d3"}
    None = None
    Decimal <- MCDecimal
    MaxGen = 3
    MaxFaults = 1
    MaxLosses = 1
INVARIANTS
    ChangedFloorSurvives
    LiveSelfAdmits
PROPERTIES
    SwapIsEarned
CHECK_DEADLOCK FALSE
