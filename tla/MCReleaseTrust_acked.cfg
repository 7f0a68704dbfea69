SPECIFICATION Spec
CONSTANTS
    BuildFormats = {2, 3}
    UnsafePaths = {".."}
    UnsafeIds = {"/"}
    Callers = {c1}
    Packages <- Rotation
    Chains = {}
    Doors = {"seed", "accept"}
    JoinMaterial <- g1
    RequirePin = TRUE
    Pins = {"nopin"}
    None = None
    Decimal <- MCDecimal
    MaxGen = 3
    MaxFaults = 1
    MaxLosses = 1
INVARIANT AcknowledgedFloorSurvives
CHECK_DEADLOCK FALSE
