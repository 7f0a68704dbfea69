SPECIFICATION CatchUpSpec
CONSTANTS
    BuildFormats = {2, 3}
    UnsafePaths = {".."}
    UnsafeIds = {"/"}
    Callers = {host}
    Host = host
    Packages <- Rotation
    Chains <- Suffixes
    Doors = {"seed", "chain"}
    JoinMaterial <- g1
    RequirePin = TRUE
    Pins = {"nopin"}
    None = None
    Decimal <- MCDecimal
    MaxGen = 7
    MaxFaults = 2
    MaxLosses = 1
    Rotated <- RotationOfThree
PROPERTY CatchesUp
CHECK_DEADLOCK FALSE
