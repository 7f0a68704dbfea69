\* Every transport with a shorter command, under the fairness each property names.
SPECIFICATION Spec
CONSTANTS
    Cases <- MCFairCases
    MaxStdout = 1
    MaxStderr = 1
    TransportLimit = 1
    Cap = 1
    MaxTransport = 0
PROPERTIES
    Returns
    OutlivesOnlyPiped
CHECK_DEADLOCK FALSE
