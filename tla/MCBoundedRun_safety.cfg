\* Every transport; one byte of room on stdin and stdout, limits of one byte.
SPECIFICATION Spec
CONSTANTS
    Cases <- MCCases
    MaxStdout = 1
    MaxStderr = 1
    TransportLimit = 2
    Cap = 1
    MaxTransport = 1
INVARIANTS
    ResultIsReal
    StdinIsTheCallers
    KillsAreTheRuns
CHECK_DEADLOCK FALSE
