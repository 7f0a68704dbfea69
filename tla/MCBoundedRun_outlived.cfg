\* The same, for what the Supervisor's own comment says of its deadline.
SPECIFICATION Spec
CONSTANTS
    Cases <- MCFairCases
    MaxStdout = 1
    MaxStderr = 1
    TransportLimit = 1
    Cap = 1
    MaxTransport = 0
PROPERTIES
    CommandDies
CHECK_DEADLOCK FALSE
