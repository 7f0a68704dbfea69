\* Room for one token in a pipe, one of transport text before the start, and
\* two kept of standard error.
SPECIFICATION FairSpec
CONSTANTS
    Cases <- MCCases
    Cap = 1
    TransportLimit = 1
    MaxTransport = 2
    StatusHold = 4
    MaxStderr = 2
INVARIANTS
    ExchangeIsTheCallers
    NothingLeftBehind
PROPERTY
    Returns
CHECK_DEADLOCK FALSE
