SPECIFICATION FairSpec
CONSTANTS
    Releases = {1, 2, 3}
    Manifest <- MCManifest
    Chain <- MCChain
    Filesystems = {"f1", "f2"}
    Calls = {c1, c2}
    LinkAttempts = 2
    Inodes = 6
    MaxUpdates = 1
    MaxFaults = 1
    MaxAbandons = 1
    MaxLosses = 1
    MaxTrouble = 2
INVARIANT NeverTorn
INVARIANT RollbackPoint
INVARIANT BaselineOnDisk
PROPERTY UpdateCompletes
CHECK_DEADLOCK FALSE
