\* Lengths of a few units; two edits by others; tar blocks of two cells.
SPECIFICATION MCSpec
CONSTANTS
    BuildFormats = {2, 3}
    UnsafePaths = {".."}
    UnsafeIds = {"/"}
    Overhead = 2
    MaxZeroTail = 3
    RecordLen = 2
    Cases <- MCCases
    Blobs <- MCBlobs
    MaxEdits = 2
    Broken = {"schema", "manifest_sha256", "namespace"}
    Sources <- MCSources
    ZstdWindow = 1024
    CopyBuffer = 3
    Archives <- MCArchives
    BlockLen = 2
    ReadMax = 3
    NameMax = 2
    UnsafeNames = {".."}
INVARIANTS
    HandleIsBound
    LateRefusalIsDisk
    UploadAgrees
    ImagesAreDeclared
    ReadersAgree
    WindowHeld
    WalkAgrees
CHECK_DEADLOCK FALSE
