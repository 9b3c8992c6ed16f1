CONSTANTS
    BlockSize = 2
    ImageLen = 9
    USIZE_MAX = 31
    Inodes <- MCInodes
SPECIFICATION Spec
INVARIANTS
    TypeOK
    OutIsTheFile
    ReturnIsComplete
PROPERTIES
    OnlyHoldersWrite
    ReadsTheFile
\* The call returns to its caller.
CHECK_DEADLOCK FALSE
