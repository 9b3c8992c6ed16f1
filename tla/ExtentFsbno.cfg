\* Extents in the second of two allocation groups.
CONSTANTS
    BlockSize = 2
    ImageLen = 12
    USIZE_MAX = 31
    Inodes <- FsbnoInodes
SPECIFICATION Spec
INVARIANT StartblockDecodedByAg
CHECK_DEADLOCK FALSE
