CONSTANTS
    BlockSize = 112
    ImageBlocks = 2
    LeafBoundary = 4
    Dirs <- MCDirs
SPECIFICATION FairSpec
INVARIANTS
    TypeOK
    EntriesGenuine
    ListsTheDirectory
PROPERTIES
    ListingEnds
\* The listing returns.
CHECK_DEADLOCK FALSE
