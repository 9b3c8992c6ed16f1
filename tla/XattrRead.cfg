CONSTANTS
    BlockSize = 128
    ImageBlocks = 4
    MAX_VALUE_LEN = 200
    Inodes <- MCInodes
SPECIFICATION FairSpec
INVARIANTS
    TypeOK
    AttributesGenuine
    ListingBounded
    ValuesGenuine
    ListsTheAttributes
PROPERTIES
    ListingEnds
\* The call returns to its caller.
CHECK_DEADLOCK FALSE
