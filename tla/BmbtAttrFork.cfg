\* A btree inode that also has an attribute fork.
CONSTANTS
    MAX_BMBT_LEVELS = 2
    MAX_BMBT_PTRS = 6
    BlockSize = 104
    ImageBlocks = 3
    Images <- AttrForkImages
SPECIFICATION FairSpec
INVARIANT AttrForkTreeCollected
CHECK_DEADLOCK FALSE
