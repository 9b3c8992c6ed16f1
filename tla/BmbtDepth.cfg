\* The depth the comments promise, on the same images.
CONSTANTS
    MAX_BMBT_LEVELS = 2
    MAX_BMBT_PTRS = 6
    BlockSize = 104
    ImageBlocks = 3
    Images <- MCImages
SPECIFICATION FairSpec
INVARIANT DepthBounded
CHECK_DEADLOCK FALSE
