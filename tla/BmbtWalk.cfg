\* Every image of MCImages: trees, cycles, damage.
CONSTANTS
    MAX_BMBT_LEVELS = 2
    MAX_BMBT_PTRS = 6
    BlockSize = 104
    ImageBlocks = 3
    Images <- MCImages
SPECIFICATION FairSpec
INVARIANTS
    TypeOK
    RecordsGenuine
    WorkBounded
    DepthOnTrees
    CollectsTheTree
PROPERTIES
    WorkShrinks
    Termination
\* The walk returns to its caller.
CHECK_DEADLOCK FALSE
