CONSTANTS
    U64_MAX = 1023
    G <- MCG
    ImageLen = 23
    Images <- HoleImages
SPECIFICATION Spec
INVARIANT EveryReadableExtentCarved
CHECK_DEADLOCK FALSE
