CONSTANTS
    U64_MAX = 1023
    Images <- ForgedImages
SPECIFICATION FairSpec
INVARIANT ForgedPrimaryReported
CHECK_DEADLOCK FALSE
