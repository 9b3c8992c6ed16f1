CONSTANTS
    U64_MAX = 1023
    G <- MCG
    ImageLen = 23
    Images <- MCImages
SPECIFICATION Spec
INVARIANTS
    TypeOK
    NumbersLocate
    EveryDeletedFound
    CarvedIsTheFile
\* The sweep ends.
CHECK_DEADLOCK FALSE
