CONSTANTS
    U64_MAX = 1000
    TWO_32 = 16
    NSEC_PER_SEC = 10
    V2_LITINO_OFFSET = 3
    V3_LITINO_OFFSET = 4
    SB_MIN_LEN = 8
    LeafBoundary = 4
    Volumes <- MCVolumes
    Paths <- MCPaths
    SourceLens = {2, 5, 30, 70, 90, 96}
    BufLens = {3, 16}
    Caps = {1, 9}
    U16_MAX = 2
SPECIFICATION Spec
INVARIANTS
    TypeOK
    PathNamesTheFile
    AdapterAgrees
    ShortSourceOnlyLoses
    AnswersAgree
    StreamsReadBack
    RunsHoldTheFile
    ReadAsWritten
\* Both readers are done.
CHECK_DEADLOCK FALSE
