SPECIFICATION Spec
CONSTANTS
    ShortInputs <- MCShort
    KotaInputs <- MCKota
    SmallInputs <- MCSmall
    PdqInputs <- MCPdq
    LongInputs <- MCLong
    Threshold = 128
    InPlaceRun = 16
    MergeBlocks = {1, 4}
    LeftSteps = {1, 3, 32}
    RightSteps = {1, 2, 32}
    Offsets = {0, 1, 8, 31}
    Levels = {0, 1, 2, 3}
    insertion_sort_threshold = 4
    ninther_threshold = 6
    partial_insertion_sort_limit = 1
    pdq_block_size = 2
    MIN_MERGE = 4
    MIN_GALLOP = 2
    MergeInputs <- MCMerges
    GRAIL_EXT_BUFFER_LENGTH = 4
    CacheSizes = {0, 2, 3, 8, 20, 512}
INVARIANTS
    TypeOK
    BuffersKept
    RunsInOrder
    Sorted
PROPERTIES
    EverCloser
