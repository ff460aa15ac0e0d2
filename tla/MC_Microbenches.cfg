SPECIFICATION Spec
CONSTANTS
    Keys = {0, 1, 2}
    Width = 6
    Kernels = {"oddeven", "tagged8", "blocks", "unrolled", "binary"}
    Hints = {0, 1, 3}
    MaxBlocks = 5
    block_len = 2
    MaxSort = 6
    Block = 2
    Small = 1
    CacheSizes = {0, 1, 3}
    MaxScan = 6
    Targets = {0, 1, 2, 3, 4}
    BudgetFactor = 2
    MaxN = 8
    Strategies = {"sym", "kota", "rlg"}
    MaxVirtual = 8
    B = 2
    ProofSizes = {2, 3, 4}
    MaxBlock = 6
INVARIANTS
    TypeOK
    CandidatesRight
    BlocksPlaced
    KeysExtracted
    MergesUnlessJumped
    MarksTellOrigin
    BlocksRestored
PROPERTIES
    CallsReturn
CHECK_DEADLOCK FALSE
