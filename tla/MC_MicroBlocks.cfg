SPECIFICATION Spec
CONSTANTS
    MaxN = 7
    Block = 3
    Keys = {0, 1, 2}
INVARIANTS
    TypeOK
    NothingLost
    ComparesLive
    BlocksStablySorted
CHECK_DEADLOCK FALSE
