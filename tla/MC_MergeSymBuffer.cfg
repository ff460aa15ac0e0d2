SPECIFICATION MCSpec
CONSTANTS
    MaxN = 8
    Caps = {0, 2}
    Keys = {0, 1, 2, 3}
INVARIANTS
    TypeOK
    NothingLost
    ComparesLive
    GapIsBuffered
    OnlyPendingInversions
    TrimmedTight
    DepthLogarithmic
PROPERTIES
    ImplementsStableSort
CHECK_DEADLOCK FALSE
