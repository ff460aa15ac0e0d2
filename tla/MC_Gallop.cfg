SPECIFICATION MCSpec
CONSTANTS
    Word = 32
    Keys = {0, 1, 2}
INVARIANTS
    TypeOK
    GallopExact
    PartitionPoint
    OutputSensitive
CHECK_DEADLOCK FALSE
