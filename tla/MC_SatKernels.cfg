SPECIFICATION MCSpec
CONSTANTS
    Shapes <- MCShapes
    Keys = {0, 1, 2}
INVARIANTS
    TypeOK
    TagsTravel
    MergedStably
CHECK_DEADLOCK FALSE
