SPECIFICATION Spec
CONSTANTS
    MaxN = 7
    Block = 2
    Keys = {0, 1, 2}
    Word = 16
    MaxStackBytes = 4
    ElementSizes = {1, 2, 8}
INVARIANTS
    TypeOK
    RoundInvariant
PROPERTIES
    ImplementsStableSort
CHECK_DEADLOCK FALSE
