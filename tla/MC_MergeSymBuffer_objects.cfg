SPECIFICATION MCSpec
CONSTANTS
    MaxN = 3
    Caps = {2}
    Keys = {0, 1, 2, 3}
PROPERTIES
    AssignsToObjects
CHECK_DEADLOCK FALSE
