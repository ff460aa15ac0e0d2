SPECIFICATION LegacySpec
CONSTANTS
    MaxN = 9
    Caps = {0, 1, 2}
    Keys = {0, 1, 2}
INVARIANTS
    MergesUnlessSkipped
CHECK_DEADLOCK FALSE
