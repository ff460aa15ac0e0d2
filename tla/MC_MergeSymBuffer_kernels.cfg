SPECIFICATION MCSpec
CONSTANTS
    MaxN = 6
    Caps = {2}
    Keys = {0, 1, 2, 3}
PROPERTIES
    KernelTakesOverBudget
CHECK_DEADLOCK FALSE
