SPECIFICATION Spec
CONSTANTS
    Configs <- MCConfigs
INVARIANTS
    FoundMerges
    DepthMinimal
    RefinementProgresses
PROPERTIES
    SynthesisEnds
CHECK_DEADLOCK FALSE
