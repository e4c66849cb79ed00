\* Four stages, the three that raise gates among them; up to two calls at a time,
\* any number of them one after the other; halts at the floor alone, or at all.
SPECIFICATION CalmSpec
CONSTANTS
    Stages <- MCStages
    Configs <- MCConfigs
    MaxActive = 2
    MaxRuns = 2
    None = none
INVARIANTS
    TypeOK
    NothingSkipped
    SuppressionIsLocal
PROPERTIES
    ResumedBeyond
    CycleCompletes
CHECK_DEADLOCK FALSE
