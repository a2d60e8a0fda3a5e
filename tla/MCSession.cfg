SPECIFICATION FairSpec
CONSTANTS
    s1 = s1
    s2 = s2
    Sessions <- MCSessions
    MaxRuns = 3
    MaxSteps = 1
    MaxCrashes = 2
    MaxShared = 2
    Tearing = TRUE
INVARIANTS
    SoundPromptKept
    PromptReachesModel
    RecoveryTidies
PROPERTIES
    SessionFreed
CHECK_DEADLOCK FALSE
