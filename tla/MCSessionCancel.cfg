SPECIFICATION Spec
CONSTANTS
    s1 = s1
    s2 = s2
    Sessions <- MCSessions
    MaxRuns = 1
    MaxShared = 0
    MaxSteps = 1
    MaxCrashes = 0
    Tearing = FALSE
PROPERTIES
    CancelTidies
CHECK_DEADLOCK FALSE
