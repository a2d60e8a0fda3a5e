SPECIFICATION Spec
CONSTANTS
    s1 = s1
    s2 = s2
    Sessions <- MCSessions
    MaxRuns = 2
    MaxShared = 0
    MaxSteps = 1
    MaxCrashes = 1
    Tearing = TRUE
PROPERTIES
    ColdStartTidies
CHECK_DEADLOCK FALSE
