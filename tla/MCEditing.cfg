SPECIFICATION Spec
CONSTANTS
    f1 = f1
    f2 = f2
    a = a
    b = b
    Absent = Absent
    Files <- MCFiles
    Contents <- MCContents
    InitDisk <- MCInitDisk
    MaxCalls = 3
    MaxMishaps = 2
INVARIANTS
    AllOrNothing
    NothingLost
    UndoChain
PROPERTIES
    OverwritesOnlyRead
CHECK_DEADLOCK FALSE
