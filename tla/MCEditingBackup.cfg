SPECIFICATION Spec
CONSTANTS
    f1 = f1
    f2 = f2
    a = a
    b = b
    Absent = Absent
    Files <- MCFiles
    Contents <- MCContents
    InitDisk <- MCInitDisk
    MaxCalls = 1
    MaxMishaps = 2
INVARIANTS
    BackupPreserved
CHECK_DEADLOCK FALSE
