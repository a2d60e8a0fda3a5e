SPECIFICATION BoardSpec
CONSTANTS
    a1 = a1
    a2 = a2
    Owners <- OwnersVal
    MaxTasks = 3
    MaxUpdates = 3
    MaxFailures = 1
SYMMETRY Symmetry
PROPERTIES
    ClaimInOrder
CHECK_DEADLOCK FALSE
