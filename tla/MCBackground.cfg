SPECIFICATION FairSpec
CONSTANTS
    Jobs = {j1}
    Runs = {r1, r2}
    Commands <- CommandType
INVARIANTS
    TreeGone
    ToldOnce
PROPERTIES
    CancelConfirmed
    JobEnds
CHECK_DEADLOCK FALSE
