SPECIFICATION Spec
CONSTANTS
    Jobs = {j1}
    Runs = {r1}
    Commands <- CommandType
INVARIANTS
    ExitCleansUp
CHECK_DEADLOCK FALSE
