SPECIFICATION Spec
CONSTANTS
    Jobs = {j1, j2}
    Runs = {r1, r2}
    Commands <- MCCommands
SYMMETRY MCSymmetry
INVARIANTS
    ToldOnce
PROPERTIES
    CancelConfirmed
CHECK_DEADLOCK FALSE
