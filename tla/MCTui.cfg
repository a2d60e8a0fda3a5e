SPECIFICATION TuiSpec
CONSTANTS
    Sends <- SendsVal
    MaxAsks = 2
    MaxEnds = 1
    MaxOthers = 1
    MaxTrouble = 2
    MaxDown = 2
INVARIANTS
    ReadyForUser
    AskAnswerable
PROPERTIES
    Reconnects
CHECK_DEADLOCK FALSE
