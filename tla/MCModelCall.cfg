CONSTANTS
    Backups = 2
    MaxRecords = 8
    MaxFaults = 1
    ChatTries = 3
    StreamAttempts = 3
    Providers = {"anthropic", "openai_compatible"}
    MaxTokens = 2
SPECIFICATION CallFairSpec
INVARIANT
    TraceInOrder
    AnswerWhole
PROPERTY
    StopEnds
CHECK_DEADLOCK FALSE
