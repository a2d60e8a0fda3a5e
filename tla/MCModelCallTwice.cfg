CONSTANTS
    Backups = 1
    MaxRecords = 8
    MaxFaults = 0
    ChatTries = 2
    StreamAttempts = 2
    Providers = {"anthropic"}
    MaxTokens = 1
SPECIFICATION CallSpec
INVARIANT
    ShownOnce
CHECK_DEADLOCK FALSE
