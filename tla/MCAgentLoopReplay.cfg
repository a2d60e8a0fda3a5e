SPECIFICATION Spec
CONSTANTS
    MaxSteps = 3
    MaxDefers = 3
    MaxAttempts = 3
    ToolCalls <- MCShortCalls
    Histories <- MCFirst
INVARIANTS
    ThreadReplayable
