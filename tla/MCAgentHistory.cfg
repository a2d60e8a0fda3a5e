SPECIFICATION Spec
CONSTANTS
    MaxSteps = 3
    MaxDefers = 1
    MaxAttempts = 1
    ToolCalls <- MCShortCalls
    Histories <- MCPast
INVARIANTS
    ContextReady
    ThreadMirrorsContext
    HandsOn
PROPERTIES
    RepairKeepsSteps
