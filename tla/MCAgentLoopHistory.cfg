SPECIFICATION Spec
CONSTANTS
    MaxSteps = 4
    MaxDefers = 2
    MaxAttempts = 1
    ToolCalls <- MCSerialCalls
    Histories <- MCFirst
INVARIANTS
    ContextReady
    ThreadMirrorsContext
