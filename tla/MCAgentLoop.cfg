SPECIFICATION FairSpec
CONSTANTS
    MaxSteps = 2
    MaxDefers = 1
    MaxAttempts = 2
    ToolCalls <- MCMixedCalls
    Histories <- MCHistories
INVARIANTS
    StepBound
    ContextReady
    ThreadMirrorsContext
    HandsOn
PROPERTIES
    RunEnds
    SerialCallsOrdered
    RepairKeepsSteps
