SPECIFICATION FairSpec
CONSTANTS
    c1 = c1
    c2 = c2
    c3 = c3
    c4 = c4
    bash = bash
    edit = edit
    chat = chat
    batch = batch
    Calls <- MCCalls
    Tools <- MCTools
    Sessions <- MCSessions
    ToolOf <- MCToolOf
    SessionOf <- MCSessionOf
    ClassOf <- MCClassOf
    Background <- MCBackground
    Policy <- MCPolicy
    ModeOf <- MCModeOf
    AllowTools <- MCAllowTools
    TimeoutEnabled = FALSE
PROPERTIES
    NoOrphanWait
CHECK_DEADLOCK FALSE
