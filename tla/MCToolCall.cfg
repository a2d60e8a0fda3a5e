SPECIFICATION FairSpec
CONSTANTS
    m1 = m1
    m2 = m2
    r1 = r1
    s1 = s1
    Builtin = Builtin
    Nothing = Nothing
    Calls <- MCCalls
    Servers = {s1}
    Home <- MCHome
    Before <- MCBefore
    Repeatable = {r1}
    MaxRetries = 1
    MaxNoise = 1
    PeerAsks = FALSE
INVARIANTS
    AnswerMatches
    OutcomeTold
PROPERTIES
    CallEnds
CHECK_DEADLOCK FALSE
