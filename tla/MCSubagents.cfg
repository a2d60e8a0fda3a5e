SPECIFICATION FairSpec
CONSTANTS
    Roots = {r1}
    Kids = {k1, k2}
    Headless = {r1}
    Nobody = Nobody
INVARIANTS
    FinishedOnce
    ForegroundNested
    AsksOnlyAsOrphan
PROPERTIES
    SubagentsEnd
CHECK_DEADLOCK FALSE
