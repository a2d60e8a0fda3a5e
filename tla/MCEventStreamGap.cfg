SPECIFICATION Spec
CONSTANTS
    p1 = p1
    p3 = p3
    r1 = r1
    r2 = r2
    c1 = c1
    c2 = c2
    Tasks = {p1, p3}
    Runs = {r1, r2}
    RunOf <- MCTwoRunOf
    Lasting = {}
    Flaky = {}
    Clients = {c1, c2}
    Scope <- MCScope
    Replay <- MCReplay
    Global = Global
    NoRun = NoRun
    MaxEvents = 2
    HighWater = 1
INVARIANTS
    NoGap
CHECK_DEADLOCK FALSE
