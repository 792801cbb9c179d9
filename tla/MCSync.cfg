SPECIFICATION SyncSpec
CONSTANTS
    w1 = w1
    w2 = w2
    w3 = w3
    c1 = c1
    None = None
    Never = Never
    Waiters = {w1, w2, w3}
    Counters = {c1}
    Count = 2
    ChildCount = 3
INVARIANTS
    CompletesAtZero
    WaitersAreKept
    RaceIsDecided
PROPERTIES
    WaitsEnd
CHECK_DEADLOCK FALSE
