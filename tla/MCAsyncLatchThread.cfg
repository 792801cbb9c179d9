SPECIFICATION Spec
CONSTANTS
    w1 = w1
    w2 = w2
    w3 = w3
    c1 = c1
    Never = Never
    None = None
    Waiters = {w1, w2, w3}
    Counters = {c1}
    Count = 2
INVARIANTS
    CompletedByCountDown
CHECK_DEADLOCK FALSE
