SPECIFICATION Spec
CONSTANTS
    t1 = t1
    t2 = t2
    q1 = q1
    None = None
    Sleeps = {}
    Posts = {q1}
    MaxTime = 1
    Modes = {"run"}
    WithGuard = FALSE
    WithStop = FALSE
INVARIANTS
    QuietWhenCompleted
CHECK_DEADLOCK FALSE
