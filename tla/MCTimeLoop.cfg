SPECIFICATION Spec
CONSTANTS
    t1 = t1
    t2 = t2
    q1 = q1
    None = None
    Sleeps = {t1, t2}
    Posts = {}
    MaxTime = 1
    Modes = {"run_one"}
    WithGuard = TRUE
    WithStop = FALSE
INVARIANTS
    TimersAreSound
    WakeupNotLost
PROPERTIES
    FollowsProtocol
