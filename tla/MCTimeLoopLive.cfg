SPECIFICATION FairSpec
CONSTANTS
    t1 = t1
    t2 = t2
    q1 = q1
    None = None
    Sleeps = {t1}
    Posts = {q1}
    MaxTime = 1
    Modes = {"run", "poll"}
    WithGuard = FALSE
    WithStop = TRUE
INVARIANTS
    WorkIsBalanced
PROPERTIES
    DueIsDelivered
