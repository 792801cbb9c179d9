SPECIFICATION Spec
CONSTANTS
    r1 = r1
    r2 = r2
    w1 = w1
    None = None
    Readers = {r1, r2}
    Writers = {w1}
    MaxOpens = 1
    Terminal = TRUE
INVARIANTS
    EdgeNotLost
CHECK_DEADLOCK FALSE
