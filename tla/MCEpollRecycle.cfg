SPECIFICATION FairSpec
CONSTANTS
    r1 = r1
    r2 = r2
    w1 = w1
    None = None
    Readers = {r1, r2}
    Writers = {}
    MaxOpens = 2
    Terminal = FALSE
INVARIANTS
    SlotsAgree
    EdgeNotLost
    InterruptNotLost
PROPERTIES
    ImplementsIo
    WaitEnds
CHECK_DEADLOCK FALSE
