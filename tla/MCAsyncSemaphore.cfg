SPECIFICATION FairSpec
CONSTANTS
    w1 = w1
    w2 = w2
    w3 = w3
    None = None
    Waiters = {w1, w2, w3}
    Initial = 1
    Maximum = 1
    MaxReleases = 2
INVARIANTS
    WaitersAreSound
    NoIdlePermit
    NoUseAfterDelivery
PROPERTIES
    ImplementsSemaphore
    StopIsAnswered
CHECK_DEADLOCK FALSE
