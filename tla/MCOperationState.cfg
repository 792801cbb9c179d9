\* A stoppable operation may never be started: deadlock is not an error.
SPECIFICATION WordSpec
CONSTANTS
    s1 = s1
    s2 = s2
    p1 = p1
    Ops = {s1, s2, p1}
    Posts = {p1}
    t1 = t1
    t2 = t2
    o1 = o1
    o2 = o2
    o3 = o3
    l1 = l1
    l2 = l2
    l3 = l3
    m1 = m1
    Lockers = {l1, l2, l3}
    Tryers = {m1}
    NotLocked = NotLocked
    None = None
    Producers = {t1, t2}
    Nodes = {o1, o2, o3}
    Null = Null
INVARIANTS
    LinksAreClean
    WaitersAreInLine
    PostedOnce
    NoUseAfterDelivery
    CompletionNotLost
    MutualExclusion
PROPERTIES
    ImplementsContract
    ImplementsFifo
    ImplementsFifoLock
    AllIsDelivered
CHECK_DEADLOCK FALSE
