SPECIFICATION MCSpec
CONSTANTS
    o1 = o1
    o2 = o2
    a1 = a1
    a2 = a2
    Ops = {o1, o2}
    Requests <- MCRequests
    UringRequests <- MCRequests
    Addresses = {a1, a2}
    MaxEntries = 2
    Entries = 2
    Batch = 2
    MaxShorts = 1
INVARIANTS
    NothingLeftBehind
PROPERTIES
    ImplementsIo
    RequestsAreAnswered
CHECK_DEADLOCK FALSE
