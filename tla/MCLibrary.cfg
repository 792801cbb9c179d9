SPECIFICATION LibrarySpec
CONSTANTS
    p1 = p1
    p2 = p2
    c1 = c1
    c2 = c2
    t1 = t1
    t2 = t2
    t3 = t3
    t4 = t4
    g1 = g1
    g2 = g2
    g3 = g3
    b1 = b1
    b2 = b2
    s1 = s1
    s2 = s2
    s3 = s3
    r1 = r1
    w1 = w1
    Null = Null
    Gens = {g1, g2, g3}
    Nobody = Null
    Root = g1
    Bodies <- MCBodies
    Longest = 3
    Levels = 2
    Timers = {t1, t2, t3, t4}
    Deadlines = {1, 2, 3}
    Depth = 3
    Producers = {p1, p2}
    Consumers = {c1, c2}
    MaxSize = 1
    Preloaded <- NoElements
    Readers = {r1}
    Writers = {w1}
    MaxOpens = 1
    Terminal = FALSE
    None = Null
    Waiters = {s1, s2, s3}
    Windows = FALSE
    MaxRaises = 1
    Bytes = {"a", "b"}
    Largest = 3
    Buffers = {b1, b2}
    MaxSizes <- MCMaxSizes
    Sizes = {0, 1, 2}
    Floor = 1
    Word = 8
    Transfers <- MCCalls
    Offset = 2
    Step = 3
INVARIANTS
    ChannelIsExact
    HeapIsTheSet
    BytesAreKept
    AlgorithmsAreExact
    ValuesAreFlattened
    OneCompletionPerStack
    PlatformsAgree
PROPERTIES
    ContractsAreKept
CHECK_DEADLOCK FALSE
