SPECIFICATION Spec
CONSTANTS
    Na = Na
    Nb = Nb
    Nc = Nc
    Nd = Nd
    k1 = k1
    k2 = k2
    l1 = l1
    l2 = l2
    Nil = Nil
    Addrs = {Na, Nb, Nc, Nd}
    Slots = {0, 1}
    Answers <- SomeAnswers
    ReadSlave = TRUE
    Filter = {Nb, Nd}
    Longs = {l1, l2}
    PoolChunk = 2
    MaxObjects = 4
    FdLimit = 5
    Socks = {k1, k2}
    MaxBatch = 2
    MaxConnects = 2
    MaxUpdates = 2
    MaxFaults = 1
INVARIANTS TypeOK OneOwner ObjectsOutliveEvents LongsAttended AcceptorAwake
INVARIANTS PoolClosed RightNode OpenServersMapped
CHECK_DEADLOCK FALSE
SYMMETRY Symmetric
