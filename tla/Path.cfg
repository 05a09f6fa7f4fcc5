\* Three requests for two places on the deque, two workers, one of which may
\* be killed or fail, or the client may go away.
SPECIFICATION SafetySpec
CONSTANTS
    r1 = r1
    r2 = r2
    r3 = r3
    w1 = w1
    w2 = w2
    READY = READY
    None = None
    Requests <- ThreeRequests
    WorkerIds <- TwoWorkers
    PoolSize = 2
    maxqueue = 2
    timeout = 1
    Hwm = 1
    MaxTime = 2
    Disruptions = {"kill", "error", "close"}
    MaxDisruptions = 1
SYMMETRY Interchangeable
INVARIANTS
    TypeOK
    Placement
    IdleVisible
    OldestFirst
PROPERTIES
    ImplementsQueue
