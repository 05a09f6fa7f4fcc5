\* One worker, its replacement and one RESTART broadcast, nothing else going wrong.
SPECIFICATION SafetySpec
CONSTANTS
    r1 = r1
    r2 = r2
    r3 = r3
    w1 = w1
    w2 = w2
    READY = READY
    None = None
    Requests <- TwoRequests
    WorkerIds <- TwoWorkers
    PoolSize = 1
    maxqueue = 2
    timeout = 0
    Hwm = 1
    MaxTime = 0
    Disruptions = {"restart"}
    MaxDisruptions = 1
INVARIANTS
    RestartKeepsRequests
