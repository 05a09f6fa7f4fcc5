\* One worker and its replacement, one disruption of any kind: requests settle.
SPECIFICATION Spec
CONSTANTS
    r1 = r1
    r2 = r2
    r3 = r3
    w1 = w1
    w2 = w2
    READY = READY
    None = None
    Requests <- TwoRequests
    WorkerIds <- TwoWorkers
    PoolSize = 1
    maxqueue = 2
    timeout = 0
    Hwm = 1
    MaxTime = 1
    Disruptions = {"kill", "error", "restart", "close"}
    MaxDisruptions = 1
PROPERTIES
    EveryRequestSettles
    EveryRequestAnswered
