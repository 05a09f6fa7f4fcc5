\* Two workers, one of which fails early.
SPECIFICATION SafetySpec
CONSTANTS
    NumWorkers = 2
    MaxPid = 3
    MaxJobs = 1
    MaxFaults = 1
CHECK_DEADLOCK FALSE
INVARIANTS
    AbortLeavesNoWorker
