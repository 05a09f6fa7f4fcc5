\* One worker and two replacements, two jobs each, two faults.
SPECIFICATION Spec
CONSTANTS
    NumWorkers = 1
    MaxPid = 3
    MaxJobs = 2
    MaxFaults = 2
CHECK_DEADLOCK FALSE
INVARIANTS
    TypeOK
    KillsOnlyTheLate
    OrderlyStop
PROPERTIES
    StalledIsKilled
    PoolRecovers
    StopEnds
