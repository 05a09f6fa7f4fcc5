\* Every configuration and every order of three failures and signals.
SPECIFICATION Spec
CONSTANTS
    MaxFaults = 3
CHECK_DEADLOCK FALSE
INVARIANTS
    TypeOK
    TeardownComplete
PROPERTIES
    ShutdownEnds
