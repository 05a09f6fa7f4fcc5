\* One place and two processes, the monitored file and a manifest, one write,
\* two collections, and a posted restart or a worker that dies.
SPECIFICATION Spec
CONSTANTS
    Workers = {w1}
    RestartMon = mon
    Manifests = {plug}
    Collections = {c1, c2}
    MaxWait = 1
    SndHwm = 1
    MaxTime = 2
    MaxGen = 2
    MaxEvents = 1
INVARIANTS
    TypeOK
    ReportUnderway
    RestartUnderway
PROPERTIES
    ChangeReaches
