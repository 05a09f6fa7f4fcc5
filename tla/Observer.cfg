\* Two workers, one project, four ticks in two seconds; a socket holds two.
SPECIFICATION Spec
CONSTANTS
    Keys = {k1}
    Workers = {w1, w2}
    PerSecond = 2
    Hwm = 2
    MaxTime = 5
INVARIANTS
    TypeOK
    NewestAnnounced
    CachedIsAnnounced
PROPERTIES
    ReportAnnounced
