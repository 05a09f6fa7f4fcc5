\* Three names of one file, the first of them preloaded, in a cache of two, and
\* a refused name; the second version written cannot be read.  A server that
\* aborted does nothing.
SPECIFICATION Spec
CONSTANTS
    k1 = k1
    k2 = k2
    k3 = k3
    k4 = k4
    f1 = f1
    f2 = f2
    Keys <- FourKeys
    Files <- AllFiles
    FileOf <- NamesOfOne
    Refused <- FourthIsRefused
    Size = 2
    Preload <- PreloadFirst
    BadVersions <- SecondIsBad
    MaxVersion = 3
INVARIANTS
    TypeOK
    StaleIsDetectable
    ConfigCoherent
    SyncFresh
    ValidatorNotAhead
PROPERTIES
    RefreshCatchesUp
CHECK_DEADLOCK FALSE
