\* Two files with a name each, one of them preloaded; they change twice and are
\* deleted.
SPECIFICATION Spec
CONSTANTS
    k1 = k1
    k2 = k2
    k3 = k3
    k4 = k4
    f1 = f1
    f2 = f2
    Keys <- TwoKeys
    Files <- AllFiles
    FileOf <- OneNameEach
    Refused = {}
    Size = 1
    Preload <- PreloadFirst
    BadVersions <- SecondIsBad
    MaxVersion = 3
PROPERTIES
    EachCatchesUp
CHECK_DEADLOCK FALSE
