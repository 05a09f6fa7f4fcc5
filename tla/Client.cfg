\* Two overlapping requests, streams of up to two parts with data, and a
\* backend that may never answer.
SPECIFICATION Spec
CONSTANTS
    r1 = r1
    r2 = r2
    Requests <- TwoRequests
    MaxParts = 2
CHECK_DEADLOCK FALSE
INVARIANTS
    TypeOK
    BodyIntact
    HandlersReleased
    Attended
PROPERTIES
    EveryFetchEnds
