\* Up to three parts and five messages, statuses of a success, a redirection
\* and an error.
SPECIFICATION SpecHandling
CONSTANTS
    Statuses = {200, 304, 404}
    MaxParts = 3
    MaxMessages = 5
CHECK_DEADLOCK FALSE
INVARIANTS
    HandlingTypeOK
    StreamValid
    StreamEnds
    DataComplete
    ApiAnswersOnce
