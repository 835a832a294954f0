SPECIFICATION Spec
CONSTANTS
    Requests = {r1}
    MaxRetries = 2
    Threshold = 5
    HasTimeout = TRUE
INVARIANTS
    UnsuccessfulIsNot200
\* Every request is answered, and nothing is left to do.
CHECK_DEADLOCK FALSE
