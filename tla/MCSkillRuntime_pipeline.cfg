SPECIFICATION FairSpec
CONSTANTS
    Requests = {r1}
    MaxRetries = 2
    Threshold = 5
    HasTimeout = TRUE
INVARIANTS
    TypeOK
    StatusFitsRuns
PROPERTIES
    InvokerIsKept
    EveryRequestAnswered
\* Every request is answered, and nothing is left to do.
CHECK_DEADLOCK FALSE
