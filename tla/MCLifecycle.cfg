SPECIFICATION FairSpec
CONSTANTS
    Requests = {r1, r2}
    Kinds <- MCKinds
    Conns = 1
    MaxTries = 2
INVARIANTS
    TypeOK
    DrainLosesNothing
    ClosedPoolNeedsDeadline
PROPERTIES
    EveryWaiterServed
    SignalEnds
\* The process exits, or waits for requests that need not come.
CHECK_DEADLOCK FALSE
