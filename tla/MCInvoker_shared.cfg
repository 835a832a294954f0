SPECIFICATION Spec
CONSTANTS
    Calls = {c1, c2, c3}
    Invokers = {"shared"}
    InvokerOf <- SharedInvoker
    MaxRetries = 1
    Threshold = 2
    HasTimeout = TRUE
INVARIANTS
    FailuresAccounted
    RunsFitOutcome
    BreakerTrips
PROPERTIES
    ContractSpec
\* Every call ends, and nothing is left to do.
CHECK_DEADLOCK FALSE
