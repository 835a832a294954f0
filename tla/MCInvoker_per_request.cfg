SPECIFICATION Spec
CONSTANTS
    Calls = {c1, c2, c3}
    Invokers = {c1, c2, c3}
    InvokerOf <- OwnInvoker
    MaxRetries = 1
    Threshold = 2
    HasTimeout = TRUE
INVARIANTS
    BreakerTrips
CHECK_DEADLOCK FALSE
