SPECIFICATION Spec
CONSTANTS
    HttpJobs <- None
    SqlJobs <- ParamJobs
    DocJobs <- None
    ScriptJobs <- None
    MaxRetries = 2
    MaxRequests = 2
    MaxReplays = 1
INVARIANT ParametersHaveValues
CHECK_DEADLOCK FALSE
