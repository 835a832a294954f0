SPECIFICATION FairSpec
CONSTANTS
    HttpJobs <- MCHttpJobs
    SqlJobs <- MCSqlJobs
    DocJobs <- MCDocJobs
    ScriptJobs <- MCScriptJobs
    MaxRetries = 2
    MaxRequests = 2
    MaxReplays = 1
INVARIANTS
    ActsFitAttempts
    InputReachesUpstream
    BoundAsWritten
    RowsAreComplete
PROPERTIES
    ContextEndsExecution
CHECK_DEADLOCK FALSE
