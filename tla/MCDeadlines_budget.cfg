SPECIFICATION DeadlineSpec
CONSTANTS
    MaxDuration = 2047
    Timeout = 900
    WriteTimeout = 1800
    ToolConfigs <- ManyTools
    Configs <- ManyConfigs
    Preambles = {0, 50}
    Durations = {1, 10, 15, 19, 280, 581, 600, 1200}
INVARIANTS
    BackoffGrowsToCap
    ShortAttemptsAnswered
    TimeoutMsIsKept
\* The request is answered, and nothing is left to do.
CHECK_DEADLOCK FALSE
