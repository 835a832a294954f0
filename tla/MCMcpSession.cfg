SPECIFICATION FairSpec
CONSTANTS
    PipeCap = 2
    MaxUnasked = 3
INVARIANTS
    ResultIsAnswer
    CalledInSession
PROPERTIES
    CallIsTakenDown
    CancelReturns
\* The call returns, and nothing is left to do.
CHECK_DEADLOCK FALSE
