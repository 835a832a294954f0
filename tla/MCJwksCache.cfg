SPECIFICATION FairSpec
CONSTANTS
    Workers = {w1, w2}
    Tenants = {t1}
    Keys = {k1}
    SigningKeys = {k1}
    TTL = 1
    FetchTimeout = 1
    MaxTime = 4
INVARIANTS
    StaleKeyWindow
    RotationWindow
PROPERTIES
    AuthDecides
\* The clock is bounded.
CHECK_DEADLOCK FALSE
