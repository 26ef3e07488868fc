SPECIFICATION FairSpec
CONSTANTS
    Threads = {t1, t2}
    RateLimit = 2
    MaxRetries = 2
    BackoffFactor = 2
    RetryAfters = {1}
    None = None
INVARIANTS
    TypeOK
    ErrorTellsFailure
PROPERTIES
    GrantSpacing
    GateReleased
    QueryReturns
