SPECIFICATION Spec
CONSTANTS
    Threads = {t1, t2}
    RateLimit = 2
    MaxRetries = 3
    BackoffFactor = 2
    RetryAfters = {1}
    None = None
PROPERTY
    SendSpacing
