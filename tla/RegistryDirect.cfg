SPECIFICATION BoundedFairSpec
CONSTANTS
    permanent = permanent
    gone = gone
    retryable = retryable
    EmptyReason = EmptyReason
    None = None
    Threads = {t1, t2}
    Keys = {k1}
    JoinedKeys = {k1}
    Join <- JoinApart
    FailureTypes = {permanent, retryable}
    DoNotRetry = {permanent}
    FlushEvery = 2
    Storage = "local"
    DirectCalls = {"save", "load"}
    MaxPending = 2
PROPERTY
    LockReleased
