SPECIFICATION Spec
CONSTANTS
    permanent = permanent
    gone = gone
    retryable = retryable
    EmptyReason = EmptyReason
    None = None
    Threads = {t1, t2}
    Keys = {k1, k2}
    JoinedKeys = {k1, k2}
    Join <- JoinApart
    FailureTypes <- MCFailureTypes
    DoNotRetry <- MCDoNotRetry
    FlushEvery = 2
    Storage = "local"
    DirectCalls = {}
    MaxPending = 3
INVARIANT
    AckedKnown
