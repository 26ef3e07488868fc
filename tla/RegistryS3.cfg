SPECIFICATION Spec
CONSTANTS
    permanent = permanent
    gone = gone
    retryable = retryable
    EmptyReason = EmptyReason
    None = None
    Threads = {t1, t2}
    Keys = {k1, k2, k3}
    JoinedKeys = {k1, k2, k3}
    Join <- JoinApart
    FailureTypes <- MCFailureTypes
    DoNotRetry <- MCDoNotRetry
    FlushEvery = 2
    Storage = "s3"
    DirectCalls = {}
    MaxPending = 3
INVARIANTS
    TypeOK
    CounterCoversLoss
    LossBounded
    FlushNotSkipped
    AckedKnown
    AckedReasonsDurable
PROPERTIES
    FirstReasonKept
    ImplementsLedger
