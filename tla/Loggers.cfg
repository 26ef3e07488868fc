SPECIFICATION Spec
CONSTANTS
    Threads = {t1, t2, t3}
    Names = {n1, n2}
    MaxFailures = 1
    None = None
INVARIANTS DuplicatesBounded ReadyWhenReturned
PROPERTY Settles
