\* Three threads, up to two retries.
SPECIFICATION Spec
CONSTANTS
    p = p
    q = q
    r = r
    Thread = {p, q, r}
    Retries = {0, 2}
    Timeout = 1
    Backoff = 1
    Threshold = 2
    ResetAfter = 2
INVARIANTS
    TypeOK
    OpenAtThreshold
    FailuresBounded
    TimeBounded
PROPERTIES
    CallEnds
    Recovers
