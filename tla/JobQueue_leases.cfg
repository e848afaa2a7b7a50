SPECIFICATION Spec
CONSTANTS
    Jobs = {m1}
    ImportJobs = {m1}
    Workers = {w1, w2}
    Operators = {o1, o2}
    Tokens = {t1, t2, t3}
    MaxAttempts = 2
    LeaseSeconds = 2
    RetryDelay = 1
    BatchLimit = 2
    MaxTime = 3
    MaxResets = 2
    MaxCrashes = 1
    m1 = m1
    o1 = o1
    o2 = o2
    t1 = t1
    t2 = t2
    t3 = t3
    w1 = w1
    w2 = w2
SYMMETRY RunSymmetry
INVARIANTS
    LeaseExclusive
    HandledPerLease
PROPERTIES
    OnlyFailedRowsReset
