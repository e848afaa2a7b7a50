SPECIFICATION MCSpec
CONSTANTS
    Requests = {r1}
    Keys = {k1, k2}
    Learners = {l1}
    Ids = {a1, a2, a3}
    Profiles = {p1, p2}
    NoValue = none
    MaxFaults = 1
    Askers = {q1, q2}
    MaxCuts = 1
    r1 = r1
    k1 = k1
    k2 = k2
    l1 = l1
    a1 = a1
    a2 = a2
    a3 = a3
    p1 = p1
    p2 = p2
    q1 = q1
    q2 = q2
    Jobs = {m1, m2}
    ImportJobs = {m1}
    Workers = {w1}
    Operators = {}
    Tokens = {t1, t2, t3}
    MaxAttempts = 2
    LeaseSeconds = 1
    RetryDelay = 1
    BatchLimit = 1
    MaxTime = 8
    MaxResets = 0
    MaxCrashes = 1
INVARIANTS
    RetriesLeaveOrder
PROPERTIES
    IssuanceIsAnswered
    RepeatedIsServed
    EveryMessageSettles
