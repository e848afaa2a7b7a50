SPECIFICATION Spec
CONSTANTS
    Requests = {r1, r2}
    Keys = {k1, k2}
    Learners = {l1}
    Ids = {a1, a2, a3}
    Profiles = {p1, p2}
    NoValue = none
    MaxFaults = 1
    a1 = a1
    a2 = a2
    a3 = a3
    k1 = k1
    k2 = k2
    l1 = l1
    p1 = p1
    p2 = p2
    r1 = r1
    r2 = r2
SYMMETRY Symmetry
INVARIANTS
    IssuedIsWhole
PROPERTIES
    ImplementsPromise
