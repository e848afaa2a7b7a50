SPECIFICATION MCSpec
CONSTANTS
    Callers = {c1, c2}
    Jobs = {j1, j2}
    ClientTimes = {0}
    Ranks = {1, 2, 3}
    MaxLife = 2
    MaxBegins = 3
    MaxFaults = 1
    Verifiers = {v1}
    MinimumBytes = 1
    Index = 9
    Others = {1}
    Keys = {k1, k2}
    EnvKey = k1
    c1 = c1
    c2 = c2
    j1 = j1
    j2 = j2
    v1 = v1
    k1 = k1
    k2 = k2
    Holders = {h1, h2}
    SigningKeys = {s1, s2}
    EcKeys = {s2}
    FirstKey = s1
    Learner = h1
    ApiOrigin = "api"
    WorkerOrigin = "worker"
    MaxDays = 1
    MaxLiberties = 1
    h1 = h1
    h2 = h2
    s1 = s1
    s2 = s2
SYMMETRY Symmetry
INVARIANTS
    RevocationHolds
    PartsAgree
    AcceptedAsMade
PROPERTIES
    RevokedIsFinal
    ToldAsItIs
