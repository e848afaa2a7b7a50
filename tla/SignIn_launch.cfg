SPECIFICATION Spec
CONSTANTS
    Providers = {p1, p2}
    Emergency = {u1}
    Admins = {a1, a2}
    Browsers = {b1}
    NoProvider = noprovider
    NoUser = nouser
    Asked <- SomePolicies
    MaxChanges = 3
    MaxCut = 1
    e1 = e1
    e2 = e2
    s1 = s1
    s2 = s2
    x1 = x1
    t1 = t1
    t2 = t2
    Emails = {e1, e2}
    Subjects = {s1, s2}
    SourcedIds = {x1}
    Dids = {d1, d2}
    Profiles = {l1, l2, l3}
    AuthUsers = {b_1, b_2, b_3}
    Proofs = {f1}
    Members = {e2}
    Calls = {r1, r2}
    Nonces = {n1, n2}
    Keys = {k1, k2, k3}
    Templates = {t1, t2}
    LaunchClaims <- SomeClaims
    None = none
    LoggedIn = {n1}
    MaxBegun = 3
    MaxLost = 1
SYMMETRY Symmetry
INVARIANTS
    ProvidersHold
    SecondFactorFirst
    LaunchesAgree
    OpensOnce
    UnlessOverlapped
PROPERTIES
    IdentityStays
