SPECIFICATION MCSpec
CONSTANTS
    Requests = {r1, r2}
    Tenants = {t1, t2}
    Members = {u1}
    Patterns = {b1}
    Issuers = {lms}
    Provisionings = {p1}
    ApiKeys = {k1}
    Signing = signing
    Slugs = {s1, s2}
    KeyIds = {i1, i2}
    Units = {inst, college}
    LtiClients = {c1}
    Endpoints = {e1, e2}
    Assets = {img1, img2}
    Scopes = {"queue.issue", "*"}
    NoRow = NoRow
    Unset = Unset
    MaxRequests = 3
    MaxAudit = 3
    MaxDay = 1
    MaxLost = 1
    Null = Null
    Learners = {ann}
    Courses = {bio}
    Assignments = {work}
    Learner = ann
    Course = bio
    Assignment = work
    work = work
    lms1 = lms1
    lms2 = lms2
    Calls = {r1, r2}
    Platforms = {lms1, lms2}
    KindOf <- Kinds
    Books <- LmsBooks
    Rotating = {lms1}
    Silent = {lms2}
    Tokens = {1, 2, 3, 4, 5, 6, 7}
    Life = 1
    StateLife = 1
    MaxMinute = 1
    MaxCalls = 3
    MaxLostCalls = 1
    inst = inst
    college = college
    dept = dept
    d1 = d1
    tpl1 = tpl1
    tpl2 = tpl2
    tpl3 = tpl3
    Callers = {r1, r2}
    Users = {d1}
    Actions = {"issue_badge", "revoke_badge"}
    OrgUnits = {inst, college, dept}
    Templates = {tpl1, tpl2, tpl3}
    Grants = {given1, given2}
    Times = {1, 2}
    Asked <- SomeGrants
    FirstRoles <- TenantRoles
    FirstUnits <- TenantUnits
    FirstOwners <- TenantOwners
    NoUnit = NoUnit
    NoUser = NoUser
    NoTemplate = NoTemplate
    NoGrant = NoGrant
    NoAsked = NoAsked
    RowsReported = 0
    MaxTime = 2
    MaxAsks = 3
    MaxFaults = 1
SYMMETRY Symmetry
INVARIANTS
    AuditTells
    UsedWhileThere
    ConnectionHolds
    GrantsAreSound
    OwnershipExplained
PROPERTIES
    EndedIsKept
    PermittedAsGiven
