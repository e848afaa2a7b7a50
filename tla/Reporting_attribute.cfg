SPECIFICATION MCSpec
CONSTANTS
    inst = inst
    college = college
    dept = dept
    other = other
    program = program
    t1 = t1
    b1 = b1
    b2 = b2
    t2 = t2
    OrgUnits = {inst, college, dept, other, program}
    ReportTemplates = {t1, t2}
    UnitType <- Types
    UnitParent <- Parents
    NoParent = NoParent
    AnyOf = AnyOf
    Badges = {b1, b2}
    Reporters = {r1, r2}
    Recorded = {"learner_claim"}
    FirstOwner <- Owners
    Nobody = Nobody
    MaxNow = 4
    MaxReports = 2
    MaxLosses = 1
SYMMETRY Symmetry
INVARIANTS
    CountsAreTrue
    ViewsAgree
