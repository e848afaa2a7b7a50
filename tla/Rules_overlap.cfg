SPECIFICATION MCSpec
CONSTANTS
    Versions = {v1, v2}
    Chain <- TwoVersions
    Ranks = {1, 2}
    Requests = {r1, r2}
    NoVersion = none
    MaxFaults = 2
    v1 = v1
    v2 = v2
    r1 = r1
    r2 = r2
    ValueLists <- Lists
    NoList = nolist
    MaxAlternatives = 2
    MaxDepth = 2
    RuleOf <- Rules
    Learners = {l1}
    Worlds <- ThreeWorlds
    Nothing <- KnowsNothing
    Evaluations = {e1}
    Callers = {p1, p2, p3}
    MaxLost = 1
    PreviewRules <- AllRules
    PreviewWorlds <- ManyWorlds
    l1 = l1
    e1 = e1
    p1 = p1
    p2 = p2
    p3 = p3
SYMMETRY Symmetry
INVARIANTS
    StepsInOrder
    ApprovedByWholeChain
    ReviewedAsDecided
    EvaluatedAsWritten
PROPERTIES
    DecisionsFollow
