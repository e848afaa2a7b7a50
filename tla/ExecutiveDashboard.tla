------------------------- MODULE ExecutiveDashboard -------------------------
(***************************************************************************)
(* What the executive dashboard shows first and where its links lead       *)
(* (executive/executive-dashboard-contract.ts, executive-rollup-loader.ts).*)
(* Every unit is active: nothing deactivates one.                          *)
(***************************************************************************)
EXTENDS ReportRows

\* resolveExecutiveVisibleOrgUnitIds
VisibleUnits(access) ==
    IF access.visible = "tenant" THEN OrgUnits
    ELSE {u \in OrgUnits : WithinRoots(u, access.roots)}

Highest(S) == {u \in S : \A v \in S : Cardinality(LineageOf[u]) <= Cardinality(LineageOf[v])}

\* resolveDefaultFocusOrgUnitId: among several, the order of their ids decides.
DefaultFocuses(access) ==
    LET institutions == {u \in OrgUnits : UnitType[u] = "institution"}
        tops == {u \in OrgUnits : UnitParent[u] = NoParent}
    IN  IF access.visible = "scoped" THEN Highest(access.roots)
        ELSE IF institutions # {} THEN institutions
        ELSE Highest(tops)

\* resolveFocusOrgUnitId: a unit that may not be seen is passed over.
FocusesOf(access, asked) ==
    IF asked \in VisibleUnits(access) THEN {asked} ELSE DefaultFocuses(access)

\* resolveExecutiveComparisonLevel: the highest level below the focus that
\* has a visible unit of the focus, or else the focus's own
ComparisonLevel(focus, visible) ==
    LET below == {Depth(UnitType[u]) : u \in {v \in visible \ {focus} : Within(v, focus)}}
        deeper == {d \in below : d > Depth(UnitType[focus])}
    IN  IF deeper = {} THEN UnitType[focus] ELSE Levels[Min(deeper)]

\* getTenantExecutiveRollup, with the rows of every state
Rollup(rows, access, q, focus) ==
    Hierarchy(rows, q, focus, ComparisonLevel(focus, VisibleUnits(access)), access.roots)

\* buildExecutiveDashboardNavigation: a row without a deeper level to compare
\* has no link.
Drilldowns(rows, access, q, focus) ==
    LET visible == VisibleUnits(access)
    IN  {u \in DOMAIN Rollup(rows, access, q, focus) \cap visible :
            ComparisonLevel(u, visible) # UnitType[u]}

Breadcrumbs(access, focus) == LineageOf[focus] \cap VisibleUnits(access)

\* What every report and dashboard answers a reader of rows, it answers of others.
AnsweredAlike(rows, others, access, q, foci) ==
    /\ OverviewReply(rows, access, q) = OverviewReply(others, access, q)
    /\ EngagementReply(rows, access, q) = EngagementReply(others, access, q)
    /\ TrendReply(rows, access, q) = TrendReply(others, access, q)
    /\ ReportingPages(rows, access, q) = ReportingPages(others, access, q)
    /\ \A by \in {"orgUnit", "badgeTemplate"} :
          ComparisonReply(rows, access, q, by) = ComparisonReply(others, access, q, by)
    /\ \A focus \in foci, level \in LevelNames :
          HierarchyReply(rows, access, q, focus, level) = HierarchyReply(others, access, q, focus, level)
    /\ \A focus \in foci : focus # AnyOf => Rollup(rows, access, q, focus) = Rollup(others, access, q, focus)

OwnRows(rows, roots) == {r \in rows : WithinRoots(r.unit, roots)}

\* A scoped reader is answered as if the badges of the other units were not there.
OwnOnly(rows, access, q, foci) ==
    AnsweredAlike(rows, OwnRows(rows, access.roots), access, q, foci)

\* The units a reader comes to from the first dashboard by following links
Follow(rows, access, q, from) == from \cup UNION {Drilldowns(rows, access, q, u) : u \in from}
Reached(rows, access, q, first) ==
    Follow(rows, access, q, Follow(rows, access, q, Follow(rows, access, q, {first})))

\* Whoever may open the dashboard gets one, and from it comes by its links to
\* a dashboard with a row for every visible unit below it that has badges.
EveryUnitReached(rows, access, q) ==
    /\ DefaultFocuses(access) # {}
    /\ \A first \in DefaultFocuses(access) :
        /\ first \in VisibleUnits(access)
        /\ \A u \in OrgUnits : Within(u, first) /\ (\E r \in Listed(rows, q) : Within(r.unit, u)) =>
              \E v \in Reached(rows, access, q, first) :
                  /\ ~TooDeep(v, ComparisonLevel(v, VisibleUnits(access)))
                  /\ u = first \/ u \in DOMAIN Rollup(rows, access, q, v)
=============================================================================
