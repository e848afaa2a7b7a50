----------------------------- MODULE ReportRows -----------------------------
(***************************************************************************)
(* What the reports of a tenant say of the rows they read: the overview,   *)
(* engagement, trend, comparison and hierarchy summaries of                *)
(* db/src/index.ts, the hierarchy that routes/reporting-routes.ts computes *)
(* for itself, and the access both are given.                              *)
(*                                                                         *)
(* A row is an assertion with one of its engagement events, or with none   *)
(* (a LEFT JOIN).  A timestamp stands for its date.  A rate is modelled by *)
(* its numerator: every rate of a summary is over that summary's issued.   *)
(***************************************************************************)
EXTENDS Integers, FiniteSets, FiniteSetsExt, Functions

CONSTANTS OrgUnits, ReportTemplates,
          UnitType, UnitParent,     \* tenant_org_units
          NoParent, AnyOf           \* no parent; a filter that was not given

Levels == <<"institution", "college", "department", "program">>
LevelNames == Range(Levels)
Depth(level) == CHOOSE i \in 1..4 : Levels[i] = level

\* createTenantOrgUnit: an institution is below nothing, any other unit below one of the
\* level above its own.
ASSUME TreeAssumption ==
    /\ UnitType \in [OrgUnits -> LevelNames]
    /\ UnitParent \in [OrgUnits -> OrgUnits \cup {NoParent}] /\ {NoParent, AnyOf} \cap OrgUnits = {}
    /\ \A u \in OrgUnits :
          IF UnitParent[u] = NoParent THEN UnitType[u] = "institution"
          ELSE Depth(UnitType[UnitParent[u]]) = Depth(UnitType[u]) - 1

OneShot == {"learner_claim", "wallet_accept"}
EventTypes == OneShot \cup {"public_badge_view", "verification_view", "share_click"}

\* A unit and the units above it: there are four levels.
WithParents(S) == (S \cup {UnitParent[u] : u \in S}) \ {NoParent}
LineageOf == [u \in OrgUnits |-> WithParents(WithParents(WithParents({u})))]

Within(u, root) == root \in LineageOf[u]
WithinRoots(u, roots) == \E r \in roots : Within(u, r)

StateOf(row) == IF row.revoked THEN "revoked" ELSE row.toState

\* tenantReportingLifecycleFromRow and the filter of the summaries
InState(row, state) ==
    CASE state = AnyOf -> TRUE
      [] state = "pending_review" -> StateOf(row) = "suspended" /\ row.reason = "appeal_pending"
      [] OTHER -> StateOf(row) = state

FilterAllows(wanted, value) == wanted = AnyOf \/ wanted = value

InDates(at, q) == (q.from = AnyOf \/ at >= q.from) /\ (q.to = AnyOf \/ at <= q.to)

\* The WHERE clause of the rows: it does not look at the state.
Listed(rows, q) ==
    {r \in rows : /\ FilterAllows(q.template, r.template)
                  /\ FilterAllows(q.unit, r.unit)
                  /\ InDates(r.issuedAt, q)}

AssertionsOf(rows) == {r.assertion : r \in rows}
HasEvent(r, q) == r.event # "none" /\ InDates(r.at, q)

\* The assertions of the overview, one row each, by their state
Overview(rows, q) ==
    LET chosen == {r \in Listed(rows, q) : InState(r, q.state)}
        Count(state) == Cardinality(AssertionsOf({r \in chosen : InState(r, state)}))
    IN  [issued |-> Count(AnyOf), active |-> Count("active"), suspended |-> Count("suspended"),
         revoked |-> Count("revoked"), pendingReview |-> Count("pending_review")]

\* An aggregate of rows: the assertions, the events of each type, and the
\* assertions that were claimed or accepted, and shared, at least once.
Totals(rows, q) ==
    LET Of(types) == {r \in rows : HasEvent(r, q) /\ r.event \in types}
    IN  [issued |-> Cardinality(AssertionsOf(rows)),
         counts |-> [type \in EventTypes |-> Cardinality(Of({type}))],
         claimed |-> Cardinality(AssertionsOf(Of(OneShot))),
         shared |-> Cardinality(AssertionsOf(Of({"share_click"})))]

Selected(rows, q) == {r \in Listed(rows, q) : InState(r, q.state)}

Engagement(rows, q) == Totals(Selected(rows, q), q)

\* resolveTenantReportingTrendRange: what was not given is the first or last
\* date the rows name.
TrendDates(rows, q) ==
    LET named == {r.issuedAt : r \in rows} \cup {r.at : r \in {s \in rows : s.event # "none"}}
        first == IF q.from # AnyOf THEN q.from ELSE IF named = {} THEN q.to ELSE Min(named)
        last == IF q.to # AnyOf THEN q.to ELSE IF named = {} THEN q.from ELSE Max(named)
    IN  IF named = {} /\ q.from = AnyOf /\ q.to = AnyOf THEN {} ELSE first..last

\* One bucket a day: the assertions issued and the events that occurred on it
Trend(rows, q) ==
    LET chosen == Selected(rows, q)
    IN  [day \in TrendDates(chosen, q) |->
            [issued |-> Cardinality(AssertionsOf({r \in chosen : r.issuedAt = day})),
             counts |-> [type \in EventTypes |->
                 Cardinality({r \in chosen : r.event = type /\ r.at = day})]]]

GroupOf(r, by) == IF by = "badgeTemplate" THEN r.template ELSE r.unit

Comparison(rows, q, by) ==
    LET chosen == Selected(rows, q)
    IN  [g \in {GroupOf(r, by) : r \in chosen} |->
            Totals({r \in chosen : GroupOf(r, by) = g}, q)]

\* The unit of a level that a unit is in: none, if it lies above that level
AtLevel(u, level) == {v \in LineageOf[u] : UnitType[v] = level}

\* Below the focus, and within a root of the reader's scope if there is one
Below(u, focus, roots) ==
    /\ focus = AnyOf \/ Within(u, focus)
    /\ roots = {} \/ WithinRoots(u, roots)

TooDeep(focus, level) == focus # AnyOf /\ Depth(UnitType[focus]) > Depth(level)

\* summarizeTenantReportingHierarchyRows, for a focus that is not too deep:
\* it is given the rows of every state.
Hierarchy(rows, q, focus, level, roots) ==
    LET chosen == {r \in Listed(rows, q) : Below(r.unit, focus, roots)}
        groups == UNION {AtLevel(r.unit, level) : r \in chosen}
    IN  [g \in groups |-> Totals({r \in chosen : g \in AtLevel(r.unit, level)}, q)]

NoTotals == [issued |-> 0, counts |-> [type \in EventTypes |-> 0], claimed |-> 0, shared |-> 0]
Plus(x, y) ==
    [issued |-> x.issued + y.issued, claimed |-> x.claimed + y.claimed, shared |-> x.shared + y.shared,
     counts |-> [type \in EventTypes |-> x.counts[type] + y.counts[type]]]
SumOver(groups, S) == FoldFunction(Plus, NoTotals, Restrict(groups, S))

\* Mutant: a unit counts only at its own level.
RouteHierarchyFlat(compared, focus, level, roots) ==
    Restrict(compared, {u \in DOMAIN compared : Below(u, focus, roots) /\ UnitType[u] = level})

\* aggregateHierarchyRows: the route adds the comparison rows of the units up,
\* each rate weighted by the issued count it is a rate of.
RouteHierarchy(compared, focus, level, roots) ==
    LET chosen == {u \in DOMAIN compared : Below(u, focus, roots)}
    IN  [g \in UNION {AtLevel(u, level) : u \in chosen} |->
            SumOver(compared, {u \in chosen : g \in AtLevel(u, level)})]

-----------------------------------------------------------------------------
\* Access: NoRoots for the whole tenant, or the units a member has a scope in.
\* scopes is a function from some units to the member's roles in them.
ScopedUnits(scopes, roles) == {u \in DOMAIN scopes : scopes[u] \in roles}

ReportingAccess(role, scopes) ==
    LET roots == ScopedUnits(scopes, {"admin", "issuer"})
    IN  IF role \in {"owner", "admin"} \/ (role = "issuer" /\ DOMAIN scopes = {})
        THEN [visible |-> "tenant", roots |-> {}]
        ELSE IF role # "issuer" \/ roots = {} THEN [visible |-> "nothing", roots |-> {}]
        ELSE [visible |-> "scoped", roots |-> roots]

ExecutiveAccess(role, scopes) ==
    LET roots == ScopedUnits(scopes, {"admin", "issuer", "viewer"})
    IN  IF role \in {"owner", "admin"} THEN [visible |-> "tenant", roots |-> {}]
        ELSE IF role \notin {"issuer", "viewer"} \/ roots = {}
        THEN [visible |-> "nothing", roots |-> {}]
        ELSE [visible |-> "scoped", roots |-> roots]

\* A unit that is named must lie within the scope; none need be named.
NamedAllowed(access, unit) ==
    \/ access.visible = "tenant"
    \/ access.visible = "scoped" /\ (unit = AnyOf \/ WithinRoots(unit, access.roots))

\* A scoped reader of totals names a unit of the scope: 400 or 403 otherwise.
UnitAllowed(access, q) ==
    \/ access.visible = "tenant"
    \/ access.visible = "scoped" /\ q.unit # AnyOf /\ WithinRoots(q.unit, access.roots)

ComparisonAllowed(access, q, by) ==
    /\ NamedAllowed(access, q.unit)
    /\ (access.visible = "scoped" /\ by = "badgeTemplate") => q.unit # AnyOf

Refused == [refused |-> TRUE]

OverviewReply(rows, access, q) ==
    IF UnitAllowed(access, q)
    THEN [counts |-> Overview(rows, q), rates |-> Engagement(rows, q)] ELSE Refused
EngagementReply(rows, access, q) ==
    IF UnitAllowed(access, q) THEN Engagement(rows, q) ELSE Refused
TrendReply(rows, access, q) == IF UnitAllowed(access, q) THEN Trend(rows, q) ELSE Refused

\* The files of a report hold what the report answers, but for the trend's,
\* which is made without the filter of the state.
TrendExport(rows, access, q) == TrendReply(rows, access, [q EXCEPT !.state = AnyOf])

\* Groups of units are filtered to the scope, those of templates are not.
ComparisonReply(rows, access, q, by) ==
    LET groups == Comparison(rows, q, by)
        shown == {g \in DOMAIN groups : WithinRoots(g, access.roots)}
    IN  IF ~ComparisonAllowed(access, q, by) THEN Refused
        ELSE IF access.visible = "scoped" /\ by = "orgUnit" THEN Restrict(groups, shown)
        ELSE groups

HierarchyReply(rows, access, q, focus, level) ==
    IF NamedAllowed(access, q.unit) /\ NamedAllowed(access, focus) /\ ~TooDeep(focus, level)
    THEN RouteHierarchy(Comparison(rows, q, "orgUnit"), focus, level, access.roots)
    ELSE Refused

\* The page of an administrator or an issuer: a scoped reader who names no unit
\* gets the one of most badges, or the first unit of the scope.
PageUnits(rows, access, q) ==
    LET groups == ComparisonReply(rows, access, [q EXCEPT !.unit = AnyOf], "orgUnit")
        most == {g \in DOMAIN groups : \A h \in DOMAIN groups : groups[h].issued <= groups[g].issued}
    IN  IF q.unit # AnyOf \/ access.visible = "tenant" THEN {q.unit}
        ELSE IF most = {} THEN access.roots ELSE most

ReportingPage(rows, access, q, unit) ==
    LET chosen == [q EXCEPT !.unit = unit]
    IN  [counts |-> Overview(rows, chosen), rates |-> Engagement(rows, chosen),
         trend |-> Trend(rows, chosen), templates |-> Comparison(rows, chosen, "badgeTemplate"),
         units |-> ComparisonReply(rows, access, [q EXCEPT !.unit = AnyOf], "orgUnit")]

ReportingPages(rows, access, q) ==
    IF ~NamedAllowed(access, q.unit) THEN {Refused}
    ELSE {ReportingPage(rows, access, q, u) : u \in PageUnits(rows, access, q)}

\* The ledger: its state filter is a CASE in SQL and knows no pending_review;
\* the query of the rows is another one.
LedgerOf(rows, q) ==
    AssertionsOf({r \in Listed(rows, q) : q.state = AnyOf \/ StateOf(r) = q.state})

\* Its export, for an administrator: too many rows make no file at all.
LedgerExport(rows, q, rowLimit) ==
    IF Cardinality(LedgerOf(rows, q)) > rowLimit THEN Refused ELSE [assertions |-> LedgerOf(rows, q)]
=============================================================================
