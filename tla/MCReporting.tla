----------------------------- MODULE MCReporting -----------------------------
(* A college with two departments and a program, for TLC. *)
EXTENDS Reporting, TLC

CONSTANTS inst, college, dept, other, program, t1, t2, b1, b2

VARIABLE mode   \* what a behaviour is about: the calls, or what is counted

Types == inst :> "institution" @@ college :> "college" @@ dept :> "department"
           @@ other :> "department" @@ program :> "program"
Parents == inst :> NoParent @@ college :> inst @@ dept :> college @@ other :> college
             @@ program :> dept
Owners == t1 :> dept @@ t2 :> college

Query(template, unit, state, from, to) ==
    [template |-> template, unit |-> unit, state |-> state, from |-> from, to |-> to]
Everything == Query(AnyOf, AnyOf, AnyOf, AnyOf, AnyOf)
Queries == {Everything, Query(t1, AnyOf, "suspended", AnyOf, AnyOf),
            Query(AnyOf, AnyOf, "pending_review", 3, AnyOf),
            Query(AnyOf, dept, AnyOf, AnyOf, 3), Query(AnyOf, other, "active", 2, 4)}

\* Members by their roles in units, as the routes see them
NoScopes == [u \in {} |-> "viewer"]
Members == {<<"issuer", dept :> "issuer">>, <<"issuer", program :> "admin" @@ other :> "issuer" @@ inst :> "viewer">>,
            <<"issuer", college :> "issuer">>, <<"issuer", inst :> "viewer">>, <<"viewer", dept :> "viewer">>,
            <<"issuer", NoScopes>>, <<"admin", NoScopes>>}
Readers == {a \in {ReportingAccess(m[1], m[2]) : m \in Members} : a.visible # "nothing"}
Executives == {a \in {ExecutiveAccess(m[1], m[2]) : m \in Members} : a.visible # "nothing"}

-----------------------------------------------------------------------------
SumOf(f(_), S) == FoldSet(LAMBDA x, y : f(x) + y, 0, S)

\* However a reader asks for a number of badges, it is the same: the overview,
\* the engagement totals, the groups of units and those of templates added up,
\* the buckets of a trend added up, and the ledger; and so are the events.
AllCountTheSame ==
    mode = "count" => \A q \in Queries :
        LET total == Engagement(CurrentRows, q)
            byUnit == Comparison(CurrentRows, q, "orgUnit")
            byTemplate == Comparison(CurrentRows, q, "badgeTemplate")
            trend == Trend(CurrentRows, q)
            issuedOn(day) == trend[day].issued
        IN  /\ Overview(CurrentRows, q).issued = total.issued
            /\ SumOver(byUnit, DOMAIN byUnit) = total
            /\ SumOver(byTemplate, DOMAIN byTemplate) = total
            /\ SumOf(issuedOn, DOMAIN trend) = total.issued
            /\ \A type \in EventTypes :
                  LET on(day) == trend[day].counts[type]
                  IN  SumOf(on, DOMAIN trend) = total.counts[type]
            /\ q.state # "pending_review" => Cardinality(LedgerOf(CurrentRows, q)) = total.issued

\* The hierarchy a route adds up from the groups of units is the one the
\* database package computes from the rows, rates included.
HierarchiesAgree ==
    mode = "count" => \A q \in Queries, level \in LevelNames, focus \in OrgUnits \cup {AnyOf}, access \in Readers :
        q.state = AnyOf /\ ~TooDeep(focus, level) =>
            RouteHierarchy(Comparison(CurrentRows, q, "orgUnit"), focus, level, access.roots)
              = Hierarchy(CurrentRows, q, focus, level, access.roots)

\* A scoped reader is answered as if the badges of the other units were not there.
ScopedCountsOwnOnly ==
    mode = "count" => \A q \in Queries, access \in {a \in Readers \cup Executives : a.visible = "scoped"} :
        OwnOnly(CurrentRows, access, q, {AnyOf, dept})

\* Whoever may open the dashboard gets one, and from it comes by its links to
\* a dashboard with a row for every visible unit below it that has badges.
LinksReachEveryUnit ==
    mode = "count" => \A access \in Executives : EveryUnitReached(CurrentRows, access, Everything)

\* Whichever code counts or adds up a view, and however much of it its reader may see, the
\* views show the same numbers and the same hierarchy of units.
ViewsAgree == AllCountTheSame /\ HierarchiesAgree /\ ScopedCountsOwnOnly /\ LinksReachEveryUnit

Issued(t, at) == [Unissued EXCEPT !.template = t, !.issuedAt = at]
Event(id, b, type, at) == [id |-> id, badge |-> b, type |-> type, at |-> at]
Engagements == {Event(1, b1, "learner_claim", 2), Event(2, b1, "wallet_accept", 4),
                Event(3, b1, "share_click", 3), Event(4, b2, "share_click", 4)}

\* Two badges of any units, with some events: their reports are what is looked at.
CountInit ==
    /\ mode = "count" /\ now = MaxNow
    /\ \E t \in ReportTemplates : badge = b1 :> Issued(t, 2) @@ b2 :> Issued(t1, 3)
    /\ issue = [b \in Badges |-> [step |-> "issued", read |-> Nobody]]
    /\ \E f \in [Badges -> OrgUnits] :
          /\ attribution = [b \in Badges |-> [unit |-> f[b], source |-> "issuance_snapshot"]]
          /\ holders = [b \in Badges |-> {f[b]}]
    /\ engaged \in SUBSET Engagements
    /\ owned = FirstOwner
    /\ transfers = [t \in ReportTemplates |-> {[to |-> FirstOwner[t], at |-> 1]}]
    /\ moving = [t \in ReportTemplates |-> NoMove] /\ broken = {}
    /\ pcr = [r \in Reporters |-> "idle"] /\ job = [r \in Reporters |-> NoJob]
    /\ reports = 0 /\ losses = 0

\* One template between two departments: their calls are what is looked at.
InFlow ==
    /\ now' < MaxNow
    /\ \A b \in Badges : badge'[b].toState = "active" /\ badge'[b].template \in {t1, Nobody}
    /\ moving'[t2] = NoMove /\ moving'[t1].to \in {dept, other, Nobody}

MCInit == CountInit \/ (mode = "calls" /\ ReportingInit)
MCNext ==
    \/ mode = "calls" /\ ReportingNext /\ InFlow /\ UNCHANGED mode
    \/ mode = "count" /\ StateStep(b1) /\ UNCHANGED mode
    \* a request that only reads
    \/ UNCHANGED <<mode, reportingVars>>
MCSpec == MCInit /\ [][MCNext]_<<mode, reportingVars>>
Symmetry == Permutations(Reporters)
=============================================================================
