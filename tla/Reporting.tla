------------------------------ MODULE Reporting ------------------------------
(***************************************************************************)
(* The unit each badge is counted for, and the engagement recorded with it *)
(* (db/src/index.ts: createAssertion, recordAssertionEngagementEvent,      *)
(* backfillAssertionReportingAttributionsForTenant and the statements of   *)
(* the reports).                                                           *)
(*                                                                         *)
(* An issuance writes its badge and then, in another statement, the unit   *)
(* that owns the template.  A report first fills in every badge that has   *)
(* no unit, from the history of its template's owners; so does the         *)
(* recording of an event.  Each statement is a step, calls interleave, and *)
(* a call may be lost between two of them.                                 *)
(***************************************************************************)
EXTENDS ExecutiveDashboard, Sequences

CONSTANTS
    Badges,          \* assertion ids
    Reporters,       \* calls that report or record an event
    Recorded,        \* types of the events that are recorded
    FirstOwner,      \* the owner of each template when it was created
    Nobody,          \* no unit, no badge
    MaxNow, MaxReports, MaxLosses

ASSUME ReportingAssumption ==
    /\ Recorded \subseteq EventTypes /\ IsFiniteSet(Reporters)
    /\ FirstOwner \in [ReportTemplates -> OrgUnits] /\ Nobody \notin OrgUnits \cup Badges
    /\ MaxNow \in Nat \ {0} /\ MaxReports \in Nat /\ MaxLosses \in Nat

Sources == {"issuance_snapshot", "historical_backfill", "current_owner_fallback"}

VARIABLES
    now,          \* the last timestamp taken: no two calls take the same one
    badge,        \* assertions, with the state of the latest lifecycle event
    issue,        \* where the issuance of each badge is, and the owner it read
    attribution,  \* assertion_reporting_attributions
    owned,        \* badge_templates.owner_org_unit_id
    transfers,    \* badge_template_ownership_events: to whom and from when
    moving,       \* the transfer in flight of each template, or NoMove
    engaged,      \* assertion_engagement_events
    pcr,          \* where each reporter is
    job,          \* what it does, and its local variables
    broken,       \* history: templates with a transfer that was lost half-way,
                  \* or was not dated after those before it, or ahead of its time
    holders,      \* history: the units that owned a badge's template since it was
                  \* issued, or by their transfer's date, until its issuance ended,
                  \* both units of a transfer in flight being its owners
    reports, losses

badgeVars == <<badge, issue, attribution, holders>>
templateVars == <<owned, transfers, moving, broken>>
reporterVars == <<pcr, job>>
bookVars == <<engaged, reporterVars, reports>>
reportingVars == <<now, badgeVars, templateVars, bookVars, losses>>

Unissued == [template |-> Nobody, issuedAt |-> 0, revoked |-> FALSE, toState |-> "active", reason |-> "none"]
NoMove == [from |-> Nobody, to |-> Nobody, at |-> 0]
NoJob == [type |-> "none", badge |-> Nobody, at |-> 0, missing |-> {}, listed |-> {},
          due |-> {}, counted |-> {}]
Idle(r) == pcr[r] = "idle"

ReportingInit ==
    /\ now = 1
    /\ badge = [b \in Badges |-> Unissued]
    /\ issue = [b \in Badges |-> [step |-> "unissued", read |-> Nobody]]
    /\ attribution = [b \in Badges |-> [unit |-> Nobody, source |-> "none"]]
    /\ owned = FirstOwner
    /\ transfers = [t \in ReportTemplates |-> {[to |-> FirstOwner[t], at |-> 1]}]
    /\ moving = [t \in ReportTemplates |-> NoMove]
    /\ engaged = {}
    /\ pcr = [r \in Reporters |-> "idle"] /\ job = [r \in Reporters |-> NoJob]
    /\ broken = {} /\ holders = [b \in Badges |-> {}]
    /\ reports = 0 /\ losses = 0

Existing == {b \in Badges : issue[b].step \notin {"unissued", "signing"}}
Attributed == {b \in Badges : attribution[b].unit # Nobody}

-----------------------------------------------------------------------------
\* Issuing: the timestamp is taken before the credential is signed.
StartIssue(b, t) ==
    /\ issue[b].step = "unissued" /\ now < MaxNow
    /\ now' = now + 1
    /\ badge' = [badge EXCEPT ![b].template = t, ![b].issuedAt = now + 1]
    /\ issue' = [issue EXCEPT ![b].step = "signing"]
    /\ holders' = [holders EXCEPT ![b] = {owned[t]} \cup (IF moving[t] = NoMove THEN {} ELSE {moving[t].from, moving[t].to})]
    /\ UNCHANGED <<attribution, templateVars, bookVars, losses>>

\* createAssertion: the row, the template read again, and the attribution
InsertBadge(b) ==
    /\ issue[b].step = "signing"
    /\ issue' = [issue EXCEPT ![b].step = "inserted"]
    /\ UNCHANGED <<now, badge, attribution, holders, templateVars, bookVars, losses>>

ReadTemplate(b) ==
    /\ issue[b].step = "inserted"
    /\ issue' = [issue EXCEPT ![b] = [step |-> "snapshot", read |-> owned[badge[b].template]]]
    /\ UNCHANGED <<now, badge, attribution, holders, templateVars, bookVars, losses>>

Snapshot(b) ==
    /\ issue[b].step = "snapshot"
    /\ attribution' = [attribution EXCEPT ![b] = [unit |-> issue[b].read, source |-> "issuance_snapshot"]]
    /\ issue' = [issue EXCEPT ![b] = [step |-> "issued", read |-> Nobody]]
    /\ UNCHANGED <<now, badge, holders, templateVars, bookVars, losses>>

\* A lifecycle event or a revocation; the rows of both are modelled in
\* AssertionLifecycle.
SetState(b, state, reason) ==
    /\ b \in Existing /\ ~badge[b].revoked
    /\ badge' = [badge EXCEPT ![b].toState = state, ![b].reason = reason, ![b].revoked = (state = "revoked")]
    /\ UNCHANGED <<now, issue, attribution, holders, templateVars, bookVars, losses>>

-----------------------------------------------------------------------------
\* transferBadgeTemplateOwnership, one at a time for a template.  Its date may
\* be named by the request, also one that is past or (MaxNow + 1) to come.
InOrder(t, at) == at <= now + 1 /\ \A e \in transfers[t] : e.at < at

StartTransfer(t, unit, at) ==
    /\ moving[t] = NoMove /\ owned[t] # unit /\ now < MaxNow
    /\ at \notin {e.at : e \in transfers[t]}
    /\ at < now \/ at \in {now + 1, MaxNow + 1}
    /\ now' = now + 1
    /\ moving' = [moving EXCEPT ![t] = [from |-> owned[t], to |-> unit, at |-> at]]
    /\ broken' = IF InOrder(t, at) THEN broken ELSE broken \cup {t}
    /\ holders' = [b \in Badges |-> holders[b] \cup
          (IF badge[b].template = t /\ badge[b].issuedAt >= at THEN {unit} ELSE {})]
    /\ UNCHANGED <<badge, issue, attribution, owned, transfers, bookVars, losses>>

MoveOwner(t) ==
    /\ moving[t].to \notin {Nobody, owned[t]}
    /\ owned' = [owned EXCEPT ![t] = moving[t].to]
    /\ holders' = [b \in Badges |-> holders[b] \cup
          (IF badge[b].template = t /\ issue[b].step \in {"signing", "inserted"} THEN {moving[t].to} ELSE {})]
    /\ UNCHANGED <<now, badge, issue, attribution, transfers, moving, broken, bookVars, losses>>

RecordTransfer(t) ==
    /\ moving[t].to = owned[t]
    /\ transfers' = [transfers EXCEPT ![t] = @ \cup {[to |-> moving[t].to, at |-> moving[t].at]}]
    /\ moving' = [moving EXCEPT ![t] = NoMove]
    /\ UNCHANGED <<now, badgeVars, owned, broken, bookVars, losses>>

-----------------------------------------------------------------------------
BeginReport(r) ==
    /\ Idle(r) /\ reports < MaxReports
    /\ reports' = reports + 1
    /\ pcr' = [pcr EXCEPT ![r] = "select"]
    /\ job' = [job EXCEPT ![r] = [NoJob EXCEPT !.type = "report", !.due = Existing]]
    /\ UNCHANGED <<now, badgeVars, templateVars, engaged, losses>>

\* recordAssertionEngagementEvent: a badge without its unit is filled in first.
BeginEvent(r, b, type) ==
    /\ Idle(r) /\ b \in Existing /\ reports < MaxReports
    /\ reports' = reports + 1
    /\ pcr' = [pcr EXCEPT ![r] = IF b \in Attributed THEN "find" ELSE "select"]
    /\ job' = [job EXCEPT ![r] = [NoJob EXCEPT !.type = type, !.badge = b, !.at = now]]
    /\ UNCHANGED <<now, badgeVars, templateVars, engaged, losses>>

AfterBackfill(r) == IF job[r].type = "report" THEN "rows" ELSE "find"

\* The badges without a unit, each with the owner its template has now
SelectMissing(r) ==
    /\ pcr[r] = "select"
    /\ LET missing == {[badge |-> b, owner |-> owned[badge[b].template]] : b \in Existing \ Attributed}
       IN  /\ job' = [job EXCEPT ![r].missing = missing]
           /\ pcr' = [pcr EXCEPT ![r] = IF missing = {} THEN AfterBackfill(r) ELSE "list"]
    /\ UNCHANGED <<now, badgeVars, templateVars, engaged, reports, losses>>

\* The events of each template in turn; what was read of one is kept with it.
ListTransfers(r) ==
    /\ pcr[r] = "list"
    /\ LET wanted == {badge[m.badge].template : m \in job[r].missing}
           left == wanted \ {l.template : l \in job[r].listed}
       IN  IF left = {} THEN pcr' = [pcr EXCEPT ![r] = "upsert"] /\ UNCHANGED job
           ELSE \E t \in left :
                  /\ job' = [job EXCEPT ![r].listed = @ \cup {[template |-> t, events |-> transfers[t]]}]
                  /\ UNCHANGED pcr
    /\ UNCHANGED <<now, badgeVars, templateVars, engaged, reports, losses>>

\* Mutant: a transfer counts for the badges issued before it.
ResolvedLatest(events, m) ==
    LET last == CHOOSE e \in events : \A f \in events : f.at <= e.at
    IN  [unit |-> last.to, source |-> "historical_backfill"]

\* resolveAssertionReportingAttribution: the latest transfer that is not after
\* the issuance, or the owner that was read
Resolved(events, m) ==
    LET known == {e \in events : e.at <= badge[m.badge].issuedAt}
        last == CHOOSE e \in known : \A f \in known : f.at <= e.at
    IN  IF known = {} THEN [unit |-> m.owner, source |-> "current_owner_fallback"]
        ELSE [unit |-> last.to, source |-> "historical_backfill"]

\* The oldest badge first
FillIn(r) ==
    /\ pcr[r] = "upsert"
    /\ \E m \in job[r].missing :
         /\ \A n \in job[r].missing : badge[m.badge].issuedAt <= badge[n.badge].issuedAt
         /\ LET l == CHOOSE x \in job[r].listed : x.template = badge[m.badge].template
            IN  attribution' = [attribution EXCEPT ![m.badge] = Resolved(l.events, m)]
         /\ job' = [job EXCEPT ![r].missing = @ \ {m}]
         /\ pcr' = [pcr EXCEPT ![r] = IF job[r].missing = {m} THEN AfterBackfill(r) ELSE "upsert"]
    /\ UNCHANGED <<now, badge, issue, holders, templateVars, engaged, reports, losses>>

-----------------------------------------------------------------------------
\* The rows the reports summarise: an inner join with the attributions, an
\* outer one with the events
Events(b) == {e \in engaged : e.badge = b}
NoEvent == [id |-> 0, badge |-> Nobody, type |-> "none", at |-> 0]
Row(b, e) ==
    [assertion |-> b, template |-> badge[b].template, unit |-> attribution[b].unit,
     issuedAt |-> badge[b].issuedAt, revoked |-> badge[b].revoked, toState |-> badge[b].toState,
     reason |-> badge[b].reason, event |-> e.type, at |-> e.at, id |-> e.id]
RowsOf(b) == {Row(b, e) : e \in IF Events(b) = {} THEN {NoEvent} ELSE Events(b)}
CurrentRows == UNION {RowsOf(b) : b \in Existing \cap Attributed}

ReadRows(r) ==
    /\ pcr[r] = "rows"
    /\ pcr' = [pcr EXCEPT ![r] = "answered"]
    /\ job' = [job EXCEPT ![r].counted = AssertionsOf(CurrentRows)]
    /\ UNCHANGED <<now, badgeVars, templateVars, engaged, reports, losses>>

\* findAssertionEngagementEventByType: an event of the kind that happens once
\* is looked for first.
FindEvent(r) ==
    /\ pcr[r] = "find"
    /\ LET recorded == \E e \in Events(job[r].badge) : e.type = job[r].type
       IN  pcr' = [pcr EXCEPT ![r] =
                     IF job[r].type \in OneShot /\ recorded THEN "answered" ELSE "insert"]
    /\ UNCHANGED <<now, badgeVars, templateVars, engaged, job, reports, losses>>

\* Also the mutant in which the index of migration 0034 is missing
Inserted(b, type, at) == engaged \cup {[id |-> Cardinality(engaged) + 1, badge |-> b, type |-> type, at |-> at]}

\* The unique index on one-shot events refuses a second one: the call fails.
Engaged(b, type, at) ==
    IF type \in OneShot /\ \E e \in Events(b) : e.type = type THEN engaged ELSE Inserted(b, type, at)

InsertEvent(r) ==
    /\ pcr[r] = "insert"
    /\ engaged' = Engaged(job[r].badge, job[r].type, job[r].at)
    /\ pcr' = [pcr EXCEPT ![r] = "answered"]
    /\ UNCHANGED <<now, badgeVars, templateVars, job, reports, losses>>

Reply(r) ==
    /\ pcr[r] = "answered"
    /\ pcr' = [pcr EXCEPT ![r] = "idle"] /\ job' = [job EXCEPT ![r] = NoJob]
    /\ UNCHANGED <<now, badgeVars, templateVars, engaged, reports, losses>>

-----------------------------------------------------------------------------
\* A worker is gone, or a statement failed.
LoseIssue(b) ==
    /\ issue[b].step \in {"inserted", "snapshot"} /\ losses < MaxLosses
    /\ issue' = [issue EXCEPT ![b] = [step |-> "lost", read |-> Nobody]]
    /\ losses' = losses + 1
    /\ UNCHANGED <<now, badge, attribution, holders, templateVars, bookVars>>

LoseTransfer(t) ==
    /\ moving[t] # NoMove /\ losses < MaxLosses
    /\ moving' = [moving EXCEPT ![t] = NoMove]
    /\ broken' = IF moving[t].to = owned[t] THEN broken \cup {t} ELSE broken
    /\ losses' = losses + 1
    /\ UNCHANGED <<now, badgeVars, owned, transfers, bookVars>>

LoseReporter(r) ==
    /\ pcr[r] \notin {"idle", "answered"} /\ losses < MaxLosses
    /\ pcr' = [pcr EXCEPT ![r] = "idle"] /\ job' = [job EXCEPT ![r] = NoJob]
    /\ losses' = losses + 1
    /\ UNCHANGED <<now, badgeVars, templateVars, engaged, reports>>

IssueStep(b) ==
    \/ \E t \in ReportTemplates : StartIssue(b, t)
    \/ InsertBadge(b) \/ ReadTemplate(b) \/ Snapshot(b) \/ LoseIssue(b)

StateStep(b) ==
    \/ \E reason \in {"none", "appeal_pending"} : SetState(b, "suspended", reason)
    \/ \E state \in {"active", "expired", "revoked"} : SetState(b, state, "none")

TransferStep(t) ==
    \/ \E unit \in OrgUnits, at \in 1..(MaxNow + 1) : StartTransfer(t, unit, at)
    \/ MoveOwner(t) \/ RecordTransfer(t) \/ LoseTransfer(t)

ReporterStep(r) ==
    \/ BeginReport(r) \/ SelectMissing(r) \/ ListTransfers(r) \/ FillIn(r) \/ ReadRows(r)
    \/ \E b \in Badges, type \in Recorded : BeginEvent(r, b, type)
    \/ FindEvent(r) \/ InsertEvent(r) \/ Reply(r) \/ LoseReporter(r)

ReportingNext ==
    \/ \E b \in Badges : IssueStep(b) \/ StateStep(b)
    \/ \E t \in ReportTemplates : TransferStep(t)
    \/ \E r \in Reporters : ReporterStep(r)

ReportingSpec == ReportingInit /\ [][ReportingNext]_reportingVars

-----------------------------------------------------------------------------
ReportingTypeOK ==
    /\ now \in 1..MaxNow
    /\ attribution \in [Badges -> [unit: OrgUnits \cup {Nobody}, source: Sources \cup {"none"}]]
    /\ owned \in [ReportTemplates -> OrgUnits]
    /\ \A t \in ReportTemplates : transfers[t] \subseteq [to: OrgUnits, at: 1..(MaxNow + 1)]
    /\ engaged \subseteq [id: Nat \ {0}, badge: Badges, type: EventTypes, at: 1..MaxNow]
    /\ \A b \in Badges : attribution[b].unit = Nobody <=> attribution[b].source = "none"
    /\ holders \in [Badges -> SUBSET OrgUnits]

\* A badge is counted for a unit that owned its template while it was being
\* issued, or that a transfer says did: whichever of the issuance and the
\* reports wrote last, and whatever was lost, unless a transfer was lost
\* between its two statements or names a date out of order (tests: "keeps historical
\* reporting attribution stable when template ownership changes later").
CountedForAnOwner ==
    \A b \in Attributed : badge[b].template \notin broken => attribution[b].unit \in holders[b]

\* A report counts every badge whose row was there when it began: the inner
\* join with the attributions loses none.
CountsWhatWasIssued ==
    \A r \in Reporters : pcr[r] = "answered" /\ job[r].type = "report" => job[r].due \subseteq job[r].counted

\* However many calls record that a learner claimed a badge, it is claimed once.
ClaimedOnce ==
    \A e, f \in engaged : e.badge = f.badge /\ e.type = f.type /\ e.type \in OneShot => e = f

\* Every report counts the badges that were issued, each for an owner and its claim once.
CountsAreTrue ==
    ReportingTypeOK /\ CountedForAnOwner /\ CountsWhatWasIssued /\ ClaimedOnce
=============================================================================
