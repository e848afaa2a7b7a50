------------------------------ MODULE Governance ------------------------------
(***************************************************************************)
(* Who may issue and edit the badges of a tenant: organisational units,    *)
(* the scopes of members in them, badge templates and the units that own   *)
(* them, and delegated issuing authority grants                            *)
(* (routes/tenant-governance-routes.ts, routes/badge-template-routes.ts,   *)
(* auth/tenant-access.ts and the statements of db/src/index.ts they call). *)
(*                                                                         *)
(* Nothing runs in a transaction: every statement is a step of its own,    *)
(* requests interleave between them, and a request may be lost.            *)
(* Administrators are not modelled as users: a step only one of them may   *)
(* take is taken by a request whose role was checked.                      *)
(***************************************************************************)
EXTENDS Integers, FiniteSets, Sequences

CONSTANTS
    Callers,        \* requests that may overlap
    Users, OrgUnits, Templates,
    Actions,        \* of issue_badge, revoke_badge and manage_lifecycle
    Grants,         \* supply of grant ids
    Asked,          \* what administrators ask grants for
    Times,          \* times a revocation may name
    FirstRoles, FirstUnits, FirstOwners,  \* the tenant when the model begins
    NoUnit, NoUser, NoTemplate, NoGrant, NoAsked,
    RowsReported,   \* rows the database adapter reports for an UPDATE of one row
    MaxTime, MaxAsks, MaxFaults

Roles == {"none", "viewer", "issuer", "admin"}   \* an owner is judged as an admin is
UnitTypes == {"institution", "college", "department", "program"}
Absent == [type |-> "none", parent |-> NoUnit]
UnitRow == [type: UnitTypes, parent: OrgUnits \cup {NoUnit}]

AskedRecord == [delegate: Users, unit: OrgUnits, actions: SUBSET Actions,
                templates: SUBSET Templates, from: Nat, to: Nat]

ASSUME GovernanceAssumption ==
    /\ NoUnit \notin OrgUnits /\ NoGrant \notin Grants
    /\ IsFiniteSet(Callers) /\ IsFiniteSet(Grants)
    /\ Asked \subseteq AskedRecord /\ NoAsked \notin AskedRecord
    /\ \A r \in Asked : r.from < r.to     \* others are answered 422
    /\ Times \subseteq Nat \ {0}
    /\ FirstRoles \in [Users -> Roles]
    /\ FirstUnits \in [OrgUnits -> UnitRow \cup {Absent}]
    /\ FirstOwners \in [Templates -> OrgUnits \cup {NoUnit}]
    /\ RowsReported \in {0, 1}
    /\ MaxTime \in Nat /\ MaxAsks \in Nat /\ MaxFaults \in Nat

VARIABLES
    role,       \* memberships: the role of each user
    units,      \* tenant_org_units
    scopes,      \* tenant_membership_org_unit_scopes
    owner,      \* badge_templates.owner_org_unit_id
    ownership,  \* badge_template_ownership_events, in the order they were written
    grant,      \* delegated_issuing_authority_grants and …_grant_badge_templates
    events,     \* delegated_issuing_authority_grant_events, counted by type
    clock,
    pc, held,   \* where each request is, and its local variables
    crossed,      \* history: templates whose transfers overlapped or were lost half-way
    latest,     \* history: the latest time a revocation named
    requests, faults

people == <<role, units, scopes>>
badges == <<owner, ownership, crossed>>
grants == <<grant, events, latest>>
bounds == <<requests, faults>>
govVars == <<people, badges, grants, clock, pc, held, bounds>>

NoGrantRow == [of |-> NoAsked]

\* of is what was asked, templates the rows written for it; seen is a
\* history: the whole, unrevoked grants its conflict check read.
GrantRow == [of: AskedRecord, templates: SUBSET Templates, revoked: Nat, seen: SUBSET Grants]
Counts == [granted: Nat, revoked: Nat, expired: Nat]

Places == {"idle", "conflicts", "compare", "insertGrant", "insertTemplate", "recordEvent",
           "insertExpired", "readAgain", "found", "update", "readLast", "readGrants",
           "selectGrants", "readTemplates", "decideGrant", "hasScopes",
           "hasAccess", "permitted", "createTemplate", "setOwner", "recordOwner"}

\* The locals of a request. unit is the owner a request read, or the unit it names; due
\* are rows of a SELECT it has yet to go through, read the template rows of its grant.
\* Histories: whether those rows were read whole, and the grants that had ended (were
\* revoked) when the request began.
Locals == [asked: Asked \cup {NoAsked}, grant: Grants \cup {NoGrant}, user: Users \cup {NoUser},
         role: Roles, template: Templates \cup {NoTemplate}, action: Actions \cup {"edit"},
         unit: OrgUnits \cup {NoUnit}, from: OrgUnits \cup {NoUnit}, now: Nat, at: Nat,
         due: SUBSET Grants, next: Places, seen: SUBSET Grants,
         read: SUBSET Templates, whole: BOOLEAN, ended: SUBSET Grants]
NoLocals == [asked |-> NoAsked, grant |-> NoGrant, user |-> NoUser, role |-> "none",
           template |-> NoTemplate, action |-> "edit", unit |-> NoUnit, from |-> NoUnit,
           now |-> 0, at |-> 0, due |-> {}, next |-> "idle", seen |-> {},
           read |-> {}, whole |-> FALSE, ended |-> {}]

Existing == {g \in Grants : grant[g] # NoGrantRow}

GovInit ==
    /\ role = FirstRoles
    /\ units = FirstUnits
    /\ scopes = [u \in Users |-> [o \in OrgUnits |-> "none"]]
    /\ owner = FirstOwners
    /\ ownership = [t \in Templates |->
                      IF FirstOwners[t] = NoUnit THEN <<>>
                      ELSE <<[from |-> NoUnit, to |-> FirstOwners[t]]>>]
    /\ grant = [g \in Grants |-> NoGrantRow]
    /\ events = [g \in Grants |-> [granted |-> 0, revoked |-> 0, expired |-> 0]]
    /\ clock = 1
    /\ pc = [c \in Callers |-> "idle"]
    /\ held = [c \in Callers |-> NoLocals]
    /\ crossed = {}
    /\ latest = 0
    /\ requests = 0
    /\ faults = 0

Goto(c, place, locals) ==
    /\ pc' = [pc EXCEPT ![c] = place]
    /\ held' = [held EXCEPT ![c] = locals]

End(c) == Goto(c, "idle", NoLocals)
Continue(c, place) == Goto(c, place, held[c])

\* Bound: every request that begins, the reads of grants alone left out.
CountRequest == requests < MaxAsks /\ requests' = requests + 1

-----------------------------------------------------------------------------
(* Members, units and scopes                                               *)

\* WITH RECURSIVE org_ancestors: a unit and the units above it.
Ancestors(unit) ==
    LET above[o \in OrgUnits] ==
            {o} \cup (IF units[o].parent = NoUnit THEN {} ELSE above[units[o].parent])
    IN  IF units[unit] = Absent THEN {} ELSE above[unit]

Exists(unit) == unit \in OrgUnits /\ units[unit] # Absent

ParentType == [institution |-> "none", college |-> "institution",
               department |-> "college", program |-> "department"]

\* upsertTenantMembershipRole
RoleAssigned(u, r) == [role EXCEPT ![u] = r]

\* PUT /v1/admin/tenants/:tenantId/users/:userId/role
AssignRole(u, r) ==
    /\ r \notin {"none", role[u]}
    /\ CountRequest
    /\ role' = RoleAssigned(u, r)
    /\ UNCHANGED <<units, scopes, badges, grants, clock, pc, held, faults>>

\* createTenantOrgUnit: its checks, and its INSERT. No statement makes a unit
\* inactive, so that it is active is not modelled.
ParentFits(type, parent) ==
    IF ParentType[type] = "none" THEN parent = NoUnit
    ELSE Exists(parent) /\ units[parent].type = ParentType[type]

UnitAdded(unit, type, parent) == [units EXCEPT ![unit] = [type |-> type, parent |-> parent]]

\* POST /org-units (a slug already taken is answered 409)
CreateUnit(unit, type, parent) ==
    /\ units[unit] = Absent
    /\ ParentFits(type, parent)
    /\ CountRequest
    /\ units' = UnitAdded(unit, type, parent)
    /\ UNCHANGED <<role, scopes, badges, grants, clock, pc, held, faults>>

\* upsertTenantMembershipOrgUnitScope, removeTenantMembershipOrgUnitScope
ScopeSet(u, unit, r) == [scopes EXCEPT ![u][unit] = r]
ScopeRemoved(u, unit) == [scopes EXCEPT ![u][unit] = "none"]

\* PUT /org-unit-scopes/:orgUnitId
AssignScope(u, unit, r) ==
    /\ role[u] # "none" /\ Exists(unit)
    /\ r \notin {"none", scopes[u][unit]}
    /\ CountRequest
    /\ scopes' = ScopeSet(u, unit, r)
    /\ UNCHANGED <<role, units, badges, grants, clock, pc, held, faults>>

\* DELETE /org-unit-scopes/:orgUnitId
RemoveScope(u, unit) ==
    /\ scopes[u][unit] # "none"
    /\ CountRequest
    /\ scopes' = ScopeRemoved(u, unit)
    /\ UNCHANGED <<role, units, badges, grants, clock, pc, held, faults>>

-----------------------------------------------------------------------------
(* Expiry is recorded by whoever reads grants: a SELECT of the ended ones  *)
(* without an event, then an INSERT for each.                              *)

Due(now) ==
    {g \in Existing : /\ grant[g].revoked = 0
                      /\ grant[g].of.to < now
                      /\ events[g].expired = 0}

ReadExpired(c, now, next, locals) ==
    IF Due(now) = {} THEN Goto(c, next, [locals EXCEPT !.now = now])
    ELSE Goto(c, "insertExpired",
              [locals EXCEPT !.now = now, !.due = Due(now), !.next = next])

InsertExpired(c) ==
    /\ pc[c] = "insertExpired"
    /\ \E g \in held[c].due :
        LET left == held[c].due \ {g}
            next == IF left = {} THEN held[c].next ELSE "insertExpired"
        IN  /\ events' = [events EXCEPT ![g].expired = @ + 1]
            /\ IF next = "idle" THEN End(c)
               ELSE Goto(c, next, [held[c] EXCEPT !.due = left])
    /\ UNCHANGED <<people, badges, grant, latest, clock, bounds>>

\* GET /issuing-authority-grants and …/events
ListGrants(c) ==
    /\ pc[c] = "idle"
    /\ IF Due(clock) = {} THEN UNCHANGED <<pc, held>>
       ELSE ReadExpired(c, clock, "idle", NoLocals)
    /\ UNCHANGED <<people, badges, grants, clock, bounds>>

-----------------------------------------------------------------------------
(* POST /issuing-authority-grants: createDelegatedIssuingAuthorityGrant    *)

\* Bound: a creation begins while the supply of ids lasts for all under way.
Creating == {c \in Callers : pc[c] \in {"conflicts", "compare", "insertGrant"}}
MoreGrants == Cardinality(Existing) + Cardinality(Creating) < Cardinality(Grants)

\* The delegate is a member, the unit exists, the templates belong below it.
Grantable(r) ==
    /\ role[r.delegate] # "none"
    /\ Exists(r.unit)
    /\ \A t \in r.templates : Exists(owner[t]) /\ r.unit \in Ancestors(owner[t])

BeginGrant(c, r) ==
    /\ pc[c] = "idle"
    /\ CountRequest
    /\ MoreGrants
    /\ Grantable(r)
    /\ Goto(c, "conflicts", [NoLocals EXCEPT !.asked = r])
    /\ UNCHANGED <<people, badges, grants, clock, faults>>

Overlap(a, b) == a = {} \/ b = {} \/ a \cap b # {}

\* The SELECT of grants that overlap in time. Its rows without a common action are passed over.
Overlapping(g, r) ==
    /\ grant[g].of.delegate = r.delegate
    /\ grant[g].of.unit = r.unit
    /\ grant[g].revoked = 0
    /\ grant[g].of.from < r.to /\ grant[g].of.to > r.from
    /\ grant[g].of.actions \cap r.actions # {}

Whole(g) == events[g].granted > 0

CheckConflicts(c) ==
    /\ pc[c] = "conflicts"
    /\ LET rows == {g \in Existing : Overlapping(g, held[c].asked)}
       IN  Goto(c, IF rows = {} THEN "insertGrant" ELSE "compare",
                [held[c] EXCEPT !.due = rows,
                                !.seen = {g \in Existing : Whole(g) /\ grant[g].revoked = 0}])
    /\ UNCHANGED <<people, badges, grants, clock, bounds>>

\* Mutant: a grant for every template conflicts with none that names some.
ConflictsNamed(g, r) == grant[g].templates \cap r.templates # {}

\* hasDelegatedGrantTemplateScopeOverlap
Conflicts(g, r) == Overlap(grant[g].templates, r.templates)

\* The template rows of each row of the SELECT are read, and compared, in turn.
CompareGrant(c) ==
    /\ pc[c] = "compare"
    /\ \E g \in held[c].due :
        LET left == held[c].due \ {g}
        IN  IF Conflicts(g, held[c].asked) THEN End(c)
            ELSE Goto(c, IF left = {} THEN "insertGrant" ELSE "compare",
                      [held[c] EXCEPT !.due = left])
    /\ UNCHANGED <<people, badges, grants, clock, bounds>>

\* Template rows follow one at a time, then the granted event.
AfterRow(given, present) == IF present = given.templates THEN "recordEvent" ELSE "insertTemplate"

InsertGrant(c) ==
    /\ pc[c] = "insertGrant"
    /\ LET g == CHOOSE g \in Grants : g \notin Existing
           r == held[c].asked
       IN  /\ grant' = [grant EXCEPT ![g] = [of |-> r, templates |-> {}, revoked |-> 0,
                                             seen |-> held[c].seen]]
           /\ Goto(c, AfterRow(r, {}), [held[c] EXCEPT !.grant = g, !.now = clock, !.seen = {}])
    /\ UNCHANGED <<people, badges, events, latest, clock, bounds>>

InsertTemplate(c) ==
    /\ pc[c] = "insertTemplate"
    /\ LET g == held[c].grant
       IN  \E t \in held[c].asked.templates \ grant[g].templates :
            LET present == grant[g].templates \cup {t}
            IN  /\ grant' = [grant EXCEPT ![g].templates = present]
                /\ Continue(c, AfterRow(held[c].asked, present))
    /\ UNCHANGED <<people, badges, events, latest, clock, bounds>>

\* createDelegatedIssuingAuthorityGrantEvent: granted after a creation, and
\* revoked after an UPDATE that is reported to have written a row.
RecordEvent(c) ==
    /\ pc[c] = "recordEvent"
    /\ LET g == held[c].grant
       IN  events' = IF held[c].asked = NoAsked THEN [events EXCEPT ![g].revoked = @ + 1]
                     ELSE [events EXCEPT ![g].granted = @ + 1]
    /\ Continue(c, "readLast")
    /\ UNCHANGED <<people, badges, grant, latest, clock, bounds>>

\* The read of the grant that answers a creation or a revocation.
ReadLast(c) ==
    /\ pc[c] = "readLast"
    /\ IF Due(held[c].now) = {} THEN End(c)
       ELSE ReadExpired(c, held[c].now, "idle", NoLocals)
    /\ UNCHANGED <<people, badges, grants, clock, bounds>>

-----------------------------------------------------------------------------
(* POST /issuing-authority-grants/:grantId/revoke. A request may name the  *)
(* time of revocation, which is then also the time expiry is judged by.    *)

BeginRevoke(c, g, when) ==
    /\ pc[c] = "idle"
    /\ CountRequest
    /\ g \in Existing
    /\ latest' = IF when > latest THEN when ELSE latest
    /\ ReadExpired(c, clock, "readAgain", [NoLocals EXCEPT !.grant = g, !.at = when])
    /\ UNCHANGED <<people, badges, grant, events, clock, faults>>
ReadAgain(c) ==
    /\ pc[c] = "readAgain"
    /\ ReadExpired(c, held[c].at, "found", held[c])
    /\ UNCHANGED <<people, badges, grants, clock, bounds>>

\* A grant found revoked is answered already_revoked.
Found(c) ==
    /\ pc[c] = "found"
    /\ IF grant[held[c].grant].revoked # 0 THEN End(c) ELSE Continue(c, "update")
    /\ UNCHANGED <<people, badges, grants, clock, bounds>>

\* UPDATE … SET revoked_at = ? WHERE … AND revoked_at IS NULL
RevokedRow(row, when) == IF row.revoked = 0 THEN [row EXCEPT !.revoked = when] ELSE row

Update(c) ==
    /\ pc[c] = "update"
    /\ LET g == held[c].grant
           changed == IF grant[g].revoked = 0 THEN RowsReported ELSE 0
       IN  /\ grant' = [grant EXCEPT ![g] = RevokedRow(@, held[c].at)]
           /\ Goto(c, IF changed > 0 THEN "recordEvent" ELSE "readLast",
                   [held[c] EXCEPT !.now = held[c].at])
    /\ UNCHANGED <<people, badges, events, latest, clock, bounds>>

-----------------------------------------------------------------------------
(* Permission. Issuing a badge and changing its state ask for a delegated  *)
(* grant or a scope; editing or creating a template asks for a scope.      *)

\* The role and the template's owner are read; what follows judges these.
BeginUse(c, u, t, action) ==
    /\ pc[c] = "idle"
    /\ CountRequest
    /\ role[u] # "none" /\ owner[t] # NoUnit
    /\ LET locals == [NoLocals EXCEPT !.user = u, !.role = role[u], !.template = t,
                                    !.action = action, !.unit = owner[t],
                                    !.ended = {g \in Existing : grant[g].revoked # 0}]
       IN  IF role[u] = "admin" THEN Goto(c, "permitted", locals)
           ELSE Goto(c, "readGrants", locals)
    /\ UNCHANGED <<people, badges, grants, clock, faults>>

\* PATCH of a template; POST when it does not exist yet.
BeginEdit(c, u, t, unit) ==
    /\ pc[c] = "idle"
    /\ CountRequest
    /\ role[u] \in {"admin", "issuer"}
    /\ unit = owner[t] \/ owner[t] = NoUnit
    /\ Goto(c, IF role[u] = "admin" THEN "permitted" ELSE "hasScopes",
            [NoLocals EXCEPT !.user = u, !.role = role[u], !.template = t, !.unit = unit])
    /\ UNCHANGED <<people, badges, grants, clock, faults>>

ReadGrants(c) ==
    /\ pc[c] = "readGrants"
    /\ ReadExpired(c, clock, "selectGrants", held[c])
    /\ UNCHANGED <<people, badges, grants, clock, bounds>>

\* findActiveDelegatedIssuingAuthorityGrantForAction: a SELECT of the grants that are not
\* revoked; of its rows those for another action are passed over.
Active(g, a) ==
    /\ grant[g].of.delegate = a.user
    /\ grant[g].revoked = 0
    /\ grant[g].of.from <= a.now /\ grant[g].of.to >= a.now
    /\ a.action \in grant[g].of.actions

\* Without a grant an issuer's scopes decide.
WithoutGrant(c) ==
    IF held[c].role = "issuer"
    THEN Goto(c, "hasScopes", [held[c] EXCEPT !.due = {}, !.grant = NoGrant, !.read = {},
                                              !.whole = FALSE, !.ended = {}])
    ELSE End(c)

NextRow(c, left) ==
    IF left = {} THEN WithoutGrant(c)
    ELSE Goto(c, "readTemplates", [held[c] EXCEPT !.due = left, !.grant = NoGrant,
                                                  !.read = {}, !.whole = FALSE])

SelectGrants(c) ==
    /\ pc[c] = "selectGrants"
    /\ NextRow(c, {g \in Existing : Active(g, held[c])})
    /\ UNCHANGED <<people, badges, grants, clock, bounds>>

\* mapDelegatedIssuingAuthorityGrantRow: the template rows of the next grant, the earliest
\* to start (ORDER BY starts_at).
ReadTemplates(c) ==
    /\ pc[c] = "readTemplates"
    /\ \E g \in held[c].due :
        /\ \A h \in held[c].due : grant[g].of.from <= grant[h].of.from
        /\ Goto(c, "decideGrant", [held[c] EXCEPT !.due = @ \ {g}, !.grant = g,
                                                  !.read = grant[g].templates, !.whole = Whole(g)])
    /\ UNCHANGED <<people, badges, grants, clock, bounds>>

\* Mutant: an empty list of templates and a list without this one are not told apart.
CoversAnyTemplate(a) == grant[a.grant].of.unit \in Ancestors(a.unit)

Covers(a) ==
    /\ grant[a.grant].of.unit \in Ancestors(a.unit)
    /\ a.read = {} \/ a.template \in a.read

\* The query for the units above the template's owner, and the decision on the row read.
DecideGrant(c) ==
    /\ pc[c] = "decideGrant"
    /\ IF Covers(held[c]) THEN Continue(c, "permitted") ELSE NextRow(c, held[c].due)
    /\ UNCHANGED <<people, badges, grants, clock, bounds>>

\* An issuer without any scope is an issuer everywhere (allowWhenNoScopes).
Scoped(u) == \E o \in OrgUnits : scopes[u][o] # "none"

HasScopes(c) ==
    /\ pc[c] = "hasScopes"
    /\ Continue(c, IF Scoped(held[c].user) THEN "hasAccess" ELSE "permitted")
    /\ UNCHANGED <<people, badges, grants, clock, bounds>>

\* hasTenantMembershipOrgUnitAccess with requiredRole issuer
Access(u, unit) == \E o \in Ancestors(unit) : scopes[u][o] \in {"issuer", "admin"}

HasAccess(c) ==
    /\ pc[c] = "hasAccess"
    /\ IF Access(held[c].user, held[c].unit) THEN Continue(c, "permitted") ELSE End(c)
    /\ UNCHANGED <<people, badges, grants, clock, bounds>>

\* What is issued or edited is modelled elsewhere; a template is created here.
UsePermission(c) ==
    /\ pc[c] = "permitted"
    /\ IF owner[held[c].template] = NoUnit /\ Exists(held[c].unit)
       THEN Continue(c, "createTemplate") ELSE End(c)
    /\ UNCHANGED <<people, badges, grants, clock, bounds>>

-----------------------------------------------------------------------------
(* Templates and their owners: the owner is one row, its history another   *)
(* statement.                                                              *)

Moving(t) == {c \in Callers : held[c].template = t /\ pc[c] \in {"setOwner", "recordOwner"}}

\* createBadgeTemplate
CreateTemplate(c) ==
    /\ pc[c] = "createTemplate"
    /\ LET t == held[c].template
       IN  IF owner[t] # NoUnit THEN End(c) /\ UNCHANGED owner
           ELSE /\ owner' = [owner EXCEPT ![t] = held[c].unit]
                /\ Continue(c, "recordOwner")
    /\ UNCHANGED <<people, ownership, crossed, grants, clock, bounds>>

\* transferBadgeTemplateOwnership: already_owned otherwise
Transfers(t, unit) == owner[t] # unit

BeginTransfer(c, t, unit) ==
    /\ pc[c] = "idle"
    /\ owner[t] # NoUnit /\ Exists(unit)
    /\ Transfers(t, unit)
    /\ CountRequest
    /\ crossed' = IF Moving(t) = {} THEN crossed ELSE crossed \cup {t}
    /\ Goto(c, "setOwner", [NoLocals EXCEPT !.template = t, !.unit = unit, !.from = owner[t]])
    /\ UNCHANGED <<people, owner, ownership, grants, clock, faults>>

SetOwner(c) ==
    /\ pc[c] = "setOwner"
    /\ owner' = [owner EXCEPT ![held[c].template] = held[c].unit]
    /\ Continue(c, "recordOwner")
    /\ UNCHANGED <<people, ownership, crossed, grants, clock, bounds>>

\* Mutant: the event names the owner the row now has as the one before.
OwnerEventOfRow(c) == [from |-> owner[held[c].template], to |-> held[c].unit]

OwnerEvent(c) == [from |-> held[c].from, to |-> held[c].unit]

RecordOwner(c) ==
    /\ pc[c] = "recordOwner"
    /\ ownership' = [ownership EXCEPT ![held[c].template] = Append(@, OwnerEvent(c))]
    /\ End(c)
    /\ UNCHANGED <<people, owner, crossed, grants, clock, bounds>>

-----------------------------------------------------------------------------
Tick ==
    /\ clock < MaxTime
    /\ clock' = clock + 1
    /\ UNCHANGED <<people, badges, grants, pc, held, bounds>>

\* The worker running a request is gone, or a statement failed.
Lose(c) ==
    /\ pc[c] # "idle"
    /\ faults < MaxFaults
    /\ faults' = faults + 1
    /\ crossed' = IF pc[c] = "recordOwner" THEN crossed \cup {held[c].template} ELSE crossed
    /\ End(c)
    /\ UNCHANGED <<people, owner, ownership, grants, clock, requests>>

Tenancy ==
    \/ \E u \in Users, r \in Roles : AssignRole(u, r)
    \/ \E unit \in OrgUnits, type \in UnitTypes, parent \in OrgUnits \cup {NoUnit} :
          CreateUnit(unit, type, parent)
    \/ \E u \in Users, unit \in OrgUnits, r \in Roles : AssignScope(u, unit, r)
    \/ \E u \in Users, unit \in OrgUnits : RemoveScope(u, unit)
    \/ Tick

Delegating(c) ==
    \/ ListGrants(c) \/ InsertExpired(c)
    \/ \E r \in Asked : BeginGrant(c, r)
    \/ CheckConflicts(c) \/ CompareGrant(c)
    \/ InsertGrant(c) \/ InsertTemplate(c) \/ RecordEvent(c) \/ ReadLast(c)
    \/ \E g \in Grants, when \in Times : BeginRevoke(c, g, when)
    \/ ReadAgain(c) \/ Found(c) \/ Update(c)

Permitting(c) ==
    \/ \E u \in Users, t \in Templates, action \in Actions : BeginUse(c, u, t, action)
    \/ \E u \in Users, t \in Templates, unit \in OrgUnits : BeginEdit(c, u, t, unit)
    \/ ReadGrants(c) \/ SelectGrants(c) \/ ReadTemplates(c) \/ DecideGrant(c)
    \/ HasScopes(c) \/ HasAccess(c) \/ UsePermission(c)

Owning(c) ==
    \/ \E t \in Templates, unit \in OrgUnits : BeginTransfer(c, t, unit)
    \/ CreateTemplate(c) \/ SetOwner(c) \/ RecordOwner(c)

GovNext ==
    \/ Tenancy
    \/ \E c \in Callers : Delegating(c) \/ Permitting(c) \/ Owning(c) \/ Lose(c)

GovSpec == GovInit /\ [][GovNext]_govVars

-----------------------------------------------------------------------------
GovTypeOK ==
    /\ role \in [Users -> Roles]
    /\ units \in [OrgUnits -> UnitRow \cup {Absent}]
    /\ scopes \in [Users -> [OrgUnits -> Roles]]
    /\ owner \in [Templates -> OrgUnits \cup {NoUnit}]
    /\ ownership \in [Templates -> Seq([from: OrgUnits \cup {NoUnit}, to: OrgUnits])]
    /\ grant \in [Grants -> GrantRow \cup {NoGrantRow}]
    /\ events \in [Grants -> Counts]
    /\ clock \in Nat /\ latest \in Nat
    /\ pc \in [Callers -> Places] /\ held \in [Callers -> Locals]
    /\ crossed \subseteq Templates
    /\ requests \in Nat /\ faults \in Nat

\* A grant whose granted event is written has all the template rows it was
\* given: with none of them it would allow every template of its unit, with
\* some of them less than was given. The rows are inserted one by one after
\* the grant (createDelegatedIssuingAuthorityGrant).
GrantedIsWhole ==
    \A g \in Existing : Whole(g) => grant[g].templates = grant[g].of.templates

\* Two unrevoked grants of a delegate in a unit that overlap in time, action
\* and template were created by overlapping requests: neither conflict check
\* read the other one whole.
Clash(a, b) ==
    /\ a.delegate = b.delegate /\ a.unit = b.unit
    /\ a.from < b.to /\ b.from < a.to
    /\ a.actions \cap b.actions # {}
    /\ Overlap(a.templates, b.templates)

ConflictsOverlapped ==
    \A g, h \in Existing :
        (/\ g # h /\ Whole(g) /\ Whole(h)
         /\ grant[g].revoked = 0 /\ grant[h].revoked = 0
         /\ Clash(grant[g].of, grant[h].of))
        => g \notin grant[h].seen /\ h \notin grant[g].seen

\* No grant has an expired event before its end, unless a revocation named a
\* later time than now (it judges the expiry of every grant of the tenant by
\* that time).
ExpiredHasEnded ==
    \A g \in Existing : events[g].expired > 0 =>
        \/ grant[g].of.to < clock
        \/ grant[g].of.to < latest

\* However often grants are read, a grant's expiry is recorded at most once
\* by each of the requests that read it before the first event was written.
ExpiredOncePerReader == \A g \in Grants : events[g].expired <= Cardinality(Callers)

\* The grants on record are what administrators gave, and their events what became of them.
GrantsAreSound ==
    /\ GovTypeOK
    /\ GrantedIsWhole
    /\ ConflictsOverlapped
    /\ ExpiredHasEnded
    /\ ExpiredOncePerReader

\* A use is permitted through a grant only for what the administrator asked
\* it for - delegate, unit, action, period, template - and not once it was
\* revoked before the use began, though grants, their template rows and the
\* units are read one after the other while others write them. A grant revoked
\* between the reads still permits; and one whose creation had not ended when
\* its template rows were read may allow more templates.
GrantPermits(g, a, now) ==
    LET r == grant[g].of
    IN  /\ r.delegate = a.user /\ a.action \in r.actions
        /\ r.from <= now /\ r.to >= a.now
        /\ g \notin a.ended
        /\ r.unit \in Ancestors(a.unit)
        /\ a.whole /\ r.templates # {} => a.template \in r.templates

\* Whoever issues or edits without being an administrator and without a grant
\* was an issuer when the request began, and either had no scope at all or
\* one as issuer or admin in the template's unit or in a unit above it.
RolePermits(a) ==
    \/ a.role = "admin"
    \/ a.role = "issuer" /\ \A o \in OrgUnits : scopes[a.user][o] = "none"
    \/ a.role = "issuer" /\ \E o \in Ancestors(a.unit) : scopes[a.user][o] \in {"issuer", "admin"}

\* Who is permitted something was given it, by a grant or by role and scope; and a revoked
\* grant stays revoked, at the time the first revocation named.
PermittedAsGiven ==
    [][/\ \A c \in Callers : pc'[c] = "permitted" /\ pc[c] # "permitted" =>
            LET a == held'[c]
            IN  IF a.grant = NoGrant THEN RolePermits(a) ELSE GrantPermits(a.grant, a, clock)
       /\ \A g \in Existing :
            grant[g].revoked # 0 => grant'[g].revoked = grant[g].revoked]_govVars

\* A template whose transfers neither overlapped nor were lost half-way has a
\* history that is a chain and ends at its owner.
OwnershipExplained ==
    \A t \in Templates : t \notin crossed /\ Moving(t) = {} /\ owner[t] # NoUnit =>
        LET e == ownership[t]
        IN  /\ Len(e) > 0 /\ e[Len(e)].to = owner[t] /\ e[1].from = NoUnit
            /\ \A i \in 1..(Len(e) - 1) : e[i + 1].from = e[i].to /\ e[i + 1].to # e[i].to
===============================================================================
