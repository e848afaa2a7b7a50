---------------------------- MODULE Administration ----------------------------
(***************************************************************************)
(* The records administrators keep and the audit log of what they did:     *)
(* tenants, signing registrations, badge templates put by id, their        *)
(* archiving and images, membership roles, LTI issuer registrations,       *)
(* dedicated database requests and API keys (routes/admin-routes.ts,       *)
(* routes/tenant-governance-routes.ts, routes/badge-template-routes.ts),   *)
(* and the queueing of jobs with an API key (routes/queue-routes.ts).      *)
(*                                                                         *)
(* A request is a sequence of statements without a transaction: what it    *)
(* read first, its write, the row read back and the audit entry. Requests  *)
(* overlap between them, and one may be lost after any of them.            *)
(***************************************************************************)
EXTENDS Integers, Sequences, FiniteSets, SqlAdapter

CONSTANTS
    Requests,       \* administrators' requests that may overlap
    Tenants, Members, Patterns, Issuers, Provisionings, ApiKeys,  \* ids of the records
    Signing,        \* id of the tenant's signing registration
    Slugs, KeyIds, Units, LtiClients, Endpoints, Assets, Scopes,
    NoRow, Unset,
    MaxRequests, MaxAudit, MaxDay, MaxLost

Targets == Tenants \cup Members \cup Patterns \cup Issuers \cup Provisionings \cup ApiKeys
             \cup {Signing}
YesNo == {"yes", "no"}
MemberRoles == {"viewer", "issuer", "admin", "owner"}

Tables == <<Tenants, Members, Patterns, Issuers, Provisionings, ApiKeys, {Signing}>>

\* An institution's unit is there before any template (ensureInstitutionOrgUnitForTenant).
ASSUME AdministrationAssumption ==
    /\ \A i, j \in 1..7 : i # j => Tables[i] \cap Tables[j] = {}
    /\ Units # {} /\ Unset \notin Units \cup Endpoints \cup Assets
    /\ {MaxRequests, MaxAudit, MaxDay, MaxLost} \subseteq Nat

\* The columns of each table that a request, or a property, tells apart.
RowsOf(t) ==
    CASE t \in Tenants -> [slug: Slugs, active: YesNo]
      [] t = Signing -> [keyId: KeyIds, private: YesNo]
      [] t \in Members -> [role: MemberRoles]
      [] t \in Patterns -> [owner: Units, archived: YesNo, image: Assets \cup {Unset}]
      [] t \in Issuers -> [tenant: Tenants, client: LtiClients, endpoint: Endpoints \cup {Unset}]
      [] t \in Provisionings -> [status: {"pending", "provisioned", "failed", "canceled"}]
      [] t \in ApiKeys -> [tenant: Tenants, scopes: SUBSET Scopes, by: Members,
                           expires: 0..MaxDay, revoked: 0..MaxDay + 1]

ASSUME NoRowAssumption == NoRow \notin Targets /\ \A t \in Targets : NoRow \notin RowsOf(t)

Ops == {"put", "delete", "resolve", "revoke", "archive", "unarchive", "upload", "use"}

VARIABLES
    rows,       \* every record, by id
    initials,   \* badge_template_ownership_events of reason initial_assignment: their units
    stored,     \* images in the object store
    audit,      \* audit_logs, in the order they were written
    queued,     \* jobs queued with an API key
    day,
    stage, req, \* where each request is, and its locals
    counted,    \* whether the driver reports the rows an UPDATE or DELETE changed
    mixed,      \* history: records whose requests overlapped, were lost or not told
    begun, lost

adminLog == <<audit, queued>>
adminVars == <<rows, initials, stored, adminLog, day, stage, req, counted, mixed, begun, lost>>

Stages == {"idle", "previous", "store", "write", "back", "initial", "audit",
           "find", "touch", "enqueue"}
Idle == [target |-> NoRow, op |-> "put", input |-> NoRow, seen |-> NoRow, row |-> NoRow,
         dead |-> FALSE]

Expired(row) == row.expires # 0 /\ row.expires <= day
Dead(k) == rows[k] = NoRow \/ rows[k].revoked # 0 \/ Expired(rows[k])

\* Mutant: a key is refused from the date of its revocation on.
LiveUntilDate(k) == /\ rows[k] # NoRow /\ ~Expired(rows[k])
                    /\ rows[k].revoked = 0 \/ rows[k].revoked > day
\* findActiveTenantApiKeyByHash: a revocation date counts at once, whatever it says.
LiveKey(k) == rows[k] # NoRow /\ rows[k].revoked = 0 /\ ~Expired(rows[k])

AdminInit ==
    /\ rows = [t \in Targets |-> NoRow]
    /\ initials = [t \in Patterns |-> <<>>]
    /\ stored = {}
    /\ audit = <<>>
    /\ queued = {}
    /\ day = 0
    /\ stage = [r \in Requests |-> "idle"]
    /\ req = [r \in Requests |-> Idle]
    /\ counted \in BOOLEAN
    /\ mixed = {}
    /\ begun = 0
    /\ lost = 0

To(r, s, locals) ==
    /\ stage' = [stage EXCEPT ![r] = s]
    /\ req' = [req EXCEPT ![r] = locals]
Done(r) == To(r, "idle", Idle)
OnTarget(t) == {r \in Requests : stage[r] # "idle" /\ req[r].target = t}
Reported(changed) == IF counted THEN RowsChanged(changed, FALSE) ELSE RowsWritten(changed, FALSE)

-----------------------------------------------------------------------------
(* A request on a record                                                   *)

Start(r, t, op, first, input) ==
    /\ stage[r] = "idle" /\ begun < MaxRequests
    /\ To(r, first, [target |-> t, op |-> op, input |-> input, seen |-> NoRow, row |-> NoRow,
                     dead |-> t \in ApiKeys /\ Dead(t)])
    /\ mixed' = IF OnTarget(t) = {} \/ op = "use" THEN mixed ELSE mixed \cup {t}
    /\ begun' = begun + 1
    /\ UNCHANGED <<rows, initials, stored, adminLog, day, counted, lost>>

\* A column left out is Unset.
PutTenant(r) ==
    \E t \in Tenants, input \in [slug: Slugs, active: YesNo \cup {"unset"}] :
      Start(r, t, "put", "write", input)

PutSigningRegistration(r) ==
    \E input \in RowsOf(Signing) : Start(r, Signing, "put", "write", input)

PutTemplate(r) ==
    \E t \in Patterns, input \in [owner: Units \cup {Unset}] :
      Start(r, t, "put", "previous", input)

PutRole(r) ==
    \E u \in Members, input \in [role: MemberRoles] : Start(r, u, "put", "previous", input)

PutIssuer(r) ==
    \E i \in Issuers : \E input \in RowsOf(i) : Start(r, i, "put", "write", input)

DeleteIssuer(r) ==
    \E i \in Issuers : Start(r, i, "delete", "previous", NoRow)

\* The forms of the administration page do what the two routes above do.
PutIssuerByForm(r) == PutIssuer(r)
DeleteIssuerByForm(r) == DeleteIssuer(r)

\* A provisioning request and a key are created under a fresh id.
Fresh(t) == rows[t] = NoRow /\ OnTarget(t) = {}

RequestDedicatedDb(r) ==
    \E p \in Provisionings : Fresh(p) /\ Start(r, p, "put", "write", [status |-> "pending"])

ResolveDedicatedDb(r) ==
    \E p \in Provisionings, status \in {"provisioned", "failed", "canceled"} :
      rows[p] # NoRow /\ Start(r, p, "resolve", "write", [status |-> status])

CreateApiKey(r) ==
    \E k \in ApiKeys, input \in [tenant: Tenants, scopes: SUBSET Scopes \ {{}}, by: Members,
                                 expires: 0..MaxDay] :
      Fresh(k) /\ Start(r, k, "put", "write", input)

\* The date may be any, a future one too.
RevokeApiKey(r) ==
    \E k \in ApiKeys, at \in 1..MaxDay + 1 :
      rows[k] # NoRow /\ Start(r, k, "revoke", "write", [revoked |-> at])

Archive(r) == \E t \in Patterns : Start(r, t, "archive", "write", NoRow)
Unarchive(r) == \E t \in Patterns : Start(r, t, "unarchive", "write", NoRow)

\* The checks of the file's size and type come before the object is stored.
UploadImage(r) == \E t \in Patterns : Start(r, t, "upload", "previous", NoRow)

\* /v1/programmatic/issue and /revoke, by the scope each requires.
QueueWithKey(r) ==
    \E k \in ApiKeys, input \in [tenant: Tenants, scope: Scopes \ {"*"}] :
      rows[k] # NoRow /\ Start(r, k, "use", "find", input)

\* The row read before the write: the role a member had, the template put again, the
\* registration a deletion is audited under, the template an image is uploaded for.
ReadPrevious(r) ==
    /\ stage[r] = "previous"
    /\ LET row == rows[req[r].target]
           on == [req[r] EXCEPT !.seen = row]
       IN  \/ /\ req[r].op = "upload"
              /\ IF row = NoRow THEN Done(r) ELSE To(r, "store", on)
           \/ /\ req[r].op = "put" /\ req[r].target \in Patterns
              /\ IF row # NoRow /\ req[r].input.owner \notin {Unset, row.owner}
                 THEN Done(r)                       \* 422: ownership is transferred, not put
                 ELSE To(r, "write", on)
           \/ /\ req[r].op = "delete" \/ req[r].target \in Members
              /\ To(r, "write", on)
    /\ UNCHANGED <<rows, initials, stored, adminLog, day, counted, mixed, begun, lost>>

\* storeBadgeTemplateImage: the object is stored under a fresh id before any row names it.
StoreImage(r) ==
    /\ stage[r] = "store"
    /\ \E a \in Assets \ stored :
         /\ stored' = stored \cup {a}
         /\ To(r, "write", [req[r] EXCEPT !.input = a])
    /\ UNCHANGED <<rows, initials, adminLog, day, counted, mixed, begun, lost>>

InstitutionUnit == CHOOSE u \in Units : TRUE   \* ensureInstitutionOrgUnitForTenant

\* What INSERT … ON CONFLICT DO UPDATE leaves of each table.
TenantRow(input) ==
    [slug |-> input.slug, active |-> IF input.active = "unset" THEN "yes" ELSE input.active]

SigningRow(input) == input

\* The owner stays; the archive flag and what is left out are reset.
TemplateRow(t, input) ==
    [owner |-> IF rows[t] # NoRow THEN rows[t].owner
               ELSE IF input.owner = Unset THEN InstitutionUnit ELSE input.owner,
     archived |-> "no", image |-> Unset]

RoleRow(input) == input

\* An endpoint that is left out stays as it is.
IssuerRow(i, input) ==
    [input EXCEPT !.endpoint = IF @ = Unset /\ rows[i] # NoRow THEN rows[i].endpoint ELSE @]

ProvisioningRow(input) == input

ApiKeyRow(input) ==
    [tenant |-> input.tenant, scopes |-> input.scopes, by |-> input.by,
     expires |-> input.expires, revoked |-> 0]

PutRow(t, input) ==
    CASE t \in Tenants -> TenantRow(input)
      [] t = Signing -> SigningRow(input)
      [] t \in Patterns -> TemplateRow(t, input)
      [] t \in Members -> RoleRow(input)
      [] t \in Issuers -> IssuerRow(t, input)
      [] t \in Provisionings -> ProvisioningRow(input)
      [] t \in ApiKeys -> ApiKeyRow(input)

SlugTaken(t, input) ==
    t \in Tenants /\ \E u \in Tenants \ {t} : rows[u] # NoRow /\ rows[u].slug = input.slug

WritePut(r) ==
    /\ stage[r] = "write" /\ req[r].op = "put"
    /\ LET t == req[r].target
           input == req[r].input
       IN  IF SlugTaken(t, input)
           THEN Done(r) /\ UNCHANGED rows           \* 409
           ELSE /\ rows' = [rows EXCEPT ![t] = PutRow(t, input)]
                /\ To(r, "back", req[r])
    /\ UNCHANGED <<initials, stored, adminLog, day, counted, mixed, begun, lost>>

\* updateBadgeTemplate, setBadgeTemplateArchivedState: an UPDATE by id.
WriteTemplate(r) ==
    /\ stage[r] = "write" /\ req[r].op \in {"archive", "unarchive", "upload"}
    /\ LET t == req[r].target
           changed == IF req[r].op = "upload" THEN [rows[t] EXCEPT !.image = req[r].input]
                      ELSE [rows[t] EXCEPT !.archived = IF req[r].op = "archive" THEN "yes" ELSE "no"]
       IN  rows' = IF rows[t] = NoRow THEN rows ELSE [rows EXCEPT ![t] = changed]
    /\ To(r, "back", req[r])
    /\ UNCHANGED <<initials, stored, adminLog, day, counted, mixed, begun, lost>>

\* Mutant: the WHERE of the resolution does not ask whether it is pending.
ResolvedAgain(row, input) == {[status |-> input.status]}

\* The row each UPDATE or DELETE leaves, in a set: empty when its WHERE matches none.
Resolved(row, input) == IF row.status = "pending" THEN {[status |-> input.status]} ELSE {}

Revoked(row, input) ==
    IF row.revoked = 0 THEN {[row EXCEPT !.revoked = input.revoked]} ELSE {}

Deleted(row) == {NoRow}

Left(t, op, input) ==
    IF rows[t] = NoRow THEN {}
    ELSE CASE op = "resolve" -> Resolved(rows[t], input)
           [] op = "revoke" -> Revoked(rows[t], input)
           [] op = "delete" -> Deleted(rows[t])

\* The rows reported decide whether there is an audit entry, and what is answered. A
\* resolution reads the row back first; a deletion is audited when it had been listed.
WriteEnd(r) ==
    /\ stage[r] = "write" /\ req[r].op \in {"resolve", "revoke", "delete"}
    /\ LET t == req[r].target
           left == Left(t, req[r].op, req[r].input)
           told == Reported(Cardinality(left)) > 0
           next == IF ~told \/ (req[r].op = "delete" /\ req[r].seen = NoRow) THEN "idle"
                   ELSE IF req[r].op = "resolve" THEN "back" ELSE "audit"
       IN  /\ rows' \in IF left = {} THEN {rows} ELSE {[rows EXCEPT ![t] = row] : row \in left}
           /\ To(r, next, IF next = "idle" THEN Idle ELSE [req[r] EXCEPT !.row = rows'[t]])
           /\ mixed' = IF left # {} /\ next = "idle" THEN mixed \cup {t} ELSE mixed
    /\ UNCHANGED <<initials, stored, adminLog, day, counted, begun, lost>>

\* The row as it is now: none is an error, or 404 for a template.
ReadBack(r) ==
    /\ stage[r] = "back"
    /\ LET row == rows[req[r].target]
           first == req[r].op = "put" /\ req[r].target \in Patterns /\ req[r].seen = NoRow
       IN  IF row = NoRow THEN Done(r)
           ELSE To(r, IF first THEN "initial" ELSE "audit", [req[r] EXCEPT !.row = row])
    /\ UNCHANGED <<rows, initials, stored, adminLog, day, counted, mixed, begun, lost>>

RecordInitialOwner(r) ==
    /\ stage[r] = "initial"
    /\ initials' = [initials EXCEPT ![req[r].target] = Append(@, req[r].row.owner)]
    /\ To(r, "audit", req[r])
    /\ UNCHANGED <<rows, stored, adminLog, day, counted, mixed, begun, lost>>

\* Mutant: the entry tells what was asked for.
EntryAsAsked(r) == [target |-> req[r].target, op |-> req[r].op, before |-> req[r].seen,
                    row |-> IF req[r].op = "put" THEN req[r].input ELSE req[r].row]

\* createAuditLog. before is the metadata's previousRole; a deletion names the tenant listed.
EntryOf(r) == [target |-> req[r].target, op |-> req[r].op, before |-> req[r].seen,
               row |-> req[r].row]

WriteAudit(r) ==
    /\ stage[r] = "audit" /\ Len(audit) < MaxAudit
    /\ audit' = Append(audit, EntryOf(r))
    /\ Done(r)
    /\ UNCHANGED <<rows, initials, stored, queued, day, counted, mixed, begun, lost>>

\* listAuditLogs: the places of the entries on one record, oldest first.
EntriesOf(t) == {i \in DOMAIN audit : audit[i].target = t}

-----------------------------------------------------------------------------
(* A job queued with an API key                                            *)

HasScope(row, scope) == scope \in row.scopes \/ "*" \in row.scopes

FindKey(r) ==
    /\ stage[r] = "find"
    /\ LET k == req[r].target
       IN  IF LiveKey(k) /\ rows[k].tenant = req[r].input.tenant
                /\ HasScope(rows[k], req[r].input.scope)
           THEN To(r, "touch", [req[r] EXCEPT !.row = rows[k]])
           ELSE Done(r)                             \* 401, 403
    /\ UNCHANGED <<rows, initials, stored, adminLog, day, counted, mixed, begun, lost>>

\* touchTenantApiKeyLastUsedAt writes the time of use alone, which nothing reads back.
TouchKey(r) ==
    /\ stage[r] = "touch"
    /\ To(r, "enqueue", req[r])
    /\ UNCHANGED <<rows, initials, stored, adminLog, day, counted, mixed, begun, lost>>

EnqueueWithKey(r) ==
    /\ stage[r] = "enqueue"
    /\ queued' = queued \cup {[key |-> req[r].target, tenant |-> req[r].input.tenant,
                               scope |-> req[r].input.scope, by |-> req[r].row.by]}
    /\ Done(r)
    /\ UNCHANGED <<rows, initials, stored, audit, day, counted, mixed, begun, lost>>

-----------------------------------------------------------------------------
\* The process dies, or a statement fails: what was written stays.
LoseRequest(r) ==
    /\ stage[r] # "idle" /\ lost < MaxLost
    /\ Done(r)
    /\ mixed' = IF stage[r] \in {"back", "initial", "audit"} THEN mixed \cup {req[r].target}
                ELSE mixed
    /\ lost' = lost + 1
    /\ UNCHANGED <<rows, initials, stored, adminLog, day, counted, begun>>

NextDay ==
    /\ day < MaxDay
    /\ day' = day + 1
    /\ UNCHANGED <<rows, initials, stored, adminLog, stage, req, counted, mixed, begun, lost>>

\* The lists answer what is stored and change nothing.
ListRecords == UNCHANGED adminVars

RequestStep(r) ==
    \/ PutTenant(r) \/ PutSigningRegistration(r) \/ PutTemplate(r) \/ PutRole(r) \/ PutIssuer(r)
    \/ DeleteIssuer(r) \/ PutIssuerByForm(r) \/ DeleteIssuerByForm(r) \/ RequestDedicatedDb(r)
    \/ ResolveDedicatedDb(r) \/ CreateApiKey(r) \/ RevokeApiKey(r) \/ Archive(r) \/ Unarchive(r)
    \/ UploadImage(r) \/ QueueWithKey(r) \/ ReadPrevious(r) \/ StoreImage(r) \/ WritePut(r) \/ WriteTemplate(r)
    \/ WriteEnd(r) \/ ReadBack(r) \/ RecordInitialOwner(r) \/ WriteAudit(r)
    \/ FindKey(r) \/ TouchKey(r) \/ EnqueueWithKey(r) \/ LoseRequest(r)

AdminNext == (\E r \in Requests : RequestStep(r)) \/ NextDay \/ ListRecords
AdminSpec == AdminInit /\ [][AdminNext]_adminVars

-----------------------------------------------------------------------------
(* Properties                                                              *)

Underway(t) == \E r \in OnTarget(t) : stage[r] \in {"back", "initial", "audit"}

\* Every row, entry and local is of its table.
AdminTypeOK ==
    /\ \A t \in Targets : rows[t] \in RowsOf(t) \cup {NoRow}
    /\ initials \in [Patterns -> Seq(Units)] /\ stored \subseteq Assets
    /\ \A i \in DOMAIN audit : /\ audit[i].target \in Targets /\ audit[i].op \in Ops
                               /\ audit[i].row \in RowsOf(audit[i].target) \cup {NoRow}
    /\ queued \subseteq [key: ApiKeys, tenant: Tenants, scope: Scopes, by: Members]
    /\ stage \in [Requests -> Stages] /\ day \in 0..MaxDay /\ counted \in BOOLEAN
    /\ mixed \subseteq Targets /\ begun \in 0..MaxRequests /\ lost \in 0..MaxLost

\* The newest of the entries in S tells this row; where there is none, there was no row.
Tells(S, row) ==
    /\ S = {} => row = NoRow
    /\ \A i \in S : (\A j \in S : j <= i) => audit[i].row = row

\* The newest entry of the audit log on a record tells the record as it stands, and a
\* record without entries was never written, unless requests on it overlapped, one was
\* lost after its write, or the driver did not report what a request changed.
NewestEntryTells == \A t \in Targets \ mixed : Underway(t) \/ Tells(EntriesOf(t), rows[t])

\* The entries on a member's role form a chain: each says the role the one before gave,
\* and the first says there was none (previousRole, membership.role_assigned).
RoleEntriesChain ==
    \A u \in Members \ mixed : \A i \in EntriesOf(u) :
      Tells({j \in EntriesOf(u) : j < i}, audit[i].before)

\* A resolution is told once and as it stands, though several administrators resolve the
\* request at a time.
ResolvedOnce ==
    \A p \in Provisionings :
      LET told == {i \in DOMAIN audit : audit[i].target = p /\ audit[i].op = "resolve"}
      IN  Cardinality(told) <= 1 /\ \A i \in told : audit[i].row = rows[p]

\* A template put by id has one initial owner on record, and it is the owner it has; only
\* first puts that overlap record it again, and only a lost one not at all.
OneInitialOwner ==
    \A t \in Patterns :
      /\ \A i \in DOMAIN initials[t] : rows[t] # NoRow /\ initials[t][i] = rows[t].owner
      /\ t \notin mixed /\ rows[t] # NoRow /\ ~Underway(t) => Len(initials[t]) = 1

\* A template never shows an uploaded image that is not in the object store.
ImageIsStored ==
    \A t \in Patterns : rows[t] # NoRow /\ rows[t].image # Unset => rows[t].image \in stored

\* A key that was revoked (with whatever date) or had expired when a call began queues
\* nothing, and what is queued is of the key's tenant and scopes, in its owner's name.
OnlyLiveKeysQueue ==
    /\ \A r \in Requests : req[r].op = "use" /\ req[r].dead => stage[r] = "find"
    /\ \A j \in queued : /\ rows[j.key] # NoRow /\ j.by = rows[j.key].by
                         /\ j.tenant = rows[j.key].tenant /\ HasScope(rows[j.key], j.scope)

\* The audit log and the ownership history tell what the tables hold, though the row and its
\* entry are two statements that others come between.
AuditTells == NewestEntryTells /\ RoleEntriesChain /\ ResolvedOnce /\ OneInitialOwner

\* What a row refers to is there when it is used: an image is stored before a template shows
\* it, and a key works for what it was made for until it ends.
UsedWhileThere == AdminTypeOK /\ ImageIsStored /\ OnlyLiveKeysQueue

\* A resolved provisioning request and a revoked key never change again.
EndedIsKept ==
    [][/\ \A p \in Provisionings : rows[p] # NoRow /\ rows[p].status # "pending"
                                     => rows'[p] = rows[p]
       /\ \A k \in ApiKeys : rows[k] # NoRow /\ rows[k].revoked # 0 => rows'[k] = rows[k]]_adminVars
=============================================================================
