---------------------------- MODULE SchemaRepair ----------------------------
(* The database's tables, as the migrations leave them and as the data     *)
(* layer repairs them.                                                     *)
(*                                                                         *)
(* Most statements of packages/db/src/index.ts catch the error that names  *)
(* a missing table, create the tables of that table's group one statement  *)
(* after another and run the statement again.  The migrations are files    *)
(* that psql runs in the order of their numbers; the upgrade runs them     *)
(* all again.  Several requests, and an upgrade, work on one database.     *)
(*                                                                         *)
(* The schema is the set of what has been created: <<t, "table">> for a    *)
(* table, <<t, c>> for a column added later, <<t, "unique">> for a unique  *)
(* index.  What migrations 1 to 8 create is always there and is not named, *)
(* and plain indexes, on which no statement's answer depends, are left out.*)
EXTENDS Naturals, Sequences, FiniteSets, SequencesExt, TLC

CONSTANTS
    Askers,         \* requests
    MaxCuts         \* bound: how many requests are lost half way

VARIABLES
    schema,         \* what has been created
    rowsOf,         \* the number of rows with one value of the unique index's columns
    ask,            \* the state of each request
    upgrade         \* the migration file psql runs, 0 when none, and whether it stopped

schemaVars == <<schema, rowsOf, ask, upgrade>>

-----------------------------------------------------------------------------
(* The repairs: what each creates, in order, and what must be there.       *)

Whole(t) == <<t, "table">>
Create(t, refs) == [makes |-> Whole(t), needs |-> {Whole(u) : u \in refs}]
Table(t) == Create(t, {})
Column(t, c) == [makes |-> <<t, c>>, needs |-> {Whole(t)}]
UniqueIndex(t) == Column(t, "unique")

EnsureTenantSigningRegistrationsTable == <<Table("tenant_signing_registrations")>>

EnsureLtiIssuerRegistrationsTable ==
    <<Table("lti_issuer_registrations"),
      Column("lti_issuer_registrations", "token_endpoint"),
      Column("lti_issuer_registrations", "client_secret"),
      Column("lti_issuer_registrations", "platform_jwks_endpoint")>>

EnsureLtiAdvantageTables ==
    EnsureLtiIssuerRegistrationsTable \o
    <<Create("lti_deployments", {"lti_issuer_registrations"}),
      Table("lti_tool_keys"), Table("lti_launch_nonces"), Table("lti_launch_sessions"),
      Table("lti_dynamic_registration_sessions"), Table("lti_resource_link_placements")>>

EnsureRecipientIdentifiersTable == <<Table("recipient_identifiers")>>
EnsureAuditLogsTable == <<Table("audit_logs")>>
EnsureTenantApiKeysTable == <<Table("tenant_api_keys")>>
EnsureTenantSsoSamlConfigurationsTable == <<Table("tenant_sso_saml_configurations")>>
EnsureTenantAuthPoliciesTable == <<Table("tenant_auth_policies")>>

EnsureTenantAuthProvidersTable ==
    <<Table("tenant_auth_providers"), UniqueIndex("tenant_auth_providers")>>

EnsureTenantBreakGlassAccountsTable == <<Table("tenant_break_glass_accounts")>>
EnsureTenantCanvasGradebookIntegrationsTable ==
    <<Table("tenant_canvas_gradebook_integrations")>>

EnsureBadgeIssuanceRulesTables ==
    <<Table("badge_issuance_rules"),
      Table("badge_issuance_rule_value_lists"),
      Create("badge_issuance_rule_versions", {"badge_issuance_rules"}),
      Create("badge_issuance_rule_approval_steps", {"badge_issuance_rule_versions"}),
      Create("badge_issuance_rule_approval_events", {"badge_issuance_rule_versions"}),
      Create("badge_issuance_rule_evaluations",
             {"badge_issuance_rules", "badge_issuance_rule_versions"}),
      Column("badge_issuance_rule_evaluations", "review_status"),
      Column("badge_issuance_rule_evaluations", "review_decision"),
      Column("badge_issuance_rule_evaluations", "review_comment"),
      Column("badge_issuance_rule_evaluations", "reviewed_by_user_id"),
      Column("badge_issuance_rule_evaluations", "reviewed_at")>>

EnsureDedicatedDbProvisioningRequestsTable ==
    <<Table("tenant_dedicated_db_provisioning_requests")>>
EnsureAssertionLifecycleEventsTable == <<Table("assertion_lifecycle_events")>>
EnsureAssertionReportingAttributionsTable ==
    <<Create("assertion_reporting_attributions", {"tenant_org_units"})>>

EnsureAssertionEngagementEventsTable ==
    <<Table("assertion_engagement_events"), UniqueIndex("assertion_engagement_events")>>

EnsureTenantOrgUnitsTable == <<Table("tenant_org_units")>>
EnsureTenantMembershipOrgUnitScopesTable ==
    <<Create("tenant_membership_org_unit_scopes", {"tenant_org_units"})>>

EnsureDelegatedIssuingAuthorityTables ==
    <<Create("delegated_issuing_authority_grants", {"tenant_org_units"}),
      Create("delegated_issuing_authority_grant_badge_templates",
             {"delegated_issuing_authority_grants"}),
      Create("delegated_issuing_authority_grant_events",
             {"delegated_issuing_authority_grants"})>>

EnsureBadgeTemplateOwnershipEventsTable ==
    <<Create("badge_template_ownership_events", {"tenant_org_units"})>>

EnsureOAuthTables ==
    <<Table("oauth_clients"),
      Create("oauth_authorization_codes", {"oauth_clients"}),
      Create("oauth_access_tokens", {"oauth_clients"}),
      Create("oauth_refresh_tokens", {"oauth_clients"}),
      Table("oid4vci_pre_authorized_codes"), Table("oid4vci_access_tokens")>>

EnsureOb3ResourceTables ==
    <<Table("ob3_subject_credentials"), Table("ob3_subject_profiles")>>

Repair ==
    [signing     |-> EnsureTenantSigningRegistrationsTable,
     ltiIssuer   |-> EnsureLtiIssuerRegistrationsTable,
     lti         |-> EnsureLtiAdvantageTables,
     recipients  |-> EnsureRecipientIdentifiersTable,
     audit       |-> EnsureAuditLogsTable,
     apiKeys     |-> EnsureTenantApiKeysTable,
     saml        |-> EnsureTenantSsoSamlConfigurationsTable,
     policies    |-> EnsureTenantAuthPoliciesTable,
     providers   |-> EnsureTenantAuthProvidersTable,
     breakGlass  |-> EnsureTenantBreakGlassAccountsTable,
     canvas      |-> EnsureTenantCanvasGradebookIntegrationsTable,
     rules       |-> EnsureBadgeIssuanceRulesTables,
     dedicated   |-> EnsureDedicatedDbProvisioningRequestsTable,
     lifecycle   |-> EnsureAssertionLifecycleEventsTable,
     attribution |-> EnsureAssertionReportingAttributionsTable,
     engagement  |-> EnsureAssertionEngagementEventsTable,
     units       |-> EnsureTenantOrgUnitsTable,
     scopes      |-> EnsureTenantMembershipOrgUnitScopesTable,
     delegated   |-> EnsureDelegatedIssuingAuthorityTables,
     ownership   |-> EnsureBadgeTemplateOwnershipEventsTable,
     oauth       |-> EnsureOAuthTables,
     ob3         |-> EnsureOb3ResourceTables]

Groups == DOMAIN Repair
MadeBy(todo) == {todo[i].makes : i \in DOMAIN todo}

-----------------------------------------------------------------------------
(* The migrations, in the order psql runs them: a statement that says IF   *)
(* NOT EXISTS passes over what is there, one that does not stops psql.     *)

File(n, statements) == [i \in DOMAIN statements |-> statements[i] @@ [file |-> n, again |-> TRUE]]
AddsBlindly(n, t, c) == <<Column(t, c) @@ [file |-> n, again |-> FALSE]>>

Migrations ==
    File(9, EnsureTenantSigningRegistrationsTable)
    \o File(10, EnsureAuditLogsTable)
    \o File(11, SubSeq(EnsureOAuthTables, 1, 3))
    \o File(12, SubSeq(EnsureOAuthTables, 4, 4))
    \o File(13, <<Table("lti_issuer_registrations")>>)
    \o File(14, EnsureRecipientIdentifiersTable)
    \o File(15, EnsureAssertionLifecycleEventsTable)
    \o File(16, EnsureTenantOrgUnitsTable)
    \o AddsBlindly(16, "badge_templates", "owner_org_unit_id")
    \o AddsBlindly(16, "badge_templates", "governance_metadata_json")
    \o File(16, EnsureBadgeTemplateOwnershipEventsTable)
    \o File(17, EnsureTenantMembershipOrgUnitScopesTable)
    \o File(18, EnsureDelegatedIssuingAuthorityTables)
    \o File(19, EnsureTenantApiKeysTable)
    \o File(20, EnsureTenantSsoSamlConfigurationsTable)
    \o File(21, EnsureDedicatedDbProvisioningRequestsTable)
    \o File(22, EnsureTenantCanvasGradebookIntegrationsTable)
    \o File(23, <<Table("badge_issuance_rules"), Table("badge_issuance_rule_versions"),
                  Table("badge_issuance_rule_evaluations")>>)
    \o File(24, <<Table("badge_issuance_rule_approval_steps"),
                  Table("badge_issuance_rule_approval_events")>>)
    \o File(26, EnsureTenantAuthPoliciesTable)
    \o File(27, EnsureTenantAuthProvidersTable)
    \o File(31, EnsureTenantBreakGlassAccountsTable)
    \o File(33, EnsureAssertionReportingAttributionsTable)
    \o File(34, EnsureAssertionEngagementEventsTable)
    \o AddsBlindly(37, "lti_issuer_registrations", "platform_jwks_endpoint")
    \o File(37, SubSeq(EnsureLtiAdvantageTables, 5, 10))

LastFile == 37

\* A database on which the first n migrations have been run.
Migrated(n) == {Whole("badge_templates")} \cup MadeBy(SelectSeq(Migrations, LAMBDA m : m.file <= n))

-----------------------------------------------------------------------------
(* What the requests ask of the database.  A query names what it reads, in *)
(* the order in which Postgres looks it up, and the groups its handler     *)
(* repairs; it is run again after a repair, `asks` times in all.           *)

Columns(t, cs) == [i \in DOMAIN cs |-> <<t, cs[i]>>]
Wholes(ts) == [i \in DOMAIN ts |-> Whole(ts[i])]
Query(kind, reads, groups, asks, loop) ==
    [kind |-> kind, reads |-> reads, repairs |-> groups, asks |-> asks, loop |-> loop,
     fills |-> FALSE]
\* A repair of the attributions is followed by the attribution of what was issued before.
Filling(query) == [query EXCEPT !.fills = TRUE]

\* Run once, and once more after a repair.
Once(kind, reads, group) == Query(kind, reads, {group}, 2, FALSE)
OnceOf(kind, t, group) == Once(kind, <<Whole(t)>>, group)
\* A loop of three attempts, the last of which may repair and then gives up.
ThreeTimes(reads, groups) == Query("select", reads, groups, 3, TRUE)

evaluationTable == "badge_issuance_rule_evaluations"
reviewColumns == Columns(evaluationTable, <<"review_status", "review_decision", "review_comment",
                                            "reviewed_by_user_id", "reviewed_at">>)
issuerReads == Wholes(<<"lti_issuer_registrations">>)
               \o Columns("lti_issuer_registrations",
                          <<"platform_jwks_endpoint", "token_endpoint", "client_secret">>)

ListEvaluations ==
    <<Once("select", Wholes(<<evaluationTable, "badge_issuance_rules">>) \o reviewColumns, "rules")>>
CreateEvaluation ==
    <<Once("write", Wholes(<<evaluationTable>>) \o reviewColumns, "rules"),
      Query("select", Wholes(<<evaluationTable>>) \o reviewColumns, {}, 1, FALSE)>>
CreateValueList == <<OnceOf("write", "badge_issuance_rule_value_lists", "rules")>>
UpsertIssuer == <<Once("write", issuerReads, "ltiIssuer")>>
ListIssuers == <<Once("select", issuerReads, "ltiIssuer")>>
UpsertDeployment == <<OnceOf("write", "lti_deployments", "lti")>>
UpsertPlacement == <<OnceOf("write", "lti_resource_link_placements", "lti")>>
ListUnits == <<OnceOf("select", "tenant_org_units", "units"),
               OnceOf("write", "tenant_org_units", "units")>>
UpsertScope == <<OnceOf("select", "tenant_org_units", "units"),
                 OnceOf("write", "tenant_membership_org_unit_scopes", "scopes")>>
CheckAccess == <<Query("select", Wholes(<<"tenant_org_units", "tenant_membership_org_unit_scopes">>),
                       {"units", "scopes"}, 2, FALSE)>>
CreateGrant == <<OnceOf("select", "tenant_org_units", "units"),
                 OnceOf("write", "delegated_issuing_authority_grants", "delegated"),
                 OnceOf("write", "delegated_issuing_authority_grant_events", "delegated")>>
CreatePreAuthorizedCode == <<OnceOf("write", "oid4vci_pre_authorized_codes", "oauth")>>
CreateRefreshToken == <<OnceOf("write", "oauth_refresh_tokens", "oauth")>>
ListSubjectCredentials == <<OnceOf("select", "ob3_subject_credentials", "ob3")>>

\* Only one default provider, and one event of a kind, may be stored.
CreateDefaultProvider == <<OnceOf("clear", "tenant_auth_providers", "providers"),
                           OnceOf("insert", "tenant_auth_providers", "providers")>>
RecordEngagement == <<OnceOf("find", "assertion_engagement_events", "engagement"),
                      OnceOf("insert", "assertion_engagement_events", "engagement")>>

\* Rows without attribution, when there are any, need the owners' history.
Backfill(any) ==
    <<Query("select", Wholes(<<"assertion_reporting_attributions">>),
            {"attribution", "units"}, 2, FALSE)>>
    \o IF any THEN <<OnceOf("select", "badge_template_ownership_events", "ownership"),
                     OnceOf("write", "assertion_reporting_attributions", "attribution")>>
       ELSE <<>>

EngagementRows ==
    <<Filling(ThreeTimes(Wholes(<<"assertion_reporting_attributions",
                                  "assertion_engagement_events", "assertion_lifecycle_events">>),
                         {"attribution", "engagement", "lifecycle"}))>>
Overview ==
    Backfill(FALSE)
    \o <<Filling(Query("select", Wholes(<<"assertion_reporting_attributions",
                                           "assertion_lifecycle_events">>),
                       {"attribution", "lifecycle"}, 2, FALSE))>>
    \o EngagementRows
LedgerExport ==
    <<Filling(ThreeTimes(Wholes(<<"assertion_reporting_attributions", "tenant_org_units",
                                  "assertion_lifecycle_events">>),
                         {"attribution", "lifecycle", "units"}))>>
    \o ListUnits

-----------------------------------------------------------------------------
(* A request.                                                              *)

\* Mutant: the handler does not know the tables that were added to the group last.
NamedAtFirst(group) ==
    {m[1] : m \in {o \in MadeBy(Repair[group]) : o[2] = "table"}}
    \ {"lti_issuer_registrations", "oid4vci_pre_authorized_codes", "oid4vci_access_tokens"}

\* The tables whose names a group's handler looks for in an error's text.
NamedBy(group) ==
    {m[1] : m \in {o \in MadeBy(Repair[group]) : o[2] = "table"}}
    \ IF group = "lti" THEN {"lti_issuer_registrations"} ELSE {}

\* Does the handler know the error?  That of a missing table names it, that of a missing
\* column names the table only in a write; the columns of an LTI issuer are looked for by name.
IsMissing(group, kind, missing) ==
    \/ missing[1] \in NamedBy(group) /\ (missing[2] = "table" \/ kind = "write")
    \/ group = "ltiIssuer" /\ missing \in MadeBy(EnsureLtiIssuerRegistrationsTable)

Missing(query) == SelectSeq(query.reads, LAMBDA o : o \notin schema)
Handlers(query) == {g \in query.repairs : IsMissing(g, query.kind, Head(Missing(query)))}

NoAsk == [at |-> "idle", plan |-> <<>>, todo |-> <<>>, saw |-> FALSE, why |-> "",
          lacked |-> {}, hurt |-> FALSE]

KeyOf(query) == Head(query.reads)[1]
Unique(t) == <<t, "unique">>

\* What a request needs, or a repair of it would refer to, and is not there when it begins.
References(group) ==
    UNION {Repair[group][i].needs : i \in DOMAIN Repair[group]} \ MadeBy(Repair[group])
Lacks(plan) ==
    LET reads == UNION {ToSet(Missing(plan[i])) : i \in DOMAIN plan}
    IN  reads \cup (UNION {References(g) : g \in {h \in Groups : MadeBy(Repair[h]) \cap reads # {}}}
                   \ schema)

BeginAsk(r, plan) ==
    /\ ask[r].at \in {"idle", "failed", "lost"}
    /\ ask' = [ask EXCEPT ![r] = [NoAsk EXCEPT !.at = "asking", !.plan = plan,
                                               !.lacked = Lacks(plan), !.hurt = ask[r].hurt]]
    /\ UNCHANGED <<schema, rowsOf, upgrade>>

Failed(a, why) == [a EXCEPT !.at = "failed", !.why = why, !.plan = <<>>, !.todo = <<>>, !.saw = FALSE,
                            !.hurt = @ \/ why \in {"crossed", "rows"}]

Moved(a, saw) ==
    LET rest == IF saw THEN <<>> ELSE Tail(a.plan)
    IN  [a EXCEPT !.plan = rest, !.at = IF rest = <<>> THEN "answered" ELSE "asking"]

\* The statement finds all it reads.  An insert is refused where the unique index tells it
\* from the row that is there; where there is no index it adds a second.
Answered(r) ==
    /\ ask[r].at = "asking"
    /\ Missing(Head(ask[r].plan)) = <<>>
    /\ LET query == Head(ask[r].plan)
           t == KeyOf(query)
           refused == query.kind = "insert" /\ rowsOf[t] > 0 /\ Unique(t) \in schema
       IN  /\ ask' = [ask EXCEPT ![r] =
                        IF refused THEN Failed(@, "refused")
                        ELSE Moved(@, query.kind = "find" /\ rowsOf[t] > 0)]
           /\ rowsOf' = CASE query.kind = "clear" -> [rowsOf EXCEPT ![t] = 0]
                          [] query.kind = "insert" /\ ~refused -> [rowsOf EXCEPT ![t] = @ + 1]
                          [] OTHER -> rowsOf
    /\ UNCHANGED <<schema, upgrade>>

\* The statement fails for something missing, and the handler repairs what it knows.
Caught(r) ==
    /\ ask[r].at = "asking"
    /\ Missing(Head(ask[r].plan)) # <<>>
    /\ LET query == Head(ask[r].plan)
           mayRepair == query.asks > 1 \/ query.loop
       IN  \/ /\ mayRepair
              /\ \E g \in Handlers(query) :
                    ask' = [ask EXCEPT ![r].at = "mending", ![r].todo = Repair[g],
                                       ![r].plan = <<[query EXCEPT !.asks = @ - 1]>> \o Tail(@)]
           \/ /\ ~mayRepair \/ Handlers(query) = {}
              /\ ask' = [ask EXCEPT ![r] =
                    Failed(@, IF Handlers(query) = {} THEN "unknown" ELSE "attempts")]
    /\ UNCHANGED <<schema, rowsOf, upgrade>>

\* After the last statement of a repair the query is run again, or the loop has ended.
AfterRepair(a, any) ==
    LET query == Head(a.plan)
        attributed == <<"assertion_reporting_attributions", "table">> = Head(a.todo).makes
    IN  IF query.asks = 0 THEN Failed(a, "attempts")
        ELSE [a EXCEPT !.at = "asking", !.todo = <<>>,
                       !.plan = IF query.fills /\ attributed THEN Backfill(any) \o @ ELSE @]

\* Mutant: the repair ends when the table that was missing is there.
MovedOnEarly(a, any) ==
    IF Len(a.todo) = 1 \/ Head(a.todo).makes \in ToSet(Head(a.plan).reads)
    THEN AfterRepair(a, any) ELSE [a EXCEPT !.todo = Tail(@)]

MovedOn(a, any) ==
    IF Len(a.todo) = 1 THEN AfterRepair(a, any) ELSE [a EXCEPT !.todo = Tail(@)]

\* A session that creates the same table or index at the same time may fail on Postgres'
\* catalogue; one that adds a column waits for the other.
AtTheSame(r) ==
    {q \in Askers \ {r} : /\ ask[q].at = "mending"
                          /\ Head(ask[q].todo) = Head(ask[r].todo)
                          /\ Head(ask[r].todo).makes[2] \in {"table", "unique"}}

Mend(r, any, crossed) ==
    /\ ask[r].at = "mending"
    /\ crossed \subseteq AtTheSame(r)
    /\ LET s == Head(ask[r].todo)
           new == s.makes \notin schema
           twice == s.makes[2] = "unique" /\ rowsOf[s.makes[1]] > 1
           failed(why) == ask' = [ask EXCEPT ![r] = Failed(@, why)] /\ UNCHANGED schema
       IN  \/ /\ new => s.needs \subseteq schema /\ ~twice
              /\ schema' = schema \cup {s.makes}
              /\ ask' = [q \in Askers |->
                    IF q = r THEN MovedOn(ask[r], any)
                    ELSE IF new /\ q \in crossed THEN Failed(ask[q], "crossed") ELSE ask[q]]
           \/ new /\ ~(s.needs \subseteq schema) /\ failed("refs")
           \/ new /\ twice /\ failed("rows")
    /\ UNCHANGED <<rowsOf, upgrade>>

\* The worker that handles the request is gone.
Lose(r) ==
    /\ ask[r].at \in {"asking", "mending"}
    /\ Cardinality({q \in Askers : ask[q].at = "lost" \/ ask[q].hurt}) < MaxCuts
    /\ ask' = [ask EXCEPT ![r] = [NoAsk EXCEPT !.at = "lost", !.hurt = TRUE]]
    /\ UNCHANGED <<schema, rowsOf, upgrade>>

-----------------------------------------------------------------------------
(* The upgrade: psql runs every file, from the first, and stops at the     *)
(* first statement that fails.                                             *)

Fails(m) == IF m.makes \in schema THEN ~m.again
            ELSE ~(m.needs \subseteq schema) \/ (m.makes[2] = "unique" /\ rowsOf[m.makes[1]] > 1)

StartUpgrade ==
    /\ upgrade = [at |-> 0, stopped |-> FALSE]
    /\ upgrade' = [at |-> 1, stopped |-> FALSE]
    /\ UNCHANGED <<schema, rowsOf, ask>>

\* What is already there is passed over.
MigrateStep ==
    /\ upgrade.at \in DOMAIN Migrations
    /\ ~upgrade.stopped
    /\ LET left == {i \in DOMAIN Migrations :
                        i >= upgrade.at /\ (Migrations[i].makes \notin schema \/ Fails(Migrations[i]))}
           next == IF left = {} THEN Len(Migrations) + 1
                   ELSE CHOOSE i \in left : \A j \in left : i <= j
       IN  IF left # {} /\ Fails(Migrations[next])
           THEN upgrade' = [at |-> next, stopped |-> TRUE] /\ UNCHANGED schema
           ELSE /\ upgrade' = [at |-> next + 1, stopped |-> FALSE]
                /\ schema' = IF left = {} THEN schema ELSE schema \cup {Migrations[next].makes}
    /\ UNCHANGED <<rowsOf, ask>>

RequestStep(r) == Answered(r) \/ Caught(r) \/ \E any \in BOOLEAN, crossed \in SUBSET Askers : Mend(r, any, crossed)

SchemaInit(n) ==
    /\ schema = Migrated(n)
    /\ rowsOf = [t \in {"tenant_auth_providers", "assertion_engagement_events"} |-> 0]
    /\ ask = [r \in Askers |-> NoAsk]
    /\ upgrade = [at |-> 0, stopped |-> FALSE]

-----------------------------------------------------------------------------
(* Properties.                                                             *)

\* Objects are pairs; a request that asks has a query to run, and one that repairs has both a
\* query and a statement to run.
SchemaTypeOK ==
    /\ \A o \in schema : Len(o) = 2
    /\ \A t \in DOMAIN rowsOf : rowsOf[t] \in 0..Cardinality(Askers)
    /\ \A r \in Askers :
        /\ ask[r].at \in {"idle", "asking", "mending", "answered", "failed", "lost"}
        /\ ask[r].plan # <<>> <=> ask[r].at \in {"asking", "mending"}
        /\ ask[r].todo # <<>> <=> ask[r].at = "mending"
    /\ upgrade.at \in 0..(Len(Migrations) + 2)

\* The groups, least first, that would make what a request lacked.
GroupsOf(lacked) ==
    LET makers == {g \in Groups : MadeBy(Repair[g]) \cap lacked # {}}
    IN  IF "ltiIssuer" \in makers /\ lacked \subseteq MadeBy(EnsureLtiIssuerRegistrationsTable)
        THEN makers \ {"lti"} ELSE makers \ {"ltiIssuer"}
ColumnsOf(lacked) == {o \in lacked : o[2] # "table" /\ o[1] = evaluationTable}

\* A request that lacks tables of one group only is answered:
\* the handler knows the error, the group's statements come in an order that works, and one
\* repair is enough.  It may fail only because another request repaired the same tables at that
\* moment, because two rows stood in the way of a unique index or were refused by it, or because
\* what it met was a column that a read names without its table.
OneGroupIsMended ==
    \A r \in Askers :
        ask[r].at = "failed" /\ ask[r].why \notin {"crossed", "rows", "refused"} =>
            \/ Cardinality(GroupsOf(ask[r].lacked)) # 1
            \/ ask[r].why = "unknown" /\ ColumnsOf(ask[r].lacked) # {}

\* A table that must not hold two rows of a kind has its unique index, unless a repair is about
\* to create it, or one was lost, or was thwarted by another, between the two statements.
KeyUnlessDisturbed ==
    \A t \in DOMAIN rowsOf :
        Whole(t) \in schema /\ Unique(t) \notin schema =>
            \/ \E r \in Askers : ask[r].hurt \/ Unique(t) \in MadeBy(ask[r].todo)
            \/ upgrade.at > 0
=============================================================================
