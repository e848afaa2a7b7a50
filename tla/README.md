# A verification of CredTrail

CredTrail issues Open Badges. Its core is a set of TypeScript functions, each a
short sequence of SQL statements over Postgres and calls to an object store,
run by many processes at a time: web requests, a cron trigger, a Node poller.
This directory holds TLA+ modules of that core, TLC configurations that check
them on small instances, and proofs, checked by TLAPS, of what matters most for
every instance. `PROJECT.json` lists components, runs, the source lines behind
every definition, hazards, findings and theorems.

    tlc -config JobQueue_leases.cfg MCJobQueue.tla     # one run
    tlapm JobQueue_proofs.tla                          # the proofs of a module

Contents: [the system](#the-system), [modules](#modules),
[what is checked](#what-is-checked), [what is proved](#what-is-proved),
[what the models show besides](#what-the-models-show-besides),
[what is not modelled](#what-is-not-modelled), [plan](#plan).

## The system

What all components share decides how they are modelled: **there are no
transactions**. `packages/db/src/postgres.ts` sends every prepared statement to
the server (Neon's HTTP interface or a pool) on its own, so each statement is
atomic and nothing else is. A process may end between any two statements; any
other process may act between them. Uniqueness is the database's (UNIQUE
constraints), everything else is read-then-write. The same adapter reports as
`rowsWritten` the rows that come *back*: an UPDATE without RETURNING reports none,
and whatever the code decides by that number is decided wrongly on Postgres
(`SqlAdapter`; one of the findings).

| Component | State | Operations | What is hard |
|---|---|---|---|
| Job queue (`queue/processing.ts`, `job_queue_messages`) | one row per message: status, attempts, delay, lease | enqueue, lease a batch, run handlers, complete, fail, retry failed import rows | several processors, expired leases, lost processors, errors after a commit, stale listings |
| Badge issuance (`badges/direct-issue.ts`) and the immutable store | assertions, profiles and identities, signed credentials, follow-up rows, audit log | issue (from a request, a rule, a queued job), replay of a used idempotency key | overlapping runs of one key and of several, a run lost halfway, redelivery |
| Assertion lifecycle | `revoked_at`, revocations, lifecycle events, audit log | manual transition, `revoke_badge` job | judgement on stale reads, backdated events, overlapping revocations |
| Badge rules (`routes/badge-rule-routes.ts`) | rules, versions, approval steps and events | create, submit, decide, activate | read-check-write by several approvers; the active version kept in two places |
| Evaluations, reviews (same file) and the rule engine (`rules/engine.ts`) | evaluations, reviews | evaluate, issue or queue for review, resolve, preview, simulate | missing data, a decision between two others' statements |
| Status list, verification, presentations (`routes/credential-routes.ts`, `routes/presentation-routes.ts`, `signing/`) | signing keys and their history; reads assertions, events, store | verify, download, status list, present, rotate a key | reads that are not of one instant; rotated keys; altered documents |
| OAuth and OID4VCI (`routes/ob3-routes.ts`, `routes/oid4vci-routes.ts`) | clients, offers, codes, access and refresh tokens | register, authorize, exchange, refresh, revoke, use | secrets consumed once |
| Learner profiles and identities | profiles, aliases, DIDs, link proofs | resolve, link, set a DID | overlapping first sights of one learner |
| LTI launches (`routes/lti-routes.ts`, `lti/`) | issuers, nonces, sessions, placements, tool key, account links | login, launch, deep link, link | nonces consumed once, identities agreeing |
| Tenant sign-in (`auth/`) | policies, providers, emergency accounts, second factors, sessions | put a policy, change providers, sign in in an emergency | two rows that must agree on the default provider |
| Governance (`routes/tenant-governance-routes.ts`) | memberships, units, scopes, delegated grants and their events, template owners | assign, grant, revoke, expire, transfer, ask permission | expiry written by readers, stale owners |
| Administration (`routes/admin-routes.ts` and others) | tenants, roles, templates and images, LTI registrations, API keys, dedicated databases, audit log | put, patch, delete, revoke, resolve | a write and its audit entry are two statements |
| Imports (`migrations/`, `learner-record/`) and the learner record | import rows in the queue, record entries | upload, dry run, convert, apply, patch, retry | redelivery repeats an INSERT |
| Reporting and executive dashboards | attributions, ownership events, engagement | backfill, record, summarise, attribute, drill down | a backfill beside a transfer; two ways of counting that must agree |
| Gradebook providers (`lms/`) | a tenant's LMS connection, tokens | configure, authorize, refresh, read | overlapping refreshes and configurations |
| Schema repair (`packages/db`) and migrations | the database's tables, columns, indexes | every statement that repairs a missing table and repeats | a repair lost halfway, two repairs at once |
| Validation, pages, notifications | none of their own | | not modelled |

How they meet: issuance and revocation are called by HTTP routes and by the job
queue's handlers (at least once); rules and reviews call issuance with keys of
their own; the lifecycle decides what verification, the status list and a replayed
issuance say; imports are messages of the queue; launches resolve learners with the
functions of the identity component; evaluations read facts through the LMS
connection; every component's statements may find a schema that needs repair.

The properties that make each of them correct are the runs' properties below; the
hazards each is exposed to, with their lines, are in `PROJECT.json`.

## Modules

| Module | Models | Composed or checked in |
|---|---|---|
| `SqlAdapter` | `rowsWritten` as SQLite and as the Postgres adapter report it | `LtiLaunch`, `Governance`, `Administration`, ... |
| `JobQueue` | the queue's table, its processors, the retry of import rows | `MCJobQueue`, `MCRetry`, `MCLearnerImport`, `JobQueue_proofs` |
| `BadgeIssuance`, `IdempotentIssuance` | runs of `issueBadgeForTenant`, statement by statement; what issuance promises its callers | `MCBadgeIssuance`, `MCRetry`, `BadgeIssuance_proofs` |
| `AssertionLifecycle` | manual transitions and revoke jobs on one assertion | `Verification` |
| `StatusList`, `Verification` | the bit string; a verifier's reads over the lifecycle, the list and the keys (extends both) | `MCVerification`, `Verification_proofs` |
| `CredentialChecks`, `Presentations` | which documents the checks accept; credentials and presentations made, altered, presented, over days and key rotations | `MCVerification`, `Verification_proofs` |
| `RuleApproval` | the versions of a rule: creation, submission, decisions, activation | `RuleReview`, `RuleApproval_proofs` |
| `RuleEngine`, `RuleReview` | evaluating a tree of conditions; evaluations and reviews (extends both) | `MCRules`, `RuleApproval_proofs` |
| `TokenGrants`, `OneTimeGrant` | the OAuth and OID4VCI routes; a secret is spent once | `MCTokenGrants`, `TokenGrants_proofs` |
| `LearnerIdentity`, `LtiLaunch` | learners and their identities; launches (extends it) | `MCSignIn`, `LtiLaunch_proofs` |
| `TenantSignIn` | providers, their default, emergency accounts | `MCSignIn`, `TenantSignIn_proofs` |
| `LearnerRecord`, `LearnerImport` | record entries; their import through the queue (extends `JobQueue`) | `MCLearnerImport`, `JobQueue_proofs` |
| `Ob2Import`, `MigrationUpload` | conversion of OB2, Credly and Parchment rows; uploads of them (extends `JobQueue`) | `MCLearnerImport`, `JobQueue_proofs` |
| `ReportRows`, `ExecutiveDashboard`, `Reporting` | counting; the dashboard's tree and links; attribution, transfers, engagement | `MCReporting`, `BadgeIssuance_proofs` |
| `SchemaRepair` | which request repairs what, beside upgrades and other repairs | `MCRetry` |
| `Administration` | tenants, roles, templates, registrations, API keys and their audit log | `MCSetup`, `Setup_proofs` |
| `LmsConnection` | what the providers make of an LMS's book; the tenant's connection to it | `MCSetup`, `Setup_proofs` |
| `Governance` | memberships, units, scopes, delegated grants, template owners | `MCSetup`, `Setup_proofs` |
| `*_proofs` | theorems about the module of that name and those it is composed with; `Setup_proofs` is about `Administration`, `Governance` and `LmsConnection` | |

An `MC` module gives the constants of one run and, when it checks several
components, composes them: a variable (`focus`, `mode` or `area`) chosen in `Init` says
which one moves, the others stay in one initial state. Where components do interact
(`Verification`, `RuleReview`, `LtiLaunch`, `LearnerImport`, `MigrationUpload`) one module
extends the other and both move. A property of such a run is the conjunction of the
named parts the table below lists.

An operator whose comment begins with `Mutant:` is a wrong version of the
definition below it. Nothing uses it; `PROJECT.json` says which property is
violated when the definition is replaced by it.

Conventions. A request is a process at a place (`pc`, `stage`, `at`): the statement it runs
next; one action is one statement with whatever the code computes from it. Where several SELECTs are one
action it is said: the module of the component comments it, and for delegated grants the section below does. `Fault`,
`Lose...`, `Crash...` end a request between two statements and leave what it has written;
the number of such losses is a constant of the run. Variables such as `granted`,
`spent`, `leases`, `given`, `events`, `lost`, `overlapped`, `overtaken`, `lapsed`, `ended` are history: no action reads them in a
guard that the code does not have. Clocks are common to all processes, and a clock
reading and the statement right after it are one step. The fallbacks that create a missing
table and repeat a statement are in `SchemaRepair` only.

### JobQueue

`row` is the table, a function from messages (one per tenant, job type and
idempotency key) to records of the columns that steer the queue. `phase`,
`clock`, `token`, `todo`, `batch`, `job` are the local variables of a
processor's run: `processQueuedJobs` reads the clock once (`BeginRun`), and
`leaseJobQueueMessages` selects candidates (`SelectCandidates`), updates each of
them under a WHERE clause (`LeaseCandidate`) and fetches what carries its token
(`FetchBatch`). For each message the handler returns or throws
(`HandlerReturns`, `HandlerThrows`: the latter with or without its effects) and
the message is completed or failed (`CompleteJob`, `CompleteErrors`,
`FailJob`). `CompleteErrors` is there because the completing UPDATE is inside the
`try`: if it raises an error, committed or not, the message is failed next.
`Crash` is the loss of a processor, and also an error of a statement outside the
`try`. An operator's retry lists failed rows (`ListFailed`), resets those picked one by
one by id (`ResetRow`) and may end before the last (`LoseRetry`). `ResetRow` has no guard on the status, as its
UPDATE has none. `leases`, `effects`, `resets`, `crashes` are history, and so are `overtaken`, the rows picked by a retry that another
retry has reset meanwhile, and `strayed`, the rows a retry reset when they were no longer failed. Abstracted: payloads; `last_error`; the counters of a run's
report; the listing's limit and filters, which come down to any subset of the failed rows.

### BadgeIssuance and IdempotentIssuance

A slot of `Requests` runs `issueBadgeForTenant`: look the key up (`FindExisting`),
replay (`Replay`) or resolve the recipient's profile (`FindProfile`,
`CreateProfile`, `AddIdentity`), read the next status index (`AllocateIndex`), sign
and store (`StoreCredential`), insert the assertion (`InsertAssertion`), the rows
that follow and the audit log (`WriteFollowUp`), answer (`AnswerIssued`). `Fault`
ends a run anywhere. `ChangeState` is the assertion's lifecycle as seen from here
("suspended" stands for "expired" too). `IdempotentIssuance` has three
variables, which assertion a key stands for, what is stored, who was told what;
`BadgeIssuance` implements it with the refinement mapping of `Promise`.
Abstracted: the checks of the template in `Begin`, which change nothing when they
fail; the credential's content but its subject and index; e-mail; the removal of
identity aliases later on; other tenants. `Replay` reads the assertion's state and
its object in one step. `Ids` and `Profiles` are supplies; a run that finds none
left ends, and the bounds leave enough of them.

### AssertionLifecycle, StatusList, Verification

One assertion, since assertions do not meet in this code. A manual transition
reads the assertion, then the latest event, judges (`ReadEventAndDecide`), and
writes an event, for "revoked" after `recordAssertionRevocation`; a
`revoke_badge` job is that function and an audit log entry. `events` are ordered by
the time the caller gives and then by a random id, as the code's ORDER BY
comes down to. `ClientTimes` are the values of `transitionedAt` a caller may send.

`Verification` adds the rest of what an answer depends on: the other assertions of the
status list (`RevokeOther`), the tenant's signing key and its history (`Rotate`,
`KeepKey`), and verifiers whose reads of the assertion, its event, the stored credential
and the list fall at different times (`Answering`). `StatusList` encodes and decodes the bits.
`seen` records the states the assertion was in while a verifier read. Abstracted: reasons
and codes, `updated_at`; whether a document passes the checks is one Boolean (`clean`) here, which
`CredentialChecks` details. Assumed of operators: the old key is written into the history before it
is replaced (docs/OB3_VERIFICATION.md:21) and key ids are not used twice.

### CredentialChecks and Presentations

A document is a record of the fields the checks look at; `CredentialChecks` says of a document
and the keys published at the time which checks pass. `Presentations` issues a badge from either
origin, signs other documents, makes presentations, takes them out, wraps, alters (`AlterCopy`,
`AlterPresentation`, as many times as `liberties` allow), verifies, revokes, rotates keys and lets days
pass. Signatures are ideal: a proof verifies for exactly the document and key it was made with. An Ed25519Signature2020 is of the document's
linked data, so terms no context defines are not part of what it signs; the checks refuse documents that have any
(`SafeMode`), which is why `AcceptedIsAsSigned` speaks of what was signed but for such terms.

### RuleApproval, RuleEngine, RuleReview

The versions of one rule (`status`), their approval steps (`steps`, a sequence
because step numbers are given from 1 without gaps), and the rule's
`active_version_id` (`active`). Creation inserts a version and its steps one by one; submission
inserts a default step if there is none, resets all steps, starts the first, sets the
version; a decision reads the steps in one SELECT (`ReadSteps`) and then marks the
step it found pending, starts the next and sets the version; activation deprecates,
activates and points the rule at the version. `granted` and `early` are history: which
steps were ever approved, and which versions were submitted before
their chain was complete, so that the default chain or a part of theirs was all
there was to approve. A route and the function it calls read the same status one after the
other; both must allow the operation, and the model reads at the second. In `decide` the
steps are never missing (`TypeOK`), so the branch that would insert the default
chain is left out. A creation that loses the race for a `version_number` changes nothing and is not shown.

`RuleEngine` is the evaluator as operators over a tree of conditions and the facts the LMS
gives. `RuleReview` composes it with the approval: an evaluation reads the active version and
the facts, is recorded, and issues or queues for review; a review is resolved by callers whose
reads and writes interleave; previews and simulations evaluate without writing. Abstracted: the
rule's JSON, the audit log. A tree is followed by recursive functions over its `Conditions`, down to `MaxDepth`, which
`DepthAssumption` requires to reach the leaves of every rule given.

### TokenGrants and OneTimeGrant

`token` is the table of all five kinds of secrets: authorization codes, access and refresh tokens, the
pre-authorised codes of offers and the tokens of wallets. Each request is a call of one route at its next
statement (`Step`), and may be lost (`Fault`). `written` and `answered` are what a request did
and was told. `OneTimeGrant` says what clients may rely on: a secret is spent once, and what is
given for it is of the right kind and parent (`Promise`). PKCE is one Boolean; hashes, signatures and
URL matching are left out.

### LearnerIdentity, LtiLaunch, TenantSignIn

`LearnerIdentity` has profiles, identities, link proofs, users, roles and the links to the users
of the better-auth library; its requests resolve a learner, set a DID, start and finish a link.
`LtiLaunch` extends it with logins, nonces, launches of learners and instructors, deep-linking placements,
registrations that come and go, and the tool's key. The library's check of the token is external:
a launch that begins is one it accepted.

`TenantSignIn` has the policy and the providers of a tenant, whose agreement on the default two to four
statements keep, and the emergency accounts: link, password, enrolment of a second factor, sign-in
with it. A new default provider rewrites the whole policy from a copy read before, with its flags (`PolicyFor`). A sign-in that needs a
second factor set up marks the browser: the mark is a cookie without an age, which the access check asks for and which goes when the
browser is closed (`CloseBrowser`), while the session's cookie stays. `cut` counts lost requests; `put`, `stale`, `flagged`, `chosen`
and `lapsed` (the browser was closed while its set-up was pending) are history.

### LearnerRecord, LearnerImport, Ob2Import, MigrationUpload

A record entry is created, and patched by editors whose read and write are two statements.
`LearnerImport` uploads a file row by row into the queue (`QueueRow`; `LoseUpload` in between) and
gives the queue its handler: context, insert, return or throw. `Ob2Import` converts the rows of the three formats
as operators; `MigrationUpload` uploads those: `rows` and `reports` of a batch are functions of the numbers the rows have in
their file, which skip blank lines and so may exceed the number of rows. The text of a CSV file is a Boolean that it
parses; the length of a chunk is below 2^31.

### ReportRows, ExecutiveDashboard, Reporting

`ReportRows` counts and groups; `ExecutiveDashboard` is its tree of units and links between
pages. `Reporting` issues badges, attributes them to the owner of their template, transfers templates
(a transfer is two statements), backfills, records engagement, and summarises. `broken` marks what a
backdated, overlapped or lost transfer has made ambiguous.

### SchemaRepair

`schema` is the set of tables, columns and indexes there; `rowsOf` which tables have rows. A
request is a plan of 19: the statements it runs, what each needs, and which repair the code runs when one fails.
`upgrade` runs the migration files in order, as the runbook says.

### Administration

A kind of record (`Kinds`) has a table `rows`; a request lists, puts, patches, deletes or revokes
one of them statement by statement: what the route reads first, the write, the write's reported count
(`counted`), the audit entry. `queued` holds the badge requests API keys made. `mixed` are the records two requests wrote at
a time, `lost` the requests that ended early. The audit entries of other components are left out.

### LmsConnection

Its first part is what the Canvas and Sakai providers make of an LMS's pages. The second has the
tenant's configuration with its tokens, the states of authorization requests, the LMS's book, and
calls that configure, exchange, refresh, snapshot and read facts; each request to the LMS is a step.
`tallied` and `adrift` are history.

### Governance

Roles, a tree of units, scopes, the owner of a template with its events, delegated grants with theirs.
A caller delegates, revokes, asks permission, transfers, or reads, which writes the expiry
events of grants that have ended. A use that grants decide SELECTs those not revoked (`SelectGrants`), and for each of them, in the
order they start, the template rows (`ReadTemplates`) and then the units above the owner, on which it decides (`DecideGrant`); a creation SELECTs
the grants that overlap (`CheckConflicts`) and compares the template rows of each (`CompareGrant`). Rows for another action are
passed over in the SELECT's step. The lookups of the role and the template's owner with which a use begins are one step, and so are those of the
member, the unit and the templates with which a creation begins. A use remembers in `ended` the grants that were revoked when it
began and in `whole` whether the creation of the grant was over when its template rows were read. Administrators of the platform are not users here; units do not become inactive.

## What is checked

Twelve runs. The properties with parts are conjunctions; the parts are defined, each with its
comment, in the module of their component.

| Run | Instance | Properties and what they show |
|---|---|---|
| `JobQueue_leases` | 1 message, 2 processors, 2 operators, 2 attempts, lease 2, delay 1, time to 3, 2 resets, 1 crash | `LeaseExclusive`: a lease excludes others while it lasts, unless a stale retry reset the row. `HandledPerLease` (types, `CompletedMeansDone`, `LeasesBounded`, `OneRunPerLease`): completed means handled, attempts bound leases, one handler run per lease. `OnlyFailedRowsReset`: what a retry resets is failed, unless another retry has reset it since the listing |
| `BadgeIssuance_race` | 2 overlapping runs, 2 keys, 1 recipient, 3 ids, 2 profiles, 1 fault | `IssuedIsWhole` (types, `OneAssertionPerKey`, `RowMatchesCredential`, `AnswersAgree`, `SubjectHasIdentity`, `IssuedIsRecorded`). `ImplementsPromise`: it implements `IdempotentIssuance` |
| `Retry_served` | issuance: 1 run at a time, 2 keys, 1 fault; queue: 2 messages, 1 processor, batch limit 1, time to 8, 1 crash; schema: 19 kinds of request on databases as of migrations 15, 22, 32, 37 | `RetriesLeaveOrder` (`BitMeansRevoked`, `RepairsMend`): bits are right when runs do not overlap; what a repair begins is mended. Liveness: `IssuanceIsAnswered`, `RepeatedIsServed`, `EveryMessageSettles` |
| `Rules_overlap` | approval: 2 requests on a version of 2 steps, 1 fault; review: 2 versions, 3 callers, 1 lost; preview: 384 rules in 95 worlds | `StepsInOrder`, `ApprovedByWholeChain`. `ReviewedAsDecided` (types, `EvaluatedUnderApproval`, `BadgeMeansDecision`, `IssuedHasBadge`). `EvaluatedAsWritten` (`SimulationAgrees`, `MissingIsReviewed`). `DecisionsFollow` (`VersionsFollow` when requests come one by one, `ResolvedStays`) |
| `Verification_during` | 2 callers, 2 jobs, 3 begun, 1 fault, 1 verifier, 1 other assertion, 2 keys; documents: 2 holders, 2 keys, 1 day, 1 liberty | `RevocationHolds` (types, `RevocationIsEffective`, `CompletedJobRevoked`), `RevokedIsFinal`. `PartsAgree` (types, `SummaryIsWorst`, `ProofSurvives`). `ToldAsItIs`: an answer is of a state the assertion had while it was read; one by one, states follow the rules and answered transitions took effect. `AcceptedAsMade` (`AcceptedIsAsSigned`, `MadeIsAccepted`) |
| `TokenGrants_exchange` | 1 client, user and assertion, 5 secrets, 2 requests, 2 grants, time to 2, 1 fault | `TokensAreSound` (types, `SpentOnce`, `NeverWidened`, `SpentForTokens`, `AcceptanceRecorded`). `TokensGoBack` (`OneLiveRefresh`, `WritesAuthorized`): every token goes back to an authorization. `KeepsPromise`: it implements `OneTimeGrant`, and ends are kept |
| `SignIn_launch` | 2 providers, 1 emergency user, 2 admins, 1 browser, 3 changes, 1 cut; 2 calls, 2 nonces, 3 profiles, 3 begun, 1 lost | `ProvidersHold` (types, `OneDefault`, `DefaultIsKept`, `PolicyAsPut`, `NewDefaultIsUsed`). `SecondFactorFirst`. `LaunchesAgree` (types, `ClaimsAgree`, `SignedInAsLinked`, `UsedProofLinked`). `OpensOnce` (`NonceOpensOne`, `PlacedByItsLauncher`). `UnlessOverlapped` (`OnePrimary`, `OneDid`, `NoTwins`, `OneToolKey`). `IdentityStays` |
| `LearnerImport_redeliver` | files of 1 and 2 rows, 2 processors, 2 attempts, 1 reset, 1 crash; 2 editors, 3 edits; upload plans of three formats | `ImportedOnce`: rows that were queued are insertable, one insert per lease, once unless redelivered, a batch reported done is imported. `MigratedAsReported`: what is queued, previewed, referred to and converted agrees with the report. `RevokedIsKept` |
| `Reporting_attribute` | 5 units, 2 templates, 2 badges, 2 reporters, time to 4, 2 reports, 1 loss | `CountsAreTrue` (types, `CountedForAnOwner`, `CountsWhatWasIssued`, `ClaimedOnce`). `ViewsAgree` (`AllCountTheSame`, `HierarchiesAgree`, `ScopedCountsOwnOnly`, `LinksReachEveryUnit`) |
| `Setup_overlap` | administration: 2 requests of a kind at a time, 3 requests, 3 audit entries, 1 lost; LMS: 2 platforms, 3 calls; governance: 2 callers, 3 asks, 2 grants, time to 2; rows counted either way, in governance as on Postgres | `AuditTells` (`NewestEntryTells`, `RoleEntriesChain`, `ResolvedOnce`, `OneInitialOwner`). `UsedWhileThere` (types, `ImageIsStored`, `OnlyLiveKeysQueue`). `EndedIsKept`. `ConnectionHolds` (types, `RefreshTokenIsGood`, `EndIsEarly`, `ReadsWithGoodToken`, `FactsAreOfOneBook`). `GrantsAreSound` (types, `GrantedIsWhole`, `ConflictsOverlapped`, `ExpiredHasEnded`, `ExpiredOncePerReader`). `OwnershipExplained`. `PermittedAsGiven` |

Two runs are expected to find a violation, each of what a document of the
repository says; `PROJECT.json` ("findings") quotes it.

| Run | Counterexample |
|---|---|
| `BadgeIssuance_index` | two runs read the same maximum, sign the same status index (its index is not UNIQUE), and revoking one credential revokes both |
| `Launch_postgres` | the UPDATE that consumes a nonce reports no rows, so the launch consumes it and is refused; no launch succeeds on Postgres |

**Bounds.** Conflicts in this code are between two: a statement of one request falls between two
statements of another. Two requests (processors, callers, admins) make each of them; a third that begins
later, where a run has one, sees what they left. `JobQueue_leases` has time for a lease to expire, a retry
delay to pass and a second lease to run at the same time as the first; two attempts give a
retry and a dead letter, resets and a crash each of the ways back to
pending. Two resets by two operators are a retry that makes the listing of the other stale. In `Retry_served` the clock reaches jobs x attempts x (lease + delay) = 8. In `BadgeIssuance_race` three ids are
enough for two runs and the orphan a fault leaves. In the lifecycle three requests are enough
for a stale judgement, a backdated event and a later reader. A chain of two steps has a first, a last and a
next one. Five secrets are a code, two pairs of tokens and nothing left. Two templates and three
owners let a transfer fall inside a backfill of another's badge. One lost request is enough
for each place it can be lost at, since a second loss leaves what the first may have left. The one day,
or time to 2, of the other runs is what it takes to be before, at and after the only date compared.
The 384 previewed rules have every kind of condition, alone and nested. No configuration
turns deadlock checking off: where a system may come to rest, a request that only reads (a listing, a lookup) still
runs and changes nothing. Symmetry is used in safety runs only; `Retry_served` has none.

**Fairness** (`MCSpec` of `MCRetry`). A run of issuance that is not lost goes on (weak), and each key is asked
for again infinitely often while a slot is free (strong), as the queue redelivers a failed
`issue_badge` message and clients repeat requests. A client repeats a request that failed for
want of a table (weak). A queue processor goes on (weak): the cron trigger (`worker/create-worker.ts`) and the
poller (`node-worker.ts`) start runs forever. The clock passes, fairly, only while a row waits for
it, so that waiting idly for nothing is not a behaviour. `EveryMessageSettles` is checked without operators, whose retries
are not scheduled; `RepeatedIsServed` for databases past migration 16, and not for the list of evaluations, whose
columns no migration adds.

## What is proved

Eight modules hold proofs; `PROJECT.json` lists 60 theorems. A theorem holds for every value of the constants
that satisfies the named assumptions of the module it is about (supplies are finite sets where they are
counted, bounds are numbers, "none" values are not among the values); what a theorem needs besides is its hypothesis: `ObjectsAreApart` and `ExportsAreRead`, explained below, or that requests do not overlap (`[]OneHolds`, `[]OneAtWork`, `[]OneCaller`). Theorems are over the component's own specification (`Spec`, `VerifySpec`, `SignInSpec`,
`AdminSpec`, `GovSpec`, `ConnSpec`, `LaunchSpec`, `ImportSpec`, `MigrationSpec`, `ReviewSpec`, `PresentSpec`, `ReportingSpec`); the runs check the same definitions under it or under a composition of it.

None of the properties is inductive by itself: what a request read is only worth something if nobody
can have changed it since, and the strengthenings say which parts of what a request holds are still true
when it writes. Each module defines one `IInv` (`LifeInv`, `VerifyInv` and `PresentInv` in
`Verification_proofs`, `GovInv` for the grants and `LmsInv` for the connection in `Setup_proofs`, `ReportInv` in `BadgeIssuance_proofs`) and proves `Invariance`; where a property needs more than the others do, a second
invariant is proved on top of it (`LineInv` in `TokenGrants_proofs`, `ToldInv` in `Setup_proofs`,
`AloneInv` in `LtiLaunch_proofs` and in `RuleApproval_proofs`, `CallerInv` in `Verification_proofs`, `ImportInv` and `MigrationInv` in `JobQueue_proofs`, `ReviewInv` in `RuleApproval_proofs`). TLC checked each on a small instance before the proof. The
layout is the same in all: a lemma per action, under it one step per part of the invariant, lemmas for what does
not move, a temporal step at the end.

| Module | Theorem | States | Holds for |
|---|---|---|---|
| `JobQueue_proofs` | `Invariance`, `LeasesAreExclusive`, `LeasesAreBounded`, `HandledForLeases`, `ResetsOnlyFailed` | `LeaseExclusive`, `LeasesBounded`, `HandledPerLease`, `OnlyFailedRowsReset` | any messages, processors, operators whose retries overlap, tokens, attempts, times, crashes |
| `JobQueue_proofs` | `ImportInvariance`, `ImportsAreQueued`, `ImportsAreWhole`, `RevocationsAreKept` | `ImportedOnce`, `RevokedIsKept`; `ImportSpec => Spec` | any files, batches, owners of templates, processors, editors, patches, operators, imports and edits interleaved |
| `JobQueue_proofs` | `MigrationInvariance`, `MigrationsAsReported` | `MigratedAsReported` | any files of the three formats, templates, learners, batches, processors, operators, lost uploads; `ObjectsAreApart`, `ExportsAreRead` |
| `BadgeIssuance_proofs` | `Invariance`, `IssuedStaysWhole`, `PromiseKept` | `IssuedIsWhole`, `ImplementsPromise` | any keys, recipients, overlapping, lost and repeated runs |
| `BadgeIssuance_proofs` | `BitsMeanRevoked` | `BitMeansRevoked` of `RetriesLeaveOrder` | the same, under `[]OneHolds` |
| `BadgeIssuance_proofs` | `ReportInvariance`, `BadgesAreCounted`, `ScopedReadersSeeOwn`, `LinksReachAllUnits` | `CountsAreTrue`; `OwnOnly` of `ScopedCountsOwnOnly`, `EveryUnitReached` of `LinksReachEveryUnit` | any trees of units, templates, badges, transfers of any dates, reporters, overlapping and lost; any query of any scoped reader, or of one of the whole tenant |
| `RuleApproval_proofs` | `Invariance`, `NoStepSkipped`, `WholeChainApproved` | `StepsInOrder`, `ApprovedByWholeChain` | any versions with any chains, any overlapping and lost requests |
| `RuleApproval_proofs` | `OneByOneFollows` | `VersionsAgree`, `FollowsWorkflow` (`VersionsFollow` of `DecisionsFollow`) | any versions with any chains, any lost requests, under `[]OneAtWork` |
| `RuleApproval_proofs` | `ReviewInvariance`, `ReviewsFollowApproval`, `ReviewsAreDecided`, `SimulationsAgree`, `ResolutionsStay` | `ReviewedAsDecided`, `SimulationAgrees`, `ResolvedStays`; `ReviewSpec => Spec` | any rules, facts, callers and evaluations, lost and overlapping, while versions go on being approved |
| `TokenGrants_proofs` | `Invariance`, `SecretsAreSound`, `EndsAreKept`, `PromiseKept`, `TokensFollowCodes` | `TokensAreSound`, `EndIsKept`, `KeepsPromise`, `TokensGoBack` | any clients, users, secrets, overlapping and lost requests |
| `Verification_proofs` | `LifeInvariance`, `RevocationsHold`, `RevocationIsFinal`, `DecodedAsEncoded`, `VerifyInvariance`, `AnswersAgree`, `AnswersAreTrue` | `RevocationHolds`, `RevokedIsFinal`, `PartsAgree`, `AnswersTell` | any callers, jobs, verifiers, keys, times a caller may send, list sizes |
| `Verification_proofs` | `OneCallerIsServed` | `FollowsRules`, `TakesEffect` (with `AnswersTell` all of `ToldAsItIs`) | any jobs, losses and callers, under `[]OneCaller` and `ClientTimes = {}` |
| `Verification_proofs` | `PresentInvariance`, `AcceptedWasMade` | `AcceptedAsMade` | any holders, keys of the tenant, origins, days, replacements of the key, and documents and presentations altered any number of times |
| `TenantSignIn_proofs` | `Invariance`, `ProvidersKept`, `SecondFactorIsFirst` | `ProvidersHold`, `SecondFactorFirst` | any providers, users, admins, browsers, changes and losses |
| `Setup_proofs` | `Invariance`, `ReferredIsThere`, `WhatEndedStays`, `AuditIsTrue` | `UsedWhileThere`, `EndedIsKept`, `AuditTells` | any records, requests, days and losses, either way of counting rows |
| `Setup_proofs` | `GrantInvariance`, `GrantsStaySound`, `PermissionsAreGiven`, `OwnersAreExplained` | `GrantsAreSound`, `PermittedAsGiven`, `OwnershipExplained` | any users, units, templates, grants asked for, times, overlapping and lost requests, either way of counting rows |
| `Setup_proofs` | `ConnectionInvariance`, `ConnectionStaysSound` | `ConnectionHolds` | any LMS installations, whether they rotate their tokens or are silent on their end, any tokens, books, overlapping and lost requests, either way of counting rows |
| `LtiLaunch_proofs` | `Invariance`, `LaunchesHold`, `LoginsOpenOnce`, `IdentitiesStay`, `OneOfEachUnlessOverlapped` | `LaunchesAgree`, `OpensOnce`, `IdentityStays`, `UnlessOverlapped` | any learners, users, nonces, claims, overlapping and lost requests, either way of counting rows |

**JobQueue.** `TokensDiffer`: two runs never hold the same token, so that a row's token names its
processor. `LeaseEnds`, `LeaseKept`: a row's expiry is its processor's clock plus the
lease, and a processor whose lease has not run out still finds its token on each
message of its batch; exclusiveness follows, as a row has one token.
`FailedIsExhausted`, `PickedAreFailed`: a failed row has no attempt left and stays failed while it is
picked, unless another retry resets it; such a row is `overtaken` for everyone who has picked it. `AttemptsCounted`: leases granted are bounded by attempts counted plus
`max_attempts` for every reset. `HandledFirst`: a processor about to complete a message has handled it.
A retry that finds a row no longer failed resets it all the same and may take the lease from a running processor: `strayed` names
these rows, and only for them exclusiveness is not claimed. Completion, leases per attempt and runs per lease hold
of them too. `OneRunPerLease` sums over processors;
`RunsAreLeased` does it with the cardinality of the set of those that hold a message.

**LearnerImport.** The run has the imports or the edits in a behaviour; `ImportSpec` interleaves them, on one table. `ImportsAreQueued`
shows that a step of an import is a step of the queue or leaves the queue alone, so that the queue's invariant
holds of it too, and `ImportInv` is proved on top. `RowsUploaded`: what is queued is a valid row of its upload's file, which never changes once queued;
`OriginsFit`, `ImportsDone`: a handler that returned has left an entry with its row's context; `EditFits`: an edit about to be
written was found to make sense. `InsertsAreLeased` counts: of the leases granted for a row one is left for each processor
that has yet to insert (`Unmade`), so a row has no more entries than leases, and a completed row leased once has just one. A batch
shown as done has as many completed rows as valid ones, and there is a bijection between rows and their numbers (`AllAreCompleted`).
`ImportAssumption` and `RequestsAssumption` are the types of files, requests and patches, and that every row has its message.

**MigrationUpload.** `MigrationSpec` runs uploads and the queue's processors together, on any set of files. `MigrationInv` says of a batch
that its reports are the verdicts on rows of its file (`ReportsFit`) and that what is queued of it are the rows reported valid, but for one
in an upload that was lost before it could report it (`QueueFits`); `MigrationIsQueue` that each step is one of the queue or leaves it alone. The rest
follows from the reports: `PreviewsAreKept` for what a dry run says, `AwardsAreKept` and
`ExportsConvert` by following the conversion operators. Two facts about data are hypotheses: `ObjectsAreApart`, an object (a
badge, an issuer or a recipient given whole) is not one of the texts and ids the parsers give instead, and `ExportsAreRead`, the columns of an
export that hold ids hold ids or nothing. Both are what the parsers make of JSON and CSV; TLC evaluates
the second on the run's files (`PlansAssumption`). The proof showed that the model had taken the numbers of queued rows to end at
`MaxRows`, which bounds how many rows a file has and not the numbers they bear; `QueuedNumbers` is unbounded since.

**BadgeIssuance.** `TablesHold` relates the tables to each other (a row agrees with what is stored, and its index is below
`Cardinality(Rows)`), `RunHolds` says that what a run has read and written is still so, and `IdsDiffer` that
no two runs hold one id. The refinement is shown action by action: what stores the credential is the
abstract `Store`, the INSERT is `Issue`, an answer is `Answer`, and everything else stutters. `BitMeansRevoked` is false when runs overlap between
drawing an index and inserting it (`BadgeIssuance_index`), and true as long as no two do (`OneHolds`): `IndexInv` adds to the
invariant that no two rows have one index, and that an index a run holds is above those of all rows.

**Reporting.** `TemplateFits`: no two transfers of a template have one date, there is a latest one up to each date (`Dated`), and the newest
is to its owner, or, while a transfer is in flight, to its former owner, unless the template is among the `broken`. `DateFits`: the transfer that counts for
the date of a badge is to one of the units in `holders`, and so is the one in flight if it is dated before the badge; `BadgeFits`: so are the
owner an issuance has read and the unit a badge has been given. `CallFits`: a call that fills in holds transfers, perhaps fewer than there are by now, in which the latest up to the
date of each of its badges is one of these, since a later transfer is dated later (`KnownAfter`). `ReportFits`: each badge that was
there when a report began has its unit or is among those to be filled in. TLC checked `ReportInv` on the run's calls. `ReportingAssumption` says that the first
transfers are dated 1 and that time comes to 1. `ScopedReadersSeeOwn` is of the operators: what a query of a unit selects, and the groups a scoped
reader is shown, are made of rows of the scope, whatever the other rows are; a sum of groups depends on the groups summed only.
`LinksReachAllUnits` is of the operators too: a unit's lineage is the unit and the lineage of its parent (`LineageGoesUp`), so it has one unit of every
level down to its own (`LineagesAreOk`), a dashboard above a unit compares the next level (`ComparesNextLevel`), and goes one link on (`OneLinkOn`). It
rests on the rule by which `createTenantOrgUnit` makes units (`TreeAssumption`), and supposes a tenant with a unit: the code throws for one without.

**RuleApproval.** `VersionOK`: steps are inserted once and never more than the chain has; a step that
is pending has all before it granted; a version that was submitted with its chain complete keeps it complete.
`RequestOK`: what a request has read holds when it writes, because what it needs
only grows (`Grows`, lemma `Kept`): grants are never taken back, steps never
removed. This is why the overlaps that strand or double versions cannot break these two.
What requests that come one at a time keep besides needs `AloneInv`: the step that is pending comes after steps that are approved
(`ShownFits`), one version at most is active, the rule points to it unless an activation was lost, and what the one request at
work has read is still so (`WorkFits`). A request lost halfway leaves a version that is behind, never one off its workflow.

**RuleReview.** In the run versions come to rest before the rule is evaluated; `ReviewSpec` interleaves evaluations, reviews and
approvals freely, and every step of it is a step of the approval or leaves it alone. `CallerFits`: an evaluation under way
is of an approved version or of one it was asked for by name (this stays so although the version may be deprecated meanwhile, as grants are never
taken back: `ApprovalsStay`), its outcome is of its facts, and the badge it is going to record is issued; a resolution under way
is of a review that is still pending, unless `disturbed`. `CallersDiffer`: two callers are about one evaluation only if it is disturbed. `RowFits`
is what a row says, `BadgeFits` that a badge of a review is of a row that says so or of the one caller that is about to. `Outcome`
is never expanded: what the tree evaluates to does not matter, only that it is a function of the rule and the facts recorded.

**TokenGrants.** `SecretsFit`: whose a secret is follows from its kind, and one given for another was given for one that
was consumed; `RequestsHold`: what a request holds between its statements; `OneConsumer`: at most one request exchanges a
secret, which is what the guarded UPDATE gives; `GivenOnce`: a secret gives one of each kind. The root of a
token is a recursive function of the secrets given so far. That it exists and is unique is a property of a chain
that grows at its end only, so it is part of the second invariant, `LineInv`, instead of an induction: every secret of a
line goes back to one code, and a line has one refresh token that is not spent.

**Verification.** `LatestExists` replaces the CHOOSE of the latest event by the fact that there is one;
`EventsFollow` and `Keeps` say that a revocation, once begun, is visible to whoever judges later; `JobInOrder` what a
job has written at each place. Of callers that come one at a time and leave
`transitionedAt` to the program `CallerInv` says that an event about to be written will be the latest and goes from the state
that is the latest (`CallerFits`). The jobs that revoke meanwhile write no event, so they do not disturb this. `DecodedAsEncoded` is the lemma on bit strings by which the list says what the
row says. The second invariant says of each answer under way that what it has read was true since it began.

**Presentations.** `PresentInv`. `DocumentFits` and `PresentationFits`: whatever became of a document since, each of its proofs
is over what somebody signed (`made`), the tenant with a key of its own or a holder with its own; alterations add, drop and
relabel proofs and never make one. What is signed as linked data and what is signed as JSON agree on the linked data (`PayloadsAgree`), and
of a document without unknown terms that is all of it (`DocumentData`); so what is accepted was signed. For the other half,
`BadgeFits` and `UnalteredFit` say that the badge, and every copy while nothing was altered, is what the signing made of a document
with a key that is still in use or in the history (`SealedIsSigned`: such a proof passes), `CreatedFits` that what the program put into a
presentation is still in it, and `ReplyFits` that an answer is of the state as it is. The first asserting proof is a least
index, which exists by `LeastExists`, from the library's well-founded order on finite sets. `HoldersAssumption` says that
no DID of a holder is a key of the tenant or one of the other DIDs.

**TenantSignIn.** `AdminHolds`: a creation that holds a policy holds the mode and the flags of the one put last
(`HeldAsPut`, unless `stale`); one that was asked for alone is still alone (`StillAlone`); a default
chosen last is the policy's (`ChosenHolds`). `AdmittedMarked`: a session without a second factor is marked pending, unless its browser has
`lapsed`. `LocalHolds`: a verified code is of a user with a second factor, who was
listed when it was verified if it is listed when that is looked up (`CodesHold`).

**Administration.** `RowsTyped`, `EntriesFit`, `RequestsFit`: rows and audit entries are of the tables they name, and a
request's locals of its kind; `OnePut`: an id that is being created is
one request's; `ImageIsStored` and
`QueuedAsGranted`: a template's image was stored before it was shown, and a job was queued by a key that lived
when its call began. `ToldInv` is what the audit log needs besides. On a record that no two requests wrote at a time, at most
one request writes (`AloneOn`): either it is past its write and will tell of it (`Underway`), or the newest
entry tells what the row is (`Telling`); `Knows` says what that one request still knows of the row between its statements.
The entries of a member's role are a chain (`Chained`). Overlapped or not, a request for a database has at most one
entry of its end or one request about to write it (`ResolutionsTold`), and the initial owner
on record is the owner the template has (`OwnersTold`). However rows are counted, an UPDATE that found none
reports none (`NoneReported`).

**Governance.** `GovInv`. `CallerFits` says what a request holds at each place: `GrantFits` of a creation that its templates so far are those
of the grant it inserted, and of an expiry about to be recorded that its grant has ended; `ComparedFit` of a creation going through the rows of its SELECT that it clashes with no
whole grant it is done with; `UseFits` of a use that each row it has left to read is of a grant that could permit it and had not ended when it
began (`Chosen`, `EndedFit`), that template rows read when the creation was over are those of the grant (`ReadWhole`), and that it
carries no grant once none is found to allow it (`PermittedAsGiven` tells the two ways of being permitted apart by that); `OwningFits` of a
transfer. A grant keeps in `seen` which whole grants its conflict check had read; none of those clashes with it (`GrantsSeenFit`), and what a
check reads never changes in what it compares (`Grows`), so a clash means that neither had seen the other. `RecordersCounted`: the expired events of
a grant and those about to record one are no more than the callers, since a reader
takes it on only while there is no event. `OwnerFits` follows the one transfer of a template that nobody crossed between its
two statements. `SupplyLasts` is about the model's supply of ids. The units above a unit are never expanded: the permission depends
on the same reading of them as its explanation, whatever the tree is.

**LmsConnection.** `LmsInv`. `TokensFit` is what the LMS itself keeps to: an access token lasts until its end, a refresh token
ends only where tokens rotate. `RowFits` is true of the stored row and of each row a request read, adrift or not: its tokens are an access
and a refresh token that were handed out, and its end is no later than the LMS's. `HeldFits` says what a request holds
at each place; at its store (`StoreFits`) that is a token asked for since it began and either a new refresh token that
lives or the old one of an LMS that does not rotate. `NewIsUnknown`: no other request, row or read of a row has
that new refresh token, so nobody can spend it before it is stored. Unless the connection is adrift the stored row is good (`RowGood`)
and each request may rest on it (`Steady`): what it read is of the LMS of the settings, and what it goes on with was good
when it began (`AsRead`) or was handed out since (`NewFor`). A store by one request keeps that for the others because an access token
that is newer than one it replaces is newer than everyone who relied on that one. The facts of a Sakai rule are
exactly what its cached matrix makes (`FactsFit`), whatever rows the matrix has for a student.

**LtiLaunch.** `IInv` is `Typed`, `CallsFit`, `RowsFit`, `NoncesFit`. What a launch holds between its statements (`Fits`)
may only rest on rows no request takes back (`RowsStay`): the nonce is consumed (`NonceFits`), the profile and the identity it was
found by are there (`ProfileFits`, `SubjectFits`, `ClaimsFit`), the user and the link of its address (`UserFits`, `AuthFits`),
the placement (`PlaceFits`). `RowsFit` says so of the tables: a user of the better-auth library is linked to the user of
its own address (`LinksFit`), a used link proof names the profile it was made for (`ProofsFit`). `NoncesFit`: one login stores a nonce
and one launch consumes it (`LoginsDiffer`, `LaunchesDiffer`, `OpenedDiffer`). `UnlessOverlapped` needs `AloneInv`: as long as no
request began while another was under way, every request but one is idle and what the one has looked up is still so
(`AloneFits`); a primary identity it has cleared will be set (`PrimaryKept`, when no request was lost). `IdentityAssumption` says that
identities of different types differ, `LaunchAssumption` that there are keys to sign with where logins were made before.

### Only model-checked

- Liveness: `IssuanceIsAnswered`, `RepeatedIsServed`, `EveryMessageSettles`; the prover has no fairness or ENABLED.
- Facts about recursive data, which need induction: the counts of `ReportRows` (`AllCountTheSame`, `HierarchiesAgree` of
  `ViewsAgree`), and the half of `EvaluatedAsWritten` that no theorem states, `MissingIsReviewed`, about the leaves of a rule's tree.
- Not attempted: `RepairsMend` of `RetriesLeaveOrder`.

## What the models show besides

Behaviours of the code met while modelling, beyond the two findings. They are in the models as they are in
the code, and the properties are stated so that they are true beside them.

*Queue.* The UPDATE that leases does not look at the status again (`packages/db/src/index.ts:17489`): a message one
processor completed can be leased by another that had selected it. With two retries at once a row that is
no longer failed is reset (`:17700`), which may take the lease from a running processor, where `docs/MIGRATION_PROGRESS_DASHBOARD.md:35` says that only
failed rows are reset. Retry sees the newest 1000 messages. `import_migration_batch` jobs only log.

*Lifecycle and verification.* A `revoke_badge` job writes no lifecycle event (`queue/processing.ts:128`). With two
callers at once a transition is written that the rules do not allow; a backdated transition is told as current
though it is not. A presentation of a suspended credential passes. Credentials carry no `validUntil`, and the
list's own signature is not verified. A list URL comes from the request that issued, or from the platform's
domain in jobs (`direct-issue.ts:203`, `scheduled-trigger.ts:6`), so that behind a TLS proxy one of them may be
unreadable; revocation is still told by the row. A read between two statements of a revocation may say "revoked" without a
date if the list is unreadable. A `did:web` holder is verified only if the presentation says issuer = holder; a
credential without `@context`, or a failed fetch of one, ends in a 500.

*Rules.* With requests that overlap, two versions can be active or the rule point at a deprecated one, and a
stale submission puts an active version back to pending. A decision lost between `MarkStep` and `MarkNext` leaves a
version no operation moves any more. On Postgres, activating a version and resolving a review answer as if
they had not happened (`packages/db/src/index.ts:11834`), without an audit entry. A `not` of missing data matches;
a named version may be of any status.

*Tokens and sign-in.* Creating a default provider rewrites the policy from a copy read before, so that a policy put
in between is lost. The mark of a pending set-up is a cookie without an age beside a lasting session: a browser closed in between keeps the
session and not the mark. On Postgres an update of a provider answers 404 after it was applied and leaves the
policy as it was, and a deletion leaves `default_provider_id` pointing at nothing. A request lost between clearing
the default and inserting a new one leaves none. Revoking an emergency account does not end its sessions.

*Launches and learners.* Overlapping first uses of the tool's key overwrite it; overlapping launches may demote an
issuer to viewer; two library users of one address are possible, and later a magic link is refused; overlapping
settings of a DID may leave two; a lost race leaves a profile without identity.

*Governance.* On Postgres a revocation of a grant writes no event and answers "already revoked". A grant whose template rows
were lost allows every template, and one still being created may. A grant revoked between the SELECT of grants and the decision still permits. A transfer checks an owner another has replaced since.

*Administration.* A PUT of a tenant that omits fields resets them; a PUT of a template by id brings it back from the
archive and clears its image. `tenants.is_active` is looked at in one listing only (`:6824`), so API keys of an inactive
tenant work. Overlapping first PUTs of a template record its initial owner twice. On Postgres, deleting a
registration, resolving a database request and revoking a key are applied, answered as not found, and not audited.
Conflicts are told by SQLite's words, and answered 500 on Postgres.

*LMS.* Putting a configuration keeps the old tokens and sends them to the new address. Overlapping refreshes,
exchanges and configurations may store tokens of another LMS; a rotated refresh token is lost if the request ends before its
UPDATE; a token without `expires_in` never ends. The state token may be used again for ten minutes. Only the first
page of an LMS's answers is read. Evaluations for Sakai read Canvas's configuration.

*Imports and records.* No key makes a source record unique, so a redelivered import inserts again. An upload lost
midway, or one whose row fails to decode, leaves rows queued under a batch the caller was never told. Two rows of one file that
name the same new badge both preview "create". Overlapping patches rewrite all columns, and one begun before a
revocation undoes it.

*Reporting.* A backfill between the statements of a transfer attributes to the former owner; ties and backdated
transfers make backfill and issuance disagree. The history a backfill asks 5000 rows of is capped at 500. The roll-up
ignores the state filter it echoes; the overview and the trends are not restricted to a scoped reader's units
as the roll-up is; a scoped reader of several roots reaches one of them.

*Schema.* A request lost between CREATE TABLE and CREATE UNIQUE INDEX leaves the table without its index for ever. The
upgrade of docs/SELF_HOST_DOCKER_RUNBOOK.md:74 stops at migration 16, which adds a column that is there. The columns of
reviews are added by no migration, and their list answers 500 until an evaluation is made.

## What is not modelled

- Request validation (`packages/validation`): pure; its results are the inputs the modules enumerate.
- Pages, styles and client scripts (some 16000 lines), public badge views, CSV and print wording: no state of their own.
- Notifications: outgoing e-mail; a failure is logged and changes nothing.
- The better-auth library, the LTI library's check of a token, SAML and OIDC redirects, rosters: external; what they
  answer is an input.
- Cryptography, hashing, canonicalization: ideal. Contexts a document's proof depends on are one field of it.
- Of governance: the routes' 409 answers and the audit log of transfers. Of reporting: insights, windows, exports
  other than their refusal. Of rules: the text of a rule, courses lists, the audit log.

Bodies of text are abstracted by what the code tells apart: a CSV parses or does not, a date is before or after
another, an LMS's page is a set of facts.

## Plan

What is next:

`RepairsMend`, request by request.
