-------------------------- MODULE MigrationUpload --------------------------
(***************************************************************************)
(* Uploads of badges from elsewhere (routes/migration-routes.ts): a file   *)
(* in this system's own layout (migrations/batch-upload.ts) or an export   *)
(* of Credly or Parchment is read into rows; each row is checked and, when *)
(* it is valid and this is no dry run, queued before the next is looked    *)
(* at. The queue's handler of such a row only logs it.                     *)
(***************************************************************************)
EXTENDS JobQueue, Ob2Import

CONSTANTS
    MigrationBatches,  \* supply of batch ids
    MaxRows,           \* MAX_BATCH_ROWS and its like
    Templates,         \* the tenant's badge templates: [slug, title, archived]
    SlugOf,            \* slugify, of each title
    KnownRecipients    \* identities that a learner profile has

VARIABLE migration     \* each batch: its request's step, what it was sent, its reports

Sources == {"file_upload", "credly_export", "parchment_export"}

\* The requests of a file and the reports on them, each by the number of its row.
NoMigration == [step |-> "none", source |-> "file_upload", dryRun |-> FALSE,
                rows |-> <<>>, reports |-> <<>>]

MigrationInit == migration = [b \in MigrationBatches |-> NoMigration]

-----------------------------------------------------------------------------
(* Reading a file. Rows are numbered as the file has them; blank lines of  *)
(* a CSV file, and nulls in a JSON file of our own layout, are skipped     *)
(* with their numbers.                                                     *)

DataLine(source, file, line) ==
    IF file.format = "csv" THEN line.is # "blank"
    ELSE source = "file_upload" => line.is # "null"

ExportRow(file, line) == IF file.format = "csv" THEN line.row ELSE FromJson(line.row)

RequestOf(source, file, line, n) ==
    IF line.is # "row" THEN NoRequest
    ELSE IF source = "file_upload" THEN line.row
    ELSE RowRequest(source, ExportRow(file, line), n)

Lines(file) == IF file.format = "classes" THEN Flattened(file.classes) ELSE file.lines

DataNumbers(source, file) == {n \in DOMAIN Lines(file) : DataLine(source, file, Lines(file)[n])}

ParsedRows(source, file) ==
    [n \in DataNumbers(source, file) |-> RequestOf(source, file, Lines(file)[n], n)]

\* A file that is not read to the end, has no known column, no row or too many is refused.
Readable(source, file) ==
    /\ file.parses
    /\ Cardinality(DataNumbers(source, file)) \in 1..MaxRows

\* The columns of an export that hold ids hold ids, or nothing.
HoldsIds(r) ==
    /\ r.badgeId \in Ids \cup {Undefined}
    /\ r.issuerId \in Ids \cup {Undefined} /\ r.issuerUrl \in Ids \cup {Undefined}

ExportsAreRead(plans) ==
    \A p \in plans : p[1] # "file_upload" =>
        \A n \in DataNumbers(p[1], p[2]) :
            LET line == Lines(p[2])[n]
            IN  line.is = "row" => HoldsIds(ExportRow(p[2], line))

-----------------------------------------------------------------------------
(* The verdict on a row and, in a dry run, what issuing it would change.   *)

RowOutcome(q) == IF ValidRequest(q) THEN Prepared(q).is ELSE "error"

TemplatesSeen(slug) == {t \in Templates : t.slug = slug}

\* dryRunDiffPreview
DiffPreview(c) ==
    LET seen == TemplatesSeen(SlugOf[c.title])
    IN  [template |-> IF seen = {} THEN "create" ELSE "update",
         changed |-> IF seen = {} THEN {"new_template"}
                     ELSE {"title" : t \in {s \in seen : s.title # c.title}},
         profile |-> IF <<c.recipientIdentityType, c.recipientIdentity>> \in KnownRecipients
                     THEN "reuse" ELSE "create"]

NoPreview == [template |-> "none", changed |-> {}, profile |-> "none"]

Report(q, dryRun) ==
    LET valid == RowOutcome(q) = "converted"
        c == Prepared(q).conversion
    IN  [valid |-> valid,
         conversion |-> IF valid THEN c ELSE Undefined,
         preview |-> IF valid /\ dryRun THEN DiffPreview(c) ELSE NoPreview]

\* POST .../migrations/ob2/dry-run: one request, prepared and previewed by itself.
DryRunAnswer(q) ==
    IF ~ ValidRequest(q) \/ Prepared(q).is # "converted" THEN [valid |-> FALSE, preview |-> NoPreview]
    ELSE [valid |-> TRUE, preview |-> DiffPreview(Prepared(q).conversion)]

ValidReports(b) == {n \in DOMAIN migration[b].reports : migration[b].reports[n].valid}

-----------------------------------------------------------------------------
(* POST .../migrations/ob2/batch-upload, credly/ingest, parchment/ingest.  *)

\* A bound: there are messages for the rows of this batch.
Supplied(b, rows) == \A n \in DOMAIN rows : <<b, n>> \in Jobs

UploadMigration(b, source, file, dryRun) ==
    /\ migration[b].step = "none"
    /\ IF Readable(source, file)
       THEN /\ dryRun \/ Supplied(b, ParsedRows(source, file))
            /\ migration' = [migration EXCEPT ![b] =
                    [NoMigration EXCEPT !.step = "checking", !.source = source, !.dryRun = dryRun,
                                        !.rows = ParsedRows(source, file)]]
       ELSE migration' = [migration EXCEPT ![b] = [NoMigration EXCEPT !.step = "refused"]]
    /\ UNCHANGED vars

Unchecked(b) == DOMAIN migration[b].rows \ DOMAIN migration[b].reports

\* The rows are taken in the order of the file.
NextRow(b, n) == n \in Unchecked(b) /\ \A k \in Unchecked(b) : n <= k

\* Mutant: the rows of a dry run are queued as well.
QueuedThough(b, n) == <<b, n>> \in Jobs /\ Enqueue(<<b, n>>)

\* enqueueJobQueueMessage, under the key migration-batch:<batchId>:<rowNumber>.
QueuedUnlessDry(b, n) == IF migration[b].dryRun THEN UNCHANGED vars ELSE Enqueue(<<b, n>>)

With(reports, n, r) ==
    [k \in DOMAIN reports \cup {n} |-> IF k = n THEN r ELSE reports[k]]

\* runBatchRowValidation, one row: the INSERT of a valid one, then its report.
CheckMigrationRow(b) ==
    /\ migration[b].step = "checking"
    /\ \E n \in Unchecked(b) :
        LET q == migration[b].rows[n]
        IN  /\ NextRow(b, n)
            /\ RowOutcome(q) # "throws"
            /\ IF RowOutcome(q) = "converted" THEN QueuedUnlessDry(b, n) ELSE UNCHANGED vars
            /\ migration' = [migration EXCEPT ![b].reports =
                                With(@, n, Report(q, migration[b].dryRun))]

\* A row throws, its INSERT fails or the request is killed: the rows queued so far stay,
\* under a batch id nobody was told.
LoseMigration(b) ==
    /\ migration[b].step = "checking"
    /\ \/ \E n \in Unchecked(b) :
            /\ NextRow(b, n)
            /\ RowOutcome(migration[b].rows[n]) = "converted" /\ ~ migration[b].dryRun
            /\ Enqueue(<<b, n>>)
       \/ UNCHANGED vars
    /\ migration' = [migration EXCEPT ![b].step = "lost"]

AnswerMigration(b) ==
    /\ migration[b].step = "checking"
    /\ Unchecked(b) = {}
    /\ migration' = [migration EXCEPT ![b].step = "answered"]
    /\ UNCHANGED vars

\* createProcessQueuedJob: an import_migration_batch row is logged and done.
HandleMigration(w, m) == HandlerReturns(w, m) /\ UNCHANGED migration

\* Clients send files, each [parses, format, lines or classes], to the routes: a plan is a
\* source and a file of it.
MigrationNext(plans) ==
    \/ \E b \in MigrationBatches :
        \/ \E p \in plans, dryRun \in BOOLEAN : UploadMigration(b, p[1], p[2], dryRun)
        \/ CheckMigrationRow(b) \/ LoseMigration(b) \/ AnswerMigration(b)
    \/ \E w \in Workers, m \in Jobs : HandleMigration(w, m)

\* Beside them the queue runs, and its processors are lost.
MigrationStep(plans) ==
    \/ MigrationNext(plans)
    \/ (QueueStep \/ \E w \in Workers : Crash(w)) /\ UNCHANGED migration

MigrationSpec(plans) ==
    Init /\ MigrationInit /\ [][MigrationStep(plans)]_<<vars, migration>>

-----------------------------------------------------------------------------
(* GET .../migrations/progress: the rows of a batch among those listed.    *)

MigrationRowsIn(L, b, statuses) ==
    Cardinality({m \in L : m[1] = b /\ row[m].status \in statuses})

\* summarizeMigrationBatchProgress
MigrationSummary(L, b) ==
    [totalRows |-> MigrationRowsIn(L, b, Statuses),
     pendingRows |-> MigrationRowsIn(L, b, {"pending"}),
     processingRows |-> MigrationRowsIn(L, b, {"processing"}),
     completedRows |-> MigrationRowsIn(L, b, {"completed"}),
     failedRows |-> MigrationRowsIn(L, b, {"failed"})]

-----------------------------------------------------------------------------
(* Properties.                                                             *)

Told(b) == migration[b].step = "answered"
QueuedNumbers(b) == {m[2] : m \in {j \in Jobs : j[1] = b /\ row[j].status # "absent"}}

\* An upload that was answered queued one row for each row it reported as valid and no
\* other, each under its own number; a dry run queued none; and a lost one left at most
\* one row in the queue that it had not come to report.
QueuedAsReported ==
    \A b \in MigrationBatches :
        /\ migration[b].dryRun => QueuedNumbers(b) = {}
        /\ Told(b) /\ ~ migration[b].dryRun => QueuedNumbers(b) = ValidReports(b)
        /\ Told(b) => DOMAIN migration[b].reports = DOMAIN migration[b].rows
        /\ migration[b].step = "lost" => Cardinality(QueuedNumbers(b) \ ValidReports(b)) <= 1

\* What a dry run of a file reports on its rows is what a dry run of each row by itself
\* reports, and what the upload of that file does with them.
PreviewIsKept ==
    /\ \A b \in MigrationBatches : migration[b].dryRun =>
        \A n \in DOMAIN migration[b].reports :
            LET r == migration[b].reports[n]
            IN  DryRunAnswer(migration[b].rows[n]) = [valid |-> r.valid, preview |-> r.preview]
    /\ \A a, b \in MigrationBatches :
        Told(a) /\ Told(b) /\ migration[a].dryRun /\ ~ migration[b].dryRun
        /\ migration[a].source = migration[b].source
        /\ migration[a].rows = migration[b].rows
            => QueuedNumbers(b) = ValidReports(a)

\* A dry run proposes to create a template only under a slug that none has, so that
\* creating it cannot fail on UNIQUE (tenant_id, slug).
PreviewedSlugIsFree ==
    \A b \in MigrationBatches : \A n \in DOMAIN migration[b].reports :
        LET r == migration[b].reports[n]
        IN  r.preview.template = "create" => \A t \in Templates : t.slug # SlugOf[r.conversion.title]

\* A hashed recipient is imported as a hash and never as an address, a plain one never as
\* a hash; a DID is taken for a DID and an address for an address unless the award names
\* another type.
RecipientTypeIsKept ==
    \A b \in MigrationBatches : \A n \in ValidReports(b) :
        LET a == migration[b].rows[n].assertion
            c == migration[b].reports[n].conversion
        IN  a # Undefined =>
                /\ a.recipient.hashed <=> c.recipientIdentityType = "email_sha256"
                /\ ~ a.recipient.hashed /\ a.recipient.type \notin {"email", "Email"} =>
                    /\ c.recipientIdentity = "did" => c.recipientIdentityType = "did"
                    /\ c.recipientIdentityType = "email" =>
                            c.recipientIdentity \in {"address", "mailto"}

\* The badge an award is converted to is the one that the award refers to: no badge class
\* of another id takes its place, wherever it was given.
BadgeIsTheOneReferredTo ==
    \A b \in MigrationBatches : \A n \in ValidReports(b) :
        LET a == migration[b].rows[n].assertion
        IN  a # Undefined /\ a.badge \in Ids =>
                migration[b].reports[n].conversion.badgeClassId \in {Undefined, a.badge}

\* Each row of an export that names its recipient is valid, whatever else it leaves out,
\* and keeps its issuer's name; sent alone to be converted, it is.
ExportedRowsConvert ==
    \A b \in MigrationBatches :
        migration[b].source # "file_upload" =>
            \A n \in DOMAIN migration[b].reports :
                LET q == migration[b].rows[n]
                    r == migration[b].reports[n]
                IN  q.assertion # Undefined /\ q.assertion.recipient.identity # Undefined =>
                        /\ r.valid /\ ConvertStatus(q) = 200
                        /\ q.issuer # Undefined => r.conversion.issuerName = q.issuer.name

\* A progress request that shows an answered batch with as many completed rows as were
\* reported valid shows a batch whose every row was handled.
DoneBatchWasHandled ==
    \A L \in SUBSET {m \in Jobs : row[m].status # "absent"} : \A b \in MigrationBatches :
        Told(b) /\ ~ migration[b].dryRun
        /\ MigrationSummary(L, b).completedRows = Cardinality(ValidReports(b))
        => \A n \in QueuedNumbers(b) : effects[<<b, n>>] >= 1

\* What an upload reports of its rows is what it queues and what the rows said.
MigratedAsReported ==
    /\ QueuedAsReported /\ PreviewIsKept /\ PreviewedSlugIsFree /\ RecipientTypeIsKept
    /\ BadgeIsTheOneReferredTo /\ ExportedRowsConvert /\ DoneBatchWasHandled
=============================================================================
