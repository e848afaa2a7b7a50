---------------------------- MODULE LearnerImport ----------------------------
(***************************************************************************)
(* Imports of learner records: a CSV file is checked row by row and queued *)
(* (learner-record/learner-record-import.ts, routes/learner-record-        *)
(* routes.ts), and the job queue runs one handler per row, which inserts   *)
(* an entry of LearnerRecord and then the context it was imported in.      *)
(*                                                                         *)
(* The handler is two statements and the queue delivers a row again when   *)
(* its lease runs out or the handler throws: nothing ties an entry to the  *)
(* row it was made from.                                                   *)
(***************************************************************************)
EXTENDS JobQueue, LearnerRecord

CONSTANTS
    Batches,       \* supply of batch ids, one per upload
    Files,         \* CSV files: each a function from row numbers to candidate rows
    Owner,         \* owner_org_unit_id of each badge template
    Nothing        \* NULL, or a column that is not in the file

\* The messages are the rows of the files, one per batch and row number.
ASSUME ImportAssumption ==
    /\ Nothing \notin Entries \cup Jobs
    /\ Jobs \subseteq Batches \X Nat
    /\ \A f \in Files : \A n \in DOMAIN f :
           /\ f[n].trust \in TrustLevels \cup {Nothing} /\ f[n].recordType \in RecordTypes
           /\ \A b \in Batches : <<b, n>> \in Jobs

VARIABLES
    upload,        \* each batch: its request's step, its file and its default trust level
    made,          \* the entry each processor's running handler has inserted
    origin,        \* history: the row each entry was imported from
    context        \* learner_record_import_context, by entry

importVars == <<upload, made, origin, context>>
allVars == <<vars, recordVars, importVars>>

NoUpload == [step |-> "none", file |-> <<>>, trust |-> "issuer_verified"]

ImportInit ==
    /\ Init
    /\ RecordInit
    /\ upload = [b \in Batches |-> NoUpload]
    /\ made = [w \in Workers |-> Nothing]
    /\ origin = [e \in Entries |-> Nothing]
    /\ context = [e \in Entries |-> Nothing]

-----------------------------------------------------------------------------
(* prepareLearnerRecordImportRow. A candidate row has the units and the    *)
(* templates that its id and its slug name, and whether it names any.      *)

EffectiveTrust(r, default) == IF r.trust = Nothing THEN default ELSE r.trust

\* Mutant: the trust level of a supplemental artifact is not looked at.
ValidParsed(r, default) ==
    r.parses /\ Cardinality(r.units) <= 1 /\ Cardinality(r.templates) <= 1

ValidRow(r, default) ==
    /\ r.parses
    /\ r.recordType = "supplemental_artifact" =>
            EffectiveTrust(r, default) = "learner_supplemental"
    /\ Cardinality(r.units) <= 1
    /\ Cardinality(r.templates) <= 1

TheOne(S) == IF S = {} THEN Nothing ELSE CHOOSE x \in S : TRUE

OwnerOf(r) == IF r.templates = {} THEN Nothing ELSE Owner[TheOne(r.templates)]

\* A row that names no unit we know is put under the unit that owns its template.
SmartContext(r) ==
    LET fromTemplate == r.units = {} /\ OwnerOf(r) # Nothing
        sources == {s \in {"row", "org_unit", "badge_template"} :
                      \/ s = "row" /\ (r.namesUnit \/ r.namesTemplate)
                      \/ s = "org_unit" /\ r.namesUnit
                      \/ s = "badge_template" /\ (r.namesTemplate \/ fromTemplate)}
    IN  [unit |-> IF fromTemplate THEN OwnerOf(r) ELSE TheOne(r.units),
         template |-> TheOne(r.templates),
         inferredFrom |-> IF sources = {} THEN {"none"} ELSE sources]

Candidate(m) == upload[m[1]].file[m[2]]

ImportedEntry(m) ==
    [trustLevel |-> EffectiveTrust(Candidate(m), upload[m[1]].trust),
     recordType |-> Candidate(m).recordType, status |-> "active",
     sourceSystem |-> "csv_import", revokedAt |-> FALSE]

ValidRows(b) == {n \in DOMAIN upload[b].file : ValidRow(upload[b].file[n], upload[b].trust)}

-----------------------------------------------------------------------------
(* POST .../learner-record-imports/csv: the whole file is checked, then    *)
(* every valid row is queued by an INSERT of its own. A dry run ends       *)
(* before that.                                                            *)

Upload(b, file, trust, dryRun) ==
    /\ upload[b].step = "none"
    /\ upload' = [upload EXCEPT ![b] = [step |-> IF dryRun THEN "previewed" ELSE "queueing",
                                        file |-> file, trust |-> trust]]
    /\ UNCHANGED <<vars, recordVars, made, origin, context>>

Unqueued(b) == {n \in ValidRows(b) : row[<<b, n>>].status = "absent"}

QueueRow(b) ==
    /\ upload[b].step = "queueing"
    /\ \E n \in Unqueued(b) :
        /\ \A k \in Unqueued(b) : n <= k
        /\ Enqueue(<<b, n>>)
    /\ UNCHANGED <<recordVars, importVars>>

AnswerUpload(b) ==
    /\ upload[b].step = "queueing"
    /\ Unqueued(b) = {}
    /\ upload' = [upload EXCEPT ![b].step = "answered"]
    /\ UNCHANGED <<vars, recordVars, made, origin, context>>

\* An INSERT fails or the request is killed: the rows queued so far stay, under a
\* batch id the client was never told.
LoseUpload(b) ==
    /\ upload[b].step = "queueing"
    /\ upload' = [upload EXCEPT ![b].step = "lost"]
    /\ UNCHANGED <<vars, recordVars, made, origin, context>>

-----------------------------------------------------------------------------
(* The handler of a row, applyLearnerRecordImportQueuePayload.             *)

NewEntry(m) ==
    /\ Insert(FreshEntry, ImportedEntry(m))
    /\ origin' = [origin EXCEPT ![FreshEntry] = m]

\* createLearnerRecordEntry: the INSERT commits and the handler goes on.
InsertImported(w, m) ==
    /\ phase[w] = "next"
    /\ m \in Oldest(batch[w])
    /\ made[w] = Nothing
    /\ Entries # Stored
    /\ NewEntry(m)
    /\ made' = [made EXCEPT ![w] = FreshEntry]
    /\ UNCHANGED <<vars, edit, edits, upload, context>>

HandledRow(w) == IF made[w] = Nothing THEN Nothing ELSE origin[made[w]]

WriteContext(w, m) == context' = [context EXCEPT ![made[w]] = SmartContext(Candidate(m))]

\* createLearnerRecordImportContext, the handler's last statement.
ImportReturns(w, m) ==
    /\ HandledRow(w) = m
    /\ HandlerReturns(w, m)
    /\ WriteContext(w, m)
    /\ made' = [made EXCEPT ![w] = Nothing]
    /\ UNCHANGED <<recordVars, upload, origin>>

ImportFails(w, m) == HandlerThrows(w, m)

\* Either statement raises an error, its write committed or not.
ImportThrows(w, m) ==
    /\ ImportFails(w, m)
    /\ \/ /\ made[w] = Nothing
          /\ effects' = effects
          /\ UNCHANGED <<entry, origin, context>>
       \/ /\ made[w] = Nothing
          /\ Entries # Stored
          /\ NewEntry(m)
          /\ effects'[m] = effects[m] + 1
          /\ UNCHANGED context
       \/ /\ HandledRow(w) = m
          /\ effects'[m] = effects[m] + 1
          /\ WriteContext(w, m) \/ UNCHANGED context
          /\ UNCHANGED <<entry, origin>>
    /\ made' = [made EXCEPT ![w] = Nothing]
    /\ UNCHANGED <<edit, edits, upload>>

\* The lost handler's entry stays without a context.
CrashImport(w) ==
    /\ Crash(w)
    /\ made' = [made EXCEPT ![w] = Nothing]
    /\ UNCHANGED <<recordVars, upload, origin, context>>

ImportNext ==
    \/ \E b \in Batches :
        \/ \E f \in Files, t \in TrustLevels, dryRun \in BOOLEAN : Upload(b, f, t, dryRun)
        \/ QueueRow(b) \/ AnswerUpload(b) \/ LoseUpload(b)
    \/ \E w \in Workers :
        \/ CrashImport(w)
        \/ \E m \in Jobs : InsertImported(w, m) \/ ImportReturns(w, m) \/ ImportThrows(w, m)
    \/ QueueStep /\ UNCHANGED <<recordVars, importVars>>

\* Imports beside administrators' requests.
AllNext == ImportNext \/ (RecordNext /\ UNCHANGED <<vars, importVars>>)

ImportSpec == ImportInit /\ [][AllNext]_allVars

-----------------------------------------------------------------------------
(* GET .../learner-record-imports/progress: the newest rows of the queue,  *)
(* summed up by batch.                                                     *)

\* WHERE job_type = 'import_learner_record_batch'
Queued == {m \in Jobs : row[m].status # "absent" /\ upload[m[1]].step # "none"}

\* ORDER BY created_at DESC LIMIT n: rows of one instant come in any order.
NewestFirst(n) ==
    {L \in SUBSET Queued :
        /\ Cardinality(L) <= n
        /\ Cardinality(L) < n => L = Queued
        /\ \A m \in L, o \in Queued \ L : row[m].createdAt >= row[o].createdAt}

RowsIn(L, b, statuses) ==
    Cardinality({m \in L : m[1] = b /\ row[m].status \in statuses})

Summary(L, b) ==
    [totalRows |-> RowsIn(L, b, Statuses),
     completedRows |-> RowsIn(L, b, {"completed"}),
     failedRowNumbers |-> {n \in ValidRows(b) : <<b, n>> \in L /\ row[<<b, n>>].status = "failed"}]

-----------------------------------------------------------------------------
(* Properties.                                                             *)

ImportTypeOK ==
    /\ TypeOK
    /\ RecordTypeOK
    /\ \A b \in Batches : upload[b].step \in {"none", "previewed", "queueing", "answered", "lost"}
    /\ made \in [Workers -> Stored \cup {Nothing}]
    /\ \A e \in Entries : origin[e] # Nothing => e \in Stored /\ origin[e] \in Queued
    /\ \A e \in Entries : context[e] # Nothing => origin[e] # Nothing

EntriesOf(m) == {e \in Entries : origin[e] = m}

\* What the upload accepts the database layer accepts: no queued row fails the rules
\* of assertLearnerRecordEntrySemantics, to be retried until it is dead-lettered.
QueuedIsInsertable == \A m \in Queued : MakesSense(ImportedEntry(m))

\* A row may be imported twice, yet never more often than it was leased, though its
\* handler may be lost or run on after its lease.
InsertsPerLease == \A m \in Queued : Cardinality(EntriesOf(m)) <= leases[m]

\* A row that was delivered once and completed became one entry, in its context.
OnceUnlessRedelivered ==
    \A m \in Queued :
        row[m].status = "completed" /\ leases[m] = 1 =>
            /\ Cardinality(EntriesOf(m)) = 1
            /\ \A e \in EntriesOf(m) : context[e] = SmartContext(Candidate(m))

\* Whatever part of the queue a progress request lists: when it shows as many
\* completed rows as the upload's answer said were queued, each of them has an entry
\* and is in its context.
DoneBatchIsImported ==
    \A n \in 1..Cardinality(Jobs) : \A L \in NewestFirst(n) : \A b \in Batches :
        upload[b].step = "answered" /\ Summary(L, b).completedRows = Cardinality(ValidRows(b)) =>
            \A k \in ValidRows(b) : \E e \in EntriesOf(<<b, k>>) :
                context[e] = SmartContext(Candidate(<<b, k>>))

\* Whatever the queue delivers twice or loses, what was uploaded becomes the entries it
\* asked for, and these make sense.
ImportedOnce ==
    /\ ImportTypeOK /\ RecordsMakeSense /\ VerifiedSectionIsSound /\ QueuedIsInsertable
    /\ InsertsPerLease /\ OnceUnlessRedelivered /\ DoneBatchIsImported
=============================================================================
