------------------------------ MODULE JobQueue ------------------------------
(***************************************************************************)
(* The Postgres-backed job queue of CredTrail: the job_queue_messages      *)
(* table (packages/db/src/index.ts), the processors that lease and run its *)
(* messages (apps/api-worker/src/queue/processing.ts) and the operators'   *)
(* retry of failed import rows.                                            *)
(*                                                                         *)
(* Every SQL statement commits on its own (the adapter in                  *)
(* packages/db/src/postgres.ts opens no transaction), so a step of this    *)
(* module is one SQL statement, or one run of a job's handler; any other   *)
(* processor, operator or client may act between two of them.              *)
(***************************************************************************)
EXTENDS Integers, FiniteSets

CONSTANTS
    Jobs,          \* rows, one per (tenant_id, job_type, idempotency_key)
    ImportJobs,    \* the rows of the import_*_batch types, open to retry
    Workers,       \* processors: a cron invocation, the Node poller, a caller
    Operators,     \* issuers who may ask for failed import rows to be retried
    Tokens,        \* supply of lease tokens
    MaxAttempts,   \* max_attempts (8 unless the caller says otherwise)
    LeaseSeconds, RetryDelay, BatchLimit,   \* ProcessQueueConfig
    MaxTime, MaxResets, MaxCrashes          \* bounds of the model

ASSUME JobsAssumption ==
    /\ IsFiniteSet(Jobs)
    /\ ImportJobs \subseteq Jobs
ASSUME ConfigAssumption ==
    /\ MaxAttempts \in Nat \ {0}
    /\ LeaseSeconds \in Nat \ {0}
    /\ RetryDelay \in Nat \ {0}
    /\ BatchLimit \in Nat \ {0}
ASSUME BoundsAssumption ==
    /\ MaxTime \in Nat
    /\ MaxResets \in Nat
    /\ MaxCrashes \in Nat

NoTime == -1                    \* NULL in a timestamp column
NoToken == "none"               \* NULL in lease_token
ASSUME TokensAssumption == NoToken \notin Tokens

VARIABLES
    row,        \* the table: Jobs -> Row
    now,        \* wall clock, in seconds
    phase,      \* where each processor is in its run
    clock,      \* nowIso, read by each processor as its run begins
    token,      \* the lease token of each processor's run
    todo,       \* candidate ids the processor still has to UPDATE
    batch,      \* leased messages the processor still has to work through
    job,        \* the message whose handler the processor is running
    picked,     \* rows an operator's retry saw as failed and has yet to reset
    asked,      \* nowIso, read by each operator's retry as it begins, 0 between them
    overtaken,  \* history: picked rows another retry has reset meanwhile
    strayed,    \* history: rows a retry reset when they were no longer failed
    leases, effects, resets,   \* history: leases granted, handlers done, resets
    crashes                    \* history: processors lost so far

workerVars == <<phase, clock, token, todo, batch, job>>
historyVars == <<leases, effects, resets>>
retryVars == <<picked, asked, overtaken, strayed>>
vars == <<row, now, workerVars, retryVars, historyVars, crashes>>

Statuses == {"absent", "pending", "processing", "completed", "failed"}
Phases == {"idle", "select", "lease", "next", "complete", "fail"}
Row == [status: Statuses, attempts: Nat, availableAt: Nat,
        leasedUntil: Nat \cup {NoTime}, leaseToken: Tokens \cup {NoToken},
        createdAt: Nat]

NoRow == [status |-> "absent", attempts |-> 0, availableAt |-> 0,
          leasedUntil |-> NoTime, leaseToken |-> NoToken, createdAt |-> 0]

Unleased(r) == [r EXCEPT !.leasedUntil = NoTime, !.leaseToken = NoToken]

\* Mutant: the lease of another processor is not looked at.
LeasableThoughLeased(r, t) == r.availableAt <= t /\ r.attempts < MaxAttempts

\* The WHERE clause the lease UPDATE shares with its candidate SELECT.
Leasable(r, t) ==
    /\ r.availableAt <= t
    /\ r.leasedUntil = NoTime \/ r.leasedUntil <= t
    /\ r.attempts < MaxAttempts

\* The candidate SELECT also looks at the status.
Eligible(t) ==
    {m \in Jobs : /\ row[m].status \in {"pending", "processing"}
                  /\ Leasable(row[m], t)}

\* ORDER BY created_at ASC LIMIT n: rows of one instant come in any order.
OldestFirst(S, n) ==
    {C \in SUBSET S :
        /\ Cardinality(C) <= n
        /\ Cardinality(C) < n => C = S
        /\ \A m \in C, o \in S \ C : row[m].createdAt <= row[o].createdAt}

Oldest(S) == {m \in S : \A o \in S : row[m].createdAt <= row[o].createdAt}

LiveTokens == {row[m].leaseToken : m \in Jobs} \cup {token[w] : w \in Workers}

\* createPrefixedId: an id no row and no processor holds.
FreshToken == CHOOSE t \in Tokens : t \notin LiveTokens

Init ==
    /\ row = [m \in Jobs |-> NoRow]
    /\ now = 0
    /\ phase = [w \in Workers |-> "idle"]
    /\ clock = [w \in Workers |-> 0]
    /\ token = [w \in Workers |-> NoToken]
    /\ todo = [w \in Workers |-> {}]
    /\ batch = [w \in Workers |-> {}]
    /\ job = [w \in Workers |-> {}]
    /\ picked = [o \in Operators |-> {}]
    /\ asked = [o \in Operators |-> 0]
    /\ overtaken = [o \in Operators |-> {}]
    /\ strayed = {}
    /\ leases = [m \in Jobs |-> 0]
    /\ effects = [m \in Jobs |-> 0]
    /\ resets = [m \in Jobs |-> 0]
    /\ crashes = 0

-----------------------------------------------------------------------------
(* Clients: one INSERT. A second enqueue of the same idempotency key       *)
(* violates the UNIQUE constraint, the request fails and no row changes.   *)

Enqueue(m) ==
    /\ row[m].status = "absent"
    /\ row' = [row EXCEPT ![m] = [NoRow EXCEPT !.status = "pending",
                                               !.availableAt = now,
                                               !.createdAt = now]]
    /\ UNCHANGED <<now, workerVars, retryVars, historyVars, crashes>>

-----------------------------------------------------------------------------
(* A processor's run.                                                      *)

\* processQueuedJobs reads the clock once; leaseJobQueueMessages draws a token.
BeginRun(w) ==
    /\ phase[w] = "idle"
    /\ Tokens \ LiveTokens # {}
    /\ token' = [token EXCEPT ![w] = FreshToken]
    /\ clock' = [clock EXCEPT ![w] = now]
    /\ phase' = [phase EXCEPT ![w] = "select"]
    /\ UNCHANGED <<row, now, todo, batch, job, retryVars, historyVars, crashes>>

SelectCandidates(w) ==
    /\ phase[w] = "select"
    /\ \E C \in OldestFirst(Eligible(clock[w]), BatchLimit) :
            todo' = [todo EXCEPT ![w] = C]
    /\ phase' = [phase EXCEPT ![w] = "lease"]
    /\ UNCHANGED <<row, now, clock, token, batch, job, retryVars, historyVars, crashes>>

Leased(r, until, t) ==
    [r EXCEPT !.status = "processing", !.attempts = @ + 1,
              !.leasedUntil = until, !.leaseToken = t]

\* One UPDATE per candidate. Its WHERE clause re-checks the lease, the delay
\* and the attempts, not the status; a row that fails it is left alone.
LeaseCandidate(w, m) ==
    /\ phase[w] = "lease"
    /\ m \in Oldest(todo[w])
    /\ todo' = [todo EXCEPT ![w] = @ \ {m}]
    /\ IF Leasable(row[m], clock[w])
       THEN /\ row' = [row EXCEPT ![m] =
                        Leased(@, clock[w] + LeaseSeconds, token[w])]
            /\ leases' = [leases EXCEPT ![m] = @ + 1]
       ELSE UNCHANGED <<row, leases>>
    /\ UNCHANGED <<now, phase, clock, token, batch, job, retryVars, effects, resets, crashes>>

\* Mutant: the leased rows are fetched by their status.
LeasedByAnyone(t) == {m \in Jobs : row[m].status = "processing"}

\* SELECT ... WHERE lease_token = ?
LeasedBy(t) == {m \in Jobs : row[m].leaseToken = t}

FetchBatch(w) ==
    /\ phase[w] = "lease"
    /\ todo[w] = {}
    /\ batch' = [batch EXCEPT ![w] = LeasedBy(token[w])]
    /\ phase' = [phase EXCEPT ![w] = "next"]
    /\ UNCHANGED <<row, now, clock, token, todo, job, retryVars, historyVars, crashes>>

\* The handler of a message returns.
HandlerReturns(w, m) ==
    /\ phase[w] = "next"
    /\ m \in Oldest(batch[w])
    /\ job' = [job EXCEPT ![w] = {m}]
    /\ effects' = [effects EXCEPT ![m] = @ + 1]
    /\ phase' = [phase EXCEPT ![w] = "complete"]
    /\ UNCHANGED <<row, now, clock, token, todo, batch, retryVars, leases, resets, crashes>>

\* The handler throws, before or after the writes it is made of took effect.
HandlerThrows(w, m) ==
    /\ phase[w] = "next"
    /\ m \in Oldest(batch[w])
    /\ job' = [job EXCEPT ![w] = {m}]
    /\ \E n \in {0, 1} : effects' = [effects EXCEPT ![m] = @ + n]
    /\ phase' = [phase EXCEPT ![w] = "fail"]
    /\ UNCHANGED <<row, now, clock, token, todo, batch, retryVars, leases, resets, crashes>>

Completed(r) == Unleased([r EXCEPT !.status = "completed"])

\* completeJobQueueMessage: UPDATE ... WHERE id = ? AND lease_token = ?
CompleteUpdate(w, m) ==
    IF row[m].leaseToken = token[w]
    THEN row' = [row EXCEPT ![m] = Completed(@)]
    ELSE UNCHANGED row

\* The message is counted as succeeded whether or not the UPDATE matched it.
CompleteJob(w, m) ==
    /\ phase[w] = "complete"
    /\ m \in job[w]
    /\ CompleteUpdate(w, m)
    /\ batch' = [batch EXCEPT ![w] = @ \ {m}]
    /\ job' = [job EXCEPT ![w] = {}]
    /\ phase' = [phase EXCEPT ![w] = "next"]
    /\ UNCHANGED <<now, clock, token, todo, retryVars, historyVars, crashes>>

\* The completing UPDATE raises an error, its write committed or not: it sits
\* inside the try block, so the message goes on to failJobQueueMessage.
CompleteErrors(w, m) ==
    /\ phase[w] = "complete"
    /\ m \in job[w]
    /\ CompleteUpdate(w, m) \/ UNCHANGED row
    /\ phase' = [phase EXCEPT ![w] = "fail"]
    /\ UNCHANGED <<now, clock, token, todo, batch, job, retryVars, historyVars, crashes>>

\* Mutant: one attempt more before the dead letter.
FailedTooLate(r) ==
    Unleased(IF r.attempts > MaxAttempts
             THEN [r EXCEPT !.status = "failed"]
             ELSE [r EXCEPT !.status = "pending", !.availableAt = now + RetryDelay])

\* failJobQueueMessage: dead-letter the row, or put it back after a delay.
Failed(r) ==
    Unleased(IF r.attempts >= MaxAttempts
             THEN [r EXCEPT !.status = "failed"]
             ELSE [r EXCEPT !.status = "pending", !.availableAt = now + RetryDelay])

FailJob(w, m) ==
    /\ phase[w] = "fail"
    /\ m \in job[w]
    /\ IF row[m].leaseToken = token[w]
       THEN row' = [row EXCEPT ![m] = Failed(@)]
       ELSE UNCHANGED row
    /\ batch' = [batch EXCEPT ![w] = @ \ {m}]
    /\ job' = [job EXCEPT ![w] = {}]
    /\ phase' = [phase EXCEPT ![w] = "next"]
    /\ UNCHANGED <<now, clock, token, todo, retryVars, historyVars, crashes>>

Forget(w) ==
    /\ phase' = [phase EXCEPT ![w] = "idle"]
    /\ clock' = [clock EXCEPT ![w] = 0]
    /\ token' = [token EXCEPT ![w] = NoToken]
    /\ todo' = [todo EXCEPT ![w] = {}]
    /\ batch' = [batch EXCEPT ![w] = {}]
    /\ job' = [job EXCEPT ![w] = {}]

EndRun(w) ==
    /\ phase[w] = "next"
    /\ batch[w] = {}
    /\ Forget(w)
    /\ UNCHANGED <<row, now, retryVars, historyVars, crashes>>

\* The processor is killed, or a statement outside the try block raises an
\* error and ends the run: the rows it leased stay as they are.
Crash(w) ==
    /\ phase[w] # "idle"
    /\ crashes < MaxCrashes
    /\ crashes' = crashes + 1
    /\ Forget(w)
    /\ UNCHANGED <<row, now, retryVars, historyVars>>

-----------------------------------------------------------------------------
(* An operator's retry of a batch, or of some of its rows: a listing, then *)
(* one UPDATE per row that the listing showed as failed. The UPDATE does   *)
(* not look at the status.                                                 *)

\* Mutant: rows that wait for their next attempt are listed too.
TriedImports == {m \in ImportJobs : row[m].status \in {"pending", "failed"} /\ row[m].attempts > 0}

FailedImports == {m \in ImportJobs : row[m].status = "failed"}

ListFailed(o) ==
    /\ picked[o] = {}
    /\ \E S \in SUBSET FailedImports : S # {} /\ picked' = [picked EXCEPT ![o] = S]
    /\ asked' = [asked EXCEPT ![o] = now]
    /\ UNCHANGED <<row, now, workerVars, overtaken, strayed, historyVars, crashes>>

Reopened(r, t) ==
    Unleased([r EXCEPT !.status = "pending", !.attempts = 0, !.availableAt = t])

ResetRow(o, m) ==
    /\ m \in picked[o]
    /\ resets[m] < MaxResets
    /\ row' = [row EXCEPT ![m] = Reopened(@, asked[o])]
    /\ resets' = [resets EXCEPT ![m] = @ + 1]
    /\ picked' = [picked EXCEPT ![o] = @ \ {m}]
    /\ overtaken' = [p \in Operators |-> IF p = o THEN overtaken[p] \ {m}
                                        ELSE IF m \in picked[p] THEN overtaken[p] \cup {m}
                                        ELSE overtaken[p]]
    /\ strayed' = IF row[m].status = "failed" THEN strayed ELSE strayed \cup {m}
    /\ asked' = [asked EXCEPT ![o] = IF picked[o] = {m} THEN 0 ELSE @]
    /\ UNCHANGED <<now, workerVars, leases, effects, crashes>>

\* The request ends by an error, or is killed, before all its rows are reset.
LoseRetry(o) ==
    /\ picked[o] # {}
    /\ picked' = [picked EXCEPT ![o] = {}]
    /\ overtaken' = [overtaken EXCEPT ![o] = {}]
    /\ asked' = [asked EXCEPT ![o] = 0]
    /\ UNCHANGED <<row, now, workerVars, strayed, historyVars, crashes>>

-----------------------------------------------------------------------------

Tick ==
    /\ now < MaxTime
    /\ now' = now + 1
    /\ UNCHANGED <<row, workerVars, retryVars, historyVars, crashes>>

WorkerStep(w) ==
    \/ BeginRun(w) \/ SelectCandidates(w) \/ FetchBatch(w) \/ EndRun(w)
    \/ \E m \in Jobs :
        \/ LeaseCandidate(w, m)
        \/ HandlerReturns(w, m) \/ HandlerThrows(w, m)
        \/ CompleteJob(w, m) \/ CompleteErrors(w, m)
        \/ FailJob(w, m)

OperatorStep(o) == ListFailed(o) \/ LoseRetry(o) \/ \E m \in Jobs : ResetRow(o, m)

Next ==
    \/ \E m \in Jobs : Enqueue(m)
    \/ \E w \in Workers : WorkerStep(w) \/ Crash(w)
    \/ \E o \in Operators : OperatorStep(o)
    \/ Tick

Spec == Init /\ [][Next]_vars

\* What the queue does between handlers, for modules whose handlers are their own.
QueueStep ==
    \/ \E w \in Workers :
        \/ BeginRun(w) \/ SelectCandidates(w) \/ FetchBatch(w) \/ EndRun(w)
        \/ \E m \in Jobs : \/ LeaseCandidate(w, m) \/ CompleteJob(w, m)
                           \/ CompleteErrors(w, m) \/ FailJob(w, m)
    \/ \E o \in Operators : OperatorStep(o)
    \/ Tick

-----------------------------------------------------------------------------
(* The scheduler keeps starting runs (worker/create-worker.ts, cron; the    *)
(* poller of node-worker.ts) and a run that is not killed goes on, so each  *)
(* processor takes its steps. The clock of LiveSpec passes only while some  *)
(* row waits for it; at other times its passing would change nothing.       *)

SomeRowWaits == \E m \in Jobs : row[m].availableAt > now \/ row[m].leasedUntil > now

LiveNext ==
    \/ \E m \in Jobs : Enqueue(m)
    \/ \E w \in Workers : WorkerStep(w) \/ Crash(w)
    \/ \E o \in Operators : OperatorStep(o)
    \/ SomeRowWaits /\ Tick

LiveSpec ==
    /\ Init /\ [][LiveNext]_vars
    /\ \A w \in Workers : WF_vars(WorkerStep(w))
    /\ WF_vars(SomeRowWaits /\ Tick)

-----------------------------------------------------------------------------
(* Properties.                                                             *)

\* Every variable keeps its type, and a row carries a lease token and an expiry
\* exactly while it is "processing": leaseJobQueueMessages sets the three columns
\* together, completing, failing and retrying clear them together.
TypeOK ==
    /\ row \in [Jobs -> Row]
    /\ \A m \in Jobs :
        /\ row[m].status = "processing" <=> row[m].leaseToken # NoToken
        /\ row[m].leasedUntil = NoTime <=> row[m].leaseToken = NoToken
    /\ now \in Nat
    /\ phase \in [Workers -> Phases]
    /\ clock \in [Workers -> Nat]
    /\ token \in [Workers -> Tokens \cup {NoToken}]
    /\ todo \in [Workers -> SUBSET Jobs]
    /\ batch \in [Workers -> SUBSET Jobs]
    /\ job \in [Workers -> SUBSET Jobs]
    /\ picked \in [Operators -> SUBSET Jobs]
    /\ asked \in [Operators -> Nat]
    /\ overtaken \in [Operators -> SUBSET Jobs]
    /\ strayed \subseteq Jobs
    /\ leases \in [Jobs -> Nat] /\ effects \in [Jobs -> Nat] /\ resets \in [Jobs -> Nat]
    /\ crashes \in Nat

\* A message whose completing UPDATE raised an error is given up already: the
\* UPDATE may have committed.
GivenUp(w, m) == phase[w] = "fail" /\ m \in job[w]

HoldsLease(w, m) ==
    /\ m \in batch[w]
    /\ ~ GivenUp(w, m)
    /\ now < clock[w] + LeaseSeconds

\* Until its lease runs out, a leased message is in the batch of one processor
\* only: the lease UPDATE of leaseJobQueueMessages keeps the others away though
\* they selected the same candidates, and so do retries of failed rows.  Only a
\* retry that resets a row another retry had reset already can take a lease away.
LeaseExclusive ==
    \A v, w \in Workers : \A m \in Jobs \ strayed :
        HoldsLease(v, m) /\ HoldsLease(w, m) => v = w

\* A row is marked completed only after its handler ran to its end at least
\* once: processQueuedJobs never completes what it only leased or what failed.
CompletedMeansDone ==
    \A m \in Jobs : row[m].status = "completed" => effects[m] >= 1

\* attempt_count, raised as a message is leased and not as it fails, bounds how
\* often a message is leased, crashes and lost leases included; every retry by an
\* operator grants max_attempts more.
LeasesBounded ==
    \A m \in Jobs : leases[m] <= MaxAttempts * (resets[m] + 1)

\* No message is handled more often than it was leased: one lease, one run of
\* the handler, also when the lease ran out and another processor took it.
OneRunPerLease == \A m \in Jobs : effects[m] <= leases[m]

\* What the rows, the leases granted and the handlers' runs say of a message fits
\* together, whoever lost a lease or was killed.
HandledPerLease == TypeOK /\ CompletedMeansDone /\ LeasesBounded /\ OneRunPerLease

\* The UPDATE of an operator's retry does not look at the status, so what it
\* resets is as the listing saw it only if nothing moved the row since.  No
\* processor does, whatever candidates it selected before the row failed: only
\* another operator's retry of the same row makes a listing stale.
OnlyFailedRowsReset ==
    [][\A o \in Operators : \A m \in picked[o] \ picked'[o] :
        resets'[m] > resets[m] /\ m \notin overtaken[o] => row[m].status = "failed"]_vars

\* A message whose last attempt was lost with its processor: no candidate SELECT
\* returns it, nothing fails it, and a retry does not list it.
Stranded(m) ==
    /\ row[m].status = "processing"
    /\ row[m].attempts >= MaxAttempts
    /\ row[m].leasedUntil <= now
    /\ \A w \in Workers : token[w] # row[m].leaseToken

Settled(m) == row[m].status \in {"completed", "failed"}

\* Every message enqueued is in the end completed or dead-lettered, also when its
\* handler keeps failing and the batch limit is smaller than the backlog. Only
\* the loss of a processor can give it another end: to be stranded.
EveryMessageSettles ==
    \A m \in Jobs :
        (row[m].status = "pending") ~> (Settled(m) \/ (Stranded(m) /\ crashes > 0))
=============================================================================
